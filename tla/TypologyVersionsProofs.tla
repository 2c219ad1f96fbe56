----------------------- MODULE TypologyVersionsProofs -----------------------
(***************************************************************************)
(* TypologyVersions for any number of replicas, requests, documents,       *)
(* codes, failed writes and crashes.                                       *)
(***************************************************************************)
EXTENDS TypologyVersions, FiniteSetTheorems, TLAPS

-----------------------------------------------------------------------------
(* Types *)

Status == {"absent", "INCOMPLETE", "ACTIVE", "ARCHIVED", "DELETED"}

Declared == Codes \cup {NoCode}

BumpSteps == {"archive", "insert", "upload", "documento", "clear", "undo", "restore"}

Creation == [op : {"create"}, at : {"insert"}, on : Replicas, id : Ids, code : Declared]

Update == [ op : {"update"}, at : {"check", "save"}, on : Replicas, id : Ids,
            code : Declared, read : Status ]

Removal == [op : {"remove"}, at : {"save"}, on : Replicas, id : Ids]

Bump == [ op : {"bump"}, at : BumpSteps, on : Replicas, id : Ids, new : Ids,
          code : Declared, read : Status ]

Request == Creation \cup Update \cup Removal \cup Bump

\* What a start reads of a document with a marker.
Entry == [id : Ids, status : Status, new : Ids]

Begun == [is : {"starting"}, at : {"sync", "find"}]

Choosing == [is : {"starting"}, at : {"next"}, todo : SUBSET Entry]

Mending == [ is : {"starting"}, at : {"delete", "restore", "clear"}, doc : Entry,
             todo : SUBSET Entry ]

Process == {Down, Serving} \cup Begun \cup Choosing \cup Mending

Observation == [ twins : SUBSET Ids, scripted : SUBSET Ids, heirs : [Ids -> SUBSET Ids],
                 answered : SUBSET Ids, lapped : SUBSET Ids, barred : BOOLEAN ]

Bounds == [starts : 0..MaxStarts, faults : 0..MaxFaults, crashes : 0..MaxCrashes]

Slots == req \in [Requests -> Request \cup {Idle}]

Processes == proc \in [Replicas -> Process]

Typed ==
    /\ docs \in [Ids -> Doc]
    /\ next \in 1..(MaxDocs + 1)
    /\ indexed \in BOOLEAN
    /\ enforced \in [Replicas -> BOOLEAN]
    /\ Processes
    /\ Slots
    /\ bound \in Bounds
    /\ seen \in Observation

LEMMA RequestFields ==
    /\ \A x \in Request : /\ x.op \in {"create", "update", "remove", "bump"} /\ x # Idle
                          /\ x.on \in Replicas /\ x.id \in Ids
    /\ \A x \in Request : x.op = "create" => x \in Creation
    /\ \A x \in Request : x.op = "update" => x \in Update
    /\ \A x \in Request : x.op = "remove" => x \in Removal
    /\ \A x \in Request : x.op = "bump" => x \in Bump
    /\ Idle.op = "idle"
  BY DEF Request, Creation, Update, Removal, Bump, Idle

LEMMA InCourse ==
    ASSUME Slots, NEW r \in Requests
    PROVE  /\ req[r] # Idle <=> req[r] \in Request
           /\ req[r].op = "idle" <=> req[r] = Idle
           /\ req[r].op = "create" => req[r] \in Creation
           /\ req[r].op = "update" => req[r] \in Update
           /\ req[r].op = "remove" => req[r] \in Removal
           /\ req[r].op = "bump" => req[r] \in Bump
  BY RequestFields DEF Slots

LEMMA ProcessFields ==
    /\ Down.is = "down" /\ Serving.is = "serving" /\ Down # Serving
    /\ \A x \in Process : x.is = "starting" => x \in Begun \cup Choosing \cup Mending
    /\ \A x \in Begun : x.is = "starting" /\ x.at \in {"sync", "find"}
    /\ \A x \in Choosing : x.is = "starting" /\ x.at = "next"
    /\ \A x \in Mending : x.is = "starting" /\ x.at \in {"delete", "restore", "clear"}
    /\ \A x \in Process : x.is \in {"down", "serving", "starting"}
  BY DEF Process, Begun, Choosing, Mending, Down, Serving

LEMMA Starting ==
    ASSUME Processes, NEW p \in Replicas, proc[p].is = "starting"
    PROVE  /\ proc[p].at \in {"sync", "find"} => proc[p] \in Begun
           /\ proc[p].at = "next" => proc[p] \in Choosing
           /\ proc[p].at \in {"delete", "restore", "clear"} => proc[p] \in Mending
           /\ proc[p].at \in {"sync", "find", "next", "delete", "restore", "clear"}
  BY ProcessFields DEF Processes

\* The type invariant of the model follows.
LEMMA TypeOKOfTyped == Typed => TypeOK
  <1>. SUFFICES ASSUME Typed PROVE TypeOK
    OBVIOUS
  <1>1. \A p \in Replicas : proc[p].is \in {"down", "serving", "starting"}
    BY ProcessFields DEF Typed, Processes
  <1>2. \A r \in Requests : req[r].op \in {"idle", "create", "update", "remove", "bump"}
    BY RequestFields DEF Typed, Slots
  <1>. QED
    BY <1>1, <1>2 DEF Typed, TypeOK, Bounds

-----------------------------------------------------------------------------
(* What the helpers of the actions do *)

\* Only the slot of r changes.
Moves(r) == Slots' /\ \A q \in Requests \ {r} : req'[q] = req[q]

\* r goes on at the step at.
Goes(r, at) ==
    /\ Moves(r)
    /\ req'[r] = [req[r] EXCEPT !.at = at]
    /\ req'[r].at = at /\ req'[r].op = req[r].op /\ req'[r].on = req[r].on
    /\ req'[r].id = req[r].id

Answered(r) == Moves(r) /\ req'[r] = Idle

LEMMA AnswerEffect ==
    ASSUME Slots, NEW r \in Requests, Answer(r)
    PROVE  Answered(r)
  BY DEF Slots, Answer, Answered, Moves

LEMMA BumpStepEffect ==
    ASSUME Slots, NEW r \in Requests, req[r].op = "bump", NEW at \in BumpSteps, Step(r, at)
    PROVE  /\ Goes(r, at)
           /\ req'[r].new = req[r].new /\ req'[r].code = req[r].code
           /\ req'[r].read = req[r].read
  <1>. DEFINE x == [req[r] EXCEPT !.at = at]
  <1>1. req[r] \in Bump
    BY InCourse
  <1>2. /\ x \in Bump /\ x.at = at /\ x.op = req[r].op /\ x.on = req[r].on /\ x.id = req[r].id
        /\ x.new = req[r].new /\ x.code = req[r].code /\ x.read = req[r].read
    BY <1>1 DEF Bump
  <1>3. req' = [req EXCEPT ![r] = x]
    BY DEF Step
  <1>4. x \in Request
    BY <1>2 DEF Request
  <1>5. req'[r] = x /\ Slots' /\ \A q \in Requests \ {r} : req'[q] = req[q]
    BY <1>3, <1>4 DEF Slots
  <1>6. x = [req[r] EXCEPT !.at = at]
    OBVIOUS
  <1>. HIDE DEF x
  <1>. QED
    BY <1>2, <1>5, <1>6 DEF Moves, Goes

LEMMA UpdateStepEffect ==
    ASSUME Slots, NEW r \in Requests, req[r].op = "update", Step(r, "save")
    PROVE  Goes(r, "save") /\ req'[r].code = req[r].code /\ req'[r].read = req[r].read
  <1>. DEFINE x == [req[r] EXCEPT !.at = "save"]
  <1>1. req[r] \in Update
    BY InCourse
  <1>2. /\ x \in Update /\ x.at = "save" /\ x.op = req[r].op /\ x.on = req[r].on
        /\ x.id = req[r].id /\ x.code = req[r].code /\ x.read = req[r].read
    BY <1>1 DEF Update
  <1>3. req' = [req EXCEPT ![r] = x]
    BY DEF Step
  <1>4. x \in Request
    BY <1>2 DEF Request
  <1>5. req'[r] = x /\ Slots' /\ \A q \in Requests \ {r} : req'[q] = req[q]
    BY <1>3, <1>4 DEF Slots
  <1>6. x = [req[r] EXCEPT !.at = "save"]
    OBVIOUS
  <1>. HIDE DEF x
  <1>. QED
    BY <1>2, <1>5, <1>6 DEF Moves, Goes

LEMMA StartEffect ==
    ASSUME Slots, bound \in Bounds, NEW r \in Requests, NEW m \in Request, Start(r, m)
    PROVE  /\ Moves(r) /\ req[r] = Idle /\ req'[r] = m /\ proc[m.on] = Serving
           /\ bound' \in Bounds
  <1>1. bound' \in Bounds
    <2>1. /\ bound.starts + 1 \in 0..MaxStarts /\ bound.faults \in 0..MaxFaults
          /\ bound.crashes \in 0..MaxCrashes
      BY TypologyAssumption DEF Start, Bounds
    <2>. QED
      BY <2>1 DEF Start, Bounds
  <1>. QED
    BY <1>1 DEF Slots, Start, Moves

\* The one document that a write may change, and what it may become.
Puts(d, row) ==
    /\ \A e \in Ids \ {d} : docs'[e] = docs[e]
    /\ docs'[d] \in {docs[d], row}

LEMMA AttemptEffect ==
    ASSUME docs \in [Ids -> Doc], bound \in Bounds, NEW d \in Ids, NEW row \in Doc,
           NEW lands \in BOOLEAN, NEW ok \in BOOLEAN, Attempt(d, row, lands, ok)
    PROVE  /\ docs' \in [Ids -> Doc] /\ bound' \in Bounds
           /\ Puts(d, row)
           /\ ~lands => docs' = docs
           /\ ok => lands /\ docs'[d] = row
  <1>1. docs' \in {docs, Store(d, row)} /\ (~lands => docs' = docs) /\ (ok => lands /\ docs' = Store(d, row))
    BY DEF Attempt
  <1>2. bound' \in Bounds
    <2>1. CASE bound' = bound
      BY <2>1
    <2>2. CASE bound.faults < MaxFaults /\ bound' = [bound EXCEPT !.faults = @ + 1]
      <3>1. /\ bound.starts \in 0..MaxStarts /\ bound.faults + 1 \in 0..MaxFaults
            /\ bound.crashes \in 0..MaxCrashes
        BY <2>2, TypologyAssumption DEF Bounds
      <3>. QED
        BY <2>2, <3>1 DEF Bounds
    <2>. QED
      BY <2>1, <2>2 DEF Attempt
  <1>3. Store(d, row) \in [Ids -> Doc] /\ Store(d, row)[d] = row
        /\ \A e \in Ids \ {d} : Store(d, row)[e] = docs[e]
    BY DEF Store
  <1>. QED
    BY <1>1, <1>2, <1>3 DEF Puts

Present(d) == docs[d].status # "absent"

\* A save of d that found it and did not collide, or no change.
Rewrites(d, row) ==
    /\ row \in Doc /\ Puts(d, row)
    /\ docs' \in [Ids -> Doc] /\ bound' \in Bounds
    /\ docs'[d] # docs[d] => Present(d) /\ ~Collides(d, row)

\* row differs from the document d in the columns but those at most.
SameCode(d, row) == row.code = docs[d].code
SameFlags(d, row) == row.deleted = docs[d].deleted /\ row.file = docs[d].file
SameMarker(d, row) == row.marker = docs[d].marker

LEMMA SaveEffect ==
    ASSUME Typed, NEW d \in Ids, NEW row \in Doc, NEW ok \in BOOLEAN, Save(d, row, ok)
    PROVE  Rewrites(d, row) /\ (ok => Present(d) /\ docs'[d] = row)
  <1>1. (docs[d].status # "absent" /\ ~Collides(d, row)) \in BOOLEAN
    OBVIOUS
  <1>. QED
    BY <1>1, AttemptEffect DEF Save, Rewrites, Present, Typed

LEMMA InsertEffect ==
    ASSUME Typed, NEW d \in Ids, NEW row \in Doc, NEW ok \in BOOLEAN, Insert(d, row, ok)
    PROVE  /\ Puts(d, row) /\ docs' \in [Ids -> Doc] /\ bound' \in Bounds
           /\ docs'[d] # docs[d] => ~Collides(d, row)
           /\ ok => docs'[d] = row
  <1>1. (~Collides(d, row)) \in BOOLEAN
    OBVIOUS
  <1>. QED
    BY <1>1, AttemptEffect DEF Insert, Typed

LEMMA AbsentType ==
    /\ Absent \in Doc /\ Absent.status = "absent" /\ Absent.code = NoCode
    /\ Absent.deleted = FALSE /\ Absent.file = FALSE /\ Absent.marker = 0
  BY TypologyAssumption DEF Absent, Doc, Ref

LEMMA DeleteEffect ==
    ASSUME Typed, NEW d \in Ids, NEW ok \in BOOLEAN, Delete(d, ok)
    PROVE  /\ Puts(d, Absent) /\ docs' \in [Ids -> Doc] /\ bound' \in Bounds
           /\ ok => docs'[d] = Absent
  BY AttemptEffect, AbsentType DEF Delete, Typed

\* The row of a new document.
NewRow(c) == [Absent EXCEPT !.status = StatusFor(c), !.code = c]

LEMMA NewRowType ==
    ASSUME NEW c \in Declared
    PROVE  /\ NewRow(c) \in Doc /\ NewRow(c).status = StatusFor(c) /\ NewRow(c).code = c
           /\ NewRow(c).deleted = FALSE /\ NewRow(c).file = FALSE /\ NewRow(c).marker = 0
           /\ StatusFor(c) \in {"INCOMPLETE", "ACTIVE"}
           /\ StatusFor(c) = "ACTIVE" => c # NoCode
  <1>1. StatusFor(c) \in {"INCOMPLETE", "ACTIVE"} /\ (StatusFor(c) = "ACTIVE" => c # NoCode)
    BY DEF StatusFor
  <1>. QED
    BY <1>1, AbsentType DEF NewRow, Doc, Declared

\* The columns of a document read one by one.
LEMMA DocColumns ==
    ASSUME docs \in [Ids -> Doc], NEW d \in Ids
    PROVE  /\ docs[d] \in Doc /\ docs[d].status \in Status /\ docs[d].code \in Declared
           /\ docs[d].deleted \in BOOLEAN /\ docs[d].file \in BOOLEAN
           /\ docs[d].marker \in Ref /\ (docs[d].marker # 0 => docs[d].marker \in Ids)
  BY TypologyAssumption DEF Doc, Status, Declared, Ref, Ids

-----------------------------------------------------------------------------
(* What the requests do *)

Elsewhere == UNCHANGED <<next, indexed, enforced, proc>>

LEMMA CreateInsertEffect ==
    ASSUME Typed, NEW r \in Requests, CreateInsert(r)
    PROVE  /\ req[r] \in Creation /\ Answered(r) /\ Elsewhere /\ seen' = seen
           /\ Puts(req[r].id, NewRow(req[r].code))
           /\ docs' \in [Ids -> Doc] /\ bound' \in Bounds
           /\ docs'[req[r].id] # docs[req[r].id] =>
                ~Collides(req[r].id, NewRow(req[r].code))
  <1>. DEFINE d == req[r].id
              row == NewRow(req[r].code)
  <1>1. req[r] \in Creation
    BY InCourse DEF CreateInsert, Typed
  <1>2. d \in Ids /\ row \in Doc
    BY <1>1, NewRowType DEF Creation, Declared
  <1>3. PICK ok \in BOOLEAN : Insert(d, row, ok)
    BY DEF CreateInsert, NewRow
  <1>4. Answered(r)
    BY AnswerEffect DEF CreateInsert, Typed
  <1>5. Elsewhere /\ seen' = seen
    BY DEF CreateInsert, Elsewhere
  <1>. HIDE DEF d, row
  <1>6. Puts(d, row) /\ docs' \in [Ids -> Doc] /\ bound' \in Bounds
        /\ (docs'[d] # docs[d] => ~Collides(d, row))
    BY <1>2, <1>3, InsertEffect
  <1>. QED
    BY <1>1, <1>4, <1>5, <1>6 DEF d, row

LEMMA UpdateSaveEffect ==
    ASSUME Typed, NEW r \in Requests, UpdateSave(r)
    PROVE  /\ req[r] \in Update /\ req[r].at = "save"
           /\ Answered(r) /\ Elsewhere /\ seen' = seen
           /\ \E row \in Doc :
                /\ Rewrites(req[r].id, row)
                /\ row.code = req[r].code
                /\ row.status \in {docs[req[r].id].status, StatusFor(req[r].code)}
                /\ SameFlags(req[r].id, row) /\ SameMarker(req[r].id, row)
  <1>. DEFINE d == req[r].id
              derived == StatusFor(req[r].code)
              row == [docs[d] EXCEPT !.code = req[r].code,
                                     !.status = IF derived = req[r].read THEN @ ELSE derived]
  <1>1. req[r] \in Update
    BY InCourse DEF UpdateSave, Typed
  <1>2. d \in Ids /\ req[r].code \in Declared
    BY <1>1 DEF Update
  <1>3. derived \in {"INCOMPLETE", "ACTIVE"}
    BY <1>2, NewRowType
  <1>4. docs[d] \in Doc
    BY <1>2 DEF Typed
  <1>. HIDE DEF d, derived
  <1>5. /\ row \in Doc /\ row.code = req[r].code /\ row.status \in {docs[d].status, derived}
        /\ SameFlags(d, row) /\ SameMarker(d, row)
    BY <1>2, <1>3, <1>4 DEF Doc, SameFlags, SameMarker, Declared
  <1>6. PICK ok \in BOOLEAN : Save(d, row, ok)
    BY DEF UpdateSave, d, derived
  <1>. HIDE DEF row
  <1>7. Rewrites(d, row)
    BY <1>2, <1>5, <1>6, SaveEffect
  <1>8. Answered(r)
    BY AnswerEffect DEF UpdateSave, Typed
  <1>9. Elsewhere /\ seen' = seen /\ req[r].at = "save"
    BY DEF UpdateSave, Elsewhere
  <1>. QED
    BY <1>1, <1>5, <1>7, <1>8, <1>9 DEF d, derived

LEMMA RemoveSaveEffect ==
    ASSUME Typed, NEW r \in Requests, RemoveSave(r)
    PROVE  /\ req[r] \in Removal /\ Answered(r) /\ Elsewhere /\ seen' = seen
           /\ \E row \in Doc :
                /\ Rewrites(req[r].id, row)
                /\ row.status = "DELETED" /\ row.deleted = TRUE
                /\ row.file = docs[req[r].id].file
                /\ SameCode(req[r].id, row) /\ SameMarker(req[r].id, row)
  <1>. DEFINE d == req[r].id
              row == [docs[d] EXCEPT !.deleted = TRUE, !.status = "DELETED"]
  <1>1. req[r] \in Removal
    BY InCourse DEF RemoveSave, Typed
  <1>2. d \in Ids
    BY <1>1 DEF Removal
  <1>3. docs[d] \in Doc
    BY <1>2 DEF Typed
  <1>. HIDE DEF d
  <1>4. /\ row \in Doc /\ row.status = "DELETED" /\ row.deleted = TRUE
        /\ row.file = docs[d].file /\ SameCode(d, row) /\ SameMarker(d, row)
    BY <1>3 DEF Doc, SameCode, SameMarker
  <1>5. PICK ok \in BOOLEAN : Save(d, row, ok)
    BY DEF RemoveSave, d
  <1>. HIDE DEF row
  <1>6. Rewrites(d, row)
    BY <1>2, <1>4, <1>5, SaveEffect
  <1>7. Answered(r)
    BY AnswerEffect DEF RemoveSave, Typed
  <1>8. Elsewhere /\ seen' = seen
    BY DEF RemoveSave, Elsewhere
  <1>. QED
    BY <1>1, <1>4, <1>6, <1>7, <1>8 DEF d

Untouched == UNCHANGED <<docs, indexed, enforced, proc>>

LEMMA CreateCheckEffect ==
    ASSUME Typed, NEW r \in Requests, CreateCheck(r)
    PROVE  /\ Untouched /\ bound' \in Bounds
           /\ \/ /\ req[r] = Idle /\ Moves(r) /\ req'[r] \in Creation
                 /\ next \in Ids /\ next' = next + 1 /\ req'[r].id = next
                 /\ proc[req'[r].on] = Serving
                 /\ Unclaimed(req'[r].on, req'[r].code, 0)
                 /\ seen' = seen
              \/ req' = req /\ next' = next /\ seen' = [seen EXCEPT !.barred = TRUE]
  <1>1. PICK p \in Replicas, c \in Declared :
          IF Unclaimed(p, c, 0)
          THEN /\ next <= MaxDocs /\ next' = next + 1 /\ seen' = seen
               /\ Start(r, [op |-> "create", at |-> "insert", on |-> p, id |-> next, code |-> c])
          ELSE seen' = [seen EXCEPT !.barred = TRUE] /\ UNCHANGED <<next, req, bound>>
    BY DEF CreateCheck, Declared
  <1>2. Untouched
    BY DEF CreateCheck, Untouched
  <1>3. CASE ~Unclaimed(p, c, 0)
    BY <1>1, <1>2, <1>3 DEF Typed
  <1>4. CASE Unclaimed(p, c, 0)
    <2>. DEFINE m == [op |-> "create", at |-> "insert", on |-> p, id |-> next, code |-> c]
    <2>1. next \in Ids
      BY <1>1, <1>4, TypologyAssumption DEF Typed, Ids
    <2>2. m \in Creation /\ m.on = p /\ m.id = next /\ m.code = c
      BY <2>1 DEF Creation
    <2>3. Start(r, m)
      BY <1>1, <1>4
    <2>. HIDE DEF m
    <2>4. Moves(r) /\ req[r] = Idle /\ req'[r] = m /\ proc[m.on] = Serving /\ bound' \in Bounds
      BY <2>2, <2>3, StartEffect DEF Typed, Request
    <2>. QED
      BY <1>1, <1>2, <1>4, <2>1, <2>2, <2>4
  <1>. QED
    BY <1>3, <1>4

LEMMA UpdateFindEffect ==
    ASSUME Typed, NEW r \in Requests, UpdateFind(r)
    PROVE  /\ Untouched /\ bound' \in Bounds /\ next' = next /\ seen' = seen
           /\ req[r] = Idle /\ Moves(r) /\ req'[r] \in Update /\ req'[r].at = "check"
           /\ Live(req'[r].id) /\ proc[req'[r].on] = Serving
  <1>1. PICK p \in Replicas, d \in {e \in Ids : Live(e)}, c \in Declared :
          Start(r, [op |-> "update", at |-> "check", on |-> p, id |-> d,
                    code |-> c, read |-> docs[d].status])
    BY DEF UpdateFind, Declared
  <1>. DEFINE m == [op |-> "update", at |-> "check", on |-> p, id |-> d,
                    code |-> c, read |-> docs[d].status]
  <1>2. m \in Update /\ m.on = p /\ m.id = d /\ m.at = "check"
    BY DocColumns DEF Update, Typed
  <1>3. Start(r, m)
    BY <1>1
  <1>. HIDE DEF m
  <1>4. Moves(r) /\ req[r] = Idle /\ req'[r] = m /\ proc[m.on] = Serving /\ bound' \in Bounds
    BY <1>2, <1>3, StartEffect DEF Typed, Request
  <1>. QED
    BY <1>2, <1>4 DEF UpdateFind, Untouched

LEMMA RemoveFindEffect ==
    ASSUME Typed, NEW r \in Requests, RemoveFind(r)
    PROVE  /\ Untouched /\ bound' \in Bounds /\ next' = next /\ seen' = seen
           /\ req[r] = Idle /\ Moves(r) /\ req'[r] \in Removal
           /\ Live(req'[r].id) /\ proc[req'[r].on] = Serving
  <1>1. PICK p \in Replicas, d \in {e \in Ids : Live(e)} :
          Start(r, [op |-> "remove", at |-> "save", on |-> p, id |-> d])
    BY DEF RemoveFind
  <1>. DEFINE m == [op |-> "remove", at |-> "save", on |-> p, id |-> d]
  <1>2. m \in Removal /\ m.on = p /\ m.id = d
    BY DEF Removal
  <1>3. Start(r, m)
    BY <1>1
  <1>. HIDE DEF m
  <1>4. Moves(r) /\ req[r] = Idle /\ req'[r] = m /\ proc[m.on] = Serving /\ bound' \in Bounds
    BY <1>2, <1>3, StartEffect DEF Typed, Request
  <1>. QED
    BY <1>2, <1>4 DEF RemoveFind, Untouched

\* The document d has one more heir.
Inherits(d, n) ==
    /\ seen' \in Observation
    /\ seen'.heirs[d] = seen.heirs[d] \cup {n}
    /\ \A e \in Ids \ {d} : seen'.heirs[e] = seen.heirs[e]
    /\ seen'.twins = seen.twins /\ seen'.scripted = seen.scripted
    /\ seen'.answered = seen.answered /\ seen'.lapped = seen.lapped

LEMMA HeirEffect ==
    ASSUME seen \in Observation, NEW d \in Ids, NEW n \in Ids,
           seen' = [seen EXCEPT !.heirs[d] = @ \cup {n}]
    PROVE  Inherits(d, n)
  <1>. DEFINE h == [seen.heirs EXCEPT ![d] = @ \cup {n}]
  <1>1. seen.heirs \in [Ids -> SUBSET Ids]
    BY DEF Observation
  <1>2. /\ h \in [Ids -> SUBSET Ids] /\ h[d] = seen.heirs[d] \cup {n}
        /\ \A e \in Ids \ {d} : h[e] = seen.heirs[e]
    BY <1>1
  <1>3. seen' = [seen EXCEPT !.heirs = h]
    OBVIOUS
  <1>. HIDE DEF h
  <1>. QED
    BY <1>2, <1>3 DEF Inherits, Observation

LEMMA VersionFindEffect ==
    ASSUME Typed, NEW r \in Requests, VersionFind(r)
    PROVE  /\ Untouched /\ bound' \in Bounds
           /\ next \in Ids /\ next' = next + 1
           /\ req[r] = Idle /\ Moves(r) /\ req'[r] \in Bump
           /\ req'[r].at = "archive" /\ req'[r].new = next
           /\ Live(req'[r].id) /\ proc[req'[r].on] = Serving
           /\ Inherits(req'[r].id, next)
  <1>1. PICK p \in Replicas, d \in {e \in Ids : Live(e)} :
          /\ Start(r, [op |-> "bump", at |-> "archive", on |-> p, id |-> d,
                       new |-> next, code |-> docs[d].code, read |-> docs[d].status])
          /\ seen' = [seen EXCEPT !.heirs[d] = @ \cup {next}]
    BY DEF VersionFind
  <1>. DEFINE m == [op |-> "bump", at |-> "archive", on |-> p, id |-> d,
                    new |-> next, code |-> docs[d].code, read |-> docs[d].status]
  <1>2. next \in Ids /\ next' = next + 1 /\ next <= MaxDocs
    BY TypologyAssumption DEF VersionFind, Typed, Ids
  <1>3. m \in Bump /\ m.on = p /\ m.id = d /\ m.at = "archive" /\ m.new = next
    BY <1>2, DocColumns DEF Bump, BumpSteps, Typed
  <1>4. Start(r, m)
    BY <1>1
  <1>. HIDE DEF m
  <1>5. Moves(r) /\ req[r] = Idle /\ req'[r] = m /\ proc[m.on] = Serving /\ bound' \in Bounds
    BY <1>3, <1>4, StartEffect DEF Typed, Request
  <1>6. Inherits(d, next)
    BY <1>1, <1>2, HeirEffect DEF Typed
  <1>. QED
    BY <1>2, <1>3, <1>5, <1>6 DEF VersionFind, Untouched

LEMMA UpdateCheckEffect ==
    ASSUME Typed, NEW r \in Requests, UpdateCheck(r)
    PROVE  /\ Untouched /\ bound' = bound /\ next' = next /\ seen' = seen
           /\ req[r] \in Update /\ req[r].at = "check"
           /\ \/ /\ Goes(r, "save") /\ req'[r].code = req[r].code
                 /\ Unclaimed(req[r].on, req[r].code, req[r].id)
              \/ Answered(r)
  <1>1. req[r] \in Update /\ req[r].op = "update" /\ Slots
    BY InCourse DEF UpdateCheck, Typed
  <1>. QED
    BY <1>1, UpdateStepEffect, AnswerEffect DEF UpdateCheck, Untouched

-----------------------------------------------------------------------------
(* What a bump does *)

\* The bump of r goes on at the step at.
Continues(r, at) ==
    /\ Goes(r, at)
    /\ req'[r].new = req[r].new /\ req'[r].code = req[r].code /\ req'[r].read = req[r].read

LEMMA BumpFields ==
    ASSUME Typed, NEW r \in Requests, req[r].op = "bump"
    PROVE  /\ req[r] \in Bump /\ req[r].id \in Ids /\ req[r].new \in Ids
           /\ req[r].code \in Declared /\ req[r].read \in Status /\ req[r].on \in Replicas
           /\ req[r].at \in BumpSteps
           /\ \A at \in BumpSteps : Step(r, at) => Continues(r, at)
           /\ Answer(r) => Answered(r)
  <1>1. Slots /\ req[r] \in Bump
    BY InCourse DEF Typed
  <1>. QED
    BY <1>1, BumpStepEffect, AnswerEffect DEF Bump, Continues

LEMMA VersionArchiveEffect ==
    ASSUME Typed, NEW r \in Requests, VersionArchive(r)
    PROVE  /\ req[r].op = "bump" /\ req[r].at = "archive"
           /\ Elsewhere /\ seen' = seen
           /\ \E row \in Doc :
                /\ Rewrites(req[r].id, row)
                /\ row.status \in {docs[req[r].id].status, "ARCHIVED"}
                /\ row.marker = req[r].new
                /\ SameCode(req[r].id, row) /\ SameFlags(req[r].id, row)
           /\ Answered(r) \/ Continues(r, "insert")
  <1>. DEFINE d == req[r].id
              n == req[r].new
              row == [Archived(r) EXCEPT !.marker = n]
  <1>1. req[r].op = "bump" /\ req[r].at = "archive"
    BY DEF VersionArchive, At
  <1>2. d \in Ids /\ n \in Ids
    BY <1>1, BumpFields
  <1>3. docs[d] \in Doc /\ n \in Ref
    BY <1>2, TypologyAssumption DEF Typed, Ids, Ref
  <1>4. Archived(r) \in Doc /\ Archived(r).status \in {docs[d].status, "ARCHIVED"}
        /\ SameCode(d, Archived(r)) /\ SameFlags(d, Archived(r))
    BY <1>3 DEF Archived, Doc, SameCode, SameFlags
  <1>5. PICK ok \in BOOLEAN :
          Save(d, row, ok) /\ IF ok THEN Step(r, "insert") ELSE Answer(r)
    BY DEF VersionArchive
  <1>6. Elsewhere /\ seen' = seen
    BY DEF VersionArchive, Elsewhere
  <1>7. Answered(r) \/ Continues(r, "insert")
    BY <1>1, <1>5, BumpFields DEF BumpSteps
  <1>. HIDE DEF d, n
  <1>8. /\ row \in Doc /\ row.status \in {docs[d].status, "ARCHIVED"} /\ row.marker = n
        /\ SameCode(d, row) /\ SameFlags(d, row)
    BY <1>3, <1>4 DEF Doc, SameCode, SameFlags
  <1>. HIDE DEF row
  <1>9. Rewrites(d, row)
    BY <1>2, <1>5, <1>8, SaveEffect
  <1>. QED
    BY <1>1, <1>6, <1>7, <1>8, <1>9 DEF d, n

LEMMA VersionInsertEffect ==
    ASSUME Typed, NEW r \in Requests, VersionInsert(r)
    PROVE  /\ req[r].op = "bump" /\ req[r].at = "insert"
           /\ Elsewhere /\ seen' = seen
           /\ Puts(req[r].new, NewRow(req[r].code))
           /\ docs' \in [Ids -> Doc] /\ bound' \in Bounds
           /\ docs'[req[r].new] # docs[req[r].new] =>
                ~Collides(req[r].new, NewRow(req[r].code))
           /\ Continues(r, "upload") \/ Continues(r, "restore")
  <1>. DEFINE d == req[r].new
              row == NewRow(req[r].code)
  <1>1. req[r].op = "bump" /\ req[r].at = "insert"
    BY DEF VersionInsert, At
  <1>2. d \in Ids /\ row \in Doc
    BY <1>1, BumpFields, NewRowType
  <1>3. PICK ok \in BOOLEAN :
          Insert(d, row, ok) /\ Step(r, IF ok THEN "upload" ELSE "restore")
    BY DEF VersionInsert, NewRow
  <1>4. Continues(r, "upload") \/ Continues(r, "restore")
    BY <1>1, <1>3, BumpFields DEF BumpSteps
  <1>5. Elsewhere /\ seen' = seen
    BY DEF VersionInsert, Elsewhere
  <1>. HIDE DEF d, row
  <1>6. /\ Puts(d, row) /\ docs' \in [Ids -> Doc] /\ bound' \in Bounds
        /\ (docs'[d] # docs[d] => ~Collides(d, row))
    BY <1>2, <1>3, InsertEffect
  <1>. QED
    BY <1>1, <1>4, <1>5, <1>6 DEF d, row

LEMMA VersionUploadEffect ==
    ASSUME Typed, NEW r \in Requests, VersionUpload(r)
    PROVE  /\ req[r].op = "bump" /\ req[r].at = "upload"
           /\ Elsewhere /\ seen' = seen /\ docs' = docs /\ bound' \in Bounds
           /\ Continues(r, "documento") \/ Continues(r, "undo")
  <1>1. req[r].op = "bump" /\ req[r].at = "upload"
    BY DEF VersionUpload, At
  <1>2. bound' \in Bounds
    <2>1. CASE bound' = bound
      BY <2>1 DEF Typed
    <2>2. CASE bound.faults < MaxFaults /\ bound' = [bound EXCEPT !.faults = @ + 1]
      <3>1. /\ bound.starts \in 0..MaxStarts /\ bound.faults + 1 \in 0..MaxFaults
            /\ bound.crashes \in 0..MaxCrashes
        BY <2>2, TypologyAssumption DEF Bounds, Typed
      <3>. QED
        BY <2>2, <3>1 DEF Bounds, Typed
    <2>. QED
      BY <2>1, <2>2 DEF VersionUpload
  <1>3. Continues(r, "documento") \/ Continues(r, "undo")
    BY <1>1, BumpFields DEF VersionUpload, BumpSteps
  <1>. QED
    BY <1>1, <1>2, <1>3 DEF VersionUpload, Elsewhere

LEMMA VersionDocumentoEffect ==
    ASSUME Typed, NEW r \in Requests, VersionDocumento(r)
    PROVE  /\ req[r].op = "bump" /\ req[r].at = "documento"
           /\ Elsewhere /\ seen' = seen
           /\ \E row \in Doc :
                /\ Rewrites(req[r].new, row)
                /\ row.status = docs[req[r].new].status
                /\ row.deleted = docs[req[r].new].deleted /\ row.file = TRUE
                /\ SameCode(req[r].new, row) /\ SameMarker(req[r].new, row)
           /\ \/ /\ Continues(r, "clear")
                 /\ docs'[req[r].new].status # "absent" /\ docs'[req[r].new].file
              \/ Continues(r, "undo")
  <1>. DEFINE d == req[r].new
              row == [docs[d] EXCEPT !.file = TRUE]
  <1>1. req[r].op = "bump" /\ req[r].at = "documento"
    BY DEF VersionDocumento, At
  <1>2. d \in Ids
    BY <1>1, BumpFields
  <1>3. docs[d] \in Doc
    BY <1>2 DEF Typed
  <1>4. PICK ok \in BOOLEAN :
          Save(d, row, ok) /\ Step(r, IF ok THEN "clear" ELSE "undo")
    BY DEF VersionDocumento
  <1>5. IF ok THEN Continues(r, "clear") ELSE Continues(r, "undo")
    BY <1>1, <1>4, BumpFields DEF BumpSteps
  <1>6. Elsewhere /\ seen' = seen
    BY DEF VersionDocumento, Elsewhere
  <1>. HIDE DEF d
  <1>7. /\ row \in Doc /\ row.status = docs[d].status /\ row.deleted = docs[d].deleted
        /\ row.file = TRUE /\ SameCode(d, row) /\ SameMarker(d, row)
    BY <1>3 DEF Doc, SameCode, SameMarker
  <1>. HIDE DEF row
  <1>8. Rewrites(d, row) /\ (ok => Present(d) /\ docs'[d] = row)
    BY <1>2, <1>4, <1>7, SaveEffect
  <1>9. ok => docs'[d].status # "absent" /\ docs'[d].file
    BY <1>7, <1>8 DEF Present
  <1>10. \/ Continues(r, "clear") /\ docs'[d].status # "absent" /\ docs'[d].file
         \/ Continues(r, "undo")
    BY <1>5, <1>9
  <1>. QED
    BY <1>1, <1>6, <1>7, <1>8, <1>10 DEF d

LEMMA VersionClearEffect ==
    ASSUME Typed, NEW r \in Requests, VersionClear(r)
    PROVE  /\ req[r].op = "bump" /\ req[r].at = "clear"
           /\ Elsewhere /\ Answered(r)
           /\ seen' = [seen EXCEPT !.answered = seen.answered \cup {req[r].new}]
           /\ \E row \in Doc :
                /\ Rewrites(req[r].id, row)
                /\ row.status = docs[req[r].id].status /\ row.marker = 0
                /\ SameCode(req[r].id, row) /\ SameFlags(req[r].id, row)
  <1>. DEFINE d == req[r].id
              row == [docs[d] EXCEPT !.marker = 0]
  <1>1. req[r].op = "bump" /\ req[r].at = "clear"
    BY DEF VersionClear, At
  <1>2. d \in Ids
    BY <1>1, BumpFields
  <1>3. docs[d] \in Doc /\ 0 \in Ref
    BY <1>2, TypologyAssumption DEF Typed, Ref
  <1>4. PICK ok \in BOOLEAN : Save(d, row, ok)
    BY DEF VersionClear
  <1>5. Answered(r)
    BY <1>1, BumpFields DEF VersionClear
  <1>6. Elsewhere /\ seen' = [seen EXCEPT !.answered = seen.answered \cup {req[r].new}]
    BY DEF VersionClear, Elsewhere
  <1>. HIDE DEF d
  <1>7. /\ row \in Doc /\ row.status = docs[d].status /\ row.marker = 0
        /\ SameCode(d, row) /\ SameFlags(d, row)
    BY <1>3 DEF Doc, SameCode, SameFlags
  <1>. HIDE DEF row
  <1>8. Rewrites(d, row)
    BY <1>2, <1>4, <1>7, SaveEffect
  <1>. QED
    BY <1>1, <1>5, <1>6, <1>7, <1>8 DEF d

LEMMA VersionUndoEffect ==
    ASSUME Typed, NEW r \in Requests, VersionUndo(r)
    PROVE  /\ req[r].op = "bump" /\ req[r].at = "undo"
           /\ Elsewhere /\ seen' = seen
           /\ Puts(req[r].new, Absent) /\ docs' \in [Ids -> Doc] /\ bound' \in Bounds
           /\ Continues(r, "restore") \/ Answered(r)
  <1>1. req[r].op = "bump" /\ req[r].at = "undo"
    BY DEF VersionUndo, At
  <1>2. PICK ok \in BOOLEAN :
          Delete(req[r].new, ok) /\ IF ok THEN Step(r, "restore") ELSE Answer(r)
    BY DEF VersionUndo
  <1>3. Continues(r, "restore") \/ Answered(r)
    BY <1>1, <1>2, BumpFields DEF BumpSteps
  <1>4. req[r].new \in Ids
    BY <1>1, BumpFields
  <1>. QED
    BY <1>1, <1>2, <1>3, <1>4, DeleteEffect DEF VersionUndo, Elsewhere

LEMMA VersionRestoreEffect ==
    ASSUME Typed, NEW r \in Requests, VersionRestore(r)
    PROVE  /\ req[r].op = "bump" /\ req[r].at = "restore"
           /\ Elsewhere /\ seen' = seen /\ Answered(r)
           /\ \E row \in Doc :
                /\ Rewrites(req[r].id, row)
                /\ row.status = "ACTIVE" /\ row.marker = 0
                /\ SameCode(req[r].id, row) /\ SameFlags(req[r].id, row)
  <1>. DEFINE d == req[r].id
              row == [docs[d] EXCEPT !.status = "ACTIVE", !.marker = 0]
  <1>1. req[r].op = "bump" /\ req[r].at = "restore"
    BY DEF VersionRestore, At
  <1>2. d \in Ids
    BY <1>1, BumpFields
  <1>3. docs[d] \in Doc /\ 0 \in Ref
    BY <1>2, TypologyAssumption DEF Typed, Ref
  <1>4. PICK ok \in BOOLEAN : Save(d, row, ok)
    BY DEF VersionRestore
  <1>5. Answered(r)
    BY <1>1, BumpFields DEF VersionRestore
  <1>6. Elsewhere /\ seen' = seen
    BY DEF VersionRestore, Elsewhere
  <1>. HIDE DEF d
  <1>7. /\ row \in Doc /\ row.status = "ACTIVE" /\ row.marker = 0
        /\ SameCode(d, row) /\ SameFlags(d, row)
    BY <1>3 DEF Doc, SameCode, SameFlags
  <1>. HIDE DEF row
  <1>8. Rewrites(d, row)
    BY <1>2, <1>4, <1>7, SaveEffect
  <1>. QED
    BY <1>1, <1>5, <1>6, <1>7, <1>8 DEF d

-----------------------------------------------------------------------------
(* What a start does *)

\* Only p changes what it does.
Turns(p, x) ==
    /\ Processes' /\ proc'[p] = x /\ x \in Process
    /\ \A q \in Replicas \ {p} : proc'[q] = proc[q]

LEMMA TurnEffect ==
    ASSUME Processes, NEW p \in Replicas, NEW x \in Process, proc' = [proc EXCEPT ![p] = x]
    PROVE  Turns(p, x)
  BY DEF Processes, Turns

LEMMA BootStartEffect ==
    ASSUME Typed, NEW p \in Replicas, BootStart(p)
    PROVE  /\ UNCHANGED <<docs, next, indexed, enforced, req, bound, seen>>
           /\ proc[p] = Down
           /\ \E x \in Begun : x.at = "sync" /\ Turns(p, x)
  <1>. DEFINE x == [is |-> "starting", at |-> "sync"]
  <1>1. x \in Begun /\ x.at = "sync" /\ x \in Process
    BY DEF Begun, Process
  <1>2. proc' = [proc EXCEPT ![p] = x]
    BY DEF BootStart
  <1>. HIDE DEF x
  <1>. QED
    BY <1>1, <1>2, TurnEffect DEF BootStart, Typed

\* No two documents have one code.
OneEach == \A c \in Codes : Cardinality(ActiveWith(c)) <= 1

LEMMA BootSyncEffect ==
    ASSUME Typed, NEW p \in Replicas, BootSync(p)
    PROVE  /\ UNCHANGED <<docs, next, req, seen>> /\ bound' \in Bounds
           /\ Boots(p, "sync")
           /\ \E x \in Begun : x.at = "find" /\ Turns(p, x)
           /\ indexed' \in BOOLEAN /\ enforced' \in [Replicas -> BOOLEAN]
           /\ indexed => indexed'
           /\ indexed' => indexed \/ OneEach
           /\ enforced'[p] => indexed'
           /\ \A q \in Replicas \ {p} : enforced'[q] = enforced[q]
  <1>. DEFINE x == [is |-> "starting", at |-> "find"]
  <1>1. x \in Begun /\ x.at = "find" /\ x \in Process
    BY DEF Begun, Process
  <1>2. proc' = [proc EXCEPT ![p] = x]
    BY DEF BootSync
  <1>. HIDE DEF x
  <1>3. Turns(p, x)
    BY <1>1, <1>2, TurnEffect DEF Typed
  <1>4. PICK ok \in BOOLEAN :
          /\ enforced' = [enforced EXCEPT ![p] = ok]
          /\ \/ ok = OneEach /\ indexed' = (indexed \/ ok) /\ bound' = bound
             \/ /\ ~ok /\ bound.faults < MaxFaults
                /\ bound' = [bound EXCEPT !.faults = @ + 1]
                /\ indexed' = indexed
    BY DEF BootSync, OneEach
  <1>5. bound' \in Bounds
    <2>1. CASE bound' = bound
      BY <2>1 DEF Typed
    <2>2. CASE bound.faults < MaxFaults /\ bound' = [bound EXCEPT !.faults = @ + 1]
      <3>1. /\ bound.starts \in 0..MaxStarts /\ bound.faults + 1 \in 0..MaxFaults
            /\ bound.crashes \in 0..MaxCrashes
        BY <2>2, TypologyAssumption DEF Bounds, Typed
      <3>. QED
        BY <2>2, <3>1 DEF Bounds, Typed
    <2>. QED
      BY <1>4, <2>1, <2>2
  <1>6. /\ enforced' \in [Replicas -> BOOLEAN] /\ enforced'[p] = ok
        /\ \A q \in Replicas \ {p} : enforced'[q] = enforced[q]
    BY <1>4 DEF Typed
  <1>7. /\ indexed' \in BOOLEAN /\ (indexed => indexed')
        /\ (indexed' => indexed \/ OneEach) /\ (ok => indexed')
    BY <1>4 DEF Typed
  <1>8. UNCHANGED <<docs, next, req, seen>> /\ Boots(p, "sync")
    BY DEF BootSync
  <1>. QED
    BY <1>1, <1>3, <1>5, <1>6, <1>7, <1>8

Marked == {d \in Ids : docs[d].marker # 0}

\* What a start reads of d.
Noted(d) == [id |-> d, status |-> docs[d].status, new |-> docs[d].marker]

LEMMA NotedType ==
    ASSUME Typed, NEW d \in Marked
    PROVE  /\ Noted(d) \in Entry /\ Noted(d).id = d
           /\ Noted(d).status = docs[d].status /\ Noted(d).new = docs[d].marker
  <1>1. d \in Ids /\ docs[d].status \in Status /\ docs[d].marker \in Ids
    BY DocColumns DEF Typed, Marked
  <1>. QED
    BY <1>1 DEF Noted, Entry

\* Another replica is up.
Accompanied(p) == \E q \in Replicas \ {p} : proc[q] # Down

LEMMA BootFindEffect ==
    ASSUME Typed, NEW p \in Replicas, BootFind(p)
    PROVE  /\ UNCHANGED <<docs, next, indexed, enforced, req, bound>>
           /\ Boots(p, "find")
           /\ \E x \in Choosing : x.todo = {Noted(d) : d \in Marked} /\ Turns(p, x)
           /\ seen' \in Observation
           /\ seen' = [seen EXCEPT !.lapped = seen'.lapped]
           /\ seen'.lapped = seen.lapped \cup {docs[d].marker : d \in {e \in Marked : Accompanied(p)}}
  <1>. DEFINE x == [is |-> "starting", at |-> "next", todo |-> {Noted(d) : d \in Marked}]
              l == {docs[d].marker : d \in {e \in Marked : Accompanied(p)}}
  <1>1. {Noted(d) : d \in Marked} \subseteq Entry
    BY NotedType
  <1>2. x \in Choosing /\ x.todo = {Noted(d) : d \in Marked} /\ x \in Process
    BY <1>1 DEF Choosing, Process
  <1>3. proc' = [proc EXCEPT ![p] = x]
    BY DEF BootFind, Noted, Marked
  <1>4. l \subseteq Ids
    BY DocColumns DEF Typed, Marked
  <1>5. seen' = [seen EXCEPT !.lapped = @ \cup l]
    BY DEF BootFind, Marked, Accompanied
  <1>. HIDE DEF x, l
  <1>6. seen' \in Observation /\ seen'.lapped = seen.lapped \cup l
        /\ seen' = [seen EXCEPT !.lapped = seen'.lapped]
    BY <1>4, <1>5 DEF Observation, Typed
  <1>7. Turns(p, x)
    BY <1>2, <1>3, TurnEffect DEF Typed
  <1>8. UNCHANGED <<docs, next, indexed, enforced, req, bound>> /\ Boots(p, "find")
    BY DEF BootFind
  <1>. QED
    BY <1>2, <1>6, <1>7, <1>8 DEF l

LEMMA BootLookEffect ==
    ASSUME Typed, NEW p \in Replicas, BootLook(p)
    PROVE  /\ UNCHANGED <<docs, next, indexed, enforced, req, bound, seen>>
           /\ Boots(p, "next") /\ proc[p] \in Choosing
           /\ \E s \in proc[p].todo, x \in Mending :
                /\ x.doc = s /\ x.todo = proc[p].todo \ {s}
                /\ x.at = IF FullyWritten(s.new) THEN "clear" ELSE "delete"
                /\ Turns(p, x)
  <1>1. Boots(p, "next") /\ proc[p] \in Choosing
    BY Starting DEF BootLook, Boots, Typed
  <1>2. PICK s \in proc[p].todo :
          proc' = [proc EXCEPT ![p] =
                     [is |-> "starting", doc |-> s, todo |-> proc[p].todo \ {s},
                      at |-> IF FullyWritten(s.new) THEN "clear" ELSE "delete"]]
    BY DEF BootLook
  <1>. DEFINE at == IF FullyWritten(s.new) THEN "clear" ELSE "delete"
              x == [is |-> "starting", doc |-> s, todo |-> proc[p].todo \ {s}, at |-> at]
  <1>3. at \in {"clear", "delete"}
    OBVIOUS
  <1>4. s \in Entry /\ proc[p].todo \subseteq Entry
    BY <1>1 DEF Choosing
  <1>5. proc' = [proc EXCEPT ![p] = x]
    BY <1>2
  <1>6. at = IF FullyWritten(s.new) THEN "clear" ELSE "delete"
    OBVIOUS
  <1>. HIDE DEF at
  <1>7. x \in Mending /\ x.doc = s /\ x.todo = proc[p].todo \ {s} /\ x.at = at /\ x \in Process
    BY <1>3, <1>4 DEF Mending, Process
  <1>. HIDE DEF x
  <1>8. Turns(p, x)
    BY <1>5, <1>7, TurnEffect DEF Typed
  <1>9. UNCHANGED <<docs, next, indexed, enforced, req, bound, seen>>
    BY DEF BootLook
  <1>. QED
    BY <1>1, <1>6, <1>7, <1>8, <1>9

\* p is at the step at of a repair.
Mends(p, at) == /\ proc[p] \in Mending /\ proc[p].at = at /\ proc[p].is = "starting"
                /\ proc[p].doc \in Entry /\ proc[p].todo \subseteq Entry

LEMMA MendsType ==
    ASSUME Typed, NEW p \in Replicas, NEW at \in {"delete", "restore", "clear"}, Boots(p, at)
    PROVE  Mends(p, at)
  BY Starting DEF Boots, Mends, Typed, Mending

\* p goes on with the next document.
TurnsOn(p) == \E x \in Choosing : x.todo = proc[p].todo /\ Turns(p, x)

LEMMA ProceedEffect ==
    ASSUME Typed, NEW p \in Replicas, Proceed(p, "next"),
           NEW at \in {"delete", "restore", "clear"}, Mends(p, at)
    PROVE  TurnsOn(p)
  <1>. DEFINE x == [is |-> "starting", at |-> "next", todo |-> proc[p].todo]
  <1>1. x \in Choosing /\ x.todo = proc[p].todo /\ x \in Process
    BY DEF Choosing, Process, Mends
  <1>2. proc' = [proc EXCEPT ![p] = x]
    BY DEF Proceed
  <1>. HIDE DEF x
  <1>. QED
    BY <1>1, <1>2, TurnEffect DEF TurnsOn, Typed

LEMMA BootDeleteEffect ==
    ASSUME Typed, NEW p \in Replicas, BootDelete(p)
    PROVE  /\ UNCHANGED <<next, indexed, enforced, req, seen>>
           /\ Mends(p, "delete")
           /\ docs' \in [Ids -> Doc] /\ bound' \in Bounds
           /\ Puts(proc[p].doc.new, Absent)
           /\ ~Live(proc[p].doc.new) => docs'[proc[p].doc.new] = docs[proc[p].doc.new]
           /\ \/ TurnsOn(p)
              \/ \E x \in Mending : /\ x.at = "restore" /\ x.doc = proc[p].doc
                                    /\ x.todo = proc[p].todo /\ Turns(p, x)
  <1>1. Mends(p, "delete")
    BY MendsType DEF BootDelete
  <1>. DEFINE n == proc[p].doc.new
              row == IF Live(n) THEN Absent ELSE docs[n]
  <1>2. n \in Ids
    BY <1>1 DEF Mends, Entry
  <1>3. row \in Doc /\ row \in {Absent, docs[n]} /\ (~Live(n) => row = docs[n])
    BY <1>2, AbsentType DEF Typed
  <1>4. PICK ok \in BOOLEAN :
          Attempt(n, row, TRUE, ok) /\ Proceed(p, IF ok THEN "restore" ELSE "next")
    BY DEF BootDelete
  <1>5. UNCHANGED <<next, indexed, enforced, req, seen>>
    BY DEF BootDelete
  <1>6. n = proc[p].doc.new
    OBVIOUS
  <1>. HIDE DEF n, row
  <1>7. docs' \in [Ids -> Doc] /\ bound' \in Bounds /\ Puts(n, row)
    BY <1>2, <1>3, <1>4, AttemptEffect DEF Typed
  <1>8. Puts(n, Absent) /\ (~Live(n) => docs'[n] = docs[n])
    BY <1>3, <1>7 DEF Puts
  <1>9. CASE ok
    <2>. DEFINE x == [proc[p] EXCEPT !.at = "restore"]
    <2>1. x \in Mending /\ x.at = "restore" /\ x.doc = proc[p].doc /\ x.todo = proc[p].todo
          /\ x \in Process
      BY <1>1 DEF Mends, Mending, Process
    <2>2. proc' = [proc EXCEPT ![p] = x]
      BY <1>4, <1>9 DEF Proceed
    <2>. HIDE DEF x
    <2>3. Turns(p, x)
      BY <2>1, <2>2, TurnEffect DEF Typed
    <2>. QED
      BY <1>1, <1>5, <1>6, <1>7, <1>8, <2>1, <2>3
  <1>10. CASE ~ok
    <2>1. TurnsOn(p)
      BY <1>1, <1>4, <1>10, ProceedEffect
    <2>. QED
      BY <1>1, <1>5, <1>6, <1>7, <1>8, <2>1
  <1>. QED
    BY <1>9, <1>10

LEMMA BootRestoreEffect ==
    ASSUME Typed, NEW p \in Replicas, BootRestore(p)
    PROVE  /\ UNCHANGED <<next, indexed, enforced, req, seen>>
           /\ Mends(p, "restore") /\ TurnsOn(p)
           /\ \E row \in Doc :
                /\ Rewrites(proc[p].doc.id, row)
                /\ row.status = IF proc[p].doc.status = "ACTIVE"
                                THEN docs[proc[p].doc.id].status ELSE "ACTIVE"
                /\ row.marker = 0
                /\ SameCode(proc[p].doc.id, row) /\ SameFlags(proc[p].doc.id, row)
  <1>1. Mends(p, "restore")
    BY MendsType DEF BootRestore
  <1>. DEFINE d == proc[p].doc.id
              status == IF proc[p].doc.status = "ACTIVE" THEN docs[d].status ELSE "ACTIVE"
              row == [docs[d] EXCEPT !.status = status, !.marker = 0]
  <1>2. d \in Ids
    BY <1>1 DEF Mends, Entry
  <1>3. docs[d] \in Doc /\ 0 \in Ref
    BY <1>2, TypologyAssumption DEF Typed, Ref
  <1>4. status \in Status
    BY <1>2, DocColumns DEF Typed, Status
  <1>5. PICK ok \in BOOLEAN : Save(d, row, ok)
    BY DEF BootRestore
  <1>6. TurnsOn(p) /\ UNCHANGED <<next, indexed, enforced, req, seen>>
    BY <1>1, ProceedEffect DEF BootRestore
  <1>7. d = proc[p].doc.id
        /\ status = IF proc[p].doc.status = "ACTIVE" THEN docs[proc[p].doc.id].status ELSE "ACTIVE"
    OBVIOUS
  <1>. HIDE DEF d, status
  <1>8. /\ row \in Doc /\ row.status = status /\ row.marker = 0
        /\ SameCode(d, row) /\ SameFlags(d, row)
    BY <1>3, <1>4 DEF Doc, Status, SameCode, SameFlags
  <1>. HIDE DEF row
  <1>9. Rewrites(d, row)
    BY <1>2, <1>5, <1>8, SaveEffect
  <1>. QED
    BY <1>1, <1>6, <1>7, <1>8, <1>9

LEMMA BootClearEffect ==
    ASSUME Typed, NEW p \in Replicas, BootClear(p)
    PROVE  /\ UNCHANGED <<next, indexed, enforced, req, seen>>
           /\ Mends(p, "clear") /\ TurnsOn(p)
           /\ \E row \in Doc :
                /\ Rewrites(proc[p].doc.id, row)
                /\ row.status = docs[proc[p].doc.id].status /\ row.marker = 0
                /\ SameCode(proc[p].doc.id, row) /\ SameFlags(proc[p].doc.id, row)
  <1>1. Mends(p, "clear")
    BY MendsType DEF BootClear
  <1>. DEFINE d == proc[p].doc.id
              row == [docs[d] EXCEPT !.marker = 0]
  <1>2. d \in Ids
    BY <1>1 DEF Mends, Entry
  <1>3. docs[d] \in Doc /\ 0 \in Ref
    BY <1>2, TypologyAssumption DEF Typed, Ref
  <1>4. PICK ok \in BOOLEAN : Save(d, row, ok)
    BY DEF BootClear
  <1>5. TurnsOn(p) /\ UNCHANGED <<next, indexed, enforced, req, seen>>
    BY <1>1, ProceedEffect DEF BootClear
  <1>6. d = proc[p].doc.id
    OBVIOUS
  <1>. HIDE DEF d
  <1>7. /\ row \in Doc /\ row.status = docs[d].status /\ row.marker = 0
        /\ SameCode(d, row) /\ SameFlags(d, row)
    BY <1>3 DEF Doc, SameCode, SameFlags
  <1>. HIDE DEF row
  <1>8. Rewrites(d, row)
    BY <1>2, <1>4, <1>7, SaveEffect
  <1>. QED
    BY <1>1, <1>5, <1>6, <1>7, <1>8

LEMMA BootDoneEffect ==
    ASSUME Typed, NEW p \in Replicas, BootDone(p)
    PROVE  /\ UNCHANGED <<docs, next, indexed, enforced, req, bound, seen>>
           /\ Boots(p, "next") /\ Turns(p, Serving)
  BY TurnEffect DEF BootDone, Typed, Process

LEMMA CrashEffect ==
    ASSUME Typed, NEW p \in Replicas, Crash(p)
    PROVE  /\ UNCHANGED <<docs, next, indexed, enforced, seen>> /\ bound' \in Bounds
           /\ Turns(p, Down) /\ Slots'
           /\ \A r \in Requests :
                req'[r] = IF req[r] # Idle /\ req[r].on = p THEN Idle ELSE req[r]
  <1>1. bound' \in Bounds
    <2>1. /\ bound.starts \in 0..MaxStarts /\ bound.faults \in 0..MaxFaults
          /\ bound.crashes + 1 \in 0..MaxCrashes
      BY TypologyAssumption DEF Crash, Bounds, Typed
    <2>. QED
      BY <2>1 DEF Crash, Bounds, Typed
  <1>2. Turns(p, Down)
    BY TurnEffect DEF Crash, Typed, Process
  <1>3. Slots'
    BY DEF Crash, Slots, Typed
  <1>. QED
    BY <1>1, <1>2, <1>3 DEF Crash

-----------------------------------------------------------------------------
(* The other two writers *)

LEMMA UploadEffect ==
    ASSUME Typed, Upload
    PROVE  /\ UNCHANGED <<next, indexed, enforced, proc, req, bound, seen>>
           /\ docs' \in [Ids -> Doc]
           /\ \E p \in Replicas : proc[p] = Serving
           /\ \A d \in Ids : /\ docs'[d].status = docs[d].status
                             /\ docs'[d].code = docs[d].code
                             /\ docs'[d].deleted = docs[d].deleted
                             /\ docs'[d].marker = docs[d].marker
                             /\ docs[d].file => docs'[d].file
                             /\ ~Live(d) => docs'[d] = docs[d]
  <1>1. PICK d \in Ids : Live(d) /\ docs' = [docs EXCEPT ![d].file = TRUE]
    BY DEF Upload
  <1>2. docs[d] \in Doc
    BY DEF Typed
  <1>. DEFINE row == [docs[d] EXCEPT !.file = TRUE]
  <1>3. /\ row \in Doc /\ row.status = docs[d].status /\ row.code = docs[d].code
        /\ row.deleted = docs[d].deleted /\ row.marker = docs[d].marker /\ row.file = TRUE
    BY <1>2 DEF Doc
  <1>4. docs' = [docs EXCEPT ![d] = row]
    BY <1>1
  <1>. HIDE DEF row
  <1>5. docs' \in [Ids -> Doc] /\ docs'[d] = row /\ \A e \in Ids \ {d} : docs'[e] = docs[e]
    BY <1>3, <1>4 DEF Typed
  <1>. QED
    BY <1>1, <1>3, <1>5 DEF Upload

LEMMA FixDuplicatesEffect ==
    ASSUME Typed, FixDuplicates
    PROVE  /\ UNCHANGED <<next, indexed, enforced, proc, req, bound>>
           /\ docs' \in [Ids -> Doc] /\ seen' \in Observation
           /\ seen' = [seen EXCEPT !.scripted = seen'.scripted]
           /\ seen.scripted \subseteq seen'.scripted
           /\ \A d \in Ids :
                /\ docs'[d].code = docs[d].code /\ docs'[d].deleted = docs[d].deleted
                /\ docs'[d].file = docs[d].file /\ docs'[d].marker = docs[d].marker
                /\ \/ docs'[d] = docs[d]
                   \/ /\ docs[d].status = "ACTIVE" /\ docs'[d].status = "ARCHIVED"
                      /\ d \in seen'.scripted
  <1>1. PICK c \in Codes :
          \E keep \in ActiveWith(c) :
            /\ docs' = [d \in Ids |-> IF d \in ActiveWith(c) \ {keep}
                                     THEN [docs[d] EXCEPT !.status = "ARCHIVED"] ELSE docs[d]]
            /\ seen' = [seen EXCEPT !.scripted = @ \cup (ActiveWith(c) \ {keep})]
    BY DEF FixDuplicates
  <1>0. PICK keep \in ActiveWith(c) :
            /\ docs' = [d \in Ids |-> IF d \in ActiveWith(c) \ {keep}
                                     THEN [docs[d] EXCEPT !.status = "ARCHIVED"] ELSE docs[d]]
            /\ seen' = [seen EXCEPT !.scripted = @ \cup (ActiveWith(c) \ {keep})]
    BY <1>1
  <1>. DEFINE rest == ActiveWith(c) \ {keep}
  <1>2. rest \subseteq Ids /\ \A d \in rest : docs[d].status = "ACTIVE"
    BY DEF ActiveWith
  <1>3. /\ docs' = [d \in Ids |-> IF d \in rest THEN [docs[d] EXCEPT !.status = "ARCHIVED"]
                                                ELSE docs[d]]
        /\ seen' = [seen EXCEPT !.scripted = @ \cup rest]
    BY <1>0
  <1>. HIDE DEF rest
  <1>4. \A d \in Ids : docs[d] \in Doc
    BY DEF Typed
  <1>5. \A d \in rest : LET row == [docs[d] EXCEPT !.status = "ARCHIVED"]
                        IN  /\ row \in Doc /\ row.status = "ARCHIVED" /\ row.code = docs[d].code
                            /\ row.deleted = docs[d].deleted /\ row.file = docs[d].file
                            /\ row.marker = docs[d].marker
    BY <1>2, <1>4 DEF Doc
  <1>6. docs' \in [Ids -> Doc]
    BY <1>3, <1>4, <1>5
  <1>7. /\ seen' \in Observation /\ seen'.scripted = seen.scripted \cup rest
        /\ seen' = [seen EXCEPT !.scripted = seen'.scripted]
    BY <1>2, <1>3 DEF Observation, Typed
  <1>8. ASSUME NEW d \in Ids
        PROVE  /\ docs'[d].code = docs[d].code /\ docs'[d].deleted = docs[d].deleted
               /\ docs'[d].file = docs[d].file /\ docs'[d].marker = docs[d].marker
               /\ \/ docs'[d] = docs[d]
                  \/ /\ docs[d].status = "ACTIVE" /\ docs'[d].status = "ARCHIVED"
                     /\ d \in seen'.scripted
    <2>1. CASE d \notin rest
      BY <1>3, <2>1
    <2>2. CASE d \in rest
      <3>1. docs'[d] = [docs[d] EXCEPT !.status = "ARCHIVED"]
        BY <1>3, <2>2
      <3>. QED
        BY <1>2, <1>5, <1>7, <2>2, <3>1
    <2>. QED
      BY <2>1, <2>2
  <1>. QED
    BY <1>6, <1>7, <1>8 DEF FixDuplicates

-----------------------------------------------------------------------------
(* Types are kept *)

LEMMA NextCases ==
    ASSUME [Next]_vars
    PROVE  \/ \E r \in Requests :
                \/ CreateCheck(r) \/ CreateInsert(r)
                \/ UpdateFind(r) \/ UpdateCheck(r) \/ UpdateSave(r)
                \/ RemoveFind(r) \/ RemoveSave(r)
                \/ VersionFind(r) \/ VersionArchive(r) \/ VersionInsert(r) \/ VersionUpload(r)
                \/ VersionDocumento(r) \/ VersionClear(r) \/ VersionUndo(r) \/ VersionRestore(r)
           \/ \E p \in Replicas :
                \/ BootStart(p) \/ BootSync(p) \/ BootFind(p) \/ BootLook(p) \/ BootDelete(p)
                \/ BootRestore(p) \/ BootClear(p) \/ BootDone(p) \/ Crash(p)
           \/ Upload
           \/ FixDuplicates
           \/ UNCHANGED vars
  BY DEF Next

\* Steps of a request.
Asks(r) ==
    \/ CreateCheck(r) \/ CreateInsert(r)
    \/ UpdateFind(r) \/ UpdateCheck(r) \/ UpdateSave(r)
    \/ RemoveFind(r) \/ RemoveSave(r)
    \/ VersionFind(r) \/ VersionArchive(r) \/ VersionInsert(r) \/ VersionUpload(r)
    \/ VersionDocumento(r) \/ VersionClear(r) \/ VersionUndo(r) \/ VersionRestore(r)

\* Steps of a replica.
Turning(p) ==
    \/ BootStart(p) \/ BootSync(p) \/ BootFind(p) \/ BootLook(p) \/ BootDelete(p)
    \/ BootRestore(p) \/ BootClear(p) \/ BootDone(p) \/ Crash(p)

LEMMA Actors ==
    ASSUME [Next]_vars
    PROVE  \/ \E r \in Requests : Asks(r)
           \/ \E p \in Replicas : Turning(p)
           \/ Upload
           \/ FixDuplicates
           \/ UNCHANGED vars
  BY NextCases DEF Asks, Turning

LEMMA SeenType ==
    ASSUME Typed
    PROVE  /\ \A n \in Ids : [seen EXCEPT !.answered = seen.answered \cup {n}] \in Observation
           /\ [seen EXCEPT !.barred = TRUE] \in Observation
  BY DEF Typed, Observation

LEMMA TypedAsks ==
    ASSUME Typed, NEW r \in Requests, Asks(r)
    PROVE  Typed'
  <1>1. CASE CreateCheck(r)
    <2>1. \/ Slots' /\ next \in Ids /\ next' = next + 1 /\ seen' = seen
          \/ req' = req /\ next' = next /\ seen' = [seen EXCEPT !.barred = TRUE]
      BY <1>1, CreateCheckEffect DEF Moves
    <2>2. next' \in 1..(MaxDocs + 1)
      BY <2>1, TypologyAssumption DEF Typed, Ids
    <2>3. Slots'
      BY <2>1 DEF Typed, Slots
    <2>4. seen' \in Observation
      BY <2>1, SeenType DEF Typed
    <2>. QED
      BY <1>1, <2>2, <2>3, <2>4, CreateCheckEffect DEF Typed, Untouched, Processes
  <1>2. CASE CreateInsert(r)
    BY <1>2, CreateInsertEffect DEF Typed, Elsewhere, Answered, Moves, Processes
  <1>3. CASE UpdateFind(r)
    BY <1>3, UpdateFindEffect DEF Typed, Untouched, Moves, Processes
  <1>4. CASE UpdateCheck(r)
    BY <1>4, UpdateCheckEffect DEF Typed, Untouched, Goes, Answered, Moves, Processes
  <1>5. CASE UpdateSave(r)
    BY <1>5, UpdateSaveEffect DEF Typed, Elsewhere, Answered, Moves, Processes, Rewrites
  <1>6. CASE RemoveFind(r)
    BY <1>6, RemoveFindEffect DEF Typed, Untouched, Moves, Processes
  <1>7. CASE RemoveSave(r)
    BY <1>7, RemoveSaveEffect DEF Typed, Elsewhere, Answered, Moves, Processes, Rewrites
  <1>8. CASE VersionFind(r)
    <2>1. next' \in 1..(MaxDocs + 1)
      BY <1>8, VersionFindEffect, TypologyAssumption DEF Ids
    <2>. QED
      BY <1>8, <2>1, VersionFindEffect DEF Typed, Untouched, Moves, Processes, Inherits
  <1>9. CASE VersionArchive(r)
    BY <1>9, VersionArchiveEffect DEF Typed, Elsewhere, Answered, Continues, Goes, Moves, Processes, Rewrites
  <1>10. CASE VersionInsert(r)
    BY <1>10, VersionInsertEffect DEF Typed, Elsewhere, Continues, Goes, Moves, Processes
  <1>11. CASE VersionUpload(r)
    BY <1>11, VersionUploadEffect DEF Typed, Elsewhere, Continues, Goes, Moves, Processes
  <1>12. CASE VersionDocumento(r)
    BY <1>12, VersionDocumentoEffect DEF Typed, Elsewhere, Continues, Goes, Moves, Processes, Rewrites
  <1>13. CASE VersionClear(r)
    <2>1. seen' \in Observation
      BY <1>13, VersionClearEffect, BumpFields, SeenType
    <2>. QED
      BY <1>13, <2>1, VersionClearEffect DEF Typed, Elsewhere, Answered, Moves, Processes, Rewrites
  <1>14. CASE VersionUndo(r)
    BY <1>14, VersionUndoEffect DEF Typed, Elsewhere, Answered, Continues, Goes, Moves, Processes
  <1>15. CASE VersionRestore(r)
    BY <1>15, VersionRestoreEffect DEF Typed, Elsewhere, Answered, Moves, Processes, Rewrites
  <1>. QED
    BY <1>1, <1>2, <1>3, <1>4, <1>5, <1>6, <1>7, <1>8, <1>9, <1>10, <1>11, <1>12, <1>13,
       <1>14, <1>15 DEF Asks

LEMMA TypedTurning ==
    ASSUME Typed, NEW p \in Replicas, Turning(p)
    PROVE  Typed'
  <1>1. CASE BootStart(p)
    BY <1>1, BootStartEffect DEF Typed, Turns, Slots
  <1>2. CASE BootSync(p)
    BY <1>2, BootSyncEffect DEF Typed, Turns, Slots
  <1>3. CASE BootFind(p)
    BY <1>3, BootFindEffect DEF Typed, Turns, Slots
  <1>4. CASE BootLook(p)
    BY <1>4, BootLookEffect DEF Typed, Turns, Slots
  <1>5. CASE BootDelete(p)
    BY <1>5, BootDeleteEffect DEF Typed, Turns, TurnsOn, Slots
  <1>6. CASE BootRestore(p)
    BY <1>6, BootRestoreEffect DEF Typed, Turns, TurnsOn, Slots, Rewrites
  <1>7. CASE BootClear(p)
    BY <1>7, BootClearEffect DEF Typed, Turns, TurnsOn, Slots, Rewrites
  <1>8. CASE BootDone(p)
    BY <1>8, BootDoneEffect DEF Typed, Turns, Slots
  <1>9. CASE Crash(p)
    BY <1>9, CrashEffect DEF Typed, Turns, Slots
  <1>. QED
    BY <1>1, <1>2, <1>3, <1>4, <1>5, <1>6, <1>7, <1>8, <1>9 DEF Turning

LEMMA TypedInit == Init => Typed
  <1>. SUFFICES ASSUME Init PROVE Typed
    OBVIOUS
  <1>1. PICK p \in Replicas :
          Beginnings(p) /\ proc = [q \in Replicas |-> IF q = p THEN Serving ELSE Down]
    BY DEF Init
  <1>2. PICK c \in Codes, n \in 0..2 :
          /\ docs = [d \in Ids |-> IF d <= n THEN [Absent EXCEPT !.status = "ACTIVE", !.code = c,
                                                                !.file = TRUE]
                                             ELSE Absent]
          /\ next = n + 1
          /\ indexed = (n = 1)
          /\ enforced = [q \in Replicas |-> indexed]
          /\ seen = [twins |-> IF n = 2 THEN 1..2 ELSE {}, scripted |-> {},
                     heirs |-> [d \in Ids |-> {}], answered |-> {},
                     lapped |-> {}, barred |-> FALSE]
    BY <1>1 DEF Beginnings
  <1>3. [Absent EXCEPT !.status = "ACTIVE", !.code = c, !.file = TRUE] \in Doc
    BY AbsentType DEF Doc
  <1>4. docs \in [Ids -> Doc]
    BY <1>2, <1>3, AbsentType
  <1>5. next \in 1..(MaxDocs + 1) /\ 1..2 \subseteq Ids
    BY <1>2, TypologyAssumption DEF Ids
  <1>6. seen \in Observation
    <2>. DEFINE twins == IF n = 2 THEN 1..2 ELSE {}
                heirs == [d \in Ids |-> {}]
    <2>1. twins \in SUBSET Ids
      BY <1>5
    <2>2. heirs \in [Ids -> SUBSET Ids]
      OBVIOUS
    <2>3. seen = [twins |-> twins, scripted |-> {}, heirs |-> heirs, answered |-> {},
                  lapped |-> {}, barred |-> FALSE]
      BY <1>2
    <2>. HIDE DEF twins, heirs
    <2>. QED
      BY <2>1, <2>2, <2>3 DEF Observation
  <1>7. Processes
    BY <1>1 DEF Processes, Process
  <1>8. Slots /\ bound \in Bounds
    BY TypologyAssumption DEF Init, Slots, Bounds
  <1>. QED
    BY <1>2, <1>4, <1>5, <1>6, <1>7, <1>8 DEF Typed

LEMMA TypedStep == Typed /\ [Next]_vars => Typed'
  <1>. SUFFICES ASSUME Typed, [Next]_vars PROVE Typed'
    OBVIOUS
  <1>1. CASE Upload
    BY <1>1, UploadEffect DEF Typed, Slots, Processes
  <1>2. CASE FixDuplicates
    BY <1>2, FixDuplicatesEffect DEF Typed, Slots, Processes
  <1>3. CASE UNCHANGED vars
    BY <1>3 DEF vars, Typed, Slots, Processes
  <1>. QED
    BY <1>1, <1>2, <1>3, TypedAsks, TypedTurning, Actors

LEMMA TypedAlways == Spec => []Typed
  BY TypedInit, TypedStep, PTL DEF Spec

\* Whatever fails and whichever replicas start, the collection holds documents,
\* and the bounds are kept.
THEOREM TypeCorrect == Spec => []TypeOK
  BY TypedAlways, TypeOKOfTyped, PTL

-----------------------------------------------------------------------------
(* What most steps leave as it is *)

Bumping(r) == req[r].op = "bump"

\* The documents a replica has found with a marker and has not done with.
EntriesIn(x) ==
    IF x.is # "starting" \/ x.at \in {"sync", "find"} THEN {}
    ELSE x.todo \cup (IF x.at = "next" THEN {} ELSE {x.doc})

Entries(p) == EntriesIn(proc[p])

LEMMA EntriesCases ==
    /\ \A x \in {Down, Serving} \cup Begun : EntriesIn(x) = {}
    /\ \A x \in Choosing : EntriesIn(x) = x.todo
    /\ \A x \in Mending : EntriesIn(x) = x.todo \cup {x.doc}
    /\ \A x \in Process : EntriesIn(x) \subseteq Entry
  <1>1. \A x \in {Down, Serving} \cup Begun : EntriesIn(x) = {}
    BY ProcessFields DEF EntriesIn
  <1>2. \A x \in Choosing : EntriesIn(x) = x.todo /\ x.todo \subseteq Entry
    BY ProcessFields DEF EntriesIn, Choosing
  <1>3. \A x \in Mending : EntriesIn(x) = x.todo \cup {x.doc} /\ x.todo \subseteq Entry /\ x.doc \in Entry
    BY ProcessFields DEF EntriesIn, Mending
  <1>. QED
    BY <1>1, <1>2, <1>3 DEF Process

SeenGrows ==
    /\ seen'.twins = seen.twins
    /\ seen.scripted \subseteq seen'.scripted
    /\ seen.answered \subseteq seen'.answered
    /\ seen.lapped \subseteq seen'.lapped
    /\ \A d \in Ids : seen.heirs[d] \subseteq seen'.heirs[d]

BumpsKept ==
    \A q \in Requests : Bumping(q)' =>
        /\ Bumping(q)
        /\ req'[q].id = req[q].id /\ req'[q].new = req[q].new /\ req'[q].code = req[q].code
        /\ req'[q].on = req[q].on
        /\ req'[q].at # req[q].at => req[q].at # "clear"

EntriesKept == \A q \in Replicas : Entries(q)' \subseteq Entries(q)

MarkersKept == \A d \in Ids : docs'[d].marker \in {0, docs[d].marker}

FilesKept ==
    \A d \in Ids : /\ Present(d)' <=> Present(d)
                   /\ docs[d].file => docs'[d].file
                   /\ docs[d].deleted => docs'[d].deleted

ArchivedKept ==
    \A d \in Ids : docs'[d].status = "ARCHIVED" =>
        docs[d].status = "ARCHIVED" \/ d \in seen'.scripted

LEMMA RewriteFrames ==
    ASSUME Typed, NEW d \in Ids, NEW row \in Doc, Rewrites(d, row)
    PROVE  /\ (/\ row.status = "absent" => docs[d].status = "absent"
               /\ docs[d].file => row.file
               /\ docs[d].deleted => row.deleted) => FilesKept
           /\ row.marker \in {0, docs[d].marker} => MarkersKept
           /\ (row.status = "ARCHIVED" => docs[d].status = "ARCHIVED") => ArchivedKept
  <1>1. \A e \in Ids \ {d} : docs'[e] = docs[e]
    BY DEF Rewrites, Puts
  <1>2. docs'[d] = docs[d] \/ (docs'[d] = row /\ docs[d].status # "absent")
    BY DEF Rewrites, Puts, Present
  <1>. QED
    BY <1>1, <1>2 DEF FilesKept, MarkersKept, ArchivedKept, Present

LEMMA PutFrames ==
    ASSUME Typed, NEW d \in Ids, NEW row, Puts(d, row),
           row.marker = 0, row.status # "ARCHIVED"
    PROVE  MarkersKept /\ ArchivedKept
  BY DEF Puts, MarkersKept, ArchivedKept

LEMMA MovesFrames ==
    ASSUME Typed, NEW r \in Requests, Moves(r),
           \/ req'[r].op # "bump"
           \/ \E at \in BumpSteps : Continues(r, at) /\ Bumping(r) /\ req[r].at # "clear"
    PROVE  BumpsKept
  BY DEF Moves, BumpsKept, Bumping, Continues, Goes

LEMMA Unanswered ==
    ASSUME NEW r, Answered(r)
    PROVE  Moves(r) /\ req'[r].op # "bump"
  BY DEF Answered, Idle

LEMMA SameFrames ==
    /\ seen' = seen => SeenGrows
    /\ proc' = proc => EntriesKept
    /\ req' = req => BumpsKept
    /\ docs' = docs => FilesKept /\ MarkersKept /\ ArchivedKept
  BY DEF SeenGrows, EntriesKept, Entries, BumpsKept, Bumping, FilesKept, MarkersKept,
         ArchivedKept, Present

LEMMA CreationFrames ==
    ASSUME Typed, NEW r \in Requests
    PROVE  /\ CreateCheck(r) => SeenGrows /\ BumpsKept /\ EntriesKept
                                  /\ FilesKept /\ MarkersKept /\ ArchivedKept
           /\ CreateInsert(r) => SeenGrows /\ BumpsKept /\ EntriesKept
                                   /\ MarkersKept /\ ArchivedKept
  <1>1. ASSUME CreateCheck(r)
        PROVE  SeenGrows /\ BumpsKept /\ EntriesKept /\ FilesKept /\ MarkersKept /\ ArchivedKept
    <2>1. SeenGrows
      BY <1>1, CreateCheckEffect DEF SeenGrows, Typed, Observation
    <2>2. BumpsKept
      <3>1. CASE req' = req
        BY <3>1, SameFrames
      <3>2. CASE Moves(r) /\ req'[r] \in Creation
        <4>1. req'[r].op # "bump"
          BY <3>2 DEF Creation
        <4>. QED
          BY <3>2, <4>1, MovesFrames
      <3>. QED
        BY <1>1, <3>1, <3>2, CreateCheckEffect
    <2>. QED
      BY <1>1, <2>1, <2>2, CreateCheckEffect, SameFrames DEF Untouched
  <1>2. ASSUME CreateInsert(r)
        PROVE  SeenGrows /\ BumpsKept /\ EntriesKept /\ MarkersKept /\ ArchivedKept
    <2>1. /\ Answered(r) /\ Elsewhere /\ seen' = seen /\ req[r] \in Creation
          /\ Puts(req[r].id, NewRow(req[r].code))
      BY <1>2, CreateInsertEffect
    <2>2. /\ req[r].id \in Ids /\ NewRow(req[r].code).marker = 0
          /\ NewRow(req[r].code).status # "ARCHIVED"
      BY <2>1, NewRowType DEF Creation
    <2>3. MarkersKept /\ ArchivedKept
      BY <2>1, <2>2, PutFrames
    <2>. QED
      BY <2>1, <2>3, Unanswered, MovesFrames, SameFrames DEF Elsewhere
  <1>. QED
    BY <1>1, <1>2

LEMMA UpdateFrames ==
    ASSUME Typed, NEW r \in Requests, UpdateFind(r) \/ UpdateCheck(r) \/ UpdateSave(r)
    PROVE  SeenGrows /\ BumpsKept /\ EntriesKept /\ FilesKept /\ MarkersKept /\ ArchivedKept
  <1>1. CASE UpdateFind(r)
    <2>1. Untouched /\ seen' = seen /\ Moves(r) /\ req'[r].op # "bump"
      BY <1>1, UpdateFindEffect DEF Update
    <2>. QED
      BY <2>1, MovesFrames, SameFrames DEF Untouched
  <1>2. CASE UpdateCheck(r)
    <2>1. Untouched /\ seen' = seen /\ Moves(r) /\ req'[r].op # "bump"
      BY <1>2, UpdateCheckEffect, Unanswered DEF Update, Goes
    <2>. QED
      BY <2>1, MovesFrames, SameFrames DEF Untouched
  <1>3. CASE UpdateSave(r)
    <2>1. /\ Answered(r) /\ Elsewhere /\ seen' = seen /\ req[r] \in Update
      BY <1>3, UpdateSaveEffect
    <2>2. PICK row \in Doc :
            /\ Rewrites(req[r].id, row)
            /\ row.status \in {docs[req[r].id].status, StatusFor(req[r].code)}
            /\ SameFlags(req[r].id, row) /\ SameMarker(req[r].id, row)
      BY <1>3, UpdateSaveEffect
    <2>3. req[r].id \in Ids /\ StatusFor(req[r].code) \in {"INCOMPLETE", "ACTIVE"}
      BY <2>1, NewRowType DEF Update
    <2>4. FilesKept /\ MarkersKept /\ ArchivedKept
      BY <2>2, <2>3, RewriteFrames DEF SameFlags, SameMarker
    <2>. QED
      BY <2>1, <2>4, Unanswered, MovesFrames, SameFrames DEF Elsewhere
  <1>. QED
    BY <1>1, <1>2, <1>3

LEMMA RemoveFrames ==
    ASSUME Typed, NEW r \in Requests, RemoveFind(r) \/ RemoveSave(r)
    PROVE  SeenGrows /\ BumpsKept /\ EntriesKept /\ FilesKept /\ MarkersKept /\ ArchivedKept
  <1>1. CASE RemoveFind(r)
    <2>1. Untouched /\ seen' = seen /\ Moves(r) /\ req'[r].op # "bump"
      BY <1>1, RemoveFindEffect DEF Removal
    <2>. QED
      BY <2>1, MovesFrames, SameFrames DEF Untouched
  <1>2. CASE RemoveSave(r)
    <2>1. /\ Answered(r) /\ Elsewhere /\ seen' = seen /\ req[r] \in Removal
      BY <1>2, RemoveSaveEffect
    <2>2. PICK row \in Doc :
            /\ Rewrites(req[r].id, row)
            /\ row.status = "DELETED" /\ row.deleted = TRUE
            /\ row.file = docs[req[r].id].file
            /\ SameMarker(req[r].id, row)
      BY <1>2, RemoveSaveEffect
    <2>3. req[r].id \in Ids
      BY <2>1 DEF Removal
    <2>4. FilesKept /\ MarkersKept /\ ArchivedKept
      BY <2>2, <2>3, RewriteFrames DEF SameMarker
    <2>. QED
      BY <2>1, <2>4, Unanswered, MovesFrames, SameFrames DEF Elsewhere
  <1>. QED
    BY <1>1, <1>2

LEMMA BumpFrames ==
    ASSUME Typed, NEW r \in Requests
    PROVE  /\ VersionFind(r) => SeenGrows /\ EntriesKept /\ FilesKept /\ MarkersKept /\ ArchivedKept
           /\ VersionArchive(r) => SeenGrows /\ BumpsKept /\ EntriesKept /\ FilesKept
           /\ VersionInsert(r) => SeenGrows /\ BumpsKept /\ EntriesKept /\ MarkersKept /\ ArchivedKept
           /\ VersionUpload(r) => SeenGrows /\ BumpsKept /\ EntriesKept
                                    /\ FilesKept /\ MarkersKept /\ ArchivedKept
           /\ VersionDocumento(r) => SeenGrows /\ BumpsKept /\ EntriesKept
                                       /\ FilesKept /\ MarkersKept /\ ArchivedKept
           /\ VersionClear(r) => SeenGrows /\ BumpsKept /\ EntriesKept
                                   /\ FilesKept /\ MarkersKept /\ ArchivedKept
           /\ VersionUndo(r) => SeenGrows /\ BumpsKept /\ EntriesKept /\ MarkersKept /\ ArchivedKept
           /\ VersionRestore(r) => SeenGrows /\ BumpsKept /\ EntriesKept
                                     /\ FilesKept /\ MarkersKept /\ ArchivedKept
  <1>1. ASSUME VersionFind(r)
        PROVE  SeenGrows /\ EntriesKept /\ FilesKept /\ MarkersKept /\ ArchivedKept
    <2>1. Untouched /\ req'[r].id \in Ids /\ Inherits(req'[r].id, next)
      BY <1>1, VersionFindEffect DEF Bump
    <2>2. SeenGrows
      BY <2>1 DEF SeenGrows, Inherits
    <2>. QED
      BY <2>1, <2>2, SameFrames DEF Untouched
  <1>2. ASSUME VersionArchive(r)
        PROVE  SeenGrows /\ BumpsKept /\ EntriesKept /\ FilesKept
    <2>1. /\ Bumping(r) /\ req[r].at = "archive" /\ Elsewhere /\ seen' = seen
          /\ Answered(r) \/ Continues(r, "insert")
      BY <1>2, VersionArchiveEffect DEF Bumping
    <2>2. PICK row \in Doc :
            /\ Rewrites(req[r].id, row)
            /\ row.status \in {docs[req[r].id].status, "ARCHIVED"}
            /\ SameFlags(req[r].id, row)
      BY <1>2, VersionArchiveEffect
    <2>3. req[r].id \in Ids
      BY <2>1, BumpFields DEF Bumping
    <2>4. FilesKept
      BY <2>2, <2>3, RewriteFrames DEF SameFlags
    <2>5. BumpsKept
      BY <2>1, Unanswered, MovesFrames DEF BumpSteps, Continues, Goes
    <2>. QED
      BY <2>1, <2>4, <2>5, SameFrames DEF Elsewhere
  <1>3. ASSUME VersionInsert(r)
        PROVE  SeenGrows /\ BumpsKept /\ EntriesKept /\ MarkersKept /\ ArchivedKept
    <2>1. /\ Bumping(r) /\ req[r].at = "insert" /\ Elsewhere /\ seen' = seen
          /\ Continues(r, "upload") \/ Continues(r, "restore")
          /\ Puts(req[r].new, NewRow(req[r].code))
      BY <1>3, VersionInsertEffect DEF Bumping
    <2>2. /\ req[r].new \in Ids /\ NewRow(req[r].code).marker = 0
          /\ NewRow(req[r].code).status # "ARCHIVED"
      BY <2>1, NewRowType, BumpFields DEF Bumping
    <2>3. MarkersKept /\ ArchivedKept
      BY <2>1, <2>2, PutFrames
    <2>4. BumpsKept
      BY <2>1, MovesFrames DEF BumpSteps, Continues, Goes
    <2>. QED
      BY <2>1, <2>3, <2>4, SameFrames DEF Elsewhere
  <1>4. ASSUME VersionUpload(r)
        PROVE  SeenGrows /\ BumpsKept /\ EntriesKept /\ FilesKept /\ MarkersKept /\ ArchivedKept
    <2>1. /\ Bumping(r) /\ req[r].at = "upload" /\ Elsewhere /\ seen' = seen /\ docs' = docs
          /\ Continues(r, "documento") \/ Continues(r, "undo")
      BY <1>4, VersionUploadEffect DEF Bumping
    <2>2. BumpsKept
      BY <2>1, MovesFrames DEF BumpSteps, Continues, Goes
    <2>. QED
      BY <2>1, <2>2, SameFrames DEF Elsewhere
  <1>5. ASSUME VersionDocumento(r)
        PROVE  SeenGrows /\ BumpsKept /\ EntriesKept /\ FilesKept /\ MarkersKept /\ ArchivedKept
    <2>1. /\ Bumping(r) /\ req[r].at = "documento" /\ Elsewhere /\ seen' = seen
          /\ Continues(r, "clear") \/ Continues(r, "undo")
      BY <1>5, VersionDocumentoEffect DEF Bumping
    <2>2. PICK row \in Doc :
            /\ Rewrites(req[r].new, row)
            /\ row.status = docs[req[r].new].status
            /\ row.deleted = docs[req[r].new].deleted /\ row.file = TRUE
            /\ SameMarker(req[r].new, row)
      BY <1>5, VersionDocumentoEffect
    <2>3. req[r].new \in Ids
      BY <2>1, BumpFields DEF Bumping
    <2>4. FilesKept /\ MarkersKept /\ ArchivedKept
      BY <2>2, <2>3, RewriteFrames DEF SameMarker
    <2>5. BumpsKept
      BY <2>1, MovesFrames DEF BumpSteps, Continues, Goes
    <2>. QED
      BY <2>1, <2>4, <2>5, SameFrames DEF Elsewhere
  <1>6. ASSUME VersionClear(r)
        PROVE  SeenGrows /\ BumpsKept /\ EntriesKept /\ FilesKept /\ MarkersKept /\ ArchivedKept
    <2>1. /\ Bumping(r) /\ req[r].at = "clear" /\ Elsewhere /\ Answered(r)
          /\ seen' = [seen EXCEPT !.answered = seen.answered \cup {req[r].new}]
      BY <1>6, VersionClearEffect DEF Bumping
    <2>2. PICK row \in Doc :
            /\ Rewrites(req[r].id, row)
            /\ row.status = docs[req[r].id].status /\ row.marker = 0
            /\ SameFlags(req[r].id, row)
      BY <1>6, VersionClearEffect
    <2>3. req[r].id \in Ids
      BY <2>1, BumpFields DEF Bumping
    <2>4. FilesKept /\ MarkersKept /\ ArchivedKept
      BY <2>2, <2>3, RewriteFrames DEF SameFlags
    <2>5. BumpsKept
      BY <2>1, Unanswered, MovesFrames
    <2>6. SeenGrows
      BY <2>1 DEF SeenGrows, Typed, Observation
    <2>. QED
      BY <2>1, <2>4, <2>5, <2>6, SameFrames DEF Elsewhere
  <1>7. ASSUME VersionUndo(r)
        PROVE  SeenGrows /\ BumpsKept /\ EntriesKept /\ MarkersKept /\ ArchivedKept
    <2>1. /\ Bumping(r) /\ req[r].at = "undo" /\ Elsewhere /\ seen' = seen
          /\ Continues(r, "restore") \/ Answered(r)
          /\ Puts(req[r].new, Absent)
      BY <1>7, VersionUndoEffect DEF Bumping
    <2>2. req[r].new \in Ids
      BY <2>1, BumpFields DEF Bumping
    <2>3. MarkersKept /\ ArchivedKept
      BY <2>1, <2>2, PutFrames, AbsentType
    <2>4. BumpsKept
      BY <2>1, Unanswered, MovesFrames DEF BumpSteps, Continues, Goes
    <2>. QED
      BY <2>1, <2>3, <2>4, SameFrames DEF Elsewhere
  <1>8. ASSUME VersionRestore(r)
        PROVE  SeenGrows /\ BumpsKept /\ EntriesKept /\ FilesKept /\ MarkersKept /\ ArchivedKept
    <2>1. /\ Bumping(r) /\ Elsewhere /\ seen' = seen /\ Answered(r)
      BY <1>8, VersionRestoreEffect DEF Bumping
    <2>2. PICK row \in Doc :
            /\ Rewrites(req[r].id, row)
            /\ row.status = "ACTIVE" /\ row.marker = 0
            /\ SameFlags(req[r].id, row)
      BY <1>8, VersionRestoreEffect
    <2>3. req[r].id \in Ids
      BY <2>1, BumpFields DEF Bumping
    <2>4. FilesKept /\ MarkersKept /\ ArchivedKept
      BY <2>2, <2>3, RewriteFrames DEF SameFlags
    <2>5. BumpsKept
      BY <2>1, Unanswered, MovesFrames
    <2>. QED
      BY <2>1, <2>4, <2>5, SameFrames DEF Elsewhere
  <1>. QED
    BY <1>1, <1>2, <1>3, <1>4, <1>5, <1>6, <1>7, <1>8

LEMMA TurnsFrames ==
    ASSUME Typed, NEW p \in Replicas, NEW x \in Process, Turns(p, x),
           EntriesIn(x) \subseteq Entries(p)
    PROVE  EntriesKept
  BY DEF Turns, EntriesKept, Entries

LEMMA BootFrames ==
    ASSUME Typed, NEW p \in Replicas
    PROVE  /\ BootStart(p) \/ BootSync(p) \/ BootLook(p) \/ BootDone(p) \/ Crash(p) =>
                SeenGrows /\ BumpsKept /\ EntriesKept /\ FilesKept /\ MarkersKept /\ ArchivedKept
           /\ BootFind(p) => SeenGrows /\ BumpsKept /\ FilesKept /\ MarkersKept /\ ArchivedKept
           /\ BootDelete(p) => SeenGrows /\ BumpsKept /\ EntriesKept /\ MarkersKept /\ ArchivedKept
           /\ BootRestore(p) \/ BootClear(p) =>
                SeenGrows /\ BumpsKept /\ EntriesKept /\ FilesKept /\ MarkersKept /\ ArchivedKept
  <1>1. ASSUME BootStart(p) \/ BootSync(p)
        PROVE  SeenGrows /\ BumpsKept /\ EntriesKept /\ FilesKept /\ MarkersKept /\ ArchivedKept
    <2>1. UNCHANGED <<docs, req, seen>> /\ \E x \in Begun : Turns(p, x)
      BY <1>1, BootStartEffect, BootSyncEffect
    <2>2. EntriesKept
      BY <2>1, TurnsFrames, EntriesCases DEF Process
    <2>. QED
      BY <2>1, <2>2, SameFrames
  <1>2. ASSUME BootFind(p)
        PROVE  SeenGrows /\ BumpsKept /\ FilesKept /\ MarkersKept /\ ArchivedKept
    <2>1. /\ UNCHANGED <<docs, req>> /\ seen' = [seen EXCEPT !.lapped = seen'.lapped]
          /\ seen.lapped \subseteq seen'.lapped
      BY <1>2, BootFindEffect
    <2>2. SeenGrows
      BY <2>1 DEF SeenGrows, Typed, Observation
    <2>. QED
      BY <2>1, <2>2, SameFrames
  <1>3. ASSUME BootLook(p)
        PROVE  SeenGrows /\ BumpsKept /\ EntriesKept /\ FilesKept /\ MarkersKept /\ ArchivedKept
    <2>1. UNCHANGED <<docs, req, seen>> /\ proc[p] \in Choosing
      BY <1>3, BootLookEffect
    <2>2. PICK s \in proc[p].todo, x \in Mending :
            x.doc = s /\ x.todo = proc[p].todo \ {s} /\ Turns(p, x)
      BY <1>3, BootLookEffect
    <2>3. EntriesIn(x) \subseteq Entries(p)
      BY <2>1, <2>2, EntriesCases DEF Entries
    <2>4. EntriesKept
      BY <2>2, <2>3, TurnsFrames DEF Process
    <2>. QED
      BY <2>1, <2>4, SameFrames
  <1>4. ASSUME BootDone(p)
        PROVE  SeenGrows /\ BumpsKept /\ EntriesKept /\ FilesKept /\ MarkersKept /\ ArchivedKept
    <2>1. UNCHANGED <<docs, req, seen>> /\ Turns(p, Serving)
      BY <1>4, BootDoneEffect
    <2>2. EntriesKept
      BY <2>1, TurnsFrames, EntriesCases DEF Process
    <2>. QED
      BY <2>1, <2>2, SameFrames
  <1>5. ASSUME Crash(p)
        PROVE  SeenGrows /\ BumpsKept /\ EntriesKept /\ FilesKept /\ MarkersKept /\ ArchivedKept
    <2>1. UNCHANGED <<docs, seen>> /\ Turns(p, Down)
      BY <1>5, CrashEffect
    <2>2. EntriesKept
      BY <2>1, TurnsFrames, EntriesCases DEF Process
    <2>3. BumpsKept
      <3>1. \A r \in Requests : req'[r] = Idle \/ req'[r] = req[r]
        BY <1>5, CrashEffect
      <3>. QED
        BY <3>1 DEF BumpsKept, Bumping, Idle
    <2>. QED
      BY <2>1, <2>2, <2>3, SameFrames
  <1>6. ASSUME BootDelete(p)
        PROVE  SeenGrows /\ BumpsKept /\ EntriesKept /\ MarkersKept /\ ArchivedKept
    <2>1. /\ UNCHANGED <<req, seen>> /\ Mends(p, "delete")
          /\ Puts(proc[p].doc.new, Absent)
          /\ \/ TurnsOn(p)
             \/ \E x \in Mending : x.doc = proc[p].doc /\ x.todo = proc[p].todo /\ Turns(p, x)
      BY <1>6, BootDeleteEffect
    <2>2. proc[p].doc.new \in Ids /\ proc[p] \in Mending
      BY <2>1 DEF Mends, Entry
    <2>3. EntriesKept
      BY <2>1, <2>2, TurnsFrames, EntriesCases DEF TurnsOn, Process, Entries
    <2>4. MarkersKept /\ ArchivedKept
      BY <2>1, <2>2, PutFrames, AbsentType
    <2>. QED
      BY <2>1, <2>3, <2>4, SameFrames
  <1>7. ASSUME BootRestore(p) \/ BootClear(p)
        PROVE  SeenGrows /\ BumpsKept /\ EntriesKept /\ FilesKept /\ MarkersKept /\ ArchivedKept
    <2>1. UNCHANGED <<req, seen>> /\ TurnsOn(p) /\ proc[p] \in Mending
      BY <1>7, BootRestoreEffect, BootClearEffect DEF Mends
    <2>2. PICK row \in Doc :
            /\ Rewrites(proc[p].doc.id, row)
            /\ row.status \in {docs[proc[p].doc.id].status, "ACTIVE"}
            /\ row.marker = 0 /\ SameFlags(proc[p].doc.id, row)
      BY <1>7, BootRestoreEffect, BootClearEffect
    <2>3. proc[p].doc.id \in Ids
      BY <2>1 DEF Mending, Entry
    <2>4. FilesKept /\ MarkersKept /\ ArchivedKept
      BY <2>2, <2>3, RewriteFrames DEF SameFlags
    <2>5. EntriesKept
      BY <2>1, TurnsFrames, EntriesCases DEF TurnsOn, Process, Entries
    <2>. QED
      BY <2>1, <2>4, <2>5, SameFrames
  <1>. QED
    BY <1>1, <1>2, <1>3, <1>4, <1>5, <1>6, <1>7

LEMMA WriterFrames ==
    ASSUME Typed, Upload \/ FixDuplicates \/ UNCHANGED vars
    PROVE  SeenGrows /\ BumpsKept /\ EntriesKept /\ FilesKept /\ MarkersKept /\ ArchivedKept
  <1>1. CASE Upload
    <2>1. FilesKept /\ MarkersKept /\ ArchivedKept
      BY <1>1, UploadEffect DEF FilesKept, MarkersKept, ArchivedKept, Present
    <2>. QED
      BY <1>1, <2>1, UploadEffect, SameFrames
  <1>2. CASE FixDuplicates
    <2>1. FilesKept /\ MarkersKept /\ ArchivedKept
      BY <1>2, FixDuplicatesEffect DEF FilesKept, MarkersKept, ArchivedKept, Present
    <2>2. SeenGrows
      BY <1>2, FixDuplicatesEffect DEF SeenGrows, Typed, Observation
    <2>. QED
      BY <1>2, <2>1, <2>2, FixDuplicatesEffect, SameFrames
  <1>3. CASE UNCHANGED vars
    BY <1>3, SameFrames DEF vars
  <1>. QED
    BY <1>1, <1>2, <1>3

LEMMA Frames ==
    ASSUME Typed, [Next]_vars
    PROVE  /\ SeenGrows
           /\ (\A r \in Requests : ~VersionFind(r)) => BumpsKept
           /\ (\A p \in Replicas : ~BootFind(p)) => EntriesKept
           /\ (\A r \in Requests : ~VersionArchive(r)) => MarkersKept /\ ArchivedKept
           /\ (/\ \A r \in Requests : ~CreateInsert(r) /\ ~VersionInsert(r) /\ ~VersionUndo(r)
               /\ \A p \in Replicas : ~BootDelete(p)) => FilesKept
  <1>1. ASSUME NEW r \in Requests, Asks(r)
        PROVE  /\ SeenGrows /\ EntriesKept
               /\ VersionFind(r) \/ BumpsKept
               /\ VersionArchive(r) \/ (MarkersKept /\ ArchivedKept)
               /\ CreateInsert(r) \/ VersionInsert(r) \/ VersionUndo(r) \/ FilesKept
    BY <1>1, CreationFrames, UpdateFrames, RemoveFrames, BumpFrames DEF Asks
  <1>2. ASSUME NEW p \in Replicas, Turning(p)
        PROVE  /\ SeenGrows /\ BumpsKept /\ MarkersKept /\ ArchivedKept
               /\ BootFind(p) \/ EntriesKept
               /\ BootDelete(p) \/ FilesKept
    BY <1>2, BootFrames DEF Turning
  <1>. QED
    BY <1>1, <1>2, WriterFrames, Actors

-----------------------------------------------------------------------------
(* Who is whose heir *)

\* A bump, an entry of a start and a marker name an heir of their document.
Heirs ==
    /\ \A r \in Requests : Bumping(r) => req[r].new \in seen.heirs[req[r].id]
    /\ \A p \in Replicas : \A s \in Entries(p) : s.new \in seen.heirs[s.id]
    /\ \A d \in Ids : docs[d].marker # 0 => docs[d].marker \in seen.heirs[d]

LEMMA RequestIds ==
    ASSUME Typed
    PROVE  /\ \A r \in Requests : Bumping(r) => req[r].id \in Ids /\ req[r].new \in Ids
           /\ \A r \in Requests : req[r] # Idle => req[r].id \in Ids /\ req[r].on \in Replicas
           /\ \A p \in Replicas : \A s \in Entries(p) : s \in Entry /\ s.id \in Ids /\ s.new \in Ids
  <1>1. \A r \in Requests : req[r] # Idle => req[r].id \in Ids /\ req[r].on \in Replicas
    BY InCourse, RequestFields DEF Typed
  <1>2. \A p \in Replicas : Entries(p) \subseteq Entry
    BY EntriesCases DEF Entries, Typed, Processes
  <1>3. \A s \in Entry : s.id \in Ids /\ s.new \in Ids
    BY DEF Entry
  <1>. QED
    BY <1>1, <1>2, <1>3, BumpFields DEF Bumping

LEMMA HeirsStep == Typed /\ Heirs /\ [Next]_vars => Heirs'
  <1>. SUFFICES ASSUME Typed, Heirs, [Next]_vars PROVE Heirs'
    OBVIOUS
  <1>1. SeenGrows
    BY Frames
  <1>2. BumpsKept => \A r \in Requests : Bumping(r)' => req'[r].new \in seen'.heirs[req'[r].id]
    BY <1>1, RequestIds DEF BumpsKept, SeenGrows, Heirs
  <1>3. EntriesKept => \A p \in Replicas : \A s \in Entries(p)' : s.new \in seen'.heirs[s.id]
    BY <1>1, RequestIds DEF EntriesKept, SeenGrows, Heirs
  <1>4. MarkersKept => \A d \in Ids : docs'[d].marker # 0 => docs'[d].marker \in seen'.heirs[d]
    BY <1>1 DEF MarkersKept, SeenGrows, Heirs
  <1>5. ASSUME NEW r \in Requests, VersionFind(r) PROVE Heirs'
    <2>1. /\ Moves(r) /\ req'[r] \in Bump /\ req'[r].new = next
          /\ Inherits(req'[r].id, next)
      BY <1>5, VersionFindEffect
    <2>2. req'[r].id \in Ids
      BY <2>1 DEF Bump
    <2>3. next \in seen'.heirs[req'[r].id]
      BY <2>1 DEF Inherits
    <2>4. \A q \in Requests : Bumping(q)' => req'[q].new \in seen'.heirs[req'[q].id]
      BY <1>1, <2>1, <2>3, RequestIds DEF Moves, SeenGrows, Heirs, Bumping
    <2>. QED
      BY <1>3, <1>4, <1>5, <2>4, BumpFrames DEF Heirs
  <1>6. ASSUME NEW r \in Requests, VersionArchive(r) PROVE Heirs'
    <2>1. Bumping(r)
      BY <1>6, VersionArchiveEffect DEF Bumping
    <2>2. PICK row \in Doc : Rewrites(req[r].id, row) /\ row.marker = req[r].new
      BY <1>6, VersionArchiveEffect
    <2>3. \A d \in Ids : docs'[d].marker = docs[d].marker
                          \/ (d = req[r].id /\ docs'[d].marker = req[r].new)
      BY <2>1, <2>2, RequestIds DEF Rewrites, Puts
    <2>4. \A d \in Ids : docs'[d].marker # 0 => docs'[d].marker \in seen'.heirs[d]
      BY <1>1, <2>1, <2>3 DEF SeenGrows, Heirs
    <2>. QED
      BY <1>2, <1>3, <1>6, <2>4, BumpFrames DEF Heirs
  <1>7. ASSUME NEW p \in Replicas, BootFind(p) PROVE Heirs'
    <2>1. PICK x \in Choosing : x.todo = {Noted(d) : d \in Marked} /\ Turns(p, x)
      BY <1>7, BootFindEffect
    <2>2. Entries(p)' = {Noted(d) : d \in Marked} /\ \A q \in Replicas \ {p} : Entries(q)' = Entries(q)
      BY <2>1, EntriesCases DEF Turns, Entries
    <2>3. \A s \in Entries(p)' : s.new \in seen.heirs[s.id]
      BY <2>2, NotedType DEF Heirs, Marked
    <2>4. \A q \in Replicas : \A s \in Entries(q)' : s.new \in seen.heirs[s.id] /\ s.id \in Ids
      BY <2>2, <2>3, NotedType, RequestIds DEF Heirs, Marked
    <2>5. \A q \in Replicas : \A s \in Entries(q)' : s.new \in seen'.heirs[s.id]
      BY <1>1, <2>4 DEF SeenGrows
    <2>. QED
      BY <1>2, <1>4, <1>7, <2>5, BootFrames DEF Heirs
  <1>8. CASE /\ \A r \in Requests : ~VersionFind(r) /\ ~VersionArchive(r)
             /\ \A p \in Replicas : ~BootFind(p)
    BY <1>2, <1>3, <1>4, <1>8, Frames DEF Heirs
  <1>. QED
    BY <1>5, <1>6, <1>7, <1>8

LEMMA InitFacts ==
    ASSUME Init
    PROVE  /\ \A r \in Requests : req[r] = Idle
           /\ \A p \in Replicas : proc[p] \in {Down, Serving} /\ Entries(p) = {}
           /\ seen.answered = {} /\ seen.lapped = {} /\ seen.scripted = {}
           /\ \A d \in Ids : seen.heirs[d] = {} /\ docs[d].marker = 0
           /\ \A p \in Replicas : enforced[p] = indexed
           /\ \A d \in Ids : docs[d].status # "absent" => d < next
           /\ \A d \in Ids : docs[d].status # "absent" => docs[d].status = "ACTIVE"
  <1>1. PICK p \in Replicas :
          Beginnings(p) /\ proc = [q \in Replicas |-> IF q = p THEN Serving ELSE Down]
    BY DEF Init
  <1>2. PICK c \in Codes, n \in 0..2 :
          /\ docs = [d \in Ids |-> IF d <= n THEN [Absent EXCEPT !.status = "ACTIVE", !.code = c,
                                                                !.file = TRUE]
                                             ELSE Absent]
          /\ next = n + 1
          /\ indexed = (n = 1)
          /\ enforced = [q \in Replicas |-> indexed]
          /\ seen = [twins |-> IF n = 2 THEN 1..2 ELSE {}, scripted |-> {},
                     heirs |-> [d \in Ids |-> {}], answered |-> {},
                     lapped |-> {}, barred |-> FALSE]
    BY <1>1 DEF Beginnings
  <1>3. [Absent EXCEPT !.status = "ACTIVE", !.code = c, !.file = TRUE].marker = 0
        /\ [Absent EXCEPT !.status = "ACTIVE", !.code = c, !.file = TRUE].status = "ACTIVE"
        /\ Absent.marker = 0 /\ Absent.status = "absent"
    BY DEF Absent
  <1>4. \A d \in Ids : seen.heirs[d] = {} /\ docs[d].marker = 0
    BY <1>2, <1>3
  <1>5. \A q \in Replicas : proc[q] \in {Down, Serving}
    BY <1>1
  <1>6. \A q \in Replicas : Entries(q) = {}
    BY <1>5, EntriesCases DEF Entries
  <1>7. \A d \in Ids : docs[d].status # "absent" => d < next
    BY <1>2, <1>3, TypologyAssumption DEF Ids
  <1>8. \A d \in Ids : docs[d].status # "absent" => docs[d].status = "ACTIVE"
    BY <1>2, <1>3
  <1>9. seen.answered = {} /\ seen.lapped = {} /\ seen.scripted = {}
    BY <1>2
  <1>10. \A r \in Requests : req[r] = Idle
    BY DEF Init
  <1>. QED
    BY <1>2, <1>4, <1>5, <1>6, <1>7, <1>8, <1>9, <1>10

LEMMA HeirsAlways == Spec => []Heirs
  <1>1. Init => Heirs
    BY InitFacts, RequestFields DEF Heirs, Bumping
  <1>. QED
    BY <1>1, TypedAlways, HeirsStep, PTL DEF Spec

-----------------------------------------------------------------------------
(* One ACTIVE document for each code *)

\* enforced is set after the index exists, and what passed the check is
\* written without a code or under the index.
PastCheck ==
    /\ \A p \in Replicas : enforced[p] => indexed
    /\ \A r \in Requests :
        req[r].op = "create" \/ (req[r].op = "update" /\ req[r].at = "save") =>
            req[r].code = NoCode \/ indexed

IndexKept ==
    /\ indexed => indexed'
    /\ \A p \in Replicas : enforced'[p] => enforced[p] \/ indexed'
    /\ indexed' => indexed \/ (OneEach /\ docs' = docs)

LEMMA IndexFrames ==
    ASSUME Typed, [Next]_vars
    PROVE  IndexKept
  <1>1. indexed' = indexed /\ enforced' = enforced => IndexKept
    BY DEF IndexKept
  <1>2. ASSUME NEW r \in Requests, Asks(r) PROVE indexed' = indexed /\ enforced' = enforced
    <2>1. CASE CreateCheck(r) \/ UpdateFind(r) \/ UpdateCheck(r) \/ RemoveFind(r) \/ VersionFind(r)
      BY <2>1, CreateCheckEffect, UpdateFindEffect, UpdateCheckEffect, RemoveFindEffect,
         VersionFindEffect DEF Untouched
    <2>2. CASE CreateInsert(r) \/ UpdateSave(r) \/ RemoveSave(r)
      BY <2>2, CreateInsertEffect, UpdateSaveEffect, RemoveSaveEffect DEF Elsewhere
    <2>3. CASE \/ VersionArchive(r) \/ VersionInsert(r) \/ VersionUpload(r)
               \/ VersionDocumento(r) \/ VersionClear(r) \/ VersionUndo(r) \/ VersionRestore(r)
      BY <2>3, VersionArchiveEffect, VersionInsertEffect, VersionUploadEffect,
         VersionDocumentoEffect, VersionClearEffect, VersionUndoEffect, VersionRestoreEffect
         DEF Elsewhere
    <2>. QED
      BY <1>2, <2>1, <2>2, <2>3 DEF Asks
  <1>3. ASSUME NEW p \in Replicas, Turning(p) PROVE IndexKept
    <2>1. CASE BootSync(p)
      BY <2>1, BootSyncEffect DEF IndexKept
    <2>2. CASE ~BootSync(p)
      <3>1. indexed' = indexed /\ enforced' = enforced
        BY <1>3, <2>2, BootStartEffect, BootFindEffect, BootLookEffect, BootDeleteEffect,
           BootRestoreEffect, BootClearEffect, BootDoneEffect, CrashEffect DEF Turning
      <3>. QED
        BY <1>1, <3>1
    <2>. QED
      BY <2>1, <2>2
  <1>4. CASE Upload \/ FixDuplicates \/ UNCHANGED vars
    BY <1>1, <1>4, UploadEffect, FixDuplicatesEffect DEF vars
  <1>. QED
    BY <1>1, <1>2, <1>3, <1>4, Actors

\* A request that passed the check.
Cleared(r) == req[r].op = "create" \/ (req[r].op = "update" /\ req[r].at = "save")

\* The slots but that of one actor, and what that one may have become.
LEMMA ClearedStep ==
    ASSUME Typed, [Next]_vars, NEW q \in Requests, Cleared(q)'
    PROVE  \/ Cleared(q) /\ req'[q].code = req[q].code
           \/ req'[q].code = NoCode
           \/ \E p \in Replicas : enforced[p]
  <1>1. ASSUME NEW r \in Requests, Moves(r), ~Cleared(r)' PROVE Cleared(q) /\ req'[q].code = req[q].code
    <2>1. q # r
      BY <1>1
    <2>2. req'[q] = req[q]
      BY <1>1, <2>1 DEF Moves
    <2>. QED
      BY <2>2 DEF Cleared
  <1>2. CASE req' = req
    BY <1>2 DEF Cleared
  <1>3. ASSUME NEW r \in Requests, Moves(r), q # r PROVE Cleared(q) /\ req'[q].code = req[q].code
    BY <1>3 DEF Moves, Cleared
  <1>4. ASSUME NEW r \in Requests, Asks(r)
        PROVE  \/ Cleared(q) /\ req'[q].code = req[q].code
               \/ req'[q].code = NoCode
               \/ \E p \in Replicas : enforced[p]
    <2>1. CASE CreateCheck(r)
      <3>1. CASE req'[r] \in Creation /\ Moves(r) /\ Unclaimed(req'[r].on, req'[r].code, 0)
        BY <1>3, <3>1 DEF Unclaimed, Creation
      <3>. QED
        BY <1>2, <2>1, <3>1, CreateCheckEffect
    <2>2. CASE UpdateCheck(r)
      <3>1. CASE Goes(r, "save") /\ req'[r].code = req[r].code /\ Unclaimed(req[r].on, req[r].code, req[r].id)
        <4>1. req[r].on \in Replicas
          BY <2>2, UpdateCheckEffect DEF Update
        <4>. QED
          BY <1>3, <3>1, <4>1 DEF Unclaimed, Goes
      <3>2. CASE Answered(r)
        BY <1>1, <3>2 DEF Answered, Cleared, Idle
      <3>. QED
        BY <2>2, <3>1, <3>2, UpdateCheckEffect
    <2>3. CASE UpdateFind(r) \/ RemoveFind(r) \/ VersionFind(r)
      <3>1. Moves(r) /\ req'[r] \in Update \cup Removal \cup Bump
            /\ (req'[r] \in Update => req'[r].at = "check")
        BY <2>3, UpdateFindEffect, RemoveFindEffect, VersionFindEffect DEF Update, Removal, Bump
      <3>2. ~Cleared(r)'
        BY <3>1 DEF Cleared, Update, Removal, Bump
      <3>. QED
        BY <1>1, <3>1, <3>2
    <2>4. CASE CreateInsert(r) \/ UpdateSave(r) \/ RemoveSave(r) \/ VersionClear(r) \/ VersionRestore(r)
      <3>1. Answered(r)
        BY <2>4, CreateInsertEffect, UpdateSaveEffect, RemoveSaveEffect, VersionClearEffect,
           VersionRestoreEffect
      <3>. QED
        BY <1>1, <3>1 DEF Answered, Cleared, Idle
    <2>5. CASE VersionArchive(r) \/ VersionInsert(r) \/ VersionUpload(r)
               \/ VersionDocumento(r) \/ VersionUndo(r)
      <3>1. req[r].op = "bump" /\ (Answered(r) \/ \E at \in BumpSteps : Continues(r, at))
        BY <2>5, VersionArchiveEffect, VersionInsertEffect, VersionUploadEffect,
           VersionDocumentoEffect, VersionUndoEffect DEF BumpSteps
      <3>2. Answered(r) => Moves(r) /\ req'[r].op = "idle"
        BY DEF Answered, Idle
      <3>3. \A at \in BumpSteps : Continues(r, at) => Moves(r) /\ req'[r].op = req[r].op
        BY DEF Continues, Goes
      <3>. QED
        BY <1>1, <3>1, <3>2, <3>3 DEF Cleared
    <2>. QED
      BY <1>4, <2>1, <2>2, <2>3, <2>4, <2>5 DEF Asks
  <1>5. ASSUME NEW p \in Replicas, Turning(p) PROVE Cleared(q) /\ req'[q].code = req[q].code
    <2>1. CASE Crash(p)
      <3>1. req'[q] = Idle \/ req'[q] = req[q]
        BY <2>1, CrashEffect
      <3>2. req'[q] # Idle
        BY DEF Cleared, Idle
      <3>3. req'[q] = req[q]
        BY <3>1, <3>2
      <3>. QED
        BY <3>3 DEF Cleared
    <2>2. CASE ~Crash(p)
      <3>1. req' = req
        BY <1>5, <2>2, BootStartEffect, BootSyncEffect, BootFindEffect, BootLookEffect,
           BootDeleteEffect, BootRestoreEffect, BootClearEffect, BootDoneEffect DEF Turning
      <3>. QED
        BY <3>1 DEF Cleared
    <2>. QED
      BY <2>1, <2>2
  <1>6. CASE Upload \/ FixDuplicates \/ UNCHANGED vars
    <2>1. req' = req
      BY <1>6, UploadEffect, FixDuplicatesEffect DEF vars
    <2>. QED
      BY <1>2, <2>1
  <1>. QED
    BY <1>4, <1>5, <1>6, Actors

LEMMA PastCheckStep == Typed /\ PastCheck /\ [Next]_vars => PastCheck'
  <1>. SUFFICES ASSUME Typed, PastCheck, [Next]_vars PROVE PastCheck'
    OBVIOUS
  <1>1. IndexKept
    BY IndexFrames
  <1>2. \A p \in Replicas : enforced'[p] => indexed'
    BY <1>1 DEF IndexKept, PastCheck
  <1>3. ASSUME NEW r \in Requests, Cleared(r)' PROVE req'[r].code = NoCode \/ indexed'
    BY <1>1, <1>3, ClearedStep DEF IndexKept, PastCheck, Cleared
  <1>. QED
    BY <1>2, <1>3 DEF PastCheck, Cleared

LEMMA PastCheckAlways == Spec => []PastCheck
  <1>1. Init => PastCheck
    BY InitFacts DEF PastCheck, Idle
  <1>. QED
    BY <1>1, TypedAlways, PastCheckStep, PTL DEF Spec

\* The document is ACTIVE with the code.
ActiveRow(x, c) == x.status = "ACTIVE" /\ ~x.deleted /\ x.code = c

LEMMA ActiveRows ==
    ASSUME NEW c
    PROVE  /\ \A d : d \in ActiveWith(c) <=> d \in Ids /\ ActiveRow(docs[d], c)
           /\ \A d : d \in ActiveWith(c)' <=> d \in Ids /\ ActiveRow(docs'[d], c)
  BY DEF ActiveWith, ActiveRow, Live

\* Old and new versions.
Related(d) == seen.heirs[d] # {} \/ \E o \in Ids : d \in seen.heirs[o]

\* A document becomes ACTIVE with a code in one write, which the index lets
\* through and which a bump made, if the check did not look.
JoinsAlone ==
    \A d \in Ids, c \in Codes :
        ActiveRow(docs'[d], c) /\ ~ActiveRow(docs[d], c) =>
            /\ indexed => ActiveWith(c) \ {d} = {}
            /\ \A e \in Ids \ {d} : docs'[e] = docs[e]
            /\ indexed \/ Related(d)

LEMMA Joining ==
    ASSUME Typed, NEW d \in Ids, NEW row \in Doc, Puts(d, row),
           docs'[d] # docs[d] => ~Collides(d, row),
           \A c \in Codes : ActiveRow(row, c) => ActiveRow(docs[d], c) \/ indexed \/ Related(d)
    PROVE  JoinsAlone
  <1>. SUFFICES ASSUME NEW e \in Ids, NEW c \in Codes,
                       ActiveRow(docs'[e], c), ~ActiveRow(docs[e], c)
                PROVE  /\ indexed => ActiveWith(c) \ {e} = {}
                       /\ \A f \in Ids \ {e} : docs'[f] = docs[f]
                       /\ indexed \/ Related(e)
    BY DEF JoinsAlone
  <1>1. e = d /\ docs'[d] = row /\ docs'[d] # docs[d] /\ \A f \in Ids \ {e} : docs'[f] = docs[f]
    BY DEF Puts
  <1>2. ActiveRow(row, c) /\ c # NoCode
    BY <1>1, TypologyAssumption
  <1>3. indexed => ActiveWith(c) \ {e} = {}
    BY <1>1, <1>2 DEF Collides, ActiveRow
  <1>. QED
    BY <1>1, <1>2, <1>3

LEMMA Saving ==
    ASSUME Typed, NEW d \in Ids, NEW row \in Doc, Rewrites(d, row),
           \A c \in Codes : ActiveRow(row, c) => ActiveRow(docs[d], c) \/ indexed \/ Related(d)
    PROVE  JoinsAlone
  BY Joining DEF Rewrites

LEMMA JoinsRequests ==
    ASSUME Typed, PastCheck, Heirs, NEW r \in Requests, Asks(r)
    PROVE  JoinsAlone
  <1>1. docs' = docs => JoinsAlone
    BY DEF JoinsAlone
  <1>2. CASE CreateCheck(r) \/ UpdateFind(r) \/ UpdateCheck(r) \/ RemoveFind(r)
             \/ VersionFind(r) \/ VersionUpload(r)
    <2>1. docs' = docs
      BY <1>2, CreateCheckEffect, UpdateFindEffect, UpdateCheckEffect, RemoveFindEffect,
         VersionFindEffect, VersionUploadEffect DEF Untouched
    <2>. QED
      BY <1>1, <2>1
  <1>3. CASE CreateInsert(r)
    <2>1. /\ req[r] \in Creation /\ Puts(req[r].id, NewRow(req[r].code))
          /\ docs'[req[r].id] # docs[req[r].id] => ~Collides(req[r].id, NewRow(req[r].code))
      BY <1>3, CreateInsertEffect
    <2>2. /\ req[r].op = "create" /\ req[r].id \in Ids /\ NewRow(req[r].code) \in Doc
          /\ NewRow(req[r].code).code = req[r].code
      BY <2>1, NewRowType DEF Creation
    <2>3. \A c \in Codes : ActiveRow(NewRow(req[r].code), c) => indexed
      BY <2>2, TypologyAssumption DEF PastCheck, ActiveRow
    <2>. QED
      BY <2>1, <2>2, <2>3, Joining
  <1>4. CASE UpdateSave(r)
    <2>1. req[r] \in Update /\ req[r].at = "save"
      BY <1>4, UpdateSaveEffect
    <2>2. PICK row \in Doc : Rewrites(req[r].id, row) /\ row.code = req[r].code
      BY <1>4, UpdateSaveEffect
    <2>3. req[r].op = "update" /\ req[r].id \in Ids
      BY <2>1 DEF Update
    <2>4. \A c \in Codes : ActiveRow(row, c) => indexed
      BY <2>1, <2>2, <2>3, TypologyAssumption DEF PastCheck, ActiveRow
    <2>. QED
      BY <2>2, <2>3, <2>4, Saving
  <1>5. CASE RemoveSave(r)
    <2>1. req[r].id \in Ids
      BY <1>5, RemoveSaveEffect DEF Removal
    <2>2. PICK row \in Doc : Rewrites(req[r].id, row) /\ row.status = "DELETED"
      BY <1>5, RemoveSaveEffect
    <2>. QED
      BY <2>1, <2>2, Saving DEF ActiveRow
  <1>6. ASSUME Bumping(r)
        PROVE  req[r].id \in Ids /\ req[r].new \in Ids /\ Related(req[r].id) /\ Related(req[r].new)
    BY <1>6, RequestIds DEF Related, Heirs
  <1>7. CASE VersionArchive(r) \/ VersionClear(r) \/ VersionRestore(r)
    <2>1. Bumping(r)
      BY <1>7, VersionArchiveEffect, VersionClearEffect, VersionRestoreEffect DEF Bumping
    <2>2. PICK row \in Doc : Rewrites(req[r].id, row)
      BY <1>7, VersionArchiveEffect, VersionClearEffect, VersionRestoreEffect
    <2>. QED
      BY <1>6, <2>1, <2>2, Saving
  <1>8. CASE VersionInsert(r)
    <2>1. /\ Bumping(r) /\ Puts(req[r].new, NewRow(req[r].code))
          /\ docs'[req[r].new] # docs[req[r].new] => ~Collides(req[r].new, NewRow(req[r].code))
      BY <1>8, VersionInsertEffect DEF Bumping
    <2>2. NewRow(req[r].code) \in Doc
      BY <2>1, BumpFields, NewRowType DEF Bumping
    <2>. QED
      BY <1>6, <2>1, <2>2, Joining
  <1>9. CASE VersionDocumento(r)
    <2>1. Bumping(r)
      BY <1>9, VersionDocumentoEffect DEF Bumping
    <2>2. PICK row \in Doc : Rewrites(req[r].new, row)
      BY <1>9, VersionDocumentoEffect
    <2>. QED
      BY <1>6, <2>1, <2>2, Saving
  <1>10. CASE VersionUndo(r)
    <2>1. Bumping(r) /\ Puts(req[r].new, Absent)
      BY <1>10, VersionUndoEffect DEF Bumping
    <2>. QED
      BY <1>6, <2>1, AbsentType, Joining DEF Collides
  <1>. QED
    BY <1>2, <1>3, <1>4, <1>5, <1>7, <1>8, <1>9, <1>10 DEF Asks

LEMMA JoinsReplicas ==
    ASSUME Typed, Heirs, NEW p \in Replicas, Turning(p)
    PROVE  JoinsAlone
  <1>1. docs' = docs => JoinsAlone
    BY DEF JoinsAlone
  <1>2. ASSUME NEW at \in {"delete", "restore", "clear"}, Mends(p, at)
        PROVE  /\ proc[p].doc.id \in Ids /\ proc[p].doc.new \in Ids
               /\ Related(proc[p].doc.id) /\ Related(proc[p].doc.new)
    <2>1. proc[p].doc \in Entries(p)
      BY <1>2, EntriesCases DEF Entries, Mends
    <2>. QED
      BY <2>1, RequestIds DEF Related, Heirs
  <1>3. CASE BootDelete(p)
    <2>1. Mends(p, "delete") /\ Puts(proc[p].doc.new, Absent)
      BY <1>3, BootDeleteEffect
    <2>. QED
      BY <1>2, <2>1, AbsentType, Joining DEF Collides
  <1>4. CASE BootRestore(p) \/ BootClear(p)
    <2>1. Mends(p, "restore") \/ Mends(p, "clear")
      BY <1>4, BootRestoreEffect, BootClearEffect
    <2>2. PICK row \in Doc : Rewrites(proc[p].doc.id, row)
      BY <1>4, BootRestoreEffect, BootClearEffect
    <2>. QED
      BY <1>2, <2>1, <2>2, Saving
  <1>5. CASE ~(BootDelete(p) \/ BootRestore(p) \/ BootClear(p))
    <2>1. docs' = docs
      BY <1>5, BootStartEffect, BootSyncEffect, BootFindEffect, BootLookEffect, BootDoneEffect,
         CrashEffect DEF Turning
    <2>. QED
      BY <1>1, <2>1
  <1>. QED
    BY <1>3, <1>4, <1>5

LEMMA Joins ==
    ASSUME Typed, PastCheck, Heirs, [Next]_vars
    PROVE  JoinsAlone
  <1>1. CASE Upload
    BY <1>1, UploadEffect DEF JoinsAlone, ActiveRow
  <1>2. CASE FixDuplicates
    <2>1. \A d \in Ids : docs'[d] = docs[d] \/ docs'[d].status # "ACTIVE"
      BY <1>2, FixDuplicatesEffect
    <2>. QED
      BY <2>1 DEF JoinsAlone, ActiveRow
  <1>3. CASE UNCHANGED vars
    BY <1>3 DEF vars, JoinsAlone
  <1>. QED
    BY <1>1, <1>2, <1>3, JoinsRequests, JoinsReplicas, Actors

\* What the unique index promises.
OneActive == indexed => \A c \in Codes : \A d, e \in ActiveWith(c) : d = e

LEMMA FewIds == ASSUME NEW c, Cardinality(ActiveWith(c)) <= 1
                PROVE  \A d, e \in ActiveWith(c) : d = e
  <1>1. IsFiniteSet(Ids)
    <2>1. 1 \in Int /\ MaxDocs \in Int
      BY TypologyAssumption
    <2>. QED
      BY <2>1, FS_Interval DEF Ids
  <1>2. ActiveWith(c) \subseteq Ids
    BY DEF ActiveWith
  <1>3. IsFiniteSet(ActiveWith(c))
    BY <1>1, <1>2, FS_Subset
  <1>4. SUFFICES ASSUME NEW d \in ActiveWith(c), NEW e \in ActiveWith(c), d # e PROVE FALSE
    OBVIOUS
  <1>5. IsFiniteSet({d, e}) /\ Cardinality({d, e}) = 2
    <2>1. IsFiniteSet({d}) /\ Cardinality({d}) = 1
      BY FS_Singleton
    <2>2. {d, e} = {d} \cup {e} /\ e \notin {d}
      BY <1>4
    <2>. QED
      BY <2>1, <2>2, FS_AddElement
  <1>6. Cardinality({d, e}) <= Cardinality(ActiveWith(c))
    BY <1>3, FS_Subset
  <1>7. Cardinality(ActiveWith(c)) \in Nat
    BY <1>3, FS_CardinalityType
  <1>. QED
    BY <1>5, <1>6, <1>7

LEMMA OneActiveStep == Typed /\ PastCheck /\ Heirs /\ OneActive /\ [Next]_vars => OneActive'
  <1>. SUFFICES ASSUME Typed, PastCheck, Heirs, OneActive, [Next]_vars, indexed',
                       NEW c \in Codes, NEW d \in ActiveWith(c)', NEW e \in ActiveWith(c)'
                PROVE  d = e
    BY DEF OneActive
  <1>1. JoinsAlone /\ IndexKept
    BY Joins, IndexFrames
  <1>2. d \in Ids /\ e \in Ids /\ ActiveRow(docs'[d], c) /\ ActiveRow(docs'[e], c)
    BY ActiveRows
  <1>3. CASE indexed
    <2>1. CASE ActiveRow(docs[d], c) /\ ActiveRow(docs[e], c)
      BY <1>2, <1>3, <2>1, ActiveRows DEF OneActive
    <2>2. ASSUME NEW x \in Ids, NEW y \in Ids, ActiveRow(docs'[x], c), ActiveRow(docs'[y], c),
                 ~ActiveRow(docs[x], c)
          PROVE  x = y
      <3>1. ActiveWith(c) \ {x} = {} /\ \A f \in Ids \ {x} : docs'[f] = docs[f]
        BY <1>1, <1>3, <2>2 DEF JoinsAlone
      <3>2. x # y => y \in ActiveWith(c)
        BY <2>2, <3>1, ActiveRows
      <3>. QED
        BY <3>1, <3>2
    <2>. QED
      BY <1>2, <2>1, <2>2
  <1>4. CASE ~indexed
    <2>1. OneEach /\ docs' = docs
      BY <1>1, <1>4 DEF IndexKept
    <2>2. d \in ActiveWith(c) /\ e \in ActiveWith(c)
      BY <1>2, <2>1, ActiveRows
    <2>. QED
      BY <2>1, <2>2, FewIds DEF OneEach
  <1>. QED
    BY <1>3, <1>4

Explains(x) == \/ x \in seen.twins
               \/ seen.heirs[x] # {}
               \/ \E o \in Ids : x \in seen.heirs[o]

Explained == \A c \in Codes : \A d, e \in ActiveWith(c) : d # e => \E x \in {d, e} : Explains(x)

LEMMA ExplainedStep == Typed /\ PastCheck /\ Heirs /\ OneActive /\ Explained /\ [Next]_vars => Explained'
  <1>. SUFFICES ASSUME Typed, PastCheck, Heirs, OneActive, Explained, [Next]_vars,
                       NEW c \in Codes, NEW d \in ActiveWith(c)', NEW e \in ActiveWith(c)', d # e
                PROVE  \E x \in {d, e} : Explains(x)'
    BY DEF Explained
  <1>1. JoinsAlone /\ SeenGrows
    BY Joins, Frames
  <1>2. d \in Ids /\ e \in Ids /\ ActiveRow(docs'[d], c) /\ ActiveRow(docs'[e], c)
    BY ActiveRows
  <1>3. \A x \in Ids : Explains(x) => Explains(x)'
    BY <1>1 DEF Explains, SeenGrows
  <1>4. ASSUME NEW x \in Ids, ~ActiveRow(docs[x], c), ActiveRow(docs'[x], c)
        PROVE  indexed \/ Explains(x)'
    BY <1>1, <1>3, <1>4 DEF JoinsAlone, Related, Explains
  <1>5. ~indexed
    <2>1. IndexKept /\ OneActive'
      BY IndexFrames, OneActiveStep
    <2>. QED
      BY <2>1 DEF IndexKept, OneActive
  <1>6. CASE ActiveRow(docs[d], c) /\ ActiveRow(docs[e], c)
    <2>1. \E x \in {d, e} : Explains(x)
      BY <1>2, <1>6, ActiveRows DEF Explained
    <2>. QED
      BY <1>2, <1>3, <2>1
  <1>. QED
    BY <1>2, <1>4, <1>5, <1>6

LEMMA ExplainedInit == Init => OneActive /\ Explained
  <1>. SUFFICES ASSUME Init PROVE OneActive /\ Explained
    OBVIOUS
  <1>1. PICK p \in Replicas : Beginnings(p)
    BY DEF Init
  <1>2. PICK c \in Codes, n \in 0..2 :
          /\ docs = [d \in Ids |-> IF d <= n THEN [Absent EXCEPT !.status = "ACTIVE", !.code = c,
                                                                !.file = TRUE]
                                             ELSE Absent]
          /\ indexed = (n = 1)
          /\ seen = [twins |-> IF n = 2 THEN 1..2 ELSE {}, scripted |-> {},
                     heirs |-> [d \in Ids |-> {}], answered |-> {},
                     lapped |-> {}, barred |-> FALSE]
    BY <1>1 DEF Beginnings
  <1>3. seen.twins = IF n = 2 THEN 1..2 ELSE {}
    BY <1>2
  <1>4. \A d \in Ids : docs[d].status = "ACTIVE" => d <= n
    BY <1>2, AbsentType
  <1>5. \A a : \A d \in ActiveWith(a) : d \in 1..n
    BY <1>4, TypologyAssumption DEF ActiveWith, Ids
  <1>6. n # 2 => \A d, e \in 1..n : d = e
    OBVIOUS
  <1>7. OneActive
    <2>1. CASE n = 2
      <3>1. indexed = (2 = 1)
        BY <1>2, <2>1
      <3>2. (2 = 1) = FALSE
        OBVIOUS
      <3>. QED
        BY <3>1, <3>2 DEF OneActive
    <2>2. CASE n # 2
      BY <1>5, <1>6, <2>2 DEF OneActive
    <2>. QED
      BY <2>1, <2>2
  <1>8. Explained
    BY <1>3, <1>5, <1>6 DEF Explained, Explains
  <1>. QED
    BY <1>7, <1>8

LEMMA ExplainedAlways == Spec => [](OneActive /\ Explained)
  <1>1. /\ Typed /\ PastCheck /\ Heirs /\ OneActive /\ Explained /\ [Next]_vars
        => OneActive' /\ Explained'
    BY OneActiveStep, ExplainedStep
  <1>. QED
    BY <1>1, ExplainedInit, TypedAlways, PastCheckAlways, HeirsAlways, PTL DEF Spec

\* The service fails closed without its index: two live ACTIVE typologies share
\* a code only while no index exists, and one of them is then an old duplicate
\* or took part in a bump, the write that skips codigoUniquenessEnforced.
THEOREM DuplicatesExplainedCorrect == Spec => []DuplicatesExplained
  <1>1. OneActive /\ Explained => DuplicatesExplained
    BY DEF OneActive, Explained, Explains, DuplicatesExplained
  <1>. QED
    BY <1>1, ExplainedAlways, PTL

-----------------------------------------------------------------------------
(* Whose turn a document is *)

\* The document n is yet to be inserted by the request of r.
Inserting(r, n) ==
    \/ req[r].op = "create" /\ req[r].id = n
    \/ Bumping(r) /\ req[r].at \in {"archive", "insert"} /\ req[r].new = n

\* q is answered, or goes on with the request it has.
Persists(q) ==
    req'[q].op # "idle" =>
        /\ req'[q].op = req[q].op /\ req'[q].on = req[q].on /\ req'[q].id = req[q].id
        /\ req[q].op = "bump" =>
            /\ req'[q].new = req[q].new
            /\ req'[q].at \in {"archive", "insert"} => req[q].at \in {"archive", "insert"}

SameHeirs == \A d \in Ids : seen'.heirs[d] = seen.heirs[d]

\* r takes a request: a new document gets the next id, an old one is live.
Started(r) ==
    /\ docs' = docs /\ proc' = proc
    /\ req[r] = Idle /\ Moves(r) /\ req'[r] \in Request
    /\ proc[req'[r].on] = Serving
    /\ \/ /\ req'[r].op = "create" /\ req'[r].id = next
          /\ next \in Ids /\ next' = next + 1 /\ seen' = seen
       \/ /\ req'[r].op \in {"update", "remove"} /\ Live(req'[r].id)
          /\ next' = next /\ seen' = seen
       \/ /\ req'[r].op = "bump" /\ Live(req'[r].id)
          /\ req'[r].at = "archive" /\ req'[r].new = next
          /\ next \in Ids /\ next' = next + 1 /\ Inherits(req'[r].id, next)

LEMMA Persisting ==
    /\ \A q : req'[q] = req[q] \/ req'[q] = Idle => Persists(q)
    /\ \A r \in Requests : Answered(r) => \A q \in Requests : Persists(q)
    /\ \A r \in Requests : \A at \in BumpSteps :
        Continues(r, at) /\ (at = "insert" => req[r].at = "archive") /\ at # "archive" =>
            \A q \in Requests : Persists(q)
    /\ \A r \in Requests : Goes(r, "save") /\ req[r].op = "update" =>
            \A q \in Requests : Persists(q)
  <1>1. \A q : req'[q] = req[q] \/ req'[q] = Idle => Persists(q)
    BY DEF Persists, Idle
  <1>2. \A r \in Requests : Answered(r) => \A q \in Requests : Persists(q)
    BY <1>1 DEF Answered, Moves
  <1>3. ASSUME NEW r \in Requests, NEW at \in BumpSteps, Continues(r, at),
               at = "insert" => req[r].at = "archive", at # "archive"
        PROVE  \A q \in Requests : Persists(q)
    <2>1. Persists(r)
      BY <1>3 DEF Continues, Goes, Persists
    <2>2. \A q \in Requests \ {r} : req'[q] = req[q]
      BY <1>3 DEF Continues, Goes, Moves
    <2>. QED
      BY <1>1, <2>1, <2>2
  <1>4. ASSUME NEW r \in Requests, Goes(r, "save"), req[r].op = "update"
        PROVE  \A q \in Requests : Persists(q)
    <2>1. Persists(r)
      BY <1>4 DEF Goes, Persists
    <2>2. \A q \in Requests \ {r} : req'[q] = req[q]
      BY <1>4 DEF Goes, Moves
    <2>. QED
      BY <1>1, <2>1, <2>2
  <1>. QED
    BY <1>1, <1>2, <1>3, <1>4

LEMMA SlotFrames ==
    ASSUME Typed, [Next]_vars
    PROVE  \/ \E r \in Requests : Started(r)
           \/ (\A q \in Requests : Persists(q)) /\ next' = next /\ SameHeirs
  <1>1. seen' = seen => SameHeirs
    BY DEF SameHeirs
  <1>2. req' = req => \A q \in Requests : Persists(q)
    BY Persisting
  <1>3. ASSUME NEW r \in Requests, Asks(r)
        PROVE  \/ Started(r)
               \/ (\A q \in Requests : Persists(q)) /\ next' = next /\ SameHeirs
    <2>1. CASE CreateCheck(r)
      <3>1. CASE req'[r] \in Creation /\ next' = next + 1
        <4>1. /\ Untouched /\ req[r] = Idle /\ Moves(r) /\ next \in Ids /\ req'[r].id = next
              /\ proc[req'[r].on] = Serving /\ seen' = seen
          BY <2>1, <3>1, CreateCheckEffect DEF Typed
        <4>2. req'[r] \in Request /\ req'[r].op = "create"
          BY <3>1 DEF Request, Creation
        <4>. QED
          BY <3>1, <4>1, <4>2 DEF Started, Untouched
      <3>2. CASE req' = req /\ next' = next /\ seen' = [seen EXCEPT !.barred = TRUE]
        <4>1. SameHeirs
          BY <3>2 DEF SameHeirs, Typed, Observation
        <4>. QED
          BY <1>2, <3>2, <4>1
      <3>. QED
        BY <2>1, <3>1, <3>2, CreateCheckEffect
    <2>2. CASE UpdateFind(r)
      BY <2>2, UpdateFindEffect DEF Started, Untouched, Request, Update
    <2>3. CASE RemoveFind(r)
      BY <2>3, RemoveFindEffect DEF Started, Untouched, Request, Removal
    <2>4. CASE VersionFind(r)
      <3>1. req'[r] \in Request /\ req'[r].op = "bump"
        BY <2>4, VersionFindEffect DEF Request, Bump
      <3>. QED
        BY <2>4, <3>1, VersionFindEffect DEF Started, Untouched
    <2>5. CASE UpdateCheck(r)
      <3>1. next' = next /\ seen' = seen
        BY <2>5, UpdateCheckEffect
      <3>2. Answered(r) \/ (Goes(r, "save") /\ req[r].op = "update")
        BY <2>5, UpdateCheckEffect DEF Update
      <3>. QED
        BY <1>1, <3>1, <3>2, Persisting
    <2>6. CASE CreateInsert(r) \/ UpdateSave(r) \/ RemoveSave(r) \/ VersionRestore(r)
      <3>1. next' = next /\ seen' = seen /\ Answered(r)
        BY <2>6, CreateInsertEffect, UpdateSaveEffect, RemoveSaveEffect, VersionRestoreEffect
           DEF Elsewhere
      <3>. QED
        BY <1>1, <3>1, Persisting
    <2>7. CASE VersionClear(r)
      <3>1. /\ next' = next /\ Answered(r)
            /\ seen' = [seen EXCEPT !.answered = seen.answered \cup {req[r].new}]
        BY <2>7, VersionClearEffect DEF Elsewhere
      <3>2. SameHeirs
        BY <3>1 DEF SameHeirs, Typed, Observation
      <3>. QED
        BY <3>1, <3>2, Persisting
    <2>8. CASE VersionArchive(r) \/ VersionInsert(r) \/ VersionUpload(r)
               \/ VersionDocumento(r) \/ VersionUndo(r)
      <3>1. next' = next /\ seen' = seen
        BY <2>8, VersionArchiveEffect, VersionInsertEffect, VersionUploadEffect,
           VersionDocumentoEffect, VersionUndoEffect DEF Elsewhere
      <3>2. \/ Answered(r)
            \/ \E at \in BumpSteps :
                Continues(r, at) /\ (at = "insert" => req[r].at = "archive") /\ at # "archive"
        BY <2>8, VersionArchiveEffect, VersionInsertEffect, VersionUploadEffect,
           VersionDocumentoEffect, VersionUndoEffect DEF BumpSteps
      <3>. QED
        BY <1>1, <3>1, <3>2, Persisting
    <2>. QED
      BY <1>3, <2>1, <2>2, <2>3, <2>4, <2>5, <2>6, <2>7, <2>8 DEF Asks
  <1>4. ASSUME NEW p \in Replicas, Turning(p)
        PROVE  (\A q \in Requests : Persists(q)) /\ next' = next /\ SameHeirs
    <2>1. CASE BootFind(p)
      <3>1. req' = req /\ next' = next /\ seen' = [seen EXCEPT !.lapped = seen'.lapped]
        BY <2>1, BootFindEffect
      <3>2. SameHeirs
        BY <3>1 DEF SameHeirs, Typed, Observation
      <3>. QED
        BY <1>2, <3>1, <3>2
    <2>2. CASE Crash(p)
      <3>1. next' = next /\ seen' = seen /\ \A q \in Requests : req'[q] = req[q] \/ req'[q] = Idle
        BY <2>2, CrashEffect
      <3>. QED
        BY <1>1, <3>1, Persisting
    <2>3. CASE ~BootFind(p) /\ ~Crash(p)
      <3>1. req' = req /\ next' = next /\ seen' = seen
        BY <1>4, <2>3, BootStartEffect, BootSyncEffect, BootLookEffect, BootDeleteEffect,
           BootRestoreEffect, BootClearEffect, BootDoneEffect DEF Turning
      <3>. QED
        BY <1>1, <1>2, <3>1
    <2>. QED
      BY <2>1, <2>2, <2>3
  <1>5. CASE FixDuplicates
    <2>1. req' = req /\ next' = next /\ seen' = [seen EXCEPT !.scripted = seen'.scripted]
      BY <1>5, FixDuplicatesEffect
    <2>2. SameHeirs
      BY <2>1 DEF SameHeirs, Typed, Observation
    <2>. QED
      BY <1>2, <2>1, <2>2
  <1>6. CASE Upload \/ UNCHANGED vars
    <2>1. req' = req /\ next' = next /\ seen' = seen
      BY <1>6, UploadEffect DEF vars
    <2>. QED
      BY <1>1, <1>2, <2>1
  <1>. QED
    BY <1>3, <1>4, <1>5, <1>6, Actors

\* The new version is in the collection with its file.
Written(n) == Present(n) /\ docs[n].file

\* A rollback or a start deletes d.
Deletes(d) ==
    \/ \E r \in Requests : VersionUndo(r) /\ req[r].new = d
    \/ \E p \in Replicas : BootDelete(p) /\ proc[p].doc.new = d /\ Live(d)

\* d is not new, not alive again, and deleted by those two alone.
Stays(d) ==
    /\ docs'[d].status # "absent" => docs[d].status # "absent"
    /\ docs'[d].status # "absent" /\ ~docs'[d].deleted => Live(d)
    /\ Written(d) /\ ~Deletes(d) => docs'[d].status # "absent" /\ docs'[d].file

LEMMA DocFrames ==
    ASSUME Typed, [Next]_vars, NEW d \in Ids
    PROVE  (\E r \in Requests : Inserting(r, d) /\ ~Inserting(r, d)') \/ Stays(d)
  <1>1. FilesKept => Stays(d)
    BY DEF FilesKept, Stays, Written, Live, Present
  <1>2. docs'[d] = docs[d] => Stays(d)
    BY DEF Stays, Written, Live, Present
  <1>3. ASSUME NEW r \in Requests, CreateInsert(r) \/ VersionInsert(r)
        PROVE  (Inserting(r, d) /\ ~Inserting(r, d)') \/ Stays(d)
    <2>1. CASE CreateInsert(r)
      <3>1. Answered(r) /\ req[r] \in Creation /\ (docs'[d] = docs[d] \/ d = req[r].id)
        BY <2>1, CreateInsertEffect DEF Puts
      <3>2. req'[r].op = "idle" /\ req[r].op = "create"
        BY <3>1 DEF Answered, Idle, Creation
      <3>. QED
        BY <1>2, <3>1, <3>2 DEF Inserting, Bumping
    <2>2. CASE VersionInsert(r)
      <3>1. /\ req[r].op = "bump" /\ req[r].at = "insert"
            /\ Puts(req[r].new, NewRow(req[r].code))
            /\ Continues(r, "upload") \/ Continues(r, "restore")
        BY <2>2, VersionInsertEffect
      <3>2. docs'[d] = docs[d] \/ d = req[r].new
        BY <3>1 DEF Puts
      <3>3. req'[r].op = "bump" /\ req'[r].at \in {"upload", "restore"}
        BY <3>1 DEF Continues, Goes
      <3>. QED
        BY <1>2, <3>1, <3>2, <3>3 DEF Inserting, Bumping
    <2>. QED
      BY <1>3, <2>1, <2>2
  <1>4. docs'[d] = Absent => \/ Stays(d)
                             \/ Written(d) /\ ~Deletes(d)
    BY AbsentType DEF Stays
  <1>5. ASSUME NEW r \in Requests, VersionUndo(r)
        PROVE  Stays(d)
    <2>1. Puts(req[r].new, Absent)
      BY <1>5, VersionUndoEffect
    <2>2. CASE docs'[d] = docs[d]
      BY <1>2, <2>2
    <2>3. CASE docs'[d] # docs[d]
      <3>1. docs'[d] = Absent /\ req[r].new = d
        BY <2>1, <2>3 DEF Puts
      <3>. QED
        BY <1>4, <1>5, <3>1 DEF Deletes
    <2>. QED
      BY <2>2, <2>3
  <1>6. ASSUME NEW p \in Replicas, BootDelete(p)
        PROVE  Stays(d)
    <2>1. Puts(proc[p].doc.new, Absent)
          /\ (~Live(proc[p].doc.new) => docs'[proc[p].doc.new] = docs[proc[p].doc.new])
      BY <1>6, BootDeleteEffect
    <2>2. CASE docs'[d] = docs[d]
      BY <1>2, <2>2
    <2>3. CASE docs'[d] # docs[d]
      <3>1. docs'[d] = Absent /\ proc[p].doc.new = d /\ Live(d)
        BY <2>1, <2>3 DEF Puts
      <3>. QED
        BY <1>4, <1>6, <3>1 DEF Deletes
    <2>. QED
      BY <2>2, <2>3
  <1>. QED
    BY <1>1, <1>3, <1>5, <1>6, Frames

\* Who takes the marker off d and leaves it archived.
Releases(d) ==
    \/ \E r \in Requests : VersionClear(r) /\ req[r].id = d
    \/ \E p \in Replicas : BootClear(p) /\ proc[p].doc.id = d
    \/ \E p \in Replicas : /\ BootRestore(p) /\ proc[p].doc.id = d
                           /\ proc[p].doc.status = "ACTIVE" /\ docs[d].status = "ARCHIVED"

LEMMA MarkerFrames ==
    ASSUME Typed, [Next]_vars, NEW d \in Ids, docs[d].status # "absent",
           docs[d].marker # 0, docs'[d].marker = 0, docs'[d].status = "ARCHIVED"
    PROVE  Releases(d)
  <1>1. ASSUME NEW e \in Ids, NEW row \in Doc, Puts(e, row),
               row.marker = docs[e].marker \/ row.status # "ARCHIVED"
        PROVE  FALSE
    BY <1>1 DEF Puts
  <1>2. docs' = docs => FALSE
    OBVIOUS
  <1>3. ASSUME NEW r \in Requests, Asks(r) PROVE Releases(d)
    <2>1. CASE CreateCheck(r) \/ UpdateFind(r) \/ UpdateCheck(r) \/ RemoveFind(r)
               \/ VersionFind(r) \/ VersionUpload(r)
      BY <1>2, <2>1, CreateCheckEffect, UpdateFindEffect, UpdateCheckEffect, RemoveFindEffect,
         VersionFindEffect, VersionUploadEffect DEF Untouched
    <2>2. CASE CreateInsert(r)
      <3>1. /\ Puts(req[r].id, NewRow(req[r].code)) /\ req[r].id \in Ids
            /\ NewRow(req[r].code) \in Doc /\ NewRow(req[r].code).status # "ARCHIVED"
        BY <2>2, CreateInsertEffect, NewRowType DEF Creation
      <3>. QED
        BY <1>1, <3>1
    <2>3. CASE UpdateSave(r) \/ RemoveSave(r)
      <3>1. req[r].id \in Ids
        BY <2>3, UpdateSaveEffect, RemoveSaveEffect DEF Update, Removal
      <3>2. PICK row \in Doc : Rewrites(req[r].id, row) /\ SameMarker(req[r].id, row)
        BY <2>3, UpdateSaveEffect, RemoveSaveEffect
      <3>. QED
        BY <1>1, <3>1, <3>2 DEF Rewrites, SameMarker
    <2>4. CASE VersionArchive(r)
      <3>1. req[r].id \in Ids /\ req[r].new \in Ids
        BY <2>4, VersionArchiveEffect, BumpFields
      <3>2. PICK row \in Doc : Rewrites(req[r].id, row) /\ row.marker = req[r].new
        BY <2>4, VersionArchiveEffect
      <3>3. docs'[d] = docs[d] \/ docs'[d].marker = req[r].new
        BY <3>1, <3>2 DEF Rewrites, Puts
      <3>. QED
        BY <3>1, <3>3, TypologyAssumption DEF Ids
    <2>5. CASE VersionInsert(r)
      <3>1. /\ Puts(req[r].new, NewRow(req[r].code)) /\ req[r].new \in Ids
            /\ NewRow(req[r].code) \in Doc /\ NewRow(req[r].code).status # "ARCHIVED"
        BY <2>5, VersionInsertEffect, BumpFields, NewRowType
      <3>. QED
        BY <1>1, <3>1
    <2>6. CASE VersionDocumento(r)
      <3>1. req[r].new \in Ids
        BY <2>6, VersionDocumentoEffect, BumpFields
      <3>2. PICK row \in Doc : Rewrites(req[r].new, row) /\ SameMarker(req[r].new, row)
        BY <2>6, VersionDocumentoEffect
      <3>. QED
        BY <1>1, <3>1, <3>2 DEF Rewrites, SameMarker
    <2>7. CASE VersionClear(r)
      <3>1. PICK row \in Doc : Rewrites(req[r].id, row)
        BY <2>7, VersionClearEffect
      <3>2. req[r].id = d
        BY <3>1 DEF Rewrites, Puts
      <3>. QED
        BY <2>7, <3>2 DEF Releases
    <2>8. CASE VersionUndo(r)
      <3>1. Puts(req[r].new, Absent) /\ req[r].new \in Ids
        BY <2>8, VersionUndoEffect, BumpFields
      <3>. QED
        BY <1>1, <3>1, AbsentType
    <2>9. CASE VersionRestore(r)
      <3>1. req[r].id \in Ids
        BY <2>9, VersionRestoreEffect, BumpFields
      <3>2. PICK row \in Doc : Rewrites(req[r].id, row) /\ row.status = "ACTIVE"
        BY <2>9, VersionRestoreEffect
      <3>. QED
        BY <1>1, <3>1, <3>2 DEF Rewrites
    <2>. QED
      BY <1>3, <2>1, <2>2, <2>3, <2>4, <2>5, <2>6, <2>7, <2>8, <2>9 DEF Asks
  <1>4. ASSUME NEW p \in Replicas, Turning(p) PROVE Releases(d)
    <2>1. CASE BootDelete(p)
      <3>1. Puts(proc[p].doc.new, Absent) /\ proc[p].doc.new \in Ids
        BY <2>1, BootDeleteEffect DEF Mends, Entry
      <3>. QED
        BY <1>1, <3>1, AbsentType
    <2>2. CASE BootRestore(p)
      <3>1. PICK row \in Doc :
              /\ Rewrites(proc[p].doc.id, row)
              /\ row.status = IF proc[p].doc.status = "ACTIVE"
                              THEN docs[proc[p].doc.id].status ELSE "ACTIVE"
        BY <2>2, BootRestoreEffect
      <3>2. proc[p].doc.id = d /\ docs'[d] = row
        BY <3>1 DEF Rewrites, Puts
      <3>3. proc[p].doc.status = "ACTIVE" /\ docs[d].status = "ARCHIVED"
        BY <3>1, <3>2
      <3>. QED
        BY <2>2, <3>2, <3>3 DEF Releases
    <2>3. CASE BootClear(p)
      <3>1. PICK row \in Doc : Rewrites(proc[p].doc.id, row)
        BY <2>3, BootClearEffect
      <3>2. proc[p].doc.id = d
        BY <3>1 DEF Rewrites, Puts
      <3>. QED
        BY <2>3, <3>2 DEF Releases
    <2>4. CASE ~(BootDelete(p) \/ BootRestore(p) \/ BootClear(p))
      BY <1>2, <1>4, <2>4, BootStartEffect, BootSyncEffect, BootFindEffect, BootLookEffect,
         BootDoneEffect, CrashEffect DEF Turning
    <2>. QED
      BY <2>1, <2>2, <2>3, <2>4
  <1>5. CASE Upload \/ FixDuplicates
    BY <1>5, UploadEffect, FixDuplicatesEffect
  <1>6. CASE UNCHANGED vars
    BY <1>2, <1>6 DEF vars
  <1>. QED
    BY <1>3, <1>4, <1>5, <1>6, Actors

-----------------------------------------------------------------------------
(* Ids are given out once *)

\* What has an id below next is known; what has a marker is in the collection.
Fresh ==
    /\ \A d \in Ids : Present(d) => d < next
    /\ \A d \in Ids : \A n \in seen.heirs[d] : n < next
    /\ \A r \in Requests : req[r] # Idle => req[r].id < next
    /\ \A p \in Replicas : \A s \in Entries(p) : s.id < next
    /\ \A d \in Ids : docs[d].marker # 0 => Present(d)

LEMMA MarkedStep ==
    ASSUME Typed, [Next]_vars, \A d \in Ids : docs[d].marker # 0 => Present(d)
    PROVE  \A d \in Ids : docs'[d].marker # 0 => docs'[d].status # "absent"
  <1>1. FilesKept /\ MarkersKept => \A d \in Ids : docs'[d].marker # 0 => docs'[d].status # "absent"
    BY DEF FilesKept, MarkersKept, Present
  <1>2. ASSUME NEW r \in Requests, VersionArchive(r), NEW d \in Ids, docs'[d].marker # 0
        PROVE  docs'[d].status # "absent"
    <2>1. PICK row \in Doc : Rewrites(req[r].id, row)
      BY <1>2, VersionArchiveEffect
    <2>2. docs'[d] # docs[d] => Present(d)
      BY <2>1 DEF Rewrites, Puts
    <2>3. Present(d)' <=> Present(d)
      BY <1>2, BumpFrames DEF FilesKept
    <2>. QED
      BY <1>2, <2>2, <2>3 DEF Present
  <1>3. ASSUME NEW e \in Ids, NEW row, row.marker = 0, Puts(e, row), NEW d \in Ids, docs'[d].marker # 0
        PROVE  docs'[d].status # "absent"
    BY <1>3 DEF Puts, Present
  <1>4. ASSUME NEW r \in Requests, CreateInsert(r) \/ VersionInsert(r) \/ VersionUndo(r)
        PROVE  \E e \in Ids : \E row \in Doc : row.marker = 0 /\ Puts(e, row)
    <2>1. CASE CreateInsert(r)
      <3>1. Puts(req[r].id, NewRow(req[r].code)) /\ req[r].id \in Ids /\ req[r].code \in Declared
        BY <2>1, CreateInsertEffect DEF Creation
      <3>. QED
        BY <3>1, NewRowType
    <2>2. CASE VersionInsert(r)
      <3>1. Puts(req[r].new, NewRow(req[r].code)) /\ req[r].new \in Ids /\ req[r].code \in Declared
        BY <2>2, VersionInsertEffect, BumpFields
      <3>. QED
        BY <3>1, NewRowType
    <2>3. CASE VersionUndo(r)
      BY <2>3, VersionUndoEffect, BumpFields, AbsentType
    <2>. QED
      BY <1>4, <2>1, <2>2, <2>3
  <1>5. ASSUME NEW p \in Replicas, BootDelete(p)
        PROVE  \E e \in Ids : \E row \in Doc : row.marker = 0 /\ Puts(e, row)
    BY <1>5, BootDeleteEffect, AbsentType DEF Mends, Entry
  <1>. QED
    BY <1>1, <1>2, <1>3, <1>4, <1>5, Frames

LEMMA FreshStep == Typed /\ Heirs /\ Fresh /\ [Next]_vars => Fresh'
  <1>. SUFFICES ASSUME Typed, Heirs, Fresh, [Next]_vars PROVE Fresh'
    OBVIOUS
  <1>1. next \in Int /\ (next' = next \/ next' = next + 1) /\ Ids \subseteq Int
    BY SlotFrames, TypologyAssumption DEF Started, Typed, Ids
  <1>2. \A x \in Ids : x < next => x < next'
    BY <1>1
  <1>3. \A d \in Ids : docs'[d].marker # 0 => docs'[d].status # "absent"
    BY MarkedStep DEF Fresh
  <1>4. ASSUME NEW d \in Ids, docs'[d].status # "absent" PROVE d < next'
    <2>1. ASSUME NEW r \in Requests, Inserting(r, d) PROVE d < next
      <3>1. CASE req[r].op = "create"
        BY <2>1, <3>1, RequestFields DEF Inserting, Fresh, Bumping
      <3>2. CASE Bumping(r)
        BY <2>1, <3>2, RequestIds DEF Inserting, Fresh, Heirs, Bumping
      <3>. QED
        BY <2>1, <3>1, <3>2 DEF Inserting
    <2>2. Stays(d) => d < next
      BY <1>4 DEF Stays, Fresh, Present
    <2>. QED
      BY <1>2, <2>1, <2>2, DocFrames
  <1>5. ASSUME NEW d \in Ids, NEW n \in seen'.heirs[d] PROVE n < next'
    <2>1. CASE n \in seen.heirs[d]
      <3>1. n < next /\ n \in Ids
        BY <2>1 DEF Fresh, Typed, Observation
      <3>. QED
        BY <1>2, <3>1
    <2>2. CASE n \notin seen.heirs[d]
      <3>1. n = next /\ next' = next + 1
        BY <1>5, <2>2, SlotFrames DEF SameHeirs, Started, Inherits
      <3>. QED
        BY <1>1, <3>1
    <2>. QED
      BY <2>1, <2>2
  <1>6. ASSUME NEW q \in Requests, req'[q] # Idle PROVE req'[q].id < next'
    <2>1. req[q] # Idle => req[q].id < next'
      BY <1>2, RequestIds DEF Fresh
    <2>2. CASE Persists(q)
      <3>1. req'[q] \in Request
        BY <1>6, TypedStep DEF Typed, Slots
      <3>2. req'[q].op # "idle"
        BY <3>1, RequestFields
      <3>3. req'[q].id = req[q].id /\ req[q] # Idle
        BY <2>2, <3>2 DEF Persists, Idle
      <3>. QED
        BY <2>1, <3>3
    <2>3. ASSUME NEW r \in Requests, Started(r) PROVE req'[q].id < next'
      <3>1. CASE q # r
        BY <1>6, <2>1, <2>3, <3>1 DEF Started, Moves
      <3>2. CASE q = r /\ req'[r].op = "create"
        BY <1>1, <2>3, <3>2 DEF Started
      <3>3. CASE q = r /\ req'[r].op # "create"
        <4>1. Live(req'[r].id) /\ req'[r].id \in Ids
          BY <2>3, <3>3, RequestFields DEF Started
        <4>2. req'[r].id < next
          BY <4>1 DEF Fresh, Live, Present
        <4>. QED
          BY <1>2, <3>3, <4>1, <4>2
      <3>. QED
        BY <3>1, <3>2, <3>3
    <2>. QED
      BY <2>2, <2>3, SlotFrames
  <1>7. ASSUME NEW p \in Replicas, NEW s \in Entries(p)' PROVE s.id < next'
    <2>1. CASE s \in Entries(p)
      <3>. QED
        BY <1>2, <2>1, RequestIds DEF Fresh
    <2>2. CASE s \notin Entries(p)
      <3>1. PICK q \in Replicas : BootFind(q)
        BY <2>2, Frames DEF EntriesKept
      <3>2. PICK x \in Choosing : x.todo = {Noted(d) : d \in Marked} /\ Turns(q, x)
        BY <3>1, BootFindEffect
      <3>3. s \in {Noted(d) : d \in Marked}
        BY <1>7, <2>2, <3>2, EntriesCases DEF Turns, Entries
      <3>4. s.id \in Ids /\ Present(s.id)
        BY <3>3, NotedType DEF Marked, Fresh
      <3>. QED
        BY <1>2, <3>4 DEF Fresh
    <2>. QED
      BY <2>1, <2>2
  <1>. QED
    BY <1>3, <1>4, <1>5, <1>6, <1>7 DEF Fresh, Present

LEMMA FreshAlways == Spec => []Fresh
  <1>1. Init => Fresh
    BY InitFacts DEF Fresh, Present
  <1>. QED
    BY <1>1, TypedAlways, HeirsAlways, FreshStep, PTL DEF Spec

\* r is to make the document n, or has made it.
Names(r, n) == (req[r].op = "create" /\ req[r].id = n) \/ (Bumping(r) /\ req[r].new = n)

\* A document is one request's to make, and at most one document's heir; what
\* was answered or lapped is an heir.
Owned ==
    /\ \A d, e \in Ids : \A n \in seen.heirs[d] : n \in seen.heirs[e] => d = e
    /\ \A n \in seen.lapped \cup seen.answered : \E d \in Ids : n \in seen.heirs[d]
    /\ \A q, r \in Requests, n \in Ids : Names(q, n) /\ Names(r, n) => q = r
    /\ \A r \in Requests, n \in Ids : Names(r, n) => n \notin seen.answered
    /\ \A r \in Requests, d \in Ids : req[r].op = "create" => req[r].id \notin seen.heirs[d]

LEMMA NewNames ==
    ASSUME Typed, [Next]_vars, NEW q \in Requests, NEW n \in Ids
    PROVE  /\ Names(q, n)' => Names(q, n) \/ (Started(q) /\ n = next)
           /\ Inserting(q, n)' => Inserting(q, n) \/ (Started(q) /\ n = next)
  <1>1. CASE Persists(q)
    BY <1>1 DEF Persists, Names, Inserting, Bumping
  <1>2. ASSUME NEW r \in Requests, Started(r), q # r
        PROVE  (Names(q, n)' => Names(q, n)) /\ (Inserting(q, n)' => Inserting(q, n))
    <2>1. req'[q] = req[q]
      BY <1>2 DEF Started, Moves
    <2>. QED
      BY <2>1 DEF Names, Inserting, Bumping
  <1>3. ASSUME Started(q)
        PROVE  Names(q, n)' \/ Inserting(q, n)' => n = next
    BY <1>3 DEF Started, Names, Inserting, Bumping
  <1>. QED
    BY <1>1, <1>2, <1>3, SlotFrames

\* What is answered anew ends a bump, and what lapses anew is a marker.
NewsKnown ==
    /\ \A n \in seen'.answered :
        n \in seen.answered \/ \E r \in Requests : VersionClear(r) /\ req[r].new = n
    /\ \A n \in seen'.lapped : n \in seen.lapped \/ \E d \in Marked : docs[d].marker = n

LEMMA Novelties ==
    ASSUME Typed, [Next]_vars
    PROVE  NewsKnown
  <1>1. seen'.answered = seen.answered /\ seen'.lapped = seen.lapped => NewsKnown
    BY DEF NewsKnown
  <1>2. ASSUME NEW r \in Requests, Asks(r) PROVE NewsKnown
    <2>1. CASE VersionClear(r)
      <3>1. seen'.answered = seen.answered \cup {req[r].new} /\ seen'.lapped = seen.lapped
        BY <2>1, VersionClearEffect DEF Typed, Observation
      <3>. QED
        BY <2>1, <3>1 DEF NewsKnown
    <2>2. CASE CreateCheck(r)
      BY <1>1, <2>2, CreateCheckEffect DEF Typed, Observation
    <2>3. CASE VersionFind(r)
      BY <1>1, <2>3, VersionFindEffect DEF Inherits
    <2>4. CASE CreateInsert(r) \/ UpdateFind(r) \/ UpdateCheck(r) \/ UpdateSave(r)
               \/ RemoveFind(r) \/ RemoveSave(r)
      BY <1>1, <2>4, CreateInsertEffect, UpdateFindEffect, UpdateCheckEffect, UpdateSaveEffect,
         RemoveFindEffect, RemoveSaveEffect
    <2>5. CASE VersionArchive(r) \/ VersionInsert(r) \/ VersionUpload(r)
               \/ VersionDocumento(r) \/ VersionUndo(r) \/ VersionRestore(r)
      BY <1>1, <2>5, VersionArchiveEffect, VersionInsertEffect, VersionUploadEffect,
         VersionDocumentoEffect, VersionUndoEffect, VersionRestoreEffect
    <2>. QED
      BY <1>2, <2>1, <2>2, <2>3, <2>4, <2>5 DEF Asks
  <1>3. ASSUME NEW p \in Replicas, Turning(p) PROVE NewsKnown
    <2>1. CASE BootFind(p)
      <3>1. seen'.lapped = seen.lapped \cup {docs[d].marker : d \in {e \in Marked : Accompanied(p)}}
        BY <2>1, BootFindEffect
      <3>2. seen' = [seen EXCEPT !.lapped = seen'.lapped]
        BY <2>1, BootFindEffect
      <3>3. seen'.answered = seen.answered
        BY <3>2 DEF Typed, Observation
      <3>. QED
        BY <3>1, <3>3 DEF NewsKnown
    <2>2. CASE ~BootFind(p)
      <3>1. seen' = seen
        BY <1>3, <2>2, BootStartEffect, BootSyncEffect, BootLookEffect, BootDeleteEffect,
           BootRestoreEffect, BootClearEffect, BootDoneEffect, CrashEffect DEF Turning
      <3>. QED
        BY <1>1, <3>1
    <2>. QED
      BY <2>1, <2>2
  <1>4. CASE FixDuplicates
    <2>1. seen' = [seen EXCEPT !.scripted = seen'.scripted]
      BY <1>4, FixDuplicatesEffect
    <2>. QED
      BY <1>1, <2>1 DEF Typed, Observation
  <1>5. CASE Upload \/ UNCHANGED vars
    BY <1>1, <1>5, UploadEffect DEF vars
  <1>. QED
    BY <1>2, <1>3, <1>4, <1>5, Actors

LEMMA OwnedStep == Typed /\ Heirs /\ Fresh /\ Owned /\ [Next]_vars => Owned'
  <1>. SUFFICES ASSUME Typed, Heirs, Fresh, Owned, [Next]_vars PROVE Owned'
    OBVIOUS
  <1>1. next \notin Ids \/ next \in Int
    BY DEF Ids
  <1>2. \A d \in Ids : next \notin seen.heirs[d]
    BY <1>1 DEF Fresh, Typed, Observation
  <1>3. \A r \in Requests : ~Names(r, next)
    <2>1. ASSUME NEW r \in Requests, req[r].op = "create" PROVE req[r].id # next
      <3>1. req[r] # Idle
        BY <2>1, RequestFields
      <3>2. req[r].id < next /\ req[r].id \in Int
        BY <3>1, RequestIds DEF Fresh, Ids
      <3>. QED
        BY <3>2
    <2>2. ASSUME NEW r \in Requests, Bumping(r) PROVE req[r].new # next
      BY <1>2, <2>2, RequestIds DEF Heirs
    <2>. QED
      BY <2>1, <2>2 DEF Names
  <1>4. SeenGrows
    BY Frames
  <1>5. ASSUME NEW d \in Ids, NEW n \in seen'.heirs[d], n \notin seen.heirs[d]
        PROVE  n = next /\ \A e \in Ids \ {d} : seen'.heirs[e] = seen.heirs[e]
    BY <1>5, SlotFrames DEF SameHeirs, Started, Inherits
  <1>6. ASSUME NEW d \in Ids, NEW e \in Ids, NEW n \in seen'.heirs[d], n \in seen'.heirs[e]
        PROVE  d = e
    <2>1. n \in seen.heirs[d] /\ n \in seen.heirs[e] => d = e
      BY DEF Owned
    <2>. QED
      BY <1>2, <1>5, <1>6, <2>1
  <1>7. \A n \in seen'.lapped \cup seen'.answered : \E d \in Ids : n \in seen'.heirs[d]
    <2>1. \A n \in seen'.lapped \cup seen'.answered : \E d \in Ids : n \in seen.heirs[d]
      <3>1. ASSUME NEW r \in Requests, VersionClear(r)
            PROVE  \E d \in Ids : req[r].new \in seen.heirs[d]
        BY <3>1, VersionClearEffect, RequestIds DEF Heirs, Bumping
      <3>2. \A d \in Marked : docs[d].marker \in seen.heirs[d] /\ d \in Ids
        BY DEF Marked, Heirs
      <3>. QED
        BY <3>1, <3>2, Novelties DEF NewsKnown, Owned
    <2>. QED
      BY <1>4, <2>1 DEF SeenGrows
  <1>8. ASSUME NEW q \in Requests, NEW r \in Requests, NEW n \in Ids, Names(q, n)', Names(r, n)'
        PROVE  q = r
    <2>1. Names(q, n) /\ Names(r, n) => q = r
      BY DEF Owned
    <2>2. Started(q) /\ Started(r) => q = r
      BY RequestFields DEF Started, Moves
    <2>. QED
      BY <1>3, <1>8, <2>1, <2>2, NewNames
  <1>9. ASSUME NEW r \in Requests, NEW n \in Ids, Names(r, n)', n \in seen'.answered
        PROVE  FALSE
    <2>1. CASE Names(r, n)
      <3>1. n \notin seen.answered
        BY <2>1 DEF Owned
      <3>2. PICK q \in Requests : VersionClear(q) /\ req[q].new = n
        BY <1>9, <3>1, Novelties DEF NewsKnown
      <3>3. Names(q, n)
        BY <3>2, VersionClearEffect DEF Names, Bumping
      <3>4. q = r
        BY <2>1, <3>3 DEF Owned
      <3>5. req'[r] = Idle
        BY <3>2, <3>4, VersionClearEffect DEF Answered
      <3>. QED
        BY <1>9, <3>5, RequestFields DEF Names, Bumping
    <2>2. CASE Started(r) /\ n = next
      <3>1. seen'.answered = seen.answered
        BY <2>2 DEF Started, Inherits
      <3>. QED
        BY <1>2, <1>9, <2>2, <3>1 DEF Owned
    <2>. QED
      BY <1>9, <2>1, <2>2, NewNames
  <1>10. ASSUME NEW r \in Requests, NEW d \in Ids, req'[r].op = "create", req'[r].id \in seen'.heirs[d]
         PROVE  FALSE
    <2>1. req'[r].id \in Ids
      <3>1. seen'.heirs[d] \subseteq Ids
        BY TypedStep DEF Typed, Observation
      <3>. QED
        BY <1>10, <3>1
    <2>2. CASE Persists(r)
      <3>1. req[r].op = "create" /\ req[r].id = req'[r].id /\ req[r].id # next
        BY <1>3, <1>10, <2>2 DEF Persists, Names
      <3>. QED
        BY <1>5, <1>10, <3>1 DEF Owned
    <2>3. ASSUME NEW q \in Requests, Started(q), q # r PROVE FALSE
      <3>1. req[r].op = "create" /\ req[r].id = req'[r].id
        BY <1>10, <2>3 DEF Started, Moves
      <3>2. req[r].id # next
        BY <1>3, <3>1 DEF Names
      <3>. QED
        BY <1>5, <1>10, <3>1, <3>2 DEF Owned
    <2>4. CASE Started(r)
      <3>1. req'[r].id = next /\ seen' = seen
        BY <1>10, <2>4 DEF Started
      <3>. QED
        BY <1>2, <1>10, <3>1
    <2>. QED
      BY <2>2, <2>3, <2>4, SlotFrames
  <1>. QED
    BY <1>6, <1>7, <1>8, <1>9, <1>10 DEF Owned

LEMMA OwnedAlways == Spec => []Owned
  <1>1. Init => Owned
    BY InitFacts, RequestFields DEF Owned, Names, Bumping
  <1>. QED
    BY <1>1, TypedAlways, HeirsAlways, FreshAlways, OwnedStep, PTL DEF Spec

-----------------------------------------------------------------------------
(* Requests are served, documents are taken one at a time *)

\* A replica serves while a request of it is in course.
Served == \A r \in Requests : req[r] # Idle => proc[req[r].on] = Serving

LEMMA AskFrames ==
    ASSUME Typed, NEW r \in Requests, Asks(r)
    PROVE  proc' = proc
  <1>1. CASE CreateCheck(r) \/ UpdateFind(r) \/ UpdateCheck(r) \/ RemoveFind(r) \/ VersionFind(r)
    BY <1>1, CreateCheckEffect, UpdateFindEffect, UpdateCheckEffect, RemoveFindEffect,
       VersionFindEffect DEF Untouched
  <1>2. CASE CreateInsert(r) \/ UpdateSave(r) \/ RemoveSave(r)
    BY <1>2, CreateInsertEffect, UpdateSaveEffect, RemoveSaveEffect DEF Elsewhere
  <1>3. CASE \/ VersionArchive(r) \/ VersionInsert(r) \/ VersionUpload(r)
             \/ VersionDocumento(r) \/ VersionClear(r) \/ VersionUndo(r) \/ VersionRestore(r)
    BY <1>3, VersionArchiveEffect, VersionInsertEffect, VersionUploadEffect,
       VersionDocumentoEffect, VersionClearEffect, VersionUndoEffect, VersionRestoreEffect
       DEF Elsewhere
  <1>. QED
    BY <1>1, <1>2, <1>3 DEF Asks

LEMMA ServedStep == Typed /\ Served /\ [Next]_vars => Served'
  <1>. SUFFICES ASSUME Typed, Served, [Next]_vars, NEW q \in Requests, req'[q] # Idle
                PROVE  proc'[req'[q].on] = Serving
    BY DEF Served
  <1>1. req'[q] \in Request /\ req'[q].op # "idle" /\ req'[q].on \in Replicas
    BY TypedStep, RequestFields DEF Typed, Slots
  <1>2. proc[req'[q].on] = Serving
    <2>1. CASE Persists(q)
      <3>1. req[q] # Idle /\ req'[q].on = req[q].on
        BY <1>1, <2>1, RequestFields DEF Persists
      <3>. QED
        BY <3>1 DEF Served
    <2>2. ASSUME NEW r \in Requests, Started(r) PROVE proc[req'[q].on] = Serving
      BY <2>2 DEF Started, Moves, Served
    <2>. QED
      BY <2>1, <2>2, SlotFrames
  <1>. DEFINE p == req'[q].on
  <1>3. p \in Replicas /\ proc[p] = Serving /\ proc[p].is = "serving"
    BY <1>1, <1>2, ProcessFields
  <1>. HIDE DEF p
  <1>4. ASSUME NEW s \in Replicas, Turning(s) PROVE proc'[p] = Serving
    <2>1. CASE s # p
      <3>1. \E x \in Process : Turns(s, x)
        BY <1>4, BootStartEffect, BootSyncEffect, BootFindEffect, BootLookEffect,
           BootDeleteEffect, BootRestoreEffect, BootClearEffect, BootDoneEffect, CrashEffect
           DEF Turning, TurnsOn, Turns
      <3>. QED
        BY <1>3, <2>1, <3>1 DEF Turns
    <2>2. CASE s = p /\ Crash(s)
      <3>1. req'[q] = Idle \/ (req'[q] = req[q] /\ req[q].on # p)
        BY <2>2, CrashEffect
      <3>. QED
        BY <3>1 DEF p
    <2>3. CASE s = p /\ ~Crash(s)
      <3>1. proc[s] = Down \/ proc[s].is = "starting"
        BY <1>4, <2>3, BootStartEffect, BootSyncEffect, BootFindEffect, BootLookEffect,
           BootDeleteEffect, BootRestoreEffect, BootClearEffect, BootDoneEffect
           DEF Turning, Boots, Mends
      <3>. QED
        BY <1>3, <2>3, <3>1, ProcessFields
    <2>. QED
      BY <2>1, <2>2, <2>3
  <1>5. \A r \in Requests : Asks(r) => proc' = proc
    BY AskFrames
  <1>6. Upload \/ FixDuplicates \/ UNCHANGED vars => proc' = proc
    BY UploadEffect, FixDuplicatesEffect DEF vars
  <1>7. proc'[p] = Serving
    BY <1>3, <1>4, <1>5, <1>6, Actors
  <1>. QED
    BY <1>7 DEF p

LEMMA ServedAlways == Spec => []Served
  <1>1. Init => Served
    BY InitFacts DEF Served
  <1>. QED
    BY <1>1, TypedAlways, ServedStep, PTL DEF Spec

\* How a replica comes to the repair of a document.
LEMMA MendFrames ==
    ASSUME Typed, [Next]_vars, NEW p \in Replicas, proc'[p] \in Mending
    PROVE  \/ proc'[p] = proc[p]
           \/ BootLook(p)
           \/ /\ BootDelete(p) /\ proc[p] \in Mending /\ proc'[p].at = "restore"
              /\ proc'[p].doc = proc[p].doc /\ proc'[p].todo = proc[p].todo
  <1>1. ASSUME NEW s \in Replicas, Turning(s), s # p PROVE proc'[p] = proc[p]
    <2>1. \E x \in Process : Turns(s, x)
      BY <1>1, BootStartEffect, BootSyncEffect, BootFindEffect, BootLookEffect,
         BootDeleteEffect, BootRestoreEffect, BootClearEffect, BootDoneEffect, CrashEffect
         DEF Turning, TurnsOn, Turns
    <2>. QED
      BY <1>1, <2>1 DEF Turns
  <1>2. proc'[p] \notin {Down, Serving} \cup Begun \cup Choosing
    BY ProcessFields
  <1>3. ASSUME Turning(p), ~BootLook(p)
        PROVE  /\ BootDelete(p) /\ proc[p] \in Mending /\ proc'[p].at = "restore"
               /\ proc'[p].doc = proc[p].doc /\ proc'[p].todo = proc[p].todo
    <2>1. CASE BootDelete(p)
      BY <1>2, <2>1, BootDeleteEffect DEF TurnsOn, Turns, Mends
    <2>2. CASE BootRestore(p) \/ BootClear(p)
      BY <1>2, <2>2, BootRestoreEffect, BootClearEffect DEF TurnsOn, Turns
    <2>3. CASE BootStart(p) \/ BootSync(p) \/ BootFind(p) \/ BootDone(p) \/ Crash(p)
      BY <1>2, <2>3, BootStartEffect, BootSyncEffect, BootFindEffect, BootDoneEffect,
         CrashEffect DEF Turns
    <2>. QED
      BY <1>3, <2>1, <2>2, <2>3 DEF Turning
  <1>4. \A r \in Requests : Asks(r) => proc' = proc
    BY AskFrames
  <1>5. Upload \/ FixDuplicates \/ UNCHANGED vars => proc' = proc
    BY UploadEffect, FixDuplicatesEffect DEF vars
  <1>. QED
    BY <1>1, <1>3, <1>4, <1>5, Actors

\* A document is not there before it is inserted, and nobody changes or repairs
\* one that is still to be; a start repairs each of its documents once.
Reserved ==
    /\ \A r \in Requests, n \in Ids : Inserting(r, n) => ~Present(n)
    /\ \A p \in Replicas : \A s \in Entries(p) : \A r \in Requests : ~Inserting(r, s.id)
    /\ \A p \in Replicas : \A s, t \in Entries(p) : s.id = t.id => s = t
    /\ \A p \in Replicas : proc[p] \in Mending => proc[p].doc \notin proc[p].todo

LEMMA FindEntries ==
    ASSUME Typed, NEW p \in Replicas, BootFind(p)
    PROVE  /\ Entries(p)' = {Noted(d) : d \in Marked}
           /\ \A q \in Replicas \ {p} : Entries(q)' = Entries(q)
           /\ proc'[p] \in Choosing /\ Entries(p) = {}
  <1>1. PICK x \in Choosing : x.todo = {Noted(d) : d \in Marked} /\ Turns(p, x)
    BY BootFindEffect
  <1>2. Entries(p) = {}
    <2>1. Boots(p, "find")
      BY BootFindEffect
    <2>. QED
      BY <2>1 DEF Boots, Entries, EntriesIn
  <1>. QED
    BY <1>1, <1>2, EntriesCases DEF Turns, Entries

LEMMA EntryFrames ==
    ASSUME Typed, [Next]_vars, NEW p \in Replicas, NEW s \in Entries(p)', s \notin Entries(p)
    PROVE  BootFind(p) /\ \E d \in Marked : s = Noted(d)
  <1>1. PICK q \in Replicas : BootFind(q)
    BY Frames DEF EntriesKept
  <1>. QED
    BY <1>1, FindEntries

LEMMA ReservedStep == Typed /\ Heirs /\ Fresh /\ Owned /\ Reserved /\ [Next]_vars => Reserved'
  <1>. SUFFICES ASSUME Typed, Heirs, Fresh, Owned, Reserved, [Next]_vars PROVE Reserved'
    OBVIOUS
  <1>1. \A r \in Requests : \A n : Inserting(r, n) => Names(r, n)
    BY DEF Inserting, Names
  <1>2. ASSUME NEW r \in Requests, NEW n \in Ids, Inserting(r, n)' PROVE docs'[n].status = "absent"
    <2>1. ~Present(n)
      <3>1. CASE Inserting(r, n)
        BY <3>1 DEF Reserved
      <3>2. CASE n = next
        BY <3>2 DEF Fresh, Ids
      <3>. QED
        BY <1>2, <3>1, <3>2, NewNames
    <2>2. ASSUME NEW q \in Requests, Inserting(q, n), ~Inserting(q, n)' PROVE FALSE
      <3>1. q # r
        BY <1>2, <2>2
      <3>2. ~Inserting(r, n)
        BY <1>1, <2>2, <3>1 DEF Owned
      <3>3. Started(r)
        BY <1>2, <3>2, NewNames
      <3>4. req'[q] = req[q]
        BY <3>1, <3>3 DEF Started, Moves
      <3>. QED
        BY <2>2, <3>4 DEF Inserting, Bumping
    <2>. QED
      BY <2>1, <2>2, DocFrames DEF Stays, Present
  <1>3. ASSUME NEW p \in Replicas, NEW s \in Entries(p)', NEW r \in Requests, Inserting(r, s.id)'
        PROVE  FALSE
    <2>1. CASE s \in Entries(p)
      <3>1. s.id \in Ids /\ s.id < next /\ ~Inserting(r, s.id)
        BY <2>1, RequestIds DEF Fresh, Reserved
      <3>2. s.id # next
        BY <3>1 DEF Ids
      <3>. QED
        BY <1>3, <3>1, <3>2, NewNames
    <2>2. CASE s \notin Entries(p)
      <3>1. BootFind(p) /\ \E d \in Marked : s = Noted(d)
        BY <1>3, <2>2, EntryFrames
      <3>2. s.id \in Ids /\ Present(s.id)
        BY <3>1, NotedType DEF Marked, Fresh
      <3>3. Inserting(r, s.id)
        BY <1>3, <3>1, BootFindEffect DEF Inserting, Bumping
      <3>. QED
        BY <3>2, <3>3 DEF Reserved
    <2>. QED
      BY <2>1, <2>2
  <1>4. ASSUME NEW p \in Replicas, NEW s \in Entries(p)', NEW t \in Entries(p)', s.id = t.id
        PROVE  s = t
    <2>1. CASE BootFind(p)
      BY <1>4, <2>1, FindEntries, NotedType
    <2>2. CASE ~BootFind(p)
      BY <1>4, <2>2, EntryFrames DEF Reserved
    <2>. QED
      BY <2>1, <2>2
  <1>5. ASSUME NEW p \in Replicas, proc'[p] \in Mending PROVE proc'[p].doc \notin proc'[p].todo
    <2>1. CASE BootLook(p)
      BY <2>1, BootLookEffect DEF Turns
    <2>. QED
      BY <1>5, <2>1, MendFrames DEF Reserved
  <1>. QED
    BY <1>2, <1>3, <1>4, <1>5 DEF Reserved, Present

LEMMA ReservedAlways == Spec => []Reserved
  <1>1. Init => Reserved
    <2>1. \A x \in {Down, Serving} : x \notin Mending
      BY ProcessFields
    <2>. QED
      BY <2>1, InitFacts, RequestFields DEF Reserved, Inserting, Bumping
  <1>. QED
    BY <1>1, TypedAlways, HeirsAlways, FreshAlways, OwnedAlways, ReservedStep, PTL DEF Spec

-----------------------------------------------------------------------------
(* A start that is alone repairs undisturbed *)

\* The replica q has not looked at the markers yet.
Waiting(q) == proc[q] = Down \/ Boots(q, "sync") \/ Boots(q, "find")

Alone(p) == (\A q \in Replicas \ {p} : Waiting(q)) /\ \A r \in Requests : req[r] = Idle

\* What p found of a document stands: no bump is making the version it waits for,
\* and the document has gone or still bears the marker, with nobody else at work.
\* It is then archived because the start found it so, or the script did it.
Undisturbed(p, s) ==
    /\ \A r \in Requests : Bumping(r) => req[r].new # s.new
    /\ \/ ~Present(s.id)
       \/ /\ docs[s.id].marker = s.new
          /\ Alone(p)
          /\ docs[s.id].status = "ARCHIVED" => s.id \in seen.scripted \/ s.status # "ACTIVE"

RepairsApart ==
    \A p \in Replicas : \A s \in Entries(p) : s.new \notin seen.lapped => Undisturbed(p, s)

LEMMA UndisturbedFound ==
    ASSUME Typed, Heirs, Served, NEW p \in Replicas, BootFind(p),
           NEW d \in Marked, NEW s, s = Noted(d), s.new \notin seen'.lapped
    PROVE  Undisturbed(p, s)'
  <1>1. /\ docs' = docs /\ req' = req /\ Boots(p, "find")
        /\ seen'.lapped = seen.lapped \cup {docs[e].marker : e \in {f \in Marked : Accompanied(p)}}
    BY BootFindEffect
  <1>2. s.id = d /\ s.status = docs[d].status /\ s.new = docs[d].marker /\ d \in Ids
    BY NotedType DEF Marked
  <1>3. ~Accompanied(p)
    BY <1>1, <1>2
  <1>4. \A q \in Replicas \ {p} : proc[q] = Down /\ proc'[q] = Down
    BY <1>3, BootFindEffect DEF Accompanied, Turns
  <1>5. proc[p] # Serving
    BY <1>1, ProcessFields DEF Boots
  <1>6. \A r \in Requests : req[r] = Idle
    <2>1. \A r \in Requests : req[r] # Idle => req[r].on \in Replicas /\ proc[req[r].on] = Serving
      BY RequestIds DEF Served
    <2>. QED
      BY <1>4, <1>5, <2>1, ProcessFields
  <1>7. \A r \in Requests : req'[r] = Idle /\ ~Bumping(r)'
    BY <1>1, <1>6, RequestFields DEF Bumping
  <1>8. Alone(p)'
    BY <1>4, <1>7 DEF Alone, Waiting
  <1>9. docs'[d].marker = s.new
        /\ (docs'[d].status = "ARCHIVED" => s.status # "ACTIVE")
    BY <1>1, <1>2
  <1>. QED
    BY <1>2, <1>7, <1>8, <1>9 DEF Undisturbed

\* With everybody else waiting, only the starts and the script act.
LEMMA AloneSteps ==
    ASSUME Typed, NEW p \in Replicas, NEW s \in Entries(p), Alone(p), [Next]_vars
    PROVE  /\ \A r \in Requests : req'[r] = Idle
           /\ \/ \E q \in Replicas : Turning(q)
              \/ FixDuplicates
              \/ docs' = docs /\ proc' = proc
  <1>1. \A q \in Replicas : proc[q] # Serving
    BY ProcessFields DEF Alone, Waiting, Boots, Entries, EntriesIn
  <1>2. \A r \in Requests : ~Started(r)
    BY <1>1, RequestFields DEF Started
  <1>3. \A r \in Requests : req'[r] = Idle
    <2>1. ASSUME NEW r \in Requests, req'[r] # Idle PROVE FALSE
      <3>1. req'[r].op # "idle" /\ Persists(r)
        BY <1>2, <2>1, SlotFrames, TypedStep, RequestFields DEF Typed, Slots
      <3>. QED
        BY <3>1, RequestFields DEF Persists, Alone
    <2>. QED
      BY <2>1
  <1>4. ~Upload
    BY <1>1, UploadEffect
  <1>5. ASSUME NEW r \in Requests, Asks(r) PROVE docs' = docs /\ proc' = proc
    <2>1. req[r].op = "idle" /\ req[r] = Idle
      BY RequestFields DEF Alone
    <2>2. proc' = proc
      BY <1>5, AskFrames
    <2>3. CASE CreateCheck(r) \/ UpdateFind(r) \/ UpdateCheck(r) \/ RemoveFind(r)
               \/ VersionFind(r) \/ VersionUpload(r)
      BY <2>2, <2>3, CreateCheckEffect, UpdateFindEffect, UpdateCheckEffect, RemoveFindEffect,
         VersionFindEffect, VersionUploadEffect DEF Untouched
    <2>4. CASE CreateInsert(r) \/ UpdateSave(r) \/ RemoveSave(r)
      BY <2>1, <2>4 DEF CreateInsert, UpdateSave, RemoveSave
    <2>5. CASE \/ VersionArchive(r) \/ VersionInsert(r)
               \/ VersionDocumento(r) \/ VersionClear(r) \/ VersionUndo(r) \/ VersionRestore(r)
      BY <2>1, <2>5, VersionArchiveEffect, VersionInsertEffect,
         VersionDocumentoEffect, VersionClearEffect, VersionUndoEffect, VersionRestoreEffect
    <2>. QED
      BY <1>5, <2>3, <2>4, <2>5 DEF Asks
  <1>6. UNCHANGED vars => docs' = docs /\ proc' = proc
    BY DEF vars
  <1>7. (\E q \in Replicas : Turning(q)) \/ FixDuplicates \/ (docs' = docs /\ proc' = proc)
    BY <1>4, <1>5, <1>6, Actors
  <1>. QED
    BY <1>3, <1>7

LEMMA ApartAlone ==
    ASSUME Typed, Heirs, Reserved, NEW p \in Replicas, NEW s \in Entries(p), s \in Entries(p)',
           Undisturbed(p, s), Present(s.id), s.new \notin seen'.lapped, [Next]_vars
    PROVE  \/ docs'[s.id].status = "absent"
           \/ /\ docs'[s.id].marker = s.new
              /\ Alone(p)'
              /\ docs'[s.id].status = "ARCHIVED" => s.id \in seen'.scripted \/ s.status # "ACTIVE"
  <1>1. /\ Alone(p) /\ docs[s.id].marker = s.new
        /\ docs[s.id].status = "ARCHIVED" => s.id \in seen.scripted \/ s.status # "ACTIVE"
    BY DEF Undisturbed
  <1>2. s.id \in Ids /\ s.new \in Ids /\ s.new # 0 /\ seen.scripted \subseteq seen'.scripted
    <2>1. s.id \in Ids /\ s.new \in Ids
      BY RequestIds
    <2>. QED
      BY <2>1, Frames, TypologyAssumption DEF Ids, SeenGrows
  <1>3. \A r \in Requests : req'[r] = Idle
    BY <1>1, AloneSteps
  <1>4. docs'[s.id] = docs[s.id] /\ (\A q \in Replicas \ {p} : Waiting(q)') =>
            /\ docs'[s.id].marker = s.new /\ Alone(p)'
            /\ docs'[s.id].status = "ARCHIVED" => s.id \in seen'.scripted \/ s.status # "ACTIVE"
    BY <1>1, <1>2, <1>3 DEF Alone
  <1>5. proc' = proc => \A q \in Replicas \ {p} : Waiting(q)'
    BY <1>1 DEF Alone, Waiting, Boots
  <1>6. CASE FixDuplicates
    <2>1. /\ proc' = proc /\ docs'[s.id].marker = docs[s.id].marker
          /\ docs'[s.id] = docs[s.id]
             \/ s.id \in seen'.scripted
      BY <1>2, <1>6, FixDuplicatesEffect
    <2>. QED
      BY <1>1, <1>3, <1>4, <1>5, <2>1 DEF Alone
  <1>7. ASSUME NEW q \in Replicas \ {p}, Turning(q)
        PROVE  docs'[s.id] = docs[s.id] /\ \A o \in Replicas \ {p} : Waiting(o)'
    <2>1. Waiting(q)
      BY <1>1 DEF Alone
    <2>2. proc[p] # Down
      BY EntriesCases DEF Entries
    <2>3. ~BootFind(q)
      <3>1. ASSUME BootFind(q) PROVE FALSE
        <4>1. Accompanied(q)
          BY <2>2 DEF Accompanied
        <4>2. s.id \in Marked
          BY <1>1, <1>2 DEF Marked
        <4>3. docs[s.id].marker \in seen'.lapped
          BY <3>1, <4>1, <4>2, BootFindEffect
        <4>. QED
          BY <1>1, <4>3
      <3>. QED
        BY <3>1
    <2>4. BootStart(q) \/ BootSync(q) \/ Crash(q)
      BY <1>7, <2>1, <2>3, ProcessFields
         DEF Turning, Waiting, Boots, BootLook, BootDelete, BootRestore, BootClear, BootDone
    <2>5. docs' = docs /\ \E x \in {Down} \cup Begun : Turns(q, x)
      BY <2>4, BootStartEffect, BootSyncEffect, CrashEffect
    <2>6. Waiting(q)' /\ \A o \in Replicas \ {q} : proc'[o] = proc[o]
      BY <2>5, ProcessFields DEF Turns, Waiting, Boots
    <2>7. \A o \in Replicas \ {p, q} : Waiting(o)'
      BY <1>1, <2>6 DEF Alone, Waiting, Boots
    <2>. QED
      BY <2>5, <2>6, <2>7
  <1>8. ASSUME Turning(p)
        PROVE  \/ docs'[s.id].status = "absent"
               \/ docs'[s.id] = docs[s.id] /\ \A o \in Replicas \ {p} : Waiting(o)'
    <2>1. \A o \in Replicas \ {p} : proc'[o] = proc[o]
      <3>1. \E x \in Process : Turns(p, x)
        BY <1>8, BootStartEffect, BootSyncEffect, BootFindEffect, BootLookEffect,
           BootDeleteEffect, BootRestoreEffect, BootClearEffect, BootDoneEffect, CrashEffect
           DEF Turning, TurnsOn, Turns
      <3>. QED
        BY <3>1 DEF Turns
    <2>2. \A o \in Replicas \ {p} : Waiting(o)'
      BY <1>1, <2>1 DEF Alone, Waiting, Boots
    <2>3. CASE BootDelete(p)
      <3>1. docs'[s.id] = docs[s.id] \/ docs'[s.id] = Absent
        BY <1>2, <2>3, BootDeleteEffect DEF Puts
      <3>. QED
        BY <2>2, <3>1, AbsentType
    <2>4. CASE BootRestore(p) \/ BootClear(p)
      <3>1. proc[p] \in Mending /\ TurnsOn(p)
        BY <2>4, BootRestoreEffect, BootClearEffect DEF Mends
      <3>2. s \in proc[p].todo
        BY <3>1, EntriesCases DEF TurnsOn, Turns, Entries
      <3>3. s # proc[p].doc /\ proc[p].doc \in Entries(p)
        BY <3>1, <3>2, EntriesCases DEF Reserved, Entries
      <3>4. s.id # proc[p].doc.id
        BY <3>3 DEF Reserved
      <3>5. \E row \in Doc : Rewrites(proc[p].doc.id, row)
        BY <2>4, BootRestoreEffect, BootClearEffect
      <3>. QED
        BY <1>2, <2>2, <3>4, <3>5 DEF Rewrites, Puts
    <2>5. CASE ~(BootDelete(p) \/ BootRestore(p) \/ BootClear(p))
      <3>1. docs' = docs
        BY <1>8, <2>5, BootStartEffect, BootSyncEffect, BootFindEffect, BootLookEffect,
           BootDoneEffect, CrashEffect DEF Turning
      <3>. QED
        BY <2>2, <3>1
    <2>. QED
      BY <2>3, <2>4, <2>5
  <1>9. CASE docs' = docs /\ proc' = proc
    BY <1>4, <1>5, <1>9
  <1>10. CASE \E q \in Replicas : Turning(q)
    BY <1>4, <1>7, <1>8, <1>10
  <1>. QED
    BY <1>1, <1>6, <1>9, <1>10, AloneSteps

LEMMA RepairsApartStep ==
    Typed /\ Heirs /\ Fresh /\ Owned /\ Served /\ Reserved /\ RepairsApart /\ [Next]_vars
    => RepairsApart'
  <1>. SUFFICES ASSUME Typed, Heirs, Fresh, Owned, Served, Reserved, RepairsApart, [Next]_vars,
                       NEW p \in Replicas, NEW s \in Entries(p)', s.new \notin seen'.lapped
                PROVE  Undisturbed(p, s)'
    BY DEF RepairsApart
  <1>1. CASE s \notin Entries(p)
    <2>1. BootFind(p) /\ \E d \in Marked : s = Noted(d)
      BY <1>1, EntryFrames
    <2>. QED
      BY <2>1, UndisturbedFound
  <1>2. CASE s \in Entries(p)
    <2>1. Undisturbed(p, s)
      <3>1. s.new \notin seen.lapped
        BY Frames DEF SeenGrows
      <3>. QED
        BY <1>2, <3>1 DEF RepairsApart
    <2>2. s.id \in Ids /\ s.new \in Ids /\ s.new \in seen.heirs[s.id]
      BY <1>2, RequestIds DEF Heirs
    <2>3. ASSUME NEW r \in Requests, Bumping(r)', req'[r].new = s.new PROVE FALSE
      <3>1. s.new # next
        BY <2>2 DEF Fresh, Ids
      <3>2. Names(r, s.new)
        BY <2>2, <2>3, <3>1, NewNames DEF Names
      <3>. QED
        BY <2>1, <2>2, <3>2 DEF Names, Undisturbed, Owned
    <2>4. CASE ~Present(s.id)
      <3>1. \A r \in Requests : ~Inserting(r, s.id)
        BY <1>2 DEF Reserved
      <3>2. docs'[s.id].status = "absent"
        BY <2>2, <2>4, <3>1, DocFrames DEF Stays, Present
      <3>. QED
        BY <2>3, <3>2 DEF Undisturbed, Present
    <2>5. CASE Present(s.id)
      <3>1. \/ docs'[s.id].status = "absent"
            \/ /\ docs'[s.id].marker = s.new
               /\ Alone(p)'
               /\ docs'[s.id].status = "ARCHIVED" => s.id \in seen'.scripted \/ s.status # "ACTIVE"
        BY <1>2, <2>1, <2>5, ApartAlone
      <3>. QED
        BY <2>3, <3>1 DEF Undisturbed, Present
    <2>. QED
      BY <2>4, <2>5
  <1>. QED
    BY <1>1, <1>2

LEMMA RepairsApartAlways == Spec => []RepairsApart
  <1>1. Init => RepairsApart
    BY InitFacts DEF RepairsApart
  <1>. QED
    BY <1>1, TypedAlways, HeirsAlways, FreshAlways, OwnedAlways, ServedAlways, ReservedAlways,
       RepairsApartStep, PTL DEF Spec

-----------------------------------------------------------------------------
(* A version that was answered is kept *)

\* What p does about its document is still right: it clears the marker of a
\* version that is there, and deletes no version that was answered.
CurrentOK ==
    \A p \in Replicas :
        proc[p] \in Mending /\ proc[p].doc.new \notin seen.lapped =>
            /\ proc[p].at = "clear" => ~Present(proc[p].doc.id) \/ Written(proc[p].doc.new)
            /\ proc[p].at = "delete" /\ proc[p].doc.new \in seen.answered =>
                    ~Live(proc[p].doc.new)

\* A bump about to answer has its version written.
Finished ==
    \A r \in Requests :
        Bumping(r) /\ req[r].at = "clear" /\ req[r].new \notin seen.lapped => Written(req[r].new)

Kept == \A n \in seen.answered \ seen.lapped : Written(n)

Settled == CurrentOK /\ Finished /\ Kept

LEMMA MendingEntry ==
    ASSUME Typed, NEW p \in Replicas, proc[p] \in Mending
    PROVE  /\ proc[p].doc \in Entries(p) /\ proc[p].doc.id \in Ids /\ proc[p].doc.new \in Ids
           /\ Mends(p, proc[p].at)
  <1>1. proc[p].doc \in Entries(p)
    BY EntriesCases DEF Entries
  <1>2. Mends(p, proc[p].at)
    BY ProcessFields DEF Mends, Mending
  <1>. QED
    BY <1>1, <1>2, RequestIds

\* A request other than the one that acts stays as it is.
LEMMA AskMoves ==
    ASSUME Typed, NEW r \in Requests, Asks(r)
    PROVE  \A q \in Requests \ {r} : req'[q] = req[q]
  <1>1. CASE CreateCheck(r) \/ UpdateFind(r) \/ UpdateCheck(r) \/ RemoveFind(r) \/ VersionFind(r)
    BY <1>1, CreateCheckEffect, UpdateFindEffect, UpdateCheckEffect, RemoveFindEffect,
       VersionFindEffect DEF Moves, Goes, Answered
  <1>2. CASE CreateInsert(r) \/ UpdateSave(r) \/ RemoveSave(r) \/ VersionClear(r) \/ VersionRestore(r)
    BY <1>2, CreateInsertEffect, UpdateSaveEffect, RemoveSaveEffect, VersionClearEffect,
       VersionRestoreEffect DEF Answered, Moves
  <1>3. CASE VersionArchive(r) \/ VersionInsert(r) \/ VersionUpload(r)
             \/ VersionDocumento(r) \/ VersionUndo(r)
    <2>1. Answered(r) \/ \E at \in BumpSteps : Continues(r, at)
      BY <1>3, VersionArchiveEffect, VersionInsertEffect, VersionUploadEffect,
         VersionDocumentoEffect, VersionUndoEffect DEF BumpSteps
    <2>. QED
      BY <2>1 DEF Answered, Continues, Goes, Moves
  <1>. QED
    BY <1>1, <1>2, <1>3 DEF Asks

\* A bump comes to its last step by writing documento.
LEMMA ClearFrames ==
    ASSUME Typed, [Next]_vars, NEW r \in Requests, Bumping(r)', req'[r].at = "clear"
    PROVE  /\ Bumping(r) /\ req'[r].new = req[r].new
           /\ \/ req[r].at = "clear"
              \/ docs'[req[r].new].status # "absent" /\ docs'[req[r].new].file
  <1>1. req'[r] = req[r] =>
            Bumping(r) /\ req'[r].new = req[r].new /\ req[r].at = "clear"
    BY DEF Bumping
  <1>2. ASSUME NEW q \in Requests, Asks(q), q # r PROVE req'[r] = req[r]
    BY <1>2, AskMoves
  <1>3. ~Answered(r)
    BY DEF Answered, Bumping, Idle
  <1>4. ASSUME NEW at \in BumpSteps \ {"clear"}, Continues(r, at) PROVE FALSE
    BY <1>4 DEF Continues, Goes
  <1>5. ASSUME Asks(r)
        PROVE  \/ req'[r] = req[r]
               \/ Bumping(r) /\ req'[r].new = req[r].new
                  /\ docs'[req[r].new].status # "absent" /\ docs'[req[r].new].file
    <2>1. CASE VersionDocumento(r)
      BY <1>4, <2>1, VersionDocumentoEffect DEF BumpSteps, Bumping, Continues
    <2>2. CASE VersionArchive(r) \/ VersionInsert(r) \/ VersionUpload(r) \/ VersionUndo(r)
      BY <1>3, <1>4, <2>2, VersionArchiveEffect, VersionInsertEffect, VersionUploadEffect,
         VersionUndoEffect DEF BumpSteps
    <2>3. CASE CreateInsert(r) \/ UpdateSave(r) \/ RemoveSave(r) \/ VersionClear(r) \/ VersionRestore(r)
      BY <1>3, <2>3, CreateInsertEffect, UpdateSaveEffect, RemoveSaveEffect, VersionClearEffect,
         VersionRestoreEffect
    <2>4. CASE UpdateFind(r) \/ RemoveFind(r) \/ VersionFind(r)
      BY <2>4, UpdateFindEffect, RemoveFindEffect, VersionFindEffect DEF Bumping, Update, Removal
    <2>5. CASE UpdateCheck(r)
      BY <1>3, <2>5, UpdateCheckEffect DEF Bumping, Update, Goes
    <2>6. CASE CreateCheck(r)
      BY <2>6, CreateCheckEffect DEF Bumping, Creation
    <2>. QED
      BY <1>5, <2>1, <2>2, <2>3, <2>4, <2>5, <2>6 DEF Asks
  <1>6. ASSUME NEW p \in Replicas, Turning(p) PROVE req'[r] = req[r]
    <2>1. CASE Crash(p)
      BY <1>3, <2>1, CrashEffect DEF Bumping, Idle
    <2>2. CASE ~Crash(p)
      BY <1>6, <2>2, BootStartEffect, BootSyncEffect, BootFindEffect, BootLookEffect,
         BootDeleteEffect, BootRestoreEffect, BootClearEffect, BootDoneEffect DEF Turning
    <2>. QED
      BY <2>1, <2>2
  <1>7. Upload \/ FixDuplicates \/ UNCHANGED vars => req'[r] = req[r]
    BY UploadEffect, FixDuplicatesEffect DEF vars
  <1>8. \/ req'[r] = req[r]
        \/ Bumping(r) /\ req'[r].new = req[r].new
           /\ docs'[req[r].new].status # "absent" /\ docs'[req[r].new].file
    BY <1>2, <1>5, <1>6, <1>7, Actors
  <1>. QED
    BY <1>1, <1>8

LEMMA FinishedStep ==
    Typed /\ Owned /\ Reserved /\ RepairsApart /\ Settled /\ [Next]_vars => Finished'
  <1>. SUFFICES ASSUME Typed, Owned, Reserved, RepairsApart, Settled, [Next]_vars,
                       NEW r \in Requests, Bumping(r)', req'[r].at = "clear",
                       req'[r].new \notin seen'.lapped
                PROVE  docs'[req'[r].new].status # "absent" /\ docs'[req'[r].new].file
    BY DEF Finished, Written, Present
  <1>. DEFINE n == req[r].new
  <1>1. /\ Bumping(r) /\ req'[r].new = n
        /\ \/ req[r].at = "clear"
           \/ docs'[n].status # "absent" /\ docs'[n].file
    BY ClearFrames
  <1>2. n \in Ids /\ n \notin seen.lapped /\ Names(r, n)
    BY <1>1, RequestIds, Frames DEF SeenGrows, Names
  <1>. HIDE DEF n
  <1>3. CASE req[r].at = "clear"
    <2>1. Written(n)
      BY <1>1, <1>2, <1>3 DEF Settled, Finished, n
    <2>2. \A q \in Requests : ~Inserting(q, n)
      BY <1>2, <2>1 DEF Reserved, Written
    <2>3. ~Deletes(n)
      <3>1. ASSUME NEW q \in Requests, VersionUndo(q), req[q].new = n PROVE FALSE
        <4>1. Names(q, n) /\ req[q].at = "undo"
          BY <3>1, VersionUndoEffect DEF Names, Bumping
        <4>2. q = r
          BY <1>2, <4>1 DEF Owned
        <4>. QED
          BY <1>3, <4>1, <4>2
      <3>2. ASSUME NEW p \in Replicas, BootDelete(p), proc[p].doc.new = n PROVE FALSE
        <4>1. proc[p].doc \in Entries(p)
          BY <3>2, BootDeleteEffect, MendingEntry DEF Mends
        <4>. QED
          BY <1>1, <1>2, <3>2, <4>1 DEF RepairsApart, Undisturbed, n
      <3>. QED
        BY <3>1, <3>2 DEF Deletes
    <2>. QED
      BY <1>1, <1>2, <2>1, <2>2, <2>3, DocFrames DEF Stays
  <1>. QED
    BY <1>1, <1>3

LEMMA KeptStep ==
    Typed /\ Owned /\ Settled /\ [Next]_vars => Kept'
  <1>. SUFFICES ASSUME Typed, Owned, Settled, [Next]_vars,
                       NEW n \in seen'.answered, n \notin seen'.lapped
                PROVE  docs'[n].status # "absent" /\ docs'[n].file
    BY DEF Kept, Written, Present
  <1>1. n \in Ids /\ n \notin seen.lapped
    BY Frames, TypedStep DEF Typed, Observation, SeenGrows
  <1>2. CASE n \in seen.answered
    <2>1. Written(n)
      BY <1>1, <1>2 DEF Settled, Kept
    <2>2. \A q \in Requests : ~Names(q, n)
      BY <1>1, <1>2 DEF Owned
    <2>3. \A q \in Requests : ~Inserting(q, n)
      BY <2>2 DEF Inserting, Names
    <2>4. ~Deletes(n)
      <3>1. ASSUME NEW q \in Requests, VersionUndo(q), req[q].new = n PROVE FALSE
        BY <2>2, <3>1, VersionUndoEffect DEF Names, Bumping
      <3>2. ASSUME NEW p \in Replicas, BootDelete(p), proc[p].doc.new = n, Live(n) PROVE FALSE
        <4>1. proc[p] \in Mending /\ proc[p].at = "delete"
          BY <3>2, BootDeleteEffect DEF Mends
        <4>. QED
          BY <1>1, <1>2, <3>2, <4>1 DEF Settled, CurrentOK
      <3>. QED
        BY <3>1, <3>2 DEF Deletes
    <2>. QED
      BY <1>1, <2>1, <2>3, <2>4, DocFrames DEF Stays
  <1>3. CASE n \notin seen.answered
    <2>1. PICK r \in Requests : VersionClear(r) /\ req[r].new = n
      BY <1>3, Novelties DEF NewsKnown
    <2>2. Written(n)
      BY <1>1, <2>1, VersionClearEffect DEF Settled, Finished, Bumping
    <2>3. FilesKept
      BY <2>1, BumpFrames
    <2>. QED
      BY <1>1, <2>2, <2>3 DEF FilesKept, Written, Present
  <1>. QED
    BY <1>2, <1>3

LEMMA CurrentOKStep ==
    Typed /\ Owned /\ Reserved /\ RepairsApart /\ Settled /\ [Next]_vars => CurrentOK'
  <1>. SUFFICES ASSUME Typed, Owned, Reserved, RepairsApart, Settled, [Next]_vars,
                       NEW p \in Replicas, proc'[p] \in Mending,
                       proc'[p].doc.new \notin seen'.lapped
                PROVE  /\ proc'[p].at = "clear" =>
                            \/ docs'[proc'[p].doc.id].status = "absent"
                            \/ /\ docs'[proc'[p].doc.new].status # "absent"
                               /\ docs'[proc'[p].doc.new].file
                       /\ proc'[p].at = "delete" /\ proc'[p].doc.new \in seen'.answered =>
                            docs'[proc'[p].doc.new].status = "absent" \/ docs'[proc'[p].doc.new].deleted
    BY DEF CurrentOK, Written, Present, Live
  <1>1. CASE BootLook(p)
    <2>1. docs' = docs /\ seen' = seen
      BY <1>1, BootLookEffect
    <2>2. /\ proc'[p].at = IF FullyWritten(proc'[p].doc.new) THEN "clear" ELSE "delete"
      BY <1>1, BootLookEffect DEF Turns
    <2>3. proc'[p].doc.new \in seen.answered => Written(proc'[p].doc.new)
      BY <2>1 DEF Settled, Kept
    <2>. QED
      BY <2>1, <2>2, <2>3 DEF FullyWritten, Live, Written
  <1>2. CASE BootDelete(p) /\ proc'[p].at = "restore"
    BY <1>2
  <1>3. CASE proc'[p] = proc[p]
    <2>. DEFINE d == proc[p].doc.id
                n == proc[p].doc.new
    <2>1. d \in Ids /\ n \in Ids /\ proc[p].doc \in Entries(p) /\ Mends(p, proc[p].at)
      BY <1>3, MendingEntry
    <2>2. n \notin seen.lapped /\ n \notin seen'.lapped
      BY <1>3, Frames DEF SeenGrows
    <2>3. Undisturbed(p, proc[p].doc)
      BY <2>1, <2>2 DEF RepairsApart
    <2>4. /\ proc[p].at = "clear" => ~Present(d) \/ Written(n)
          /\ proc[p].at = "delete" /\ n \in seen.answered => ~Live(n)
      BY <1>3, <2>2 DEF Settled, CurrentOK
    <2>5. ASSUME proc[p].at = "clear", docs'[d].status # "absent"
          PROVE  docs'[n].status # "absent" /\ docs'[n].file
      <3>1. \A r \in Requests : ~Inserting(r, d)
        BY <2>1 DEF Reserved
      <3>2. Present(d)
        BY <2>1, <2>5, <3>1, DocFrames DEF Stays, Present
      <3>3. Written(n) /\ Alone(p)
        BY <2>3, <2>4, <2>5, <3>2 DEF Undisturbed
      <3>4. \A r \in Requests : ~Inserting(r, n) /\ ~VersionUndo(r)
        BY <3>3, RequestFields, VersionUndoEffect DEF Alone, Inserting, Bumping
      <3>5. ASSUME NEW q \in Replicas, BootDelete(q) PROVE FALSE
        <4>1. Mends(q, "delete")
          BY <3>5, BootDeleteEffect
        <4>2. ~Waiting(q)
          BY <4>1, ProcessFields DEF Mends, Waiting, Boots
        <4>. QED
          BY <2>5, <3>3, <4>1, <4>2 DEF Alone, Mends
      <3>6. ~Deletes(n)
        BY <3>4, <3>5 DEF Deletes
      <3>. QED
        BY <2>1, <3>3, <3>4, <3>6, DocFrames DEF Stays
    <2>6. ASSUME proc[p].at = "delete", n \in seen'.answered
          PROVE  docs'[n].status = "absent" \/ docs'[n].deleted
      <3>1. n \in seen.answered
        <4>1. \A r \in Requests : ~(VersionClear(r) /\ req[r].new = n)
          BY <2>3, VersionClearEffect DEF Undisturbed, Bumping
        <4>. QED
          BY <2>6, <4>1, Novelties DEF NewsKnown
      <3>2. \A r \in Requests : ~Inserting(r, n)
        BY <2>1, <3>1 DEF Owned, Names, Inserting
      <3>. QED
        BY <2>1, <2>4, <2>6, <3>1, <3>2, DocFrames DEF Stays
    <2>. QED
      BY <1>3, <2>5, <2>6
  <1>. QED
    BY <1>1, <1>2, <1>3, MendFrames

LEMMA SettledAlways == Spec => []Settled
  <1>1. Init => Settled
    <2>1. \A x \in {Down, Serving} : x \notin Mending
      BY ProcessFields
    <2>. QED
      BY <2>1, InitFacts, RequestFields DEF Settled, CurrentOK, Finished, Kept, Bumping
  <1>2. Typed /\ Owned /\ Reserved /\ RepairsApart /\ Settled /\ [Next]_vars => Settled'
    BY FinishedStep, KeptStep, CurrentOKStep DEF Settled
  <1>. QED
    BY <1>1, <1>2, TypedAlways, OwnedAlways, ReservedAlways, RepairsApartAlways, PTL DEF Spec

\* A version that was answered as created stays in the collection: no rollback
\* and no start takes it for a partial one, unless a replica that started beside
\* another one found the marker of this very version.
THEOREM AnsweredVersionKeptCorrect == Spec => []AnsweredVersionKept
  <1>1. Settled => AnsweredVersionKept
    BY DEF Settled, Kept, Written, Present, AnsweredVersionKept
  <1>. QED
    BY <1>1, SettledAlways, PTL

-----------------------------------------------------------------------------
(* A superseded version has a successor *)

Superseded(d) ==
    /\ docs[d].status = "ARCHIVED" /\ docs[d].marker = 0 /\ d \notin seen.scripted
    /\ seen.heirs[d] \cap seen.lapped = {}

\* n replaces d for good: it is written, and the bump that made it is over or
\* about to answer.
Succeeds(n, d) ==
    /\ n \in seen.heirs[d] /\ Written(n)
    /\ \A r \in Requests : Bumping(r) /\ req[r].new = n => req[r].at = "clear"

Succeeded == \A d \in Ids : Superseded(d) => \E n \in seen.heirs[d] : Succeeds(n, d)

\* The heir of a document without marker outlives the step.
LEMMA SuccessorStays ==
    ASSUME Typed, Heirs, Fresh, Owned, Reserved, RepairsApart, [Next]_vars,
           NEW d \in Ids, Present(d), docs[d].marker = 0,
           NEW n \in Ids, Succeeds(n, d), n \notin seen.lapped
    PROVE  Succeeds(n, d)'
  <1>1. n \in seen.heirs[d] /\ Written(n)
        /\ \A r \in Requests : Bumping(r) /\ req[r].new = n => req[r].at = "clear"
    BY DEF Succeeds
  <1>2. \A q \in Requests : ~Inserting(q, n)
    BY <1>1 DEF Reserved, Written
  <1>3. ~Deletes(n)
    <2>1. ASSUME NEW q \in Requests, VersionUndo(q), req[q].new = n PROVE FALSE
      BY <1>1, <2>1, VersionUndoEffect DEF Bumping
    <2>2. ASSUME NEW p \in Replicas, BootDelete(p), proc[p].doc.new = n PROVE FALSE
      <3>1. proc[p].doc \in Entries(p) /\ proc[p].doc.id \in Ids
        BY <2>2, BootDeleteEffect, MendingEntry DEF Mends
      <3>2. n \in seen.heirs[proc[p].doc.id]
        BY <2>2, <3>1 DEF Heirs
      <3>3. proc[p].doc.id = d
        BY <1>1, <3>1, <3>2 DEF Owned
      <3>4. docs[d].marker = n
        BY <2>2, <3>1, <3>3 DEF RepairsApart, Undisturbed
      <3>. QED
        BY <3>4, TypologyAssumption DEF Ids
    <2>. QED
      BY <2>1, <2>2 DEF Deletes
  <1>4. docs'[n].status # "absent" /\ docs'[n].file
    BY <1>1, <1>2, <1>3, DocFrames DEF Stays
  <1>5. ASSUME NEW r \in Requests, Bumping(r)', req'[r].new = n PROVE req'[r].at = "clear"
    <2>1. n < next /\ n # next
      BY <1>1 DEF Fresh, Ids
    <2>2. ~Started(r)
      BY <1>5, <2>1 DEF Started, Bumping
    <2>3. ~(\A q \in Requests : ~VersionFind(q)) => req'[r] = req[r]
      <3>1. ASSUME NEW q \in Requests, VersionFind(q) PROVE req'[r] = req[r]
        <4>1. q # r
          BY <1>5, <2>1, <3>1, VersionFindEffect
        <4>. QED
          BY <3>1, <4>1, VersionFindEffect DEF Moves
      <3>. QED
        BY <3>1
    <2>4. BumpsKept \/ req'[r] = req[r]
      BY <2>3, Frames
    <2>. QED
      BY <1>1, <1>5, <2>4 DEF BumpsKept, Bumping
  <1>6. n \in seen'.heirs[d]
    BY <1>1, Frames DEF SeenGrows
  <1>. QED
    BY <1>4, <1>5, <1>6 DEF Succeeds, Written, Present

\* The step that takes the marker off leaves a successor.
LEMMA SuccessorFound ==
    ASSUME Typed, Heirs, Owned, RepairsApart, Settled, [Next]_vars,
           NEW d \in Ids, Present(d), docs[d].status = "ARCHIVED", d \notin seen.scripted,
           seen.heirs[d] \cap seen.lapped = {}, Releases(d)
    PROVE  \E n \in Ids :
            /\ n \in seen.heirs[d] /\ docs'[n].status # "absent" /\ docs'[n].file
            /\ \A r \in Requests : Bumping(r)' => req'[r].new # n
  <1>1. ASSUME NEW r \in Requests, VersionClear(r), req[r].id = d
        PROVE  /\ req[r].new \in Ids /\ req[r].new \in seen.heirs[d]
               /\ docs'[req[r].new].status # "absent" /\ docs'[req[r].new].file
               /\ \A q \in Requests : Bumping(q)' => req'[q].new # req[r].new
    <2>1. Bumping(r) /\ req[r].at = "clear" /\ Answered(r)
      BY <1>1, VersionClearEffect DEF Bumping
    <2>2. req[r].new \in Ids /\ req[r].new \in seen.heirs[d]
      BY <1>1, <2>1, RequestIds DEF Heirs
    <2>3. Written(req[r].new)
      BY <2>1, <2>2 DEF Settled, Finished
    <2>4. FilesKept /\ BumpsKept
      BY <1>1, BumpFrames
    <2>5. docs'[req[r].new].status # "absent" /\ docs'[req[r].new].file
      BY <2>2, <2>3, <2>4 DEF FilesKept, Written, Present
    <2>6. ASSUME NEW q \in Requests, Bumping(q)', req'[q].new = req[r].new PROVE FALSE
      <3>1. Names(q, req[r].new) /\ Names(r, req[r].new)
        BY <2>1, <2>4, <2>6 DEF BumpsKept, Names
      <3>2. q = r
        BY <2>2, <3>1 DEF Owned
      <3>. QED
        BY <2>1, <2>6, <3>2 DEF Answered, Bumping, Idle
    <2>. QED
      BY <2>2, <2>5, <2>6
  <1>2. ASSUME NEW p \in Replicas, proc[p] \in Mending, proc[p].doc.id = d
        PROVE  /\ proc[p].doc.new \in Ids /\ proc[p].doc.new \in seen.heirs[d]
               /\ proc[p].doc.new \notin seen.lapped
               /\ Undisturbed(p, proc[p].doc)
    <2>1. proc[p].doc \in Entries(p) /\ proc[p].doc.new \in Ids
      BY <1>2, MendingEntry
    <2>2. proc[p].doc.new \in seen.heirs[d]
      BY <1>2, <2>1 DEF Heirs
    <2>. QED
      BY <2>1, <2>2 DEF RepairsApart
  <1>3. ASSUME NEW p \in Replicas, BootClear(p), proc[p].doc.id = d
        PROVE  /\ proc[p].doc.new \in Ids /\ proc[p].doc.new \in seen.heirs[d]
               /\ docs'[proc[p].doc.new].status # "absent" /\ docs'[proc[p].doc.new].file
               /\ \A q \in Requests : Bumping(q)' => req'[q].new # proc[p].doc.new
    <2>1. proc[p] \in Mending /\ proc[p].at = "clear" /\ req' = req
      BY <1>3, BootClearEffect DEF Mends
    <2>2. /\ proc[p].doc.new \in Ids /\ proc[p].doc.new \in seen.heirs[d]
          /\ proc[p].doc.new \notin seen.lapped /\ Undisturbed(p, proc[p].doc)
      BY <1>2, <1>3, <2>1
    <2>3. Written(proc[p].doc.new)
      BY <1>3, <2>1, <2>2 DEF Settled, CurrentOK
    <2>4. FilesKept
      BY <1>3, BootFrames
    <2>5. docs'[proc[p].doc.new].status # "absent" /\ docs'[proc[p].doc.new].file
      BY <2>2, <2>3, <2>4 DEF FilesKept, Written, Present
    <2>. QED
      BY <2>1, <2>2, <2>5 DEF Undisturbed, Bumping
  <1>4. ASSUME NEW p \in Replicas, BootRestore(p), proc[p].doc.id = d, proc[p].doc.status = "ACTIVE"
        PROVE  FALSE
    <2>1. proc[p] \in Mending
      BY <1>4, BootRestoreEffect DEF Mends
    <2>. QED
      BY <1>2, <1>4, <2>1 DEF Undisturbed
  <1>. QED
    BY <1>1, <1>3, <1>4 DEF Releases

LEMMA SucceededStep ==
    Typed /\ Heirs /\ Fresh /\ Owned /\ Reserved /\ RepairsApart /\ Settled /\ Succeeded
    /\ [Next]_vars => Succeeded'
  <1>. SUFFICES ASSUME Typed, Heirs, Fresh, Owned, Reserved, RepairsApart, Settled, Succeeded,
                       [Next]_vars, NEW d \in Ids, Superseded(d)'
                PROVE  \E n \in seen'.heirs[d] : Succeeds(n, d)'
    BY DEF Succeeded
  <1>1. /\ docs'[d].status = "ARCHIVED" /\ docs'[d].marker = 0 /\ d \notin seen'.scripted
        /\ seen'.heirs[d] \cap seen'.lapped = {}
    BY DEF Superseded
  <1>2. SeenGrows
    BY Frames
  <1>3. /\ d \notin seen.scripted /\ seen.heirs[d] \cap seen.lapped = {}
        /\ seen.heirs[d] \subseteq seen'.heirs[d] /\ seen.heirs[d] \subseteq Ids
    BY <1>1, <1>2 DEF SeenGrows, Typed, Observation
  <1>4. docs[d].status = "ARCHIVED"
    <2>1. ASSUME NEW r \in Requests, VersionArchive(r) PROVE docs[d].status = "ARCHIVED"
      <3>1. req[r].id \in Ids /\ req[r].new \in Ids /\ req[r].new # 0
        BY <2>1, VersionArchiveEffect, BumpFields, TypologyAssumption DEF Ids
      <3>2. PICK row \in Doc : Rewrites(req[r].id, row) /\ row.marker = req[r].new
        BY <2>1, VersionArchiveEffect
      <3>3. docs'[d] = docs[d] \/ docs'[d].marker = req[r].new
        BY <3>1, <3>2 DEF Rewrites, Puts
      <3>. QED
        BY <1>1, <3>1, <3>3
    <2>. QED
      BY <1>1, <2>1, Frames DEF ArchivedKept
  <1>5. Present(d)
    BY <1>4 DEF Present
  <1>6. CASE docs[d].marker = 0
    <2>1. PICK n \in seen.heirs[d] : Succeeds(n, d)
      BY <1>3, <1>4, <1>6 DEF Succeeded, Superseded
    <2>2. n \in Ids /\ n \notin seen.lapped /\ n \in seen'.heirs[d]
      BY <1>3, <2>1
    <2>3. Succeeds(n, d)'
      BY <1>5, <1>6, <2>1, <2>2, SuccessorStays
    <2>. QED
      BY <2>2, <2>3
  <1>7. CASE docs[d].marker # 0
    <2>1. Releases(d)
      BY <1>1, <1>5, <1>7, MarkerFrames DEF Present
    <2>2. PICK n \in Ids :
            /\ n \in seen.heirs[d] /\ docs'[n].status # "absent" /\ docs'[n].file
            /\ \A r \in Requests : Bumping(r)' => req'[r].new # n
      BY <1>3, <1>4, <1>5, <2>1, SuccessorFound
    <2>3. n \in seen'.heirs[d]
      BY <1>3, <2>2
    <2>4. Succeeds(n, d)'
      BY <2>2, <2>3 DEF Succeeds, Written, Present
    <2>. QED
      BY <2>3, <2>4
  <1>. QED
    BY <1>6, <1>7

LEMMA SucceededAlways == Spec => []Succeeded
  <1>1. Init => Succeeded
    <2>1. ASSUME Init, NEW d \in Ids, docs[d].status = "ARCHIVED" PROVE FALSE
      BY <2>1, InitFacts
    <2>. QED
      BY <2>1 DEF Succeeded, Superseded
  <1>. QED
    BY <1>1, TypedAlways, HeirsAlways, FreshAlways, OwnedAlways, ReservedAlways,
       RepairsApartAlways, SettledAlways, SucceededStep, PTL DEF Spec

\* "So the org is never left without one": a version that was superseded and is
\* no longer marked has an heir that is in the collection with its file, through
\* crashes, failed writes, rollbacks and reconciliations, but for the cases the
\* property names.
THEOREM SupersededHasSuccessorCorrect == Spec => []SupersededHasSuccessor
  <1>1. Succeeded => SupersededHasSuccessor
    BY DEF Succeeded, Superseded, Succeeds, Written, Present, SupersededHasSuccessor
  <1>. QED
    BY <1>1, SucceededAlways, PTL

\* Once the unique index exists, the review policy a workflow ends with is one
\* document's, and no version that was answered leaves its workflows without.
THEOREM OnePolicyCorrect == Spec => []OnePolicy
  <1>1. ASSUME Typed, OneActive, NEW d \in Ids, indexed PROVE Cardinality(PolicyOf(d)) <= 1
    <2>1. docs[d].code \in Declared
      BY <1>1, DocColumns DEF Typed
    <2>2. docs[d].code # NoCode => \A x, y \in ActiveWith(docs[d].code) : x = y
      BY <1>1, <2>1 DEF OneActive, Declared
    <2>3. \A x, y \in PolicyOf(d) : x = y
      BY <2>2 DEF PolicyOf
    <2>4. PolicyOf(d) = {} \/ \E x : PolicyOf(d) = {x}
      BY <2>3
    <2>5. Cardinality(PolicyOf(d)) = 0 \/ Cardinality(PolicyOf(d)) = 1
      <3>1. Cardinality({}) = 0 /\ \A x : Cardinality({x}) = 1
        BY FS_EmptySet, FS_Singleton
      <3>. QED
        BY <2>4, <3>1
    <2>. QED
      BY <2>5
  <1>2. ASSUME Settled, NEW n \in seen.answered, n \notin seen.lapped PROVE PolicyOf(n) # {}
    <2>1. docs[n].status # "absent"
      BY <1>2 DEF Settled, Kept, Written, Present
    <2>. QED
      BY <2>1 DEF PolicyOf
  <1>3. Typed /\ OneActive /\ Settled => OnePolicy
    BY <1>1, <1>2 DEF OnePolicy
  <1>. QED
    BY <1>3, TypedAlways, ExplainedAlways, SettledAlways, PTL

=============================================================================
