-------------------------- MODULE TypologyVersions --------------------------
(***************************************************************************)
(* The typologies of one organization in document-service and the passage  *)
(* from a version to the next (typologies.service.ts, document-upload.     *)
(* service.ts, typology.schema.ts).  MongoDB runs standalone, so a passage *)
(* is a chain of single-document writes guarded by a marker on the old     *)
(* document, which the next start of a replica reconciles.                 *)
(*                                                                         *)
(* doc.save() writes the paths that differ from what was read, whatever    *)
(* the document has become, and fails when the document is gone or when it *)
(* would collide on the partial unique index of ACTIVE codes.  A write may *)
(* also fail on the network, before or after it was applied.               *)
(*                                                                         *)
(* Declared data is complete or absent: nombre and version stand or fall   *)
(* with codigo.  Extraction of the file is the subject of Extraction.      *)
(***************************************************************************)
EXTENDS Integers, FiniteSets

CONSTANTS
    Replicas,    \* processes of document-service
    Requests,    \* slots for the requests being served at a time
    Codes,       \* values of datosDeclarados.codigo
    NoCode,      \* codigo is null
    MaxDocs,     \* bound: documents ever created
    MaxStarts,   \* bound: requests ever started
    MaxFaults,   \* bound: writes whose failure is reported
    MaxCrashes   \* bound: crashes of a replica

ASSUME TypologyAssumption ==
    /\ NoCode \notin Codes
    /\ {MaxDocs, MaxStarts, MaxFaults, MaxCrashes} \subseteq Nat
    /\ MaxDocs >= 2    \* what Beginnings puts there

VARIABLES
    docs,      \* the collection
    next,      \* the next object id
    indexed,   \* the unique index exists
    enforced,  \* codigoUniquenessEnforced of each replica
    proc,      \* what each replica does: down, serving, or starting
    req,       \* the requests in course
    bound,     \* bounds: starts, faults, crashes
    seen       \* observation: what the properties compare with

vars == <<docs, next, indexed, enforced, proc, req, bound, seen>>

Ids == 1..MaxDocs
Ref == 0..MaxDocs

Doc == [ status  : {"absent", "INCOMPLETE", "ACTIVE", "ARCHIVED", "DELETED"},
         code    : Codes \cup {NoCode},
         deleted : BOOLEAN,               \* deletedAt is set
         file    : BOOLEAN,               \* documento.r2Key is set
         marker  : Ref ]                  \* pendingVersionTransition

Absent == [status |-> "absent", code |-> NoCode, deleted |-> FALSE,
           file |-> FALSE, marker |-> 0]

Idle == [op |-> "idle"]
Down == [is |-> "down"]
Serving == [is |-> "serving"]

Live(d) == docs[d].status # "absent" /\ ~docs[d].deleted

\* hasDeclaredData, and the status every write of declared data derives
StatusFor(c) == IF c = NoCode THEN "INCOMPLETE" ELSE "ACTIVE"

ActiveWith(c) == {d \in Ids : Live(d) /\ docs[d].status = "ACTIVE" /\ docs[d].code = c}

\* A bump of d that has archived it and has not ended.
Passing(r, d) == req[r].op = "bump" /\ req[r].at # "archive" /\ req[r].id = d

TypeOK ==
    /\ docs \in [Ids -> Doc]
    /\ next \in 1..(MaxDocs + 1)
    /\ indexed \in BOOLEAN
    /\ enforced \in [Replicas -> BOOLEAN]
    /\ \A p \in Replicas : proc[p].is \in {"down", "serving", "starting"}
    /\ \A r \in Requests : req[r].op \in {"idle", "create", "update", "remove", "bump"}
    /\ bound \in [starts : 0..MaxStarts, faults : 0..MaxFaults, crashes : 0..MaxCrashes]

-----------------------------------------------------------------------------
(* Writes *)

\* The index refuses a second live ACTIVE document with the code.
Collides(d, row) ==
    /\ indexed
    /\ row.status = "ACTIVE" /\ ~row.deleted /\ row.code # NoCode
    /\ ActiveWith(row.code) \ {d} # {}

Store(d, row) == [docs EXCEPT ![d] = row]

\* One write of row to d that would land or not, reported as ok or not.
Attempt(d, row, lands, ok) ==
    \/ ok /\ lands /\ docs' = Store(d, row) /\ UNCHANGED bound
    \/ ~ok /\ ~lands /\ UNCHANGED <<docs, bound>>
    \/ /\ ~ok /\ bound.faults < MaxFaults
       /\ bound' = [bound EXCEPT !.faults = @ + 1]
       /\ docs' \in {docs} \cup (IF lands THEN {Store(d, row)} ELSE {})

Insert(d, row, ok) == Attempt(d, row, ~Collides(d, row), ok)

Save(d, row, ok) ==
    Attempt(d, row, docs[d].status # "absent" /\ ~Collides(d, row), ok)

Delete(d, ok) == Attempt(d, Absent, TRUE, ok)

-----------------------------------------------------------------------------
(* Requests *)

Start(r, m) ==
    /\ req[r] = Idle /\ bound.starts < MaxStarts
    /\ proc[m.on] = Serving
    /\ bound' = [bound EXCEPT !.starts = @ + 1]
    /\ req' = [req EXCEPT ![r] = m]

Step(r, at) == req' = [req EXCEPT ![r].at = at]
Answer(r) == req' = [req EXCEPT ![r] = Idle]

\* Mutant: the check goes on while the index is not confirmed.
UnclaimedAnyway(p, c, self) ==
    c = NoCode \/ \A d \in Ids \ {self} : ~(docs[d].status = "ACTIVE" /\ docs[d].code = c)

\* assertNoActiveDuplicateCodigo: closed while the index is not confirmed;
\* its filter does not look at deletedAt.
Unclaimed(p, c, self) ==
    \/ c = NoCode
    \/ /\ enforced[p]
       /\ \A d \in Ids \ {self} : ~(docs[d].status = "ACTIVE" /\ docs[d].code = c)

\* create, also one row of a bulk import: the check, then the insert
CreateCheck(r) ==
    \E p \in Replicas, c \in Codes \cup {NoCode} :
        /\ IF Unclaimed(p, c, 0)
           THEN next <= MaxDocs /\ next' = next + 1 /\ UNCHANGED seen
                /\ Start(r, [op |-> "create", at |-> "insert", on |-> p,
                             id |-> next, code |-> c])
           ELSE /\ proc[p] = Serving /\ enforced[p] /\ ActiveWith(c) = {}
                /\ seen' = [seen EXCEPT !.barred = TRUE]
                /\ UNCHANGED <<next, req, bound>>
        /\ UNCHANGED <<docs, indexed, enforced, proc>>

CreateInsert(r) ==
    /\ req[r].op = "create"
    /\ \E ok \in BOOLEAN :
        Insert(req[r].id,
               [Absent EXCEPT !.status = StatusFor(req[r].code), !.code = req[r].code], ok)
    /\ Answer(r)
    /\ UNCHANGED <<next, indexed, enforced, proc, seen>>

\* update, and the end of resolveDiscrepancy: read, check, save.  The status
\* is recomputed from the declared data; it is written only when it differs
\* from what was read.
UpdateFind(r) ==
    /\ \E p \in Replicas, d \in {e \in Ids : Live(e)}, c \in Codes \cup {NoCode} :
        /\ Start(r, [op |-> "update", at |-> "check", on |-> p, id |-> d,
                     code |-> c, read |-> docs[d].status])
    /\ UNCHANGED <<docs, next, indexed, enforced, proc, seen>>

UpdateCheck(r) ==
    /\ req[r].op = "update" /\ req[r].at = "check"
    /\ IF Unclaimed(req[r].on, req[r].code, req[r].id) THEN Step(r, "save") ELSE Answer(r)
    /\ UNCHANGED <<docs, next, indexed, enforced, proc, bound, seen>>

UpdateSave(r) ==
    LET d == req[r].id
        derived == StatusFor(req[r].code)
    IN  /\ req[r].op = "update" /\ req[r].at = "save"
        /\ \E ok \in BOOLEAN :
            Save(d, [docs[d] EXCEPT !.code = req[r].code,
                                    !.status = IF derived = req[r].read THEN @ ELSE derived], ok)
        /\ Answer(r)
        /\ UNCHANGED <<next, indexed, enforced, proc, seen>>

\* upload: a document without a file receives one in a single save
Upload ==
    /\ \E d \in {e \in Ids : Live(e) /\ ~docs[e].file} :
        docs' = [docs EXCEPT ![d].file = TRUE]
    /\ \E p \in Replicas : proc[p] = Serving
    /\ UNCHANGED <<next, indexed, enforced, proc, req, bound, seen>>

RemoveFind(r) ==
    /\ \E p \in Replicas, d \in {e \in Ids : Live(e)} :
        Start(r, [op |-> "remove", at |-> "save", on |-> p, id |-> d])
    /\ UNCHANGED <<docs, next, indexed, enforced, proc, seen>>

RemoveSave(r) ==
    LET d == req[r].id
    IN  /\ req[r].op = "remove"
        /\ \E ok \in BOOLEAN :
            Save(d, [docs[d] EXCEPT !.deleted = TRUE, !.status = "DELETED"], ok)
        /\ Answer(r)
        /\ UNCHANGED <<next, indexed, enforced, proc, seen>>

-----------------------------------------------------------------------------
(* createNewVersion *)

VersionFind(r) ==
    /\ next <= MaxDocs
    /\ next' = next + 1
    /\ \E p \in Replicas, d \in {e \in Ids : Live(e)} :
        /\ Start(r, [op |-> "bump", at |-> "archive", on |-> p, id |-> d,
                     new |-> next, code |-> docs[d].code, read |-> docs[d].status])
        /\ seen' = [seen EXCEPT !.heirs[d] = @ \cup {next}]
    /\ UNCHANGED <<docs, indexed, enforced, proc>>

At(r, at) == req[r].op = "bump" /\ req[r].at = at

Archived(r) == [docs[req[r].id] EXCEPT !.status = IF req[r].read = "ARCHIVED" THEN @ ELSE "ARCHIVED"]

\* Mutant: the marker is forgotten.
VersionArchiveUnmarked(r) ==
    /\ At(r, "archive")
    /\ \E ok \in BOOLEAN :
        /\ Save(req[r].id, Archived(r), ok)
        /\ IF ok THEN Step(r, "insert") ELSE Answer(r)
    /\ UNCHANGED <<next, indexed, enforced, proc, seen>>

\* step 1: archive the old version and name the new one, in one write
VersionArchive(r) ==
    /\ At(r, "archive")
    /\ \E ok \in BOOLEAN :
        /\ Save(req[r].id, [Archived(r) EXCEPT !.marker = req[r].new], ok)
        /\ IF ok THEN Step(r, "insert") ELSE Answer(r)
    /\ UNCHANGED <<next, indexed, enforced, proc, seen>>

\* step 2: the new document
VersionInsert(r) ==
    /\ At(r, "insert")
    /\ \E ok \in BOOLEAN :
        /\ Insert(req[r].new,
                  [Absent EXCEPT !.status = StatusFor(req[r].code), !.code = req[r].code], ok)
        /\ Step(r, IF ok THEN "upload" ELSE "restore")
    /\ UNCHANGED <<next, indexed, enforced, proc, seen>>

\* step 3: the file in storage
VersionUpload(r) ==
    /\ At(r, "upload")
    /\ \/ Step(r, "documento") /\ UNCHANGED bound
       \/ /\ bound.faults < MaxFaults
          /\ bound' = [bound EXCEPT !.faults = @ + 1]
          /\ Step(r, "undo")
    /\ UNCHANGED <<docs, next, indexed, enforced, proc, seen>>

\* step 4: documento on the new document
VersionDocumento(r) ==
    /\ At(r, "documento")
    /\ \E ok \in BOOLEAN :
        /\ Save(req[r].new, [docs[req[r].new] EXCEPT !.file = TRUE], ok)
        /\ Step(r, IF ok THEN "clear" ELSE "undo")
    /\ UNCHANGED <<next, indexed, enforced, proc, seen>>

\* the marker goes, best effort; the version is answered either way
VersionClear(r) ==
    /\ At(r, "clear")
    /\ \E ok \in BOOLEAN : Save(req[r].id, [docs[req[r].id] EXCEPT !.marker = 0], ok)
    /\ Answer(r)
    /\ seen' = [seen EXCEPT !.answered = @ \cup {req[r].new}]
    /\ UNCHANGED <<next, indexed, enforced, proc>>

\* rollbackFailedVersionWrite: the old one is restored once the new is gone
VersionUndo(r) ==
    /\ At(r, "undo")
    /\ \E ok \in BOOLEAN :
        /\ Delete(req[r].new, ok)
        /\ IF ok THEN Step(r, "restore") ELSE Answer(r)
    /\ UNCHANGED <<next, indexed, enforced, proc, seen>>

\* restoreOldActive, whatever the old one was before
VersionRestore(r) ==
    /\ At(r, "restore")
    /\ \E ok \in BOOLEAN :
        Save(req[r].id, [docs[req[r].id] EXCEPT !.status = "ACTIVE", !.marker = 0], ok)
    /\ Answer(r)
    /\ UNCHANGED <<next, indexed, enforced, proc, seen>>

-----------------------------------------------------------------------------
(* Starting a replica: onModuleInit *)

BootStart(p) ==
    /\ proc[p] = Down
    /\ proc' = [proc EXCEPT ![p] = [is |-> "starting", at |-> "sync"]]
    /\ UNCHANGED <<docs, next, indexed, enforced, req, bound, seen>>

Boots(p, at) == proc[p].is = "starting" /\ proc[p].at = at

\* syncIndexes builds the index unless live duplicates exist
BootSync(p) ==
    /\ Boots(p, "sync")
    /\ \E ok \in BOOLEAN :
        /\ enforced' = [enforced EXCEPT ![p] = ok]
        /\ \/ /\ ok = \A c \in Codes : Cardinality(ActiveWith(c)) <= 1
              /\ indexed' = (indexed \/ ok)
              /\ UNCHANGED bound
           \/ /\ ~ok /\ bound.faults < MaxFaults
              /\ bound' = [bound EXCEPT !.faults = @ + 1]
              /\ UNCHANGED indexed
    /\ proc' = [proc EXCEPT ![p] = [is |-> "starting", at |-> "find"]]
    /\ UNCHANGED <<docs, next, req, seen>>

\* reconcilePendingVersionTransitions: the documents with a marker, as read
BootFind(p) ==
    /\ Boots(p, "find")
    /\ proc' = [proc EXCEPT ![p] =
                  [is |-> "starting", at |-> "next",
                   todo |-> {[id |-> d, status |-> docs[d].status, new |-> docs[d].marker] :
                                d \in {e \in Ids : docs[e].marker # 0}}]]
    /\ seen' = [seen EXCEPT !.lapped = @ \cup
                  {docs[d].marker : d \in {e \in Ids : docs[e].marker # 0
                                              /\ \E q \in Replicas \ {p} : proc[q] # Down}}]
    /\ UNCHANGED <<docs, next, indexed, enforced, req, bound>>

\* Mutant: every version still marked is taken for a partial one.
NeverWritten(n) == FALSE

FullyWritten(n) == Live(n) /\ docs[n].file

\* the next document: is the version it waited for fully written?
BootLook(p) ==
    /\ Boots(p, "next")
    /\ \E s \in proc[p].todo :
        proc' = [proc EXCEPT ![p] = [is |-> "starting", doc |-> s, todo |-> @.todo \ {s},
                                     at |-> IF FullyWritten(s.new) THEN "clear" ELSE "delete"]]
    /\ UNCHANGED <<docs, next, indexed, enforced, req, bound, seen>>

Proceed(p, at) == proc' = [proc EXCEPT ![p] =
    IF at = "next" THEN [is |-> "starting", at |-> "next", todo |-> @.todo]
                   ELSE [@ EXCEPT !.at = at]]

\* the partial new version is deleted, a soft-deleted one is left
BootDelete(p) ==
    /\ Boots(p, "delete")
    /\ \E ok \in BOOLEAN :
        /\ Attempt(proc[p].doc.new,
                   IF Live(proc[p].doc.new) THEN Absent ELSE docs[proc[p].doc.new], TRUE, ok)
        /\ Proceed(p, IF ok THEN "restore" ELSE "next")
    /\ UNCHANGED <<next, indexed, enforced, req, seen>>

\* then the old one is ACTIVE again and loses its marker
BootRestore(p) ==
    LET s == proc[p].doc
    IN  /\ Boots(p, "restore")
        /\ \E ok \in BOOLEAN :
            Save(s.id, [docs[s.id] EXCEPT !.status = IF s.status = "ACTIVE" THEN @ ELSE "ACTIVE",
                                          !.marker = 0], ok)
        /\ Proceed(p, "next")
        /\ UNCHANGED <<next, indexed, enforced, req, seen>>

BootClear(p) ==
    LET s == proc[p].doc
    IN  /\ Boots(p, "clear")
        /\ \E ok \in BOOLEAN : Save(s.id, [docs[s.id] EXCEPT !.marker = 0], ok)
        /\ Proceed(p, "next")
        /\ UNCHANGED <<next, indexed, enforced, req, seen>>

BootDone(p) ==
    /\ Boots(p, "next") /\ proc[p].todo = {}
    /\ proc' = [proc EXCEPT ![p] = Serving]
    /\ UNCHANGED <<docs, next, indexed, enforced, req, bound, seen>>

Crash(p) ==
    /\ proc[p] # Down /\ bound.crashes < MaxCrashes
    /\ bound' = [bound EXCEPT !.crashes = @ + 1]
    /\ proc' = [proc EXCEPT ![p] = Down]
    /\ req' = [r \in Requests |-> IF req[r] # Idle /\ req[r].on = p THEN Idle ELSE req[r]]
    /\ UNCHANGED <<docs, next, indexed, enforced, seen>>

\* scripts/fix-duplicate-active-codigos --fix: one of the group stays ACTIVE
FixDuplicates ==
    /\ \E c \in Codes : \E keep \in ActiveWith(c) :
        LET rest == ActiveWith(c) \ {keep}
        IN  /\ rest # {}
            /\ docs' = [d \in Ids |-> IF d \in rest THEN [docs[d] EXCEPT !.status = "ARCHIVED"]
                                                    ELSE docs[d]]
            /\ seen' = [seen EXCEPT !.scripted = @ \cup rest]
    /\ UNCHANGED <<next, indexed, enforced, proc, req, bound>>

\* resolveReviewCycleEnabled: the document a workflow created with typology d
\* takes the review policy from, one of these; {} is the 404.  Deleted and
\* superseded documents answer too.
PolicyOf(d) ==
    LET InForce(e) == Live(e) /\ docs[e].status = "ACTIVE"
        heirs == IF docs[d].code = NoCode THEN {} ELSE ActiveWith(docs[d].code)
    IN  IF docs[d].status = "absent" THEN {}
        ELSE IF InForce(d) \/ heirs = {} THEN {d} ELSE heirs

-----------------------------------------------------------------------------

\* What the collection may hold when the model begins: nothing yet, one
\* ACTIVE typology, or the duplicates of the time without an index.
Beginnings(p) ==
    \E c \in Codes, n \in 0..2 :
        /\ docs = [d \in Ids |-> IF d <= n THEN [Absent EXCEPT !.status = "ACTIVE", !.code = c,
                                                              !.file = TRUE]
                                           ELSE Absent]
        /\ next = n + 1
        /\ indexed = (n = 1)
        /\ enforced = [q \in Replicas |-> indexed]
        /\ seen = [twins |-> IF n = 2 THEN 1..2 ELSE {}, scripted |-> {},
                   heirs |-> [d \in Ids |-> {}], answered |-> {},
                   lapped |-> {}, barred |-> FALSE]

Init ==
    /\ \E p \in Replicas :
        /\ Beginnings(p)
        /\ proc = [q \in Replicas |-> IF q = p THEN Serving ELSE Down]
    /\ req = [r \in Requests |-> Idle]
    /\ bound = [starts |-> 0, faults |-> 0, crashes |-> 0]

Next ==
    \/ \E r \in Requests :
        \/ CreateCheck(r) \/ CreateInsert(r)
        \/ UpdateFind(r) \/ UpdateCheck(r) \/ UpdateSave(r)
        \/ RemoveFind(r) \/ RemoveSave(r)
        \/ VersionFind(r) \/ VersionArchive(r) \/ VersionInsert(r) \/ VersionUpload(r)
        \/ VersionDocumento(r) \/ VersionClear(r) \/ VersionUndo(r) \/ VersionRestore(r)
    \/ \E p \in Replicas :
        \/ BootStart(p) \/ BootSync(p) \/ BootFind(p) \/ BootLook(p) \/ BootDelete(p)
        \/ BootRestore(p) \/ BootClear(p) \/ BootDone(p) \/ Crash(p)
    \/ Upload
    \/ FixDuplicates

Spec == Init /\ [][Next]_vars

-----------------------------------------------------------------------------
(* Properties *)

\* "So the org is never left without one": a version that was superseded and
\* is no longer marked has an heir that is in the collection with its file,
\* through crashes, failed writes, rollbacks and reconciliations, unless a
\* reconciliation found its marker while another replica was up, or the repair
\* script archived it.  The marker is what the next start works from.
SupersededHasSuccessor ==
    \A d \in Ids :
        (docs[d].status = "ARCHIVED" /\ docs[d].marker = 0 /\ d \notin seen.scripted
            /\ seen.heirs[d] \cap seen.lapped = {})
        => \E n \in seen.heirs[d] : docs[n].status # "absent" /\ docs[n].file

\* Without its index the service fails closed: two live ACTIVE typologies
\* share a code only while no index exists, and then one of them is an old
\* duplicate or took part in a version bump, the one write that does not ask
\* codigoUniquenessEnforced.
DuplicatesExplained ==
    \A c \in Codes : \A d, e \in ActiveWith(c) :
        d # e => /\ ~indexed
                 /\ \E x \in {d, e} : \/ x \in seen.twins
                                      \/ seen.heirs[x] # {}
                                      \/ \E o \in Ids : x \in seen.heirs[o]

\* A version that was answered as created stays in the collection: neither a
\* rollback nor the reconciliation of a start takes it for a partial one, but
\* for the one case the code leaves open: a replica that started beside another
\* one found the marker of this very version.
AnsweredVersionKept ==
    \A n \in seen.answered : docs[n].status # "absent" \/ n \in seen.lapped

\* Which review policy a workflow ends with does not depend on the duplicate the
\* query happens to find first, once the index exists; and no version that was
\* answered as created leaves its workflows without one (the 404 that "left the
\* workflow permanently stuck").
OnePolicy ==
    /\ indexed => \A d \in Ids : Cardinality(PolicyOf(d)) <= 1
    /\ \A n \in seen.answered : PolicyOf(n) # {} \/ n \in seen.lapped

\* "Any marker found here cannot belong to an operation that's still legitimately
\* in flight": no start deletes a version that is answered.
AnsweredStays == \A n \in seen.answered : docs[n].status # "absent"

\* "always clears it, on both success and every rollback branch": without a
\* crash and without a failed write, a marker stands only during its bump.
MarkerCleared ==
    (bound.faults = 0 /\ bound.crashes = 0) =>
        \A d \in Ids : docs[d].marker # 0 => \E r \in Requests : Passing(r, d)

\* "soft-deleted records with the same codigo are permitted": no creation is
\* refused for a code that only a deleted typology holds.
DeletedDoesNotBar == ~seen.barred
=============================================================================
