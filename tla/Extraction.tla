----------------------------- MODULE Extraction -----------------------------
(***************************************************************************)
(* The document of one typology and the extraction of its metadata:        *)
(* upload, retry, resolution and the two result handlers of document-      *)
(* service, and the extractor of metadata-extractor-service, with storage  *)
(* and Kafka between them.                                                 *)
(*                                                                         *)
(* Topics have several partitions and messages no key: any message in      *)
(* flight may be the next one handled, and one is handled again when its   *)
(* consumer stops before it commits.  A rejected send may have been        *)
(* delivered.  doc.save() writes the paths that differ from what was read. *)
(*                                                                         *)
(* Removal is in TypologyVersions.  The triple (nombre, codigo, version)   *)
(* is one value.  A file is its key; content says what the rules find.     *)
(***************************************************************************)
EXTENDS Integers, FiniteSets

CONSTANTS
    Requests,     \* slots for the requests being served at a time
    Handlers,     \* result handlers, one per partition consumed
    Values,       \* metadata a file or a user can give
    Contents,     \* what extraction can find in a file
    None,         \* no metadata declared, or nothing found in the file
    Unreadable,   \* a file without extractable text
    MaxFiles,     \* bound: files ever uploaded
    MaxFaults     \* bound: failed writes and sends, redeliveries, stops

ASSUME ExtractionAssumption ==
    /\ Requests \cap Handlers = {}
    /\ None \notin Values /\ Unreadable \notin Values \cup {None}
    /\ Contents \subseteq Values \cup {None, Unreadable}
    /\ MaxFiles \in Nat /\ MaxFaults \in Nat

VARIABLES
    doc,       \* the typology: its documento, datosDeclarados, metadataExtraida
    storage,   \* keys of the files in the bucket
    content,   \* what extraction finds in each file uploaded so far
    uploads,   \* typology.file.uploaded, the events in flight
    results,   \* typology.metadata.extracted and .extraction.failed
    req,       \* requests and handlers in course
    files,     \* files uploaded so far
    faults,    \* bound: faults so far
    seen       \* observation: what the properties compare with

vars == <<doc, storage, content, uploads, results, req, files, faults, seen>>

Keys == 1..MaxFiles
Idle == [op |-> "idle"]

Slots == Requests \cup Handlers

\* the statuses a result leaves behind
Resulting == {"COMPLETED", "DISCREPANCY", "PENDING_CONFIRMATION", "CONFIRMED"}

Document == [ key      : 0..MaxFiles,                \* documento.r2Key
              ext      : {"NOT_UPLOADED", "PROCESSING", "FAILED"} \cup Resulting,
              age      : {"fresh", "old"},           \* extractionStartedAt
              declared : Values \cup {None},         \* datosDeclarados
              meta     : Values \cup {None},         \* metadataExtraida
              of       : 0..MaxFiles ]               \* observation: its file

\* extractionStatus leaves PROCESSING; extractionStartedAt counts only there
Marked(row, status) == [row EXCEPT !.ext = status, !.age = "fresh"]

Event(k) == [key |-> k]
Extracted(k) == [kind |-> "extracted", key |-> k, value |-> content[k]]
Failed(k) == [kind |-> "failed", key |-> k, value |-> None]

TypeOK ==
    /\ doc \in Document
    /\ doc.key = 0 <=> doc.ext = "NOT_UPLOADED"
    /\ storage \subseteq 1..files
    /\ \A m \in uploads : m.key \in 1..files
    /\ \A m \in results : m.key \in 1..files /\ m.value \in Values \cup {None}
    /\ \A r \in Slots : req[r].op \in {"idle", "upload", "retry", "resolve", "apply"}
    /\ files \in 0..MaxFiles /\ faults \in 0..MaxFaults

-----------------------------------------------------------------------------
(* Writes, sends and slots *)

Fault == faults < MaxFaults /\ faults' = faults + 1
NoFault == UNCHANGED faults

\* A save of row reported as ok, or as failed whether it was applied or not;
\* requests that had read the document before are now behind it.
Save(r, row, ok, next) ==
    /\ \/ ok /\ doc' = row /\ NoFault
       \/ ~ok /\ Fault /\ doc' \in {doc, row}
    /\ req' = [q \in Slots |->
                 IF q = r THEN next
                 ELSE IF req[q].op = "resolve" /\ doc' # doc
                      THEN [req[q] EXCEPT !.behind = TRUE]
                 ELSE req[q]]

\* A send acknowledged, or rejected whether it was delivered or not.
Send(topic, m, ok) ==
    \/ ok /\ topic' = topic \cup {m} /\ NoFault
    \/ ~ok /\ Fault /\ topic' \in {topic, topic \cup {m}}

Goes(r, at) == [req[r] EXCEPT !.at = at]

\* files whose extraction is still under way somewhere
UnderWay == {m.key : m \in uploads \cup results}
            \cup {req[r].key : r \in {q \in Slots : req[q].op \in {"upload", "retry", "apply"}}}

-----------------------------------------------------------------------------
(* upload *)

\* the checks, then the file goes to storage under a key of its own
UploadStart(r) ==
    /\ req[r] = Idle /\ files < MaxFiles
    /\ files' = files + 1
    /\ \E c \in Contents : content' = [content EXCEPT ![files + 1] = c]
    /\ storage' = storage \cup {files + 1}
    /\ req' = [req EXCEPT ![r] = [op |-> "upload", at |-> "save",
                                  key |-> files + 1, previous |-> doc.key]]
    /\ UNCHANGED <<doc, uploads, results, faults, seen>>

At(r, op, at) == req[r].op = op /\ req[r].at = at

UploadSaveWith(r, row) ==
    /\ At(r, "upload", "save")
    /\ \E ok \in BOOLEAN :
        /\ Save(r, row, ok, IF ok THEN Goes(r, "emit") ELSE Idle)
        /\ storage' = IF ok THEN storage ELSE storage \ {req[r].key}
        /\ seen' = [seen EXCEPT
                !.crossed = @ \/ UnderWay # {req[r].key} \/ \E q \in Requests : req[q].op = "resolve",
                !.unsure = @ \/ (~ok /\ doc' # doc)]
    /\ UNCHANGED <<content, uploads, results, files>>

\* Mutant: extractionStatus keeps the value of the file before.
UploadSaveKeepsStatus(r) == UploadSaveWith(r, [doc EXCEPT !.key = req[r].key, !.age = "fresh"])

UploadSave(r) ==
    UploadSaveWith(r, [doc EXCEPT !.key = req[r].key, !.ext = "PROCESSING", !.age = "fresh"])

\* Whether delivered or not, a rejected event leaves the document in place.
UploadEmit(r) ==
    /\ At(r, "upload", "emit")
    /\ \E ok \in BOOLEAN :
        /\ Send(uploads, Event(req[r].key), ok)
        /\ req' = [req EXCEPT ![r] = Goes(r, IF ok THEN "clean" ELSE "fail")]
    /\ UNCHANGED <<doc, storage, content, results, files, seen>>

UploadFail(r) ==
    /\ At(r, "upload", "fail")
    /\ \E ok \in BOOLEAN : Save(r, Marked(doc, "FAILED"), ok, Goes(r, "clean"))
    /\ UNCHANGED <<storage, content, uploads, results, files, seen>>

\* the previous file goes, best effort
UploadClean(r) ==
    /\ At(r, "upload", "clean")
    /\ storage' \in {storage, storage \ {req[r].previous}}
    /\ req' = [req EXCEPT ![r] = Idle]
    /\ UNCHANGED <<doc, content, uploads, results, files, faults, seen>>

-----------------------------------------------------------------------------
(* retryExtraction *)

Retriable == \/ doc.ext = "FAILED"
             \/ doc.ext = "PROCESSING" /\ doc.age = "old"

\* Mutant: a document stuck in PROCESSING cannot be tried again.
RetriableWhenFailed == doc.ext = "FAILED"

RetryClaimIf(r, allowed) ==
    /\ req[r] = Idle /\ doc.key # 0 /\ allowed
    /\ doc' = [doc EXCEPT !.ext = "PROCESSING", !.age = "fresh"]
    /\ req' = [q \in Slots |->
                 IF q = r THEN [op |-> "retry", at |-> "emit", key |-> doc.key]
                 ELSE IF req[q].op = "resolve" THEN [req[q] EXCEPT !.behind = TRUE]
                 ELSE req[q]]
    /\ UNCHANGED <<storage, content, uploads, results, files, faults, seen>>

RetryClaimFailedOnly(r) == RetryClaimIf(r, RetriableWhenFailed)

\* one conditional update claims the attempt
RetryClaim(r) == RetryClaimIf(r, Retriable)

RetryEmit(r) ==
    /\ At(r, "retry", "emit")
    /\ \E ok \in BOOLEAN :
        /\ Send(uploads, Event(req[r].key), ok)
        /\ req' = [req EXCEPT ![r] = IF ok THEN Idle ELSE Goes(r, "fail")]
    /\ UNCHANGED <<doc, storage, content, results, files, seen>>

RetryFail(r) ==
    /\ At(r, "retry", "fail")
    /\ \E ok \in BOOLEAN : Save(r, Marked(doc, "FAILED"), ok, Idle)
    /\ UNCHANGED <<storage, content, uploads, results, files, seen>>

\* fifteen minutes pass
Age ==
    /\ doc.ext = "PROCESSING" /\ doc.age = "fresh"
    /\ doc' = [doc EXCEPT !.age = "old"]
    /\ UNCHANGED <<storage, content, uploads, results, req, files, faults, seen>>

-----------------------------------------------------------------------------
(* metadata-extractor-service: handleFileUploaded *)

\* A message is done with, or comes again.
Consumed(topic, m) ==
    \/ topic' = topic \ {m} /\ NoFault
    \/ topic' = topic /\ Fault

\* The file is read from storage and one result emitted; when that send is
\* rejected, or the download fails, a failure is emitted after it, and when
\* that is rejected too nothing more is said.
Extract ==
    \E m \in uploads :
        LET readable == m.key \in storage /\ content[m.key] # Unreadable
            good == IF readable THEN {Extracted(m.key)} ELSE {}
            bad == {Failed(m.key)}
        IN  /\ \/ /\ results' = results \cup (IF readable THEN good ELSE bad)
                  /\ Consumed(uploads, m)
               \/ /\ Fault
                  /\ uploads' = uploads \ {m}
                  /\ \E said \in SUBSET (good \cup bad) : results' = results \cup said
            /\ UNCHANGED <<doc, storage, content, req, files, seen>>

-----------------------------------------------------------------------------
(* Results: applyExtractedMetadata and markExtractionFailed *)

Agrees(value, declared) == value = None \/ value = declared

Outcome(value, declared) ==
    IF declared = None THEN "PENDING_CONFIRMATION"
    ELSE IF Agrees(value, declared) THEN "COMPLETED"
    ELSE "DISCREPANCY"

\* Nothing tells which upload a result answers.
ApplyRead(r) ==
    /\ req[r] = Idle
    /\ \E m \in results :
        /\ m.kind = "extracted"
        /\ \A q \in Handlers : req[q].op = "apply" => req[q].msg # m
        /\ LET outcome == Outcome(m.value, doc.declared)
           IN  req' = [req EXCEPT ![r] = [op |-> "apply", at |-> "save", key |-> m.key, msg |-> m,
                                          writes |-> {outcome} \ {doc.ext}]]
    /\ UNCHANGED <<doc, storage, content, uploads, results, files, faults, seen>>

\* saved and committed, saved and delivered again, or given up to the DLT
ApplySave(r) ==
    LET m == req[r].msg
        marked == IF req[r].writes = {} THEN doc
                  ELSE Marked(doc, CHOOSE e \in req[r].writes : TRUE)
    IN  /\ At(r, "apply", "save")
        /\ \E ok \in BOOLEAN :
            Save(r, [marked EXCEPT !.meta = m.value, !.of = m.key], ok, Idle)
        /\ results' = results \ {m}
        /\ UNCHANGED <<storage, content, uploads, files, seen>>

MarkFailed ==
    /\ \E m \in results :
        /\ m.kind = "failed"
        /\ doc' = Marked(doc, "FAILED")
        /\ Consumed(results, m)
    /\ req' = [q \in Slots |->
                 IF req[q].op = "resolve" THEN [req[q] EXCEPT !.behind = TRUE]
                 ELSE req[q]]
    /\ UNCHANGED <<storage, content, uploads, files, seen>>

\* a result that ends in the DLT after three attempts, or is lost there
Discard ==
    /\ \E m \in results : results' = results \ {m}
    /\ Fault
    /\ UNCHANGED <<doc, storage, content, uploads, req, files, seen>>

-----------------------------------------------------------------------------
(* resolveDiscrepancy and update *)

\* What the three actions declare: what is declared, what was extracted
\* (nothing found falls back to what is declared), or something else.
Resolutions ==
    {d \in {doc.declared, IF doc.meta = None THEN doc.declared ELSE doc.meta} \cup Values :
        Agrees(doc.meta, d)}

\* Mutant: what is declared is not compared with the metadata.
ResolutionsUnchecked == {doc.declared} \cup Values

ResolveFrom(r, choices) ==
    /\ req[r] = Idle
    /\ doc.ext \in {"DISCREPANCY", "PENDING_CONFIRMATION"}
    /\ \E d \in choices :
        req' = [req EXCEPT ![r] = [op |-> "resolve", at |-> "save", declares |-> d,
                                   declared |-> doc.declared, behind |-> FALSE]]
    /\ UNCHANGED <<doc, storage, content, uploads, results, files, faults, seen>>

ResolveReadUnchecked(r) == ResolveFrom(r, ResolutionsUnchecked)

ResolveRead(r) == ResolveFrom(r, Resolutions)

ResolveSave(r) ==
    LET d == req[r].declares
    IN  /\ At(r, "resolve", "save")
        /\ \E ok \in BOOLEAN :
            Save(r, [Marked(doc, "CONFIRMED")
                            EXCEPT !.declared = IF d = req[r].declared THEN @ ELSE d], ok, Idle)
        /\ seen' = [seen EXCEPT !.edited = req[r].behind]
        /\ UNCHANGED <<storage, content, uploads, results, files>>

\* update rewrites the declared data and says nothing of the extraction
Update ==
    /\ \E v \in Values \cup {None} :
        /\ v # doc.declared
        /\ doc' = [doc EXCEPT !.declared = v]
    /\ req' = [q \in Slots |->
                 IF req[q].op = "resolve" THEN [req[q] EXCEPT !.behind = TRUE]
                 ELSE req[q]]
    /\ seen' = [seen EXCEPT !.edited = TRUE]
    /\ UNCHANGED <<storage, content, uploads, results, files, faults>>

\* a replica stops with a request in course; a handler's message comes again
Stop(r) ==
    /\ req[r] # Idle /\ Fault
    /\ req' = [req EXCEPT ![r] = Idle]
    /\ UNCHANGED <<doc, storage, content, uploads, results, files, seen>>

-----------------------------------------------------------------------------

Init ==
    /\ \E d \in Values \cup {None} :
        doc = [key |-> 0, ext |-> "NOT_UPLOADED", age |-> "fresh", declared |-> d,
               meta |-> None, of |-> 0]
    /\ storage = {} /\ uploads = {} /\ results = {}
    /\ content = [k \in Keys |-> None]
    /\ req = [r \in Slots |-> Idle]
    /\ files = 0 /\ faults = 0
    /\ seen = [crossed |-> FALSE, unsure |-> FALSE, edited |-> FALSE]

\* what a request in course does next
Continue(r) ==
    \/ UploadSave(r) \/ UploadEmit(r) \/ UploadFail(r) \/ UploadClean(r)
    \/ RetryEmit(r) \/ RetryFail(r)
    \/ ResolveSave(r)
    \/ ApplySave(r)

Next ==
    \/ \E r \in Requests : UploadStart(r) \/ RetryClaim(r) \/ ResolveRead(r)
    \/ \E h \in Handlers : ApplyRead(h)
    \/ \E r \in Slots : Continue(r) \/ Stop(r)
    \/ Age \/ Extract \/ MarkFailed \/ Discard \/ Update

\* Requests go on, consumers consume, the clock advances, and somebody asks
\* again for an extraction that can be retried.
Fairness ==
    /\ \A r \in Slots : WF_vars(Continue(r))
    /\ WF_vars(Extract) /\ WF_vars(MarkFailed) /\ WF_vars(Age)
    /\ WF_vars(\E h \in Handlers : ApplyRead(h))
    /\ SF_vars(\E r \in Requests : RetryClaim(r))

Spec == Init /\ [][Next]_vars
FairSpec == Spec /\ Fairness

-----------------------------------------------------------------------------
(* Properties *)

\* A result that stands is the one of the file the typology has: nothing in a
\* result names its upload, so this rests on no file being replaced while the
\* extraction of another, or a resolution, is under way.
ResultIsOfDocument ==
    (doc.ext \in Resulting /\ ~seen.crossed) => doc.of = doc.key

\* The file a typology points at is in storage, whatever fails after it was
\* saved, unless the save of an upload failed after it was applied: a
\* rejected event does not prove that nobody will download the file.
FileIsStored ==
    (doc.key # 0 /\ ~seen.unsure) => doc.key \in storage

\* "KEEP_DECLARED/MANUAL_OVERRIDE must still match the document's real
\* extracted content": confirmed data agree with what was extracted, through
\* redeliveries, retries and late failures, unless they were edited since, or
\* confirmed by a resolution that another write had overtaken.
ConfirmedAgrees ==
    (doc.ext = "CONFIRMED" /\ ~seen.edited /\ ~seen.crossed) => Agrees(doc.meta, doc.declared)

\* The same comment as the code has it for any sequence of uploads: confirmed
\* data, not edited since, agree with the content of the file.
ConfirmedIsOfDocument ==
    (doc.ext = "CONFIRMED" /\ ~seen.edited /\ content[doc.key] # Unreadable)
        => Agrees(content[doc.key], doc.declared)

\* No typology stays in PROCESSING for ever: lost events, a consumer that
\* dies and a FAILED that could not be saved all end at a retry.
Settles == doc.ext = "PROCESSING" ~> doc.ext # "PROCESSING"
=============================================================================
