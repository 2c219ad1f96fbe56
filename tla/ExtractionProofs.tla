-------------------------- MODULE ExtractionProofs --------------------------
(***************************************************************************)
(* Extraction for any number of requests, handlers, values, files and      *)
(* faults.                                                                 *)
(*                                                                         *)
(* A result does not name the upload it answers.  What ties it to the file *)
(* of the document is that, unless two crossed, everything under way is    *)
(* about the one file the typology has (OneFile), and that a key which is  *)
(* still to be saved is nobody else's (Fresh).  A resolution confirms what *)
(* it read only as long as no other write came between (NotOvertaken).     *)
(***************************************************************************)
EXTENDS Extraction, TLAPS

-----------------------------------------------------------------------------
(* The inductive invariant *)

\* A request in course, by its operation.

Uploading == [op : {"upload"}, at : {"save", "emit", "fail", "clean"},
              key : 1..files, previous : 0..files]
Retrying == [op : {"retry"}, at : {"emit", "fail"}, key : 1..files]
Message == [kind : {"extracted", "failed"}, key : 1..files, value : Values \cup {None}]
Applying == [op : {"apply"}, at : {"save"}, key : 1..files, msg : Message,
             writes : SUBSET (Resulting \ {"CONFIRMED"})]
Resolving == [op : {"resolve"}, at : {"save"}, declares : Values \cup {None},
              declared : Values \cup {None}, behind : BOOLEAN]
Slot == {Idle} \cup Uploading \cup Retrying \cup Applying \cup Resolving

\* r has the key of a file whose document was saved.
Placed(r) == \/ req[r].op \in {"retry", "apply"}
             \/ req[r].op = "upload" /\ req[r].at # "save"

Shape ==
    /\ doc \in Document
    /\ doc.key \in 0..files /\ doc.of \in 0..files
    /\ doc.key = 0 <=> doc.ext = "NOT_UPLOADED"
    /\ storage \subseteq 1..files
    /\ uploads \subseteq [key : 1..files]
    /\ results \subseteq Message
    /\ content \in [Keys -> Contents \cup {None}]
    /\ req \in [Slots -> Slot]
    /\ files \in 0..MaxFiles /\ faults \in 0..MaxFaults
    /\ seen \in [crossed : BOOLEAN, unsure : BOOLEAN, edited : BOOLEAN]

\* Nothing is under way for a typology without a file.
Begun ==
    /\ uploads \cup results # {} => doc.key # 0
    /\ \A r \in Slots : Placed(r) \/ req[r].op = "resolve" => doc.key # 0

\* Results tell what the file holds; so does the document.
Truthful ==
    /\ \A m \in results : m.kind = "extracted" => m.value = content[m.key]
    /\ \A r \in Slots : req[r].op = "apply" =>
         /\ req[r].msg.key = req[r].key
         /\ req[r].msg.value = content[req[r].key]
    /\ doc.meta = IF doc.of = 0 THEN None ELSE content[doc.of]

\* The key of an upload that has not saved is nobody else's.
Fresh ==
    \A r \in Slots : req[r].op = "upload" =>
        /\ req[r].at = "save" =>
            /\ doc.key # req[r].key
            /\ \A q \in Slots : req[q].op = "upload" =>
                 /\ req[q].previous # req[r].key
                 /\ q # r => req[q].key # req[r].key
        /\ req[r].at # "save" => doc.key # req[r].previous

\* The file of the document is in storage, and so is that of an upload that
\* is to save it.
Stored ==
    ~seen.unsure =>
        /\ doc.key # 0 => doc.key \in storage
        /\ \A r \in Slots : At(r, "upload", "save") => req[r].key \in storage

\* Unless two of them crossed, all that is under way is about the file of the
\* document.
OneFile ==
    ~seen.crossed =>
        /\ \A m \in uploads \cup results : m.key = doc.key
        /\ \A r \in Slots : Placed(r) => req[r].key = doc.key
        /\ \A r \in Slots : req[r].op = "resolve" => r \in Requests /\ doc.of = doc.key
        /\ doc.ext \in Resulting => doc.of = doc.key

\* A resolution that no write overtook confirms what it found.
NotOvertaken ==
    \A r \in Slots : (req[r].op = "resolve" /\ ~req[r].behind) =>
        /\ doc.ext \in {"DISCREPANCY", "PENDING_CONFIRMATION"}
        /\ doc.declared = req[r].declared
        /\ Agrees(doc.meta, req[r].declares)

IInv == Shape /\ Begun /\ Truthful /\ Fresh /\ Stored /\ OneFile /\ NotOvertaken /\ ConfirmedAgrees

-----------------------------------------------------------------------------
(* Rows of the typology, messages and slots *)

LEMMA MarkedRow ==
    ASSUME NEW row \in Document, NEW status \in Resulting \cup {"FAILED"}
    PROVE  /\ Marked(row, status) \in Document
           /\ Marked(row, status).ext = status
           /\ Marked(row, status).key = row.key /\ Marked(row, status).of = row.of
           /\ Marked(row, status).meta = row.meta
           /\ Marked(row, status).declared = row.declared
    BY DEF Marked, Document, Resulting

LEMMA BehindRow ==
    ASSUME NEW row \in Resolving
    PROVE  /\ [row EXCEPT !.behind = TRUE] \in Resolving
           /\ [row EXCEPT !.behind = TRUE].op = "resolve"
           /\ [row EXCEPT !.behind = TRUE].behind
    BY DEF Resolving

\* A slot's record, by its operation.
LEMMA SlotOf ==
    ASSUME NEW row \in Slot
    PROVE  /\ row.op \in {"idle", "upload", "retry", "apply", "resolve"}
           /\ row.op = "idle" <=> row = Idle
           /\ row.op = "upload" <=> row \in Uploading
           /\ row.op = "retry" <=> row \in Retrying
           /\ row.op = "apply" <=> row \in Applying
           /\ row.op = "resolve" <=> row \in Resolving
    BY DEF Slot, Idle, Uploading, Retrying, Applying, Resolving

LEMMA SameSlots ==
    ASSUME files' = files
    PROVE  /\ Slot' = Slot /\ Message' = Message /\ Uploading' = Uploading
           /\ Retrying' = Retrying /\ Applying' = Applying /\ Resolving' = Resolving
    BY DEF Slot, Uploading, Retrying, Applying, Resolving, Message

LEMMA MoreSlots ==
    ASSUME files \in Nat, files' = files + 1
    PROVE  Slot \subseteq Slot' /\ Message \subseteq Message'
  <1>1. 1..files \subseteq 1..files' /\ 0..files \subseteq 0..files'
    OBVIOUS
  <1>2. Message \subseteq Message'
    BY <1>1 DEF Message
  <1>3. Uploading \subseteq Uploading' /\ Retrying \subseteq Retrying'
    BY <1>1 DEF Uploading, Retrying
  <1>4. Applying \subseteq Applying'
    BY <1>1, <1>2 DEF Applying
  <1>5. Resolving' = Resolving
    BY DEF Resolving
  <1> QED
    BY <1>2, <1>3, <1>4, <1>5 DEF Slot

\* What a request does to the slots of the others: a resolution may be behind.
Kept(q) == \/ req'[q] = req[q]
           \/ req[q].op = "resolve" /\ req'[q] = [req[q] EXCEPT !.behind = TRUE]

LEMMA KeptSlot ==
    ASSUME req \in [Slots -> Slot], files' = files, NEW q \in Slots, Kept(q)
    PROVE  /\ req'[q] \in Slot'
           /\ req'[q].op = req[q].op
           /\ req[q].op # "resolve" => req'[q] = req[q]
           /\ req'[q].op = "resolve" =>
                /\ req'[q].declared = req[q].declared /\ req'[q].declares = req[q].declares
                /\ ~req'[q].behind => req'[q] = req[q]
  <1>1. req[q] \in Slot
    OBVIOUS
  <1>2. CASE req'[q] = req[q]
    BY <1>1, <1>2, SameSlots
  <1>3. CASE req[q].op = "resolve" /\ req'[q] = [req[q] EXCEPT !.behind = TRUE]
    <2>1. req[q] \in Resolving
      BY <1>1, <1>3, SlotOf
    <2>2. req'[q] \in Slot'
      BY <2>1, <1>3, BehindRow, SameSlots DEF Slot
    <2>3. /\ req'[q].op = "resolve" /\ req'[q].behind
          /\ req'[q].declared = req[q].declared /\ req'[q].declares = req[q].declares
      BY <2>1, <1>3 DEF Resolving
    <2> QED
      BY <2>2, <2>3, <1>3
  <1> QED
    BY <1>2, <1>3 DEF Kept

\* A save leaves one of two rows, and the others where they were; none of
\* them is behind unless the row changed.
LEMMA SaveEffect ==
    ASSUME Shape, NEW r \in Slots, NEW row, NEW ok \in BOOLEAN, NEW next, Save(r, row, ok, next)
    PROVE  /\ doc' \in {doc, row} /\ (ok => doc' = row)
           /\ faults' \in 0..MaxFaults
           /\ req' = [q \in Slots |-> req'[q]] /\ req'[r] = next
           /\ \A q \in Slots : q # r => Kept(q)
           /\ doc' # doc => \A q \in Slots : (q # r /\ req'[q].op = "resolve") => req'[q].behind
  <1>1. doc' \in {doc, row} /\ (ok => doc' = row)
    BY DEF Save
  <1>2. faults' \in 0..MaxFaults
    BY ExtractionAssumption DEF Save, Fault, NoFault, Shape
  <1>3. req' = [q \in Slots |-> req'[q]] /\ req'[r] = next
    BY DEF Save
  <1>4. \A q \in Slots : q # r => Kept(q)
    BY DEF Save, Kept
  <1>5. ASSUME doc' # doc, NEW q \in Slots, q # r, req'[q].op = "resolve"
        PROVE  req'[q].behind
    <2>1. CASE req[q].op = "resolve"
      <3>1. req[q] \in Resolving
        BY <2>1, SlotOf DEF Shape
      <3>2. req'[q] = [req[q] EXCEPT !.behind = TRUE]
        BY <1>5, <2>1 DEF Save
      <3> QED
        BY <3>1, <3>2, BehindRow
    <2>2. CASE req[q].op # "resolve"
      <3>1. req'[q] = req[q]
        BY <1>5, <2>2 DEF Save
      <3> QED
        BY <1>5, <2>2, <3>1
    <2> QED
      BY <2>1, <2>2
  <1> QED
    BY <1>1, <1>2, <1>3, <1>4, <1>5

\* the same of the writes that are not a Save
LEMMA OvertakeEffect ==
    ASSUME Shape, files' = files, NEW R, NEW next,
           req' = [q \in Slots |-> IF q = R THEN next
                                   ELSE IF req[q].op = "resolve" THEN [req[q] EXCEPT !.behind = TRUE]
                                   ELSE req[q]]
    PROVE  /\ \A q \in Slots : q # R => Kept(q)
           /\ \A q \in Slots : (q # R /\ req'[q].op = "resolve") => req'[q].behind
  <1>1. \A q \in Slots : q # R => Kept(q)
    BY DEF Kept
  <1>2. ASSUME NEW q \in Slots, q # R, req'[q].op = "resolve"
        PROVE  req'[q].behind
    <2>1. CASE req[q].op = "resolve"
      <3>1. req[q] \in Resolving
        BY <2>1, SlotOf DEF Shape
      <3>2. req'[q] = [req[q] EXCEPT !.behind = TRUE]
        BY <1>2, <2>1
      <3> QED
        BY <3>1, <3>2, BehindRow
    <2>2. CASE req[q].op # "resolve"
      BY <1>2, <2>2
    <2> QED
      BY <2>1, <2>2
  <1> QED
    BY <1>1, <1>2

-----------------------------------------------------------------------------
(* The shape of the state *)

LEMMA InitShape == Init => Shape
  <1> SUFFICES ASSUME Init PROVE Shape
    OBVIOUS
  <1>1. doc \in Document /\ doc.key \in 0..files /\ doc.of \in 0..files
        /\ (doc.key = 0 <=> doc.ext = "NOT_UPLOADED")
    BY ExtractionAssumption DEF Init, Document
  <1>2. req \in [Slots -> Slot]
    BY DEF Init, Slot
  <1> QED
    BY <1>1, <1>2, ExtractionAssumption DEF Init, Shape

\* Rows and slots written by a step that uploads nothing.
LEMMA ShapeIfKept ==
    ASSUME Shape, UNCHANGED <<content, files>>,
           doc' \in Document, doc'.key \in 0..files, doc'.of \in 0..files,
           doc'.key = 0 <=> doc'.ext = "NOT_UPLOADED",
           storage' \subseteq storage,
           uploads' \subseteq [key : 1..files], results' \subseteq Message,
           req' \in [Slots -> Slot],
           faults' \in 0..MaxFaults,
           seen' \in [crossed : BOOLEAN, unsure : BOOLEAN, edited : BOOLEAN]
    PROVE  Shape'
    BY SameSlots DEF Shape

\* A sent event, wherever the send leaves it.
LEMMA SendEffect ==
    ASSUME Shape, NEW k \in 1..files, NEW ok \in BOOLEAN, Send(uploads, Event(k), ok)
    PROVE  /\ uploads' \subseteq [key : 1..files] /\ faults' \in 0..MaxFaults
           /\ uploads' \subseteq uploads \cup {[key |-> k]}
    BY ExtractionAssumption DEF Send, Event, Fault, NoFault, Shape

LEMMA ReqKept ==
    ASSUME Shape, files' = files, NEW r, NEW next \in Slot,
           req' = [q \in Slots |-> req'[q]],
           r \in Slots => req'[r] = next,
           \A q \in Slots : q # r => Kept(q)
    PROVE  req' \in [Slots -> Slot]
  <1>1. ASSUME NEW q \in Slots
        PROVE  req'[q] \in Slot
    BY <1>1, KeptSlot, SameSlots DEF Shape
  <1> QED
    BY <1>1

-----------------------------------------------------------------------------
(* the shape is kept by each action *)

LEMMA ShapeUploadStart ==
    ASSUME Shape, NEW r \in Requests, UploadStart(r)
    PROVE  Shape'
  <1>1. files \in Nat /\ files' = files + 1 /\ files' \in 0..MaxFiles /\ files' \in Keys
    BY ExtractionAssumption DEF Shape, UploadStart, Keys
  <1>2. Slot \subseteq Slot' /\ Message \subseteq Message'
    BY <1>1, MoreSlots
  <1>3. content' \in [Keys -> Contents \cup {None}]
    BY DEF Shape, UploadStart
  <1>4. req' \in [Slots -> Slot']
    <2>1. [op |-> "upload", at |-> "save", key |-> files + 1, previous |-> doc.key] \in Uploading'
      BY <1>1 DEF Uploading, Shape
    <2>2. r \in Slots
      BY DEF Slots
    <2> QED
      BY <1>2, <2>1, <2>2 DEF Slot, Shape, UploadStart
  <1>5. storage' \subseteq 1..files'
    BY <1>1 DEF Shape, UploadStart
  <1>6. doc'.key \in 0..files' /\ doc'.of \in 0..files' /\ uploads' \subseteq [key : 1..files']
    BY <1>1 DEF Shape, UploadStart
  <1> QED
    BY <1>1, <1>2, <1>3, <1>4, <1>5, <1>6 DEF Shape, UploadStart

\* An upload in course.
LEMMA UploadRow ==
    ASSUME Shape, NEW r \in Slots, NEW at, At(r, "upload", at)
    PROVE  /\ req[r] \in Uploading /\ req[r].key \in 1..files /\ req[r].previous \in 0..files
           /\ \A to \in {"emit", "fail", "clean"} :
                /\ Goes(r, to) \in Uploading /\ Goes(r, to) \in Slot
                /\ Goes(r, to).op = "upload" /\ Goes(r, to).at = to
                /\ Goes(r, to).key = req[r].key /\ Goes(r, to).previous = req[r].previous
  <1>1. req[r] \in Uploading
    BY SlotOf DEF Shape, At
  <1> QED
    BY <1>1 DEF Uploading, Goes, Slot

LEMMA RetryRow ==
    ASSUME Shape, NEW r \in Slots, NEW at, At(r, "retry", at)
    PROVE  /\ req[r] \in Retrying /\ req[r].key \in 1..files
           /\ Goes(r, "fail") \in Slot
           /\ Goes(r, "fail").op = "retry" /\ Goes(r, "fail").key = req[r].key
  <1>1. req[r] \in Retrying
    BY SlotOf DEF Shape, At
  <1> QED
    BY <1>1 DEF Retrying, Goes, Slot

LEMMA IdleSlot == Idle \in Slot /\ Idle.op = "idle"
    BY DEF Slot, Idle

\* what the save of an upload does
LEMMA UploadSaveEffect ==
    ASSUME Shape, NEW r \in Slots, UploadSave(r)
    PROVE  LET row == [doc EXCEPT !.key = req[r].key, !.ext = "PROCESSING", !.age = "fresh"]
           IN  /\ At(r, "upload", "save") /\ UNCHANGED <<content, uploads, results, files>>
               /\ faults' \in 0..MaxFaults
               /\ row \in Document
               /\ req' = [q \in Slots |-> req'[q]]
               /\ \A q \in Slots : q # r => Kept(q)
               /\ doc' # doc => \A q \in Slots : (q # r /\ req'[q].op = "resolve") => req'[q].behind
               /\ \/ doc' = row /\ req'[r] = Goes(r, "emit") /\ storage' = storage
                  \/ doc' \in {doc, row} /\ req'[r] = Idle /\ storage' = storage \ {req[r].key}
                     /\ (doc' # doc => seen'.unsure)
               /\ seen' \in [crossed : BOOLEAN, unsure : BOOLEAN, edited : BOOLEAN]
               /\ seen'.crossed = (seen.crossed \/ UnderWay # {req[r].key}
                                   \/ \E q \in Requests : req[q].op = "resolve")
               /\ seen.unsure => seen'.unsure
               /\ seen'.edited = seen.edited
  <1> DEFINE row == [doc EXCEPT !.key = req[r].key, !.ext = "PROCESSING", !.age = "fresh"]
  <1>1. /\ At(r, "upload", "save") /\ UNCHANGED <<content, uploads, results, files>>
    BY DEF UploadSave, UploadSaveWith
  <1>2. PICK ok \in BOOLEAN :
             /\ Save(r, row, ok, IF ok THEN Goes(r, "emit") ELSE Idle)
             /\ storage' = IF ok THEN storage ELSE storage \ {req[r].key}
             /\ seen' = [seen EXCEPT
                    !.crossed = @ \/ UnderWay # {req[r].key} \/ \E q \in Requests : req[q].op = "resolve",
                    !.unsure = @ \/ (~ok /\ doc' # doc)]
    BY Zenon DEF UploadSave, UploadSaveWith
  <1>3. row \in Document
    <2>1. req[r].key \in 1..files
      BY <1>1, UploadRow
    <2>2. req[r].key \in 0..MaxFiles
      BY <2>1, ExtractionAssumption DEF Shape
    <2>3. doc \in Document
      BY DEF Shape
    <2> QED
      BY <2>2, <2>3 DEF Document
  <1>4. /\ doc' \in {doc, row} /\ (ok => doc' = row) /\ faults' \in 0..MaxFaults
        /\ req' = [q \in Slots |-> req'[q]] /\ req'[r] = IF ok THEN Goes(r, "emit") ELSE Idle
        /\ \A q \in Slots : q # r => Kept(q)
        /\ doc' # doc => \A q \in Slots : (q # r /\ req'[q].op = "resolve") => req'[q].behind
    BY <1>2, SaveEffect
  <1>5. /\ seen' \in [crossed : BOOLEAN, unsure : BOOLEAN, edited : BOOLEAN]
        /\ seen'.crossed = (seen.crossed \/ UnderWay # {req[r].key}
                                   \/ \E q \in Requests : req[q].op = "resolve")
        /\ seen'.unsure = (seen.unsure \/ (~ok /\ doc' # doc))
        /\ seen'.edited = seen.edited
    BY <1>2 DEF Shape
  <1> QED
    BY <1>1, <1>2, <1>3, <1>4, <1>5

LEMMA ShapeUploadSave ==
    ASSUME Shape, NEW r \in Slots, UploadSave(r)
    PROVE  Shape'
  <1> DEFINE row == [doc EXCEPT !.key = req[r].key, !.ext = "PROCESSING", !.age = "fresh"]
  <1>1. At(r, "upload", "save") /\ UNCHANGED <<content, uploads, results, files>>
    BY UploadSaveEffect
  <1>2. /\ row.key = req[r].key /\ row.ext = "PROCESSING" /\ row.of = doc.of
        /\ req[r].key \in 1..files
    BY <1>1, UploadRow DEF Shape, Document
  <1>3. doc' \in Document /\ doc' \in {doc, row}
    BY UploadSaveEffect DEF Shape
  <1>4. doc'.key \in 0..files /\ doc'.of \in 0..files /\ (doc'.key = 0 <=> doc'.ext = "NOT_UPLOADED")
    <2>1. CASE doc' = doc
      BY <1>2, <2>1 DEF Shape
    <2>2. CASE doc' = row
      <3>1. row.key \in 0..files /\ row.key # 0 /\ row.of \in 0..files
        BY <1>2 DEF Shape
      <3>2. row.ext # "NOT_UPLOADED"
        BY <1>2
      <3> QED
        BY <2>2, <3>1, <3>2
    <2> QED
      BY <1>3, <2>1, <2>2
  <1>5. req'[r] \in Slot /\ req' = [q \in Slots |-> req'[q]] /\ \A q \in Slots : q # r => Kept(q)
    BY <1>1, UploadRow, UploadSaveEffect, IdleSlot
  <1>6. req' \in [Slots -> Slot]
    BY <1>1, <1>5, ReqKept
  <1>7. storage' \subseteq storage /\ faults' \in 0..MaxFaults
        /\ seen' \in [crossed : BOOLEAN, unsure : BOOLEAN, edited : BOOLEAN]
    BY UploadSaveEffect
  <1> QED
    BY <1>1, <1>3, <1>4, <1>6, <1>7, ShapeIfKept DEF Shape

LEMMA ShapeUploadEmit ==
    ASSUME Shape, NEW r \in Slots, UploadEmit(r)
    PROVE  Shape'
  <1>1. At(r, "upload", "emit") /\ UNCHANGED <<doc, storage, content, results, files, seen>>
    BY DEF UploadEmit
  <1>2. PICK ok \in BOOLEAN :
          /\ Send(uploads, Event(req[r].key), ok)
          /\ req' = [req EXCEPT ![r] = Goes(r, IF ok THEN "clean" ELSE "fail")]
    BY DEF UploadEmit
  <1>3. uploads' \subseteq [key : 1..files] /\ faults' \in 0..MaxFaults
    BY <1>1, <1>2, UploadRow, SendEffect
  <1>4. req' \in [Slots -> Slot]
    BY <1>1, <1>2, UploadRow DEF Shape
  <1> QED
    BY <1>1, <1>3, <1>4, ShapeIfKept DEF Shape

\* FAILED, where something was uploaded
LEMMA FailedRow ==
    ASSUME Shape, doc.key # 0
    PROVE  LET row == Marked(doc, "FAILED")
           IN  \A new \in {doc, row} :
                 /\ new \in Document /\ new.key = doc.key /\ new.of = doc.of
                 /\ new.meta = doc.meta /\ new.declared = doc.declared
                 /\ new.key = 0 <=> new.ext = "NOT_UPLOADED"
                 /\ new.ext \in {doc.ext, "FAILED"}
  <1>1. doc \in Document /\ (doc.key = 0 <=> doc.ext = "NOT_UPLOADED")
    BY DEF Shape
  <1> QED
    BY <1>1, MarkedRow

\* what a save of FAILED does, after a failed upload or a failed retry
LEMMA FailEffect ==
    ASSUME Shape, NEW r \in Slots, UploadFail(r) \/ RetryFail(r), doc.key # 0
    PROVE  /\ UNCHANGED <<storage, content, uploads, results, files, seen>>
           /\ faults' \in 0..MaxFaults
           /\ doc' \in {doc, Marked(doc, "FAILED")}
           /\ req' = [q \in Slots |-> req'[q]]
           /\ \A q \in Slots : q # r => Kept(q)
           /\ doc' # doc => \A q \in Slots : (q # r /\ req'[q].op = "resolve") => req'[q].behind
           /\ \/ At(r, "upload", "fail") /\ req'[r] = Goes(r, "clean")
              \/ At(r, "retry", "fail") /\ req'[r] = Idle
  <1>1. CASE UploadFail(r)
    <2>1. PICK ok \in BOOLEAN : Save(r, Marked(doc, "FAILED"), ok, Goes(r, "clean"))
      BY <1>1 DEF UploadFail
    <2>2. At(r, "upload", "fail") /\ UNCHANGED <<storage, content, uploads, results, files, seen>>
      BY <1>1 DEF UploadFail
    <2> QED
      BY <2>1, <2>2, SaveEffect
  <1>2. CASE RetryFail(r)
    <2>1. PICK ok \in BOOLEAN : Save(r, Marked(doc, "FAILED"), ok, Idle)
      BY <1>2 DEF RetryFail
    <2>2. At(r, "retry", "fail") /\ UNCHANGED <<storage, content, uploads, results, files, seen>>
      BY <1>2 DEF RetryFail
    <2> QED
      BY <2>1, <2>2, SaveEffect
  <1> QED
    BY <1>1, <1>2

LEMMA ShapeFail ==
    ASSUME Shape, NEW r \in Slots, UploadFail(r) \/ RetryFail(r), doc.key # 0
    PROVE  Shape'
  <1>1. req'[r] \in Slot
    BY FailEffect, UploadRow, IdleSlot
  <1>2. req' \in [Slots -> Slot]
    BY <1>1, FailEffect, ReqKept
  <1>3. /\ doc' \in Document /\ doc'.key = doc.key /\ doc'.of = doc.of
        /\ doc'.key = 0 <=> doc'.ext = "NOT_UPLOADED"
    BY FailEffect, FailedRow
  <1> QED
    BY <1>2, <1>3, FailEffect, ShapeIfKept DEF Shape

LEMMA ShapeUploadClean ==
    ASSUME Shape, NEW r \in Slots, UploadClean(r)
    PROVE  Shape'
  <1>1. req' \in [Slots -> Slot]
    BY IdleSlot DEF UploadClean, Shape
  <1>2. storage' \subseteq storage /\ UNCHANGED <<doc, content, uploads, results, files, faults, seen>>
    BY DEF UploadClean
  <1> QED
    BY <1>1, <1>2, ShapeIfKept DEF Shape

LEMMA RetryClaimEffect ==
    ASSUME Shape, NEW r \in Requests, RetryClaim(r)
    PROVE  /\ UNCHANGED <<storage, content, uploads, results, files, faults, seen>>
           /\ doc.key # 0 /\ doc' \in Document /\ doc'.ext = "PROCESSING"
           /\ doc'.key = doc.key /\ doc'.of = doc.of /\ doc'.meta = doc.meta
           /\ doc'.declared = doc.declared
           /\ r \in Slots /\ req' = [q \in Slots |-> req'[q]]
           /\ req'[r] = [op |-> "retry", at |-> "emit", key |-> doc.key]
           /\ \A q \in Slots : q # r => Kept(q)
           /\ \A q \in Slots : (q # r /\ req'[q].op = "resolve") => req'[q].behind
  <1>1. /\ UNCHANGED <<storage, content, uploads, results, files, faults, seen>>
        /\ doc' = [doc EXCEPT !.ext = "PROCESSING", !.age = "fresh"] /\ doc.key # 0
        /\ req' = [q \in Slots |->
                 IF q = r THEN [op |-> "retry", at |-> "emit", key |-> doc.key]
                 ELSE IF req[q].op = "resolve" THEN [req[q] EXCEPT !.behind = TRUE]
                 ELSE req[q]]
    BY DEF RetryClaim, RetryClaimIf
  <1>2. /\ doc' \in Document /\ doc'.ext = "PROCESSING"
        /\ doc'.key = doc.key /\ doc'.of = doc.of /\ doc'.meta = doc.meta
        /\ doc'.declared = doc.declared
    BY <1>1 DEF Shape, Document
  <1>3. r \in Slots
    BY DEF Slots
  <1>4. /\ \A q \in Slots : q # r => Kept(q)
        /\ \A q \in Slots : (q # r /\ req'[q].op = "resolve") => req'[q].behind
    BY <1>1, OvertakeEffect
  <1> QED
    BY <1>1, <1>2, <1>3, <1>4

LEMMA ShapeRetryClaim ==
    ASSUME Shape, NEW r \in Requests, RetryClaim(r)
    PROVE  Shape'
  <1>1. req'[r] \in Slot
    BY RetryClaimEffect, ExtractionAssumption DEF Slot, Retrying, Shape
  <1>2. req' \in [Slots -> Slot]
    BY <1>1, RetryClaimEffect, ReqKept
  <1> QED
    BY <1>2, RetryClaimEffect, ShapeIfKept DEF Shape

LEMMA ShapeRetryEmit ==
    ASSUME Shape, NEW r \in Slots, RetryEmit(r)
    PROVE  Shape'
  <1>1. At(r, "retry", "emit") /\ UNCHANGED <<doc, storage, content, results, files, seen>>
    BY DEF RetryEmit
  <1>2. PICK ok \in BOOLEAN :
          /\ Send(uploads, Event(req[r].key), ok)
          /\ req' = [req EXCEPT ![r] = IF ok THEN Idle ELSE Goes(r, "fail")]
    BY DEF RetryEmit
  <1>3. uploads' \subseteq [key : 1..files] /\ faults' \in 0..MaxFaults
    BY <1>1, <1>2, RetryRow, SendEffect
  <1>4. req' \in [Slots -> Slot]
    BY <1>1, <1>2, RetryRow, IdleSlot DEF Shape
  <1> QED
    BY <1>1, <1>3, <1>4, ShapeIfKept DEF Shape

LEMMA ShapeAge ==
    ASSUME Shape, Age
    PROVE  Shape'
  <1>1. /\ doc' \in Document /\ doc'.key = doc.key /\ doc'.of = doc.of /\ doc'.ext = doc.ext
    BY DEF Age, Shape, Document
  <1>2. req' \in [Slots -> Slot] /\ UNCHANGED <<storage, content, uploads, results, req, files, faults, seen>>
    BY DEF Age, Shape
  <1> QED
    BY <1>1, <1>2, ShapeIfKept DEF Shape

\* what the extractor says of a file
LEMMA Said ==
    ASSUME Shape, NEW k \in 1..files
    PROVE  /\ Failed(k) \in Message
           /\ content[k] # Unreadable => Extracted(k) \in Message
  <1>1. k \in Keys
    BY ExtractionAssumption DEF Shape, Keys
  <1>2. content[k] \in Contents \cup {None}
    BY <1>1 DEF Shape
  <1>3. content[k] # Unreadable => content[k] \in Values \cup {None}
    BY <1>2, ExtractionAssumption
  <1> QED
    BY <1>3 DEF Message, Failed, Extracted

LEMMA ConsumedEffect ==
    ASSUME Shape, NEW m, Consumed(uploads, m) \/ Consumed(results, m)
    PROVE  faults' \in 0..MaxFaults
    BY ExtractionAssumption DEF Consumed, Fault, NoFault, Shape

LEMMA FaultEffect ==
    ASSUME Shape, Fault
    PROVE  faults' \in 0..MaxFaults
    BY ExtractionAssumption DEF Fault, Shape

\* An extraction takes one event and answers for its file.
LEMMA ExtractEffect ==
    ASSUME Shape, Extract
    PROVE  /\ UNCHANGED <<doc, storage, content, req, files, seen>>
           /\ uploads' \subseteq uploads /\ faults' \in 0..MaxFaults
           /\ \E m \in uploads :
                /\ m.key \in 1..files
                /\ \A n \in results' :
                     \/ n \in results
                     \/ n = Failed(m.key)
                     \/ n = Extracted(m.key) /\ content[m.key] # Unreadable
  <1>1. PICK m \in uploads :
          LET readable == m.key \in storage /\ content[m.key] # Unreadable
              good == IF readable THEN {Extracted(m.key)} ELSE {}
              bad == {Failed(m.key)}
          IN  \/ /\ results' = results \cup (IF readable THEN good ELSE bad)
                 /\ Consumed(uploads, m)
              \/ /\ Fault
                 /\ uploads' = uploads \ {m}
                 /\ \E said \in SUBSET (good \cup bad) : results' = results \cup said
    BY Zenon DEF Extract
  <1>2. UNCHANGED <<doc, storage, content, req, files, seen>>
    BY DEF Extract
  <1>3. uploads' \subseteq uploads /\ faults' \in 0..MaxFaults
    BY <1>1, ConsumedEffect, FaultEffect DEF Consumed
  <1>4. m.key \in 1..files
    BY DEF Shape
  <1>5. ASSUME NEW n \in results'
        PROVE  \/ n \in results
               \/ n = Failed(m.key)
               \/ n = Extracted(m.key) /\ content[m.key] # Unreadable
    BY <1>1
  <1> QED
    BY <1>2, <1>3, <1>4, <1>5

LEMMA ShapeExtract ==
    ASSUME Shape, Extract
    PROVE  Shape'
  <1>1. PICK m \in uploads :
          /\ m.key \in 1..files
          /\ \A n \in results' :
               \/ n \in results
               \/ n = Failed(m.key)
               \/ n = Extracted(m.key) /\ content[m.key] # Unreadable
    BY ExtractEffect
  <1>2. results' \subseteq Message
    BY <1>1, Said DEF Shape
  <1>3. /\ UNCHANGED <<doc, storage, content, req, files, seen>>
        /\ uploads' \subseteq uploads /\ faults' \in 0..MaxFaults
    BY ExtractEffect
  <1>4. req' \in [Slots -> Slot] /\ uploads' \subseteq [key : 1..files]
    BY <1>3 DEF Shape
  <1> QED
    BY <1>2, <1>3, <1>4, ShapeIfKept DEF Shape

\* the message a handler takes, and what it found there
LEMMA ApplyReadEffect ==
    ASSUME Shape, NEW h \in Handlers, ApplyRead(h)
    PROVE  /\ UNCHANGED <<doc, storage, content, uploads, results, files, faults, seen>>
           /\ h \in Slots /\ req[h] = Idle /\ req' \in [Slots -> Slot]
           /\ \A q \in Slots : q # h => req'[q] = req[q]
           /\ req'[h] \in Applying
           /\ req'[h].msg \in results /\ req'[h].msg.kind = "extracted"
           /\ req'[h].key = req'[h].msg.key
  <1>1. PICK m \in results :
          /\ m.kind = "extracted"
          /\ req' = [req EXCEPT ![h] =
                [op |-> "apply", at |-> "save", key |-> m.key, msg |-> m,
                 writes |-> {Outcome(m.value, doc.declared)} \ {doc.ext}]]
    BY DEF ApplyRead
  <1>2. UNCHANGED <<doc, storage, content, uploads, results, files, faults, seen>>
        /\ req[h] = Idle /\ h \in Slots
    BY DEF ApplyRead, Slots
  <1>3. req'[h] = [op |-> "apply", at |-> "save", key |-> m.key, msg |-> m,
                   writes |-> {Outcome(m.value, doc.declared)} \ {doc.ext}]
    BY <1>1, <1>2 DEF Shape
  <1>4. m \in Message /\ m.key \in 1..files
    BY DEF Shape, Message
  <1>5. {Outcome(m.value, doc.declared)} \ {doc.ext} \in SUBSET (Resulting \ {"CONFIRMED"})
    BY DEF Outcome, Resulting
  <1>6. req'[h] \in Applying
    BY <1>3, <1>4, <1>5 DEF Applying
  <1>7. req' \in [Slots -> Slot] /\ \A q \in Slots : q # h => req'[q] = req[q]
    BY <1>1, <1>3, <1>6 DEF Shape, Slot
  <1> QED
    BY <1>2, <1>3, <1>6, <1>7, <1>1

LEMMA ShapeApplyRead ==
    ASSUME Shape, NEW h \in Handlers, ApplyRead(h)
    PROVE  Shape'
  <1>1. req' \in [Slots -> Slot]
    BY ApplyReadEffect
  <1> QED
    BY <1>1, ApplyReadEffect, ShapeIfKept DEF Shape

\* what a result leaves in the typology
Applied(r) ==
    [(IF req[r].writes = {} THEN doc ELSE Marked(doc, CHOOSE e \in req[r].writes : TRUE))
        EXCEPT !.meta = req[r].msg.value, !.of = req[r].msg.key]

LEMMA AppliedRow ==
    ASSUME Shape, NEW r \in Slots, At(r, "apply", "save"), doc.key # 0
    PROVE  /\ req[r].msg \in Message /\ req[r].msg.key \in 1..files
           /\ Applied(r) \in Document
           /\ Applied(r).key = doc.key /\ Applied(r).declared = doc.declared
           /\ Applied(r).meta = req[r].msg.value /\ Applied(r).of = req[r].msg.key
           /\ Applied(r).ext # "NOT_UPLOADED"
           /\ Applied(r).ext = "CONFIRMED" => doc.ext = "CONFIRMED"
           /\ Applied(r).ext = doc.ext \/ Applied(r).ext \in Resulting
  <1>1. req[r] \in Applying
    BY SlotOf DEF Shape, At
  <1>2. /\ req[r].msg \in Message /\ req[r].msg.key \in 1..files
        /\ req[r].msg.value \in Values \cup {None}
        /\ req[r].writes \subseteq Resulting \ {"CONFIRMED"}
    BY <1>1 DEF Applying, Message
  <1> DEFINE marked == IF req[r].writes = {} THEN doc ELSE Marked(doc, CHOOSE e \in req[r].writes : TRUE)
  <1>3. /\ marked \in Document /\ marked.key = doc.key /\ marked.declared = doc.declared
        /\ marked.ext = doc.ext \/ marked.ext \in Resulting \ {"CONFIRMED"}
    <2>1. CASE req[r].writes = {}
      BY <2>1 DEF Shape
    <2>2. CASE req[r].writes # {}
      <3>1. (CHOOSE e \in req[r].writes : TRUE) \in Resulting \ {"CONFIRMED"}
        BY <1>2, <2>2
      <3>2. doc \in Document
        BY DEF Shape
      <3> QED
        BY <2>2, <3>1, <3>2, MarkedRow
    <2> QED
      BY <2>1, <2>2
  <1>4. req[r].msg.key \in 0..MaxFiles
    BY <1>2, ExtractionAssumption DEF Shape
  <1>5. Applied(r) = [marked EXCEPT !.meta = req[r].msg.value, !.of = req[r].msg.key]
    BY DEF Applied
  <1> HIDE DEF marked
  <1>6. /\ Applied(r) \in Document
        /\ Applied(r).key = marked.key /\ Applied(r).declared = marked.declared
        /\ Applied(r).meta = req[r].msg.value /\ Applied(r).of = req[r].msg.key
        /\ Applied(r).ext = marked.ext
    BY <1>2, <1>3, <1>4, <1>5 DEF Document
  <1>7. doc.ext # "NOT_UPLOADED"
    BY DEF Shape
  <1> QED
    BY <1>2, <1>3, <1>6, <1>7 DEF Resulting

LEMMA ApplySaveEffect ==
    ASSUME Shape, NEW r \in Slots, ApplySave(r)
    PROVE  /\ At(r, "apply", "save") /\ UNCHANGED <<storage, content, uploads, files, seen>>
           /\ results' \subseteq results /\ faults' \in 0..MaxFaults
           /\ doc' \in {doc, Applied(r)}
           /\ req' = [q \in Slots |-> req'[q]] /\ req'[r] = Idle
           /\ \A q \in Slots : q # r => Kept(q)
           /\ doc' # doc => \A q \in Slots : (q # r /\ req'[q].op = "resolve") => req'[q].behind
  <1>1. /\ At(r, "apply", "save") /\ UNCHANGED <<storage, content, uploads, files, seen>>
        /\ results' \subseteq results
    BY DEF ApplySave
  <1>2. PICK ok \in BOOLEAN : Save(r, Applied(r), ok, Idle)
    BY Zenon DEF ApplySave, Applied
  <1> QED
    BY <1>1, <1>2, SaveEffect

LEMMA ShapeApplySave ==
    ASSUME Shape, NEW r \in Slots, ApplySave(r), doc.key # 0
    PROVE  Shape'
  <1>1. At(r, "apply", "save")
    BY ApplySaveEffect
  <1>2. req' \in [Slots -> Slot]
    BY ApplySaveEffect, IdleSlot, ReqKept
  <1>3. /\ doc' \in Document /\ doc'.key \in 0..files /\ doc'.of \in 0..files
        /\ doc'.key = 0 <=> doc'.ext = "NOT_UPLOADED"
    <2>1. CASE doc' = doc
      BY <2>1 DEF Shape
    <2>2. CASE doc' = Applied(r)
      BY <1>1, <2>2, AppliedRow DEF Shape
    <2> QED
      BY <2>1, <2>2, ApplySaveEffect
  <1>4. results' \subseteq Message
    BY ApplySaveEffect DEF Shape
  <1> QED
    BY <1>2, <1>3, <1>4, ApplySaveEffect, ShapeIfKept DEF Shape

LEMMA MarkFailedEffect ==
    ASSUME Shape, MarkFailed
    PROVE  /\ UNCHANGED <<storage, content, uploads, files, seen>>
           /\ results # {} /\ results' \subseteq results /\ faults' \in 0..MaxFaults
           /\ doc' = Marked(doc, "FAILED")
           /\ req' = [q \in Slots |-> req'[q]]
           /\ \A q \in Slots : Kept(q)
           /\ \A q \in Slots : req'[q].op = "resolve" => req'[q].behind
  <1>1. /\ UNCHANGED <<storage, content, uploads, files, seen>>
        /\ doc' = Marked(doc, "FAILED")
        /\ req' = [q \in Slots |-> IF req[q].op = "resolve" THEN [req[q] EXCEPT !.behind = TRUE]
                                   ELSE req[q]]
    BY DEF MarkFailed
  <1>2. PICK m \in results : Consumed(results, m)
    BY DEF MarkFailed
  <1>3. results # {} /\ results' \subseteq results /\ faults' \in 0..MaxFaults
    BY <1>2, ConsumedEffect DEF Consumed
  <1>4. ASSUME NEW q \in Slots
        PROVE  Kept(q) /\ (req'[q].op = "resolve" => req'[q].behind)
    <2>1. CASE req[q].op = "resolve"
      <3>1. req[q] \in Resolving
        BY <2>1, SlotOf DEF Shape
      <3> QED
        BY <1>1, <2>1, <3>1, BehindRow DEF Kept
    <2>2. CASE req[q].op # "resolve"
      BY <1>1, <2>2 DEF Kept
    <2> QED
      BY <2>1, <2>2
  <1> QED
    BY <1>1, <1>3, <1>4

LEMMA ReqAllKept ==
    ASSUME Shape, files' = files, req' = [q \in Slots |-> req'[q]], \A q \in Slots : Kept(q)
    PROVE  req' \in [Slots -> Slot]
  <1>1. ASSUME NEW q \in Slots
        PROVE  req'[q] \in Slot
    BY KeptSlot, SameSlots DEF Shape
  <1> QED
    BY <1>1

LEMMA ShapeMarkFailed ==
    ASSUME Shape, MarkFailed, doc.key # 0
    PROVE  Shape'
  <1>1. req' \in [Slots -> Slot]
    BY MarkFailedEffect, ReqAllKept
  <1>2. /\ doc' \in Document /\ doc'.key = doc.key /\ doc'.of = doc.of
        /\ doc'.key = 0 <=> doc'.ext = "NOT_UPLOADED"
    BY MarkFailedEffect, FailedRow
  <1>3. results' \subseteq Message
    BY MarkFailedEffect DEF Shape
  <1> QED
    BY <1>1, <1>2, <1>3, MarkFailedEffect, ShapeIfKept DEF Shape

LEMMA ShapeDiscard ==
    ASSUME Shape, Discard
    PROVE  Shape'
  <1>1. results' \subseteq Message /\ req' \in [Slots -> Slot]
        /\ UNCHANGED <<doc, storage, content, uploads, req, files, seen>>
    BY DEF Discard, Shape
  <1>2. faults' \in 0..MaxFaults
    BY FaultEffect DEF Discard
  <1> QED
    BY <1>1, <1>2, ShapeIfKept DEF Shape

\* what a resolution has read and means to declare
LEMMA ResolveReadEffect ==
    ASSUME Shape, NEW r \in Requests, ResolveRead(r)
    PROVE  /\ UNCHANGED <<doc, storage, content, uploads, results, files, faults, seen>>
           /\ r \in Slots /\ req[r] = Idle /\ req' \in [Slots -> Slot]
           /\ \A q \in Slots : q # r => req'[q] = req[q]
           /\ doc.ext \in {"DISCREPANCY", "PENDING_CONFIRMATION"}
           /\ req'[r] \in Resolving
           /\ req'[r].declared = doc.declared /\ Agrees(doc.meta, req'[r].declares)
  <1>1. PICK d \in Resolutions :
          req' = [req EXCEPT ![r] = [op |-> "resolve", at |-> "save", declares |-> d,
                                     declared |-> doc.declared, behind |-> FALSE]]
    BY DEF ResolveRead, ResolveFrom
  <1>2. /\ UNCHANGED <<doc, storage, content, uploads, results, files, faults, seen>>
        /\ req[r] = Idle /\ r \in Slots /\ doc.ext \in {"DISCREPANCY", "PENDING_CONFIRMATION"}
    BY DEF ResolveRead, ResolveFrom, Slots
  <1>3. doc.declared \in Values \cup {None} /\ doc.meta \in Values \cup {None}
    BY DEF Shape, Document
  <1>4. d \in Values \cup {None} /\ Agrees(doc.meta, d)
    BY <1>3 DEF Resolutions
  <1>5. req'[r] = [op |-> "resolve", at |-> "save", declares |-> d,
                   declared |-> doc.declared, behind |-> FALSE]
    BY <1>1, <1>2 DEF Shape
  <1>6. req'[r] \in Resolving
    BY <1>3, <1>4, <1>5 DEF Resolving
  <1>7. req' \in [Slots -> Slot] /\ \A q \in Slots : q # r => req'[q] = req[q]
    BY <1>1, <1>5, <1>6 DEF Shape, Slot
  <1> QED
    BY <1>2, <1>4, <1>5, <1>6, <1>7

LEMMA ShapeResolveRead ==
    ASSUME Shape, NEW r \in Requests, ResolveRead(r)
    PROVE  Shape'
    BY ResolveReadEffect, ShapeIfKept DEF Shape

\* what a resolution leaves in the typology
Confirming(r) ==
    [Marked(doc, "CONFIRMED")
        EXCEPT !.declared = IF req[r].declares = req[r].declared THEN @ ELSE req[r].declares]

LEMMA ConfirmingRow ==
    ASSUME Shape, NEW r \in Slots, At(r, "resolve", "save")
    PROVE  /\ req[r] \in Resolving
           /\ Confirming(r) \in Document /\ Confirming(r).ext = "CONFIRMED"
           /\ Confirming(r).key = doc.key /\ Confirming(r).of = doc.of
           /\ Confirming(r).meta = doc.meta
           /\ Confirming(r).declared =
                IF req[r].declares = req[r].declared THEN doc.declared ELSE req[r].declares
  <1>1. req[r] \in Resolving
    BY SlotOf DEF Shape, At
  <1>2. req[r].declares \in Values \cup {None}
    BY <1>1 DEF Resolving
  <1> DEFINE marked == Marked(doc, "CONFIRMED")
             new == IF req[r].declares = req[r].declared THEN doc.declared ELSE req[r].declares
  <1>3. /\ marked \in Document /\ marked.ext = "CONFIRMED" /\ marked.key = doc.key
        /\ marked.of = doc.of /\ marked.meta = doc.meta /\ marked.declared = doc.declared
    BY MarkedRow DEF Shape, Resulting
  <1>4. new \in Values \cup {None}
    BY <1>2 DEF Shape, Document
  <1>5. Confirming(r) = [marked EXCEPT !.declared = new]
    BY <1>3 DEF Confirming
  <1> HIDE DEF marked, new
  <1>6. /\ Confirming(r) \in Document /\ Confirming(r).ext = marked.ext
        /\ Confirming(r).key = marked.key /\ Confirming(r).of = marked.of
        /\ Confirming(r).meta = marked.meta /\ Confirming(r).declared = new
    BY <1>3, <1>4, <1>5 DEF Document
  <1> QED
    BY <1>1, <1>3, <1>6 DEF new

LEMMA ResolveSaveEffect ==
    ASSUME Shape, NEW r \in Slots, ResolveSave(r)
    PROVE  /\ At(r, "resolve", "save") /\ UNCHANGED <<storage, content, uploads, results, files>>
           /\ faults' \in 0..MaxFaults
           /\ doc' \in {doc, Confirming(r)}
           /\ req' = [q \in Slots |-> req'[q]] /\ req'[r] = Idle
           /\ \A q \in Slots : q # r => Kept(q)
           /\ doc' # doc => \A q \in Slots : (q # r /\ req'[q].op = "resolve") => req'[q].behind
           /\ seen' \in [crossed : BOOLEAN, unsure : BOOLEAN, edited : BOOLEAN]
           /\ seen'.crossed = seen.crossed /\ seen'.unsure = seen.unsure
           /\ seen'.edited = req[r].behind
  <1>1. /\ At(r, "resolve", "save") /\ UNCHANGED <<storage, content, uploads, results, files>>
        /\ seen' = [seen EXCEPT !.edited = req[r].behind]
    BY DEF ResolveSave
  <1>2. PICK ok \in BOOLEAN : Save(r, Confirming(r), ok, Idle)
    BY Zenon DEF ResolveSave, Confirming
  <1>5. /\ faults' \in 0..MaxFaults
        /\ doc' \in {doc, Confirming(r)}
        /\ req' = [q \in Slots |-> req'[q]] /\ req'[r] = Idle
        /\ \A q \in Slots : q # r => Kept(q)
        /\ doc' # doc => \A q \in Slots : (q # r /\ req'[q].op = "resolve") => req'[q].behind
    BY <1>2, SaveEffect
  <1>3. req[r].behind \in BOOLEAN
    BY <1>1, ConfirmingRow DEF Resolving
  <1>4. /\ seen' \in [crossed : BOOLEAN, unsure : BOOLEAN, edited : BOOLEAN]
        /\ seen'.crossed = seen.crossed /\ seen'.unsure = seen.unsure
        /\ seen'.edited = req[r].behind
    BY <1>1, <1>3 DEF Shape
  <1> QED
    BY <1>1, <1>4, <1>5

LEMMA ShapeResolveSave ==
    ASSUME Shape, NEW r \in Slots, ResolveSave(r), doc.key # 0
    PROVE  Shape'
  <1>1. req' \in [Slots -> Slot]
    BY ResolveSaveEffect, IdleSlot, ReqKept
  <1>2. /\ doc' \in Document /\ doc'.key = doc.key /\ doc'.of = doc.of
        /\ doc'.key = 0 <=> doc'.ext = "NOT_UPLOADED"
    BY ResolveSaveEffect, ConfirmingRow DEF Shape
  <1> QED
    BY <1>1, <1>2, ResolveSaveEffect, ShapeIfKept DEF Shape

LEMMA UpdateEffect ==
    ASSUME Shape, Update
    PROVE  /\ UNCHANGED <<storage, content, uploads, results, files, faults>>
           /\ doc' \in Document /\ doc'.key = doc.key /\ doc'.of = doc.of
           /\ doc'.ext = doc.ext /\ doc'.meta = doc.meta
           /\ req' = [q \in Slots |-> req'[q]]
           /\ \A q \in Slots : Kept(q)
           /\ \A q \in Slots : req'[q].op = "resolve" => req'[q].behind
           /\ seen' \in [crossed : BOOLEAN, unsure : BOOLEAN, edited : BOOLEAN]
           /\ seen'.crossed = seen.crossed /\ seen'.unsure = seen.unsure /\ seen'.edited
  <1>1. /\ UNCHANGED <<storage, content, uploads, results, files, faults>>
        /\ req' = [q \in Slots |-> IF req[q].op = "resolve" THEN [req[q] EXCEPT !.behind = TRUE]
                                   ELSE req[q]]
        /\ seen' = [seen EXCEPT !.edited = TRUE]
    BY DEF Update
  <1>2. PICK v \in Values \cup {None} : doc' = [doc EXCEPT !.declared = v]
    BY DEF Update
  <1>3. /\ doc' \in Document /\ doc'.key = doc.key /\ doc'.of = doc.of
        /\ doc'.ext = doc.ext /\ doc'.meta = doc.meta
    BY <1>2 DEF Shape, Document
  <1>4. ASSUME NEW q \in Slots
        PROVE  Kept(q) /\ (req'[q].op = "resolve" => req'[q].behind)
    <2>1. CASE req[q].op = "resolve"
      <3>1. req[q] \in Resolving
        BY <2>1, SlotOf DEF Shape
      <3> QED
        BY <1>1, <2>1, <3>1, BehindRow DEF Kept
    <2>2. CASE req[q].op # "resolve"
      BY <1>1, <2>2 DEF Kept
    <2> QED
      BY <2>1, <2>2
  <1>5. /\ seen' \in [crossed : BOOLEAN, unsure : BOOLEAN, edited : BOOLEAN]
        /\ seen'.crossed = seen.crossed /\ seen'.unsure = seen.unsure /\ seen'.edited
    BY <1>1 DEF Shape
  <1> QED
    BY <1>1, <1>3, <1>4, <1>5

LEMMA ShapeUpdate ==
    ASSUME Shape, Update
    PROVE  Shape'
  <1>1. req' \in [Slots -> Slot]
    BY UpdateEffect, ReqAllKept
  <1> QED
    BY <1>1, UpdateEffect, ShapeIfKept DEF Shape

LEMMA StopEffect ==
    ASSUME Shape, NEW r \in Slots, Stop(r)
    PROVE  /\ UNCHANGED <<doc, storage, content, uploads, results, files, seen>>
           /\ faults' \in 0..MaxFaults
           /\ req' \in [Slots -> Slot] /\ req'[r] = Idle
           /\ \A q \in Slots : q # r => req'[q] = req[q]
    BY FaultEffect, IdleSlot DEF Stop, Shape

LEMMA ShapeStop ==
    ASSUME Shape, NEW r \in Slots, Stop(r)
    PROVE  Shape'
    BY StopEffect, ShapeIfKept DEF Shape

-----------------------------------------------------------------------------
(* Nothing is under way for a typology without a file *)

\* what is under way in a slot
Busy(q) == Placed(q) \/ req[q].op = "resolve"

LEMMA KeptBusy ==
    ASSUME Shape, files' = files, NEW q \in Slots, Kept(q)
    PROVE  Busy(q)' <=> Busy(q)
    BY KeptSlot DEF Busy, Placed, Shape

LEMMA BegunStays ==
    ASSUME Begun, doc.key # 0 => doc'.key # 0,
           uploads' \cup results' # {} => (uploads \cup results # {} \/ doc.key # 0),
           \A q \in Slots : Busy(q)' => (Busy(q) \/ doc'.key # 0)
    PROVE  Begun'
  <1>1. uploads' \cup results' # {} => doc'.key # 0
    BY DEF Begun
  <1>2. ASSUME NEW q \in Slots, Busy(q)'
        PROVE  doc'.key # 0
    BY <1>2 DEF Begun, Busy
  <1>3. \A q \in Slots : (Placed(q) \/ req[q].op = "resolve")' => doc'.key # 0
    BY <1>2 DEF Busy
  <1> QED
    BY <1>1, <1>3 DEF Begun

LEMMA BegunActor ==
    ASSUME Begun, NEW r \in Slots, Busy(r)
    PROVE  doc.key # 0
    BY DEF Begun, Busy

\* Only a save of an upload brings work into being, and that gives the typology
\* its file.
LEMMA BegunStep ==
    ASSUME Shape, Begun, Next
    PROVE  Begun'
  <1>1. ASSUME NEW r \in Requests, UploadStart(r) PROVE Begun'
    <2>1. UNCHANGED <<doc, uploads, results>>
      BY <1>1 DEF UploadStart
    <2>2. ASSUME NEW q \in Slots PROVE Busy(q)' => Busy(q)
      BY <1>1 DEF UploadStart, Shape, Busy, Placed, Slots
    <2> QED
      BY <2>1, <2>2, BegunStays
  <1>2. ASSUME NEW r \in Requests, RetryClaim(r) PROVE Begun'
    BY <1>2, RetryClaimEffect, BegunStays
  <1>3. ASSUME NEW r \in Requests, ResolveRead(r) PROVE Begun'
    <2>1. doc.key # 0 /\ doc' = doc /\ uploads' = uploads /\ results' = results
      BY <1>3, ResolveReadEffect DEF Shape
    <2> QED
      BY <2>1, BegunStays
  <1>4. ASSUME NEW h \in Handlers, ApplyRead(h) PROVE Begun'
    <2>1. doc.key # 0 /\ doc' = doc /\ uploads' = uploads /\ results' = results
      BY <1>4, ApplyReadEffect DEF Begun
    <2> QED
      BY <2>1, BegunStays
  <1>5. ASSUME NEW r \in Slots, UploadSave(r) PROVE Begun'
    <2>1. At(r, "upload", "save") /\ uploads' = uploads /\ results' = results /\ files' = files
      BY <1>5, UploadSaveEffect
    <2>2. req[r].key # 0
      BY <2>1, UploadRow, ExtractionAssumption DEF Shape
    <2> DEFINE row == [doc EXCEPT !.key = req[r].key, !.ext = "PROCESSING", !.age = "fresh"]
    <2>3. row.key # 0
      BY <2>2 DEF Shape, Document
    <2>4. doc' = doc \/ doc' = row
      BY <1>5, UploadSaveEffect
    <2>5. doc.key # 0 => doc'.key # 0
      BY <2>3, <2>4
    <2>6. ASSUME NEW q \in Slots, Busy(q)' PROVE Busy(q) \/ doc'.key # 0
      <3>1. CASE q # r
        <4>1. Kept(q)
          BY <1>5, <3>1, UploadSaveEffect
        <4> QED
          BY <2>1, <2>6, <4>1, KeptBusy
      <3>2. CASE q = r
        <4>1. doc' = row \/ req'[r] = Idle
          BY <1>5, UploadSaveEffect
        <4> QED
          BY <2>3, <2>6, <3>2, <4>1, IdleSlot DEF Busy, Placed
      <3> QED
        BY <3>1, <3>2
    <2> QED
      BY <2>1, <2>5, <2>6, BegunStays
  <1>6. ASSUME NEW r \in Slots, UploadEmit(r) \/ RetryEmit(r) PROVE Begun'
    <2>1. Busy(r) /\ doc' = doc
      BY <1>6 DEF UploadEmit, RetryEmit, At, Busy, Placed
    <2> QED
      BY <2>1, BegunActor, BegunStays
  <1>7. ASSUME NEW r \in Slots, UploadFail(r) \/ RetryFail(r) PROVE Begun'
    <2>1. Busy(r)
      BY <1>7 DEF UploadFail, RetryFail, At, Busy, Placed
    <2>2. doc.key # 0
      BY <2>1, BegunActor
    <2>3. doc'.key = doc.key
      BY <1>7, <2>2, FailEffect, FailedRow
    <2> QED
      BY <2>2, <2>3, BegunStays
  <1>8. ASSUME NEW r \in Slots, UploadClean(r) PROVE Begun'
    <2>1. Busy(r) /\ doc' = doc
      BY <1>8 DEF UploadClean, At, Busy, Placed
    <2> QED
      BY <2>1, BegunActor, BegunStays
  <1>9. ASSUME NEW r \in Slots, ResolveSave(r) PROVE Begun'
    <2>1. Busy(r) /\ doc'.key = doc.key
      BY <1>9, ResolveSaveEffect, ConfirmingRow DEF Busy, At
    <2> QED
      BY <2>1, BegunActor, BegunStays
  <1>10. ASSUME NEW r \in Slots, ApplySave(r) PROVE Begun'
    <2>1. Busy(r) /\ At(r, "apply", "save")
      BY <1>10, ApplySaveEffect DEF Busy, Placed, At
    <2>2. doc.key # 0
      BY <2>1, BegunActor
    <2>3. doc'.key = doc.key
      BY <1>10, <2>1, <2>2, ApplySaveEffect, AppliedRow
    <2> QED
      BY <2>2, <2>3, BegunStays
  <1>11. ASSUME NEW r \in Slots, Stop(r) PROVE Begun'
    <2>1. UNCHANGED <<doc, uploads, results>>
      BY <1>11, StopEffect
    <2>2. ASSUME NEW q \in Slots PROVE Busy(q)' => Busy(q)
      BY <1>11, StopEffect, IdleSlot DEF Busy, Placed
    <2> QED
      BY <2>1, <2>2, BegunStays
  <1>12. CASE Age
    <2>1. UNCHANGED <<uploads, results, req>> /\ doc'.key = doc.key
      BY <1>12 DEF Age, Shape, Document
    <2> QED
      BY <2>1 DEF Begun, Placed
  <1>13. CASE Extract
    <2>1. uploads # {} /\ doc' = doc
      BY <1>13 DEF Extract
    <2>2. doc.key # 0
      BY <2>1 DEF Begun
    <2> QED
      BY <2>1, <2>2, BegunStays
  <1>14. CASE MarkFailed
    <2>1. doc.key # 0
      BY <1>14, MarkFailedEffect DEF Begun
    <2>2. doc'.key = doc.key
      BY <1>14, <2>1, MarkFailedEffect, FailedRow
    <2> QED
      BY <2>1, <2>2, BegunStays
  <1>15. CASE Discard
    <2>1. doc.key # 0 /\ doc' = doc
      BY <1>15 DEF Discard, Begun
    <2> QED
      BY <2>1, BegunStays
  <1>16. CASE Update
    <2>1. UNCHANGED <<uploads, results>> /\ doc'.key = doc.key /\ files' = files
      BY <1>16, UpdateEffect
    <2>2. ASSUME NEW q \in Slots PROVE Busy(q)' => Busy(q)
      BY <1>16, <2>1, UpdateEffect, KeptBusy
    <2> QED
      BY <2>1, <2>2, BegunStays
  <1> QED
    BY <1>1, <1>2, <1>3, <1>4, <1>5, <1>6, <1>7, <1>8, <1>9, <1>10, <1>11, <1>12,
       <1>13, <1>14, <1>15, <1>16 DEF Next, Continue

LEMMA ShapeStep ==
    ASSUME Shape, Begun, Next
    PROVE  Shape'
  <1>1. ASSUME NEW r \in Slots, UploadFail(r) \/ RetryFail(r) PROVE Shape'
    <2>1. Busy(r)
      BY <1>1 DEF UploadFail, RetryFail, At, Busy, Placed
    <2> QED
      BY <1>1, <2>1, BegunActor, ShapeFail
  <1>2. ASSUME NEW r \in Slots, ResolveSave(r) PROVE Shape'
    <2>1. Busy(r)
      BY <1>2 DEF ResolveSave, At, Busy
    <2> QED
      BY <1>2, <2>1, BegunActor, ShapeResolveSave
  <1>3. ASSUME NEW r \in Slots, ApplySave(r) PROVE Shape'
    <2>1. Busy(r)
      BY <1>3, ApplySaveEffect DEF At, Busy, Placed
    <2> QED
      BY <1>3, <2>1, BegunActor, ShapeApplySave
  <1>4. CASE MarkFailed
    <2>1. doc.key # 0
      BY <1>4, MarkFailedEffect DEF Begun
    <2> QED
      BY <1>4, <2>1, ShapeMarkFailed
  <1> QED
    BY <1>1, <1>2, <1>3, <1>4, ShapeUploadStart, ShapeUploadSave, ShapeUploadEmit,
       ShapeUploadClean, ShapeRetryClaim, ShapeRetryEmit, ShapeAge, ShapeExtract,
       ShapeApplyRead, ShapeDiscard, ShapeResolveRead, ShapeUpdate, ShapeStop
    DEF Next, Continue

-----------------------------------------------------------------------------
(* The file of a typology is in storage *)

\* No upload starts or saves; one may clean up after itself.
UploadsStay ==
    /\ doc'.key = doc.key /\ seen'.unsure = seen.unsure
    /\ \A q \in Slots : req'[q].op = "upload" =>
         /\ req[q].op = "upload"
         /\ req'[q].key = req[q].key /\ req'[q].previous = req[q].previous
         /\ req'[q].at = "save" <=> req[q].at = "save"
    /\ \/ storage' = storage
       \/ \E r \in Slots : At(r, "upload", "clean") /\ storage' = storage \ {req[r].previous}

\* Others leave uploads alone.
LEMMA OthersStay ==
    ASSUME Shape, files' = files, doc'.key = doc.key, seen'.unsure = seen.unsure,
           storage' = storage, NEW r,
           r \in Slots => req'[r].op # "upload",
           \A q \in Slots : q # r => Kept(q)
    PROVE  UploadsStay
  <1>1. ASSUME NEW q \in Slots, req'[q].op = "upload"
        PROVE  req'[q] = req[q]
    BY <1>1, KeptSlot DEF Shape
  <1> QED
    BY <1>1 DEF UploadsStay

LEMMA UploadsStaySteps ==
    ASSUME Shape, Begun, Next,
           \A r \in Requests : ~UploadStart(r), \A r \in Slots : ~UploadSave(r)
    PROVE  UploadsStay
  <1>1. ASSUME NEW r \in Requests, RetryClaim(r) PROVE UploadsStay
    BY <1>1, RetryClaimEffect, OthersStay
  <1>2. ASSUME NEW r \in Requests, ResolveRead(r) PROVE UploadsStay
    BY <1>2, ResolveReadEffect, OthersStay DEF Resolving, Kept
  <1>3. ASSUME NEW h \in Handlers, ApplyRead(h) PROVE UploadsStay
    BY <1>3, ApplyReadEffect, OthersStay DEF Applying, Kept
  <1>4. ASSUME NEW r \in Slots, UploadEmit(r) PROVE UploadsStay
    <2>1. PICK ok \in BOOLEAN : req' = [req EXCEPT ![r] = Goes(r, IF ok THEN "clean" ELSE "fail")]
      BY <1>4 DEF UploadEmit
    <2>2. At(r, "upload", "emit") /\ UNCHANGED <<doc, storage, seen>>
      BY <1>4 DEF UploadEmit
    <2>3. req'[r] \in {Goes(r, "clean"), Goes(r, "fail")} /\ \A q \in Slots : q # r => req'[q] = req[q]
      BY <2>1 DEF Shape
    <2> QED
      BY <2>2, <2>3, UploadRow DEF UploadsStay, At
  <1>5. ASSUME NEW r \in Slots, RetryEmit(r) PROVE UploadsStay
    <2>1. PICK ok \in BOOLEAN : req' = [req EXCEPT ![r] = IF ok THEN Idle ELSE Goes(r, "fail")]
      BY <1>5 DEF RetryEmit
    <2>2. At(r, "retry", "emit") /\ UNCHANGED <<doc, storage, seen, files>>
      BY <1>5 DEF RetryEmit
    <2>3. req'[r] \in {Idle, Goes(r, "fail")} /\ \A q \in Slots : q # r => req'[q] = req[q]
      BY <2>1 DEF Shape
    <2>4. req'[r].op # "upload"
      BY <2>2, <2>3, RetryRow, IdleSlot
    <2> QED
      BY <2>2, <2>3, <2>4, OthersStay DEF Kept
  <1>6. ASSUME NEW r \in Slots, UploadFail(r) \/ RetryFail(r) PROVE UploadsStay
    <2>1. Busy(r)
      BY <1>6 DEF UploadFail, RetryFail, At, Busy, Placed
    <2>2. doc.key # 0
      BY <2>1, BegunActor
    <2>3. doc'.key = doc.key /\ UNCHANGED <<storage, files, seen>>
      BY <1>6, <2>2, FailEffect, FailedRow
    <2>4. CASE At(r, "upload", "fail") /\ req'[r] = Goes(r, "clean")
      <3>1. \A q \in Slots : (q # r /\ req'[q].op = "upload") => req'[q] = req[q]
        BY <1>6, <2>2, <2>3, FailEffect, KeptSlot DEF Shape
      <3> QED
        BY <2>3, <2>4, <3>1, UploadRow DEF UploadsStay, At
    <2>5. CASE req'[r] = Idle
      BY <1>6, <2>2, <2>3, <2>5, FailEffect, IdleSlot, OthersStay
    <2> QED
      BY <1>6, <2>2, <2>4, <2>5, FailEffect
  <1>7. ASSUME NEW r \in Slots, UploadClean(r) PROVE UploadsStay
    BY <1>7, IdleSlot DEF UploadClean, UploadsStay, Shape
  <1>8. ASSUME NEW r \in Slots, ResolveSave(r) PROVE UploadsStay
    <2>1. doc'.key = doc.key /\ UNCHANGED <<storage, files>> /\ seen'.unsure = seen.unsure
      BY <1>8, ResolveSaveEffect, ConfirmingRow
    <2> QED
      BY <1>8, <2>1, ResolveSaveEffect, IdleSlot, OthersStay
  <1>9. ASSUME NEW r \in Slots, ApplySave(r) PROVE UploadsStay
    <2>1. Busy(r) /\ At(r, "apply", "save")
      BY <1>9, ApplySaveEffect DEF Busy, Placed, At
    <2>2. doc'.key = doc.key /\ UNCHANGED <<storage, files>> /\ seen'.unsure = seen.unsure
      BY <1>9, <2>1, BegunActor, ApplySaveEffect, AppliedRow
    <2> QED
      BY <1>9, <2>2, ApplySaveEffect, IdleSlot, OthersStay
  <1>10. ASSUME NEW r \in Slots, Stop(r) PROVE UploadsStay
    BY <1>10, StopEffect, IdleSlot, OthersStay DEF Kept
  <1>11. CASE Age
    BY <1>11 DEF Age, UploadsStay, Shape, Document
  <1>12. CASE Extract
    BY <1>12, ExtractEffect DEF UploadsStay
  <1>13. CASE MarkFailed
    <2>1. doc'.key = doc.key /\ UNCHANGED <<storage, files>> /\ seen'.unsure = seen.unsure
      BY <1>13, MarkFailedEffect, MarkedRow DEF Shape
    <2>2. \A q \in Slots : req'[q].op = "upload" => req'[q] = req[q]
      BY <1>13, <2>1, MarkFailedEffect, KeptSlot DEF Shape
    <2> QED
      BY <2>1, <2>2 DEF UploadsStay
  <1>14. CASE Discard
    BY <1>14 DEF Discard, UploadsStay
  <1>15. CASE Update
    <2>1. \A q \in Slots : req'[q].op = "upload" => req'[q] = req[q]
      BY <1>15, UpdateEffect, KeptSlot DEF Shape
    <2> QED
      BY <1>15, <2>1, UpdateEffect DEF UploadsStay
  <1> QED
    BY <1>1, <1>2, <1>3, <1>4, <1>5, <1>6, <1>7, <1>8, <1>9, <1>10, <1>11, <1>12,
       <1>13, <1>14, <1>15 DEF Next, Continue, Slots

\* what a new upload adds
LEMMA UploadStartEffect ==
    ASSUME Shape, NEW r \in Requests, UploadStart(r)
    PROVE  /\ UNCHANGED <<doc, uploads, results, faults, seen>>
           /\ files' = files + 1 /\ files + 1 \in Keys /\ r \in Slots /\ req[r] = Idle
           /\ storage' = storage \cup {files + 1}
           /\ \A k \in 1..files : content'[k] = content[k]
           /\ req'[r] = [op |-> "upload", at |-> "save", key |-> files + 1, previous |-> doc.key]
           /\ \A q \in Slots : q # r => req'[q] = req[q]
  <1>1. files \in Nat /\ files + 1 \in Keys /\ r \in Slots /\ \A k \in 1..files : k \in Keys /\ k # files + 1
    BY ExtractionAssumption DEF Shape, UploadStart, Keys, Slots
  <1> QED
    BY <1>1 DEF Shape, UploadStart

\* Every upload has the key of a file, and replaces a file.
LEMMA UploadKeys ==
    ASSUME Shape, NEW q \in Slots, req[q].op = "upload"
    PROVE  req[q].key \in 1..files /\ req[q].previous \in 0..files
  <1>1. req[q] \in Uploading
    BY SlotOf DEF Shape
  <1> QED
    BY <1>1 DEF Uploading

\* A key is drawn once: files counts up, and every key there is, is at most files.
LEMMA FreshStep ==
    ASSUME Shape, Begun, Fresh, Next
    PROVE  Fresh'
  <1>1. ASSUME NEW r \in Requests, UploadStart(r) PROVE Fresh'
    <2>1. files \in Nat /\ doc.key \in 0..files /\ doc' = doc
      BY <1>1, UploadStartEffect, ExtractionAssumption DEF Shape
    <2>2. \A q \in Slots : q # r => req'[q] = req[q]
      BY <1>1, UploadStartEffect
    <2>3. r \in Slots /\ req'[r] = [op |-> "upload", at |-> "save", key |-> files + 1, previous |-> doc.key]
      BY <1>1, UploadStartEffect
    <2>5. ASSUME NEW q \in Slots, req[q].op = "upload"
          PROVE  req[q].key # files + 1 /\ req[q].previous # files + 1
      BY <2>1, <2>5, UploadKeys
    <2>6. ASSUME NEW q \in Slots, req'[q].op = "upload", req'[q].at = "save"
          PROVE  /\ doc'.key # req'[q].key
                 /\ \A p \in Slots : req'[p].op = "upload" =>
                      /\ req'[p].previous # req'[q].key
                      /\ p # q => req'[p].key # req'[q].key
      <3>1. CASE q = r
        BY <2>1, <2>2, <2>3, <2>5, <3>1
      <3>2. CASE q # r
        BY <2>1, <2>2, <2>3, <2>5, <2>6, <3>2 DEF Fresh
      <3> QED
        BY <3>1, <3>2
    <2>7. ASSUME NEW q \in Slots, req'[q].op = "upload", req'[q].at # "save"
          PROVE  doc'.key # req'[q].previous
      BY <2>1, <2>2, <2>3, <2>7 DEF Fresh
    <2> QED
      BY <2>6, <2>7 DEF Fresh
  <1>2. ASSUME NEW r \in Slots, UploadSave(r) PROVE Fresh'
    <2> DEFINE row == [doc EXCEPT !.key = req[r].key, !.ext = "PROCESSING", !.age = "fresh"]
    <2>1. At(r, "upload", "save") /\ files' = files
      BY <1>2, UploadSaveEffect
    <2>2. row.key = req[r].key
      BY DEF Shape, Document
    <2>3. \/ doc' = row /\ req'[r] = Goes(r, "emit")
          \/ doc' \in {doc, row} /\ req'[r] = Idle
      BY <1>2, UploadSaveEffect
    <2>4. ASSUME NEW q \in Slots, q # r, req'[q].op = "upload" PROVE req'[q] = req[q] /\ req[q].op = "upload"
      BY <1>2, <2>1, <2>4, UploadSaveEffect, KeptSlot DEF Shape
    <2>5. /\ req'[r].op = "upload" => req'[r] = Goes(r, "emit") /\ doc'.key = req[r].key
          /\ Goes(r, "emit").at = "emit" /\ Goes(r, "emit").key = req[r].key
          /\ Goes(r, "emit").previous = req[r].previous
      BY <2>1, <2>2, <2>3, UploadRow, IdleSlot
    <2>6. doc'.key \in {doc.key, req[r].key}
      BY <2>2, <2>3
    <2>7. /\ req[r].op = "upload" /\ doc.key # req[r].key
          /\ \A q \in Slots : req[q].op = "upload" =>
               /\ req[q].previous # req[r].key
               /\ q # r => req[q].key # req[r].key
      BY <2>1 DEF Fresh, At
    <2>8. ASSUME NEW q \in Slots, req'[q].op = "upload", req'[q].at = "save"
          PROVE  /\ doc'.key # req'[q].key
                 /\ \A p \in Slots : req'[p].op = "upload" =>
                      /\ req'[p].previous # req'[q].key
                      /\ p # q => req'[p].key # req'[q].key
      <3>1. q # r
        BY <2>5, <2>8
      <3>2. req'[q] = req[q] /\ req[q].op = "upload" /\ req[q].at = "save"
        BY <2>4, <2>8, <3>1
      <3>3. doc'.key # req'[q].key
        BY <2>6, <2>7, <3>1, <3>2 DEF Fresh
      <3>4. ASSUME NEW p \in Slots, req'[p].op = "upload"
            PROVE  req'[p].previous = req[p].previous /\ req'[p].key = req[p].key /\ req[p].op = "upload"
        BY <2>4, <2>5, <2>7, <3>4
      <3> QED
        BY <3>2, <3>3, <3>4 DEF Fresh
    <2>9. ASSUME NEW q \in Slots, req'[q].op = "upload", req'[q].at # "save"
          PROVE  doc'.key # req'[q].previous
      <3>1. CASE q = r
        BY <2>5, <2>7, <2>9, <3>1
      <3>2. CASE q # r
        BY <2>4, <2>6, <2>7, <2>9, <3>2 DEF Fresh
      <3> QED
        BY <3>1, <3>2
    <2> QED
      BY <2>8, <2>9 DEF Fresh
  <1>3. CASE UploadsStay
    BY <1>3 DEF UploadsStay, Fresh
  <1>4. CASE (\A r \in Requests : ~UploadStart(r)) /\ \A r \in Slots : ~UploadSave(r)
    BY <1>3, <1>4, UploadsStaySteps
  <1> QED
    BY <1>1, <1>2, <1>4

\* A save that fails deletes its own file, a clean-up the previous one.
LEMMA StoredStep ==
    ASSUME Shape, Begun, Fresh, Stored, Next
    PROVE  Stored'
  <1>1. ASSUME NEW r \in Requests, UploadStart(r) PROVE Stored'
    <2>1. /\ UNCHANGED <<doc, seen>> /\ storage' = storage \cup {files + 1}
          /\ req'[r].key = files + 1 /\ \A q \in Slots : q # r => req'[q] = req[q]
      BY <1>1, UploadStartEffect
    <2> QED
      BY <2>1 DEF Stored, At
  <1>2. ASSUME NEW r \in Slots, UploadSave(r) PROVE Stored'
    <2> SUFFICES ASSUME ~seen'.unsure
                 PROVE  /\ doc'.key # 0 => doc'.key \in storage'
                        /\ \A q \in Slots : At(q, "upload", "save")' => req'[q].key \in storage'
      BY DEF Stored
    <2> DEFINE row == [doc EXCEPT !.key = req[r].key, !.ext = "PROCESSING", !.age = "fresh"]
    <2>1. At(r, "upload", "save") /\ files' = files
      BY <1>2, UploadSaveEffect
    <2>2. row.key = req[r].key
      BY DEF Shape, Document
    <2>3. ~seen.unsure
      BY <1>2, UploadSaveEffect
    <2>4. /\ doc.key # 0 => doc.key \in storage
          /\ \A q \in Slots : At(q, "upload", "save") => req[q].key \in storage
      BY <2>3 DEF Stored
    <2>5. /\ doc.key # req[r].key
          /\ \A q \in Slots : (q # r /\ req[q].op = "upload") => req[q].key # req[r].key
      BY <2>1 DEF Fresh, At
    <2>6. ASSUME NEW q \in Slots, q # r, At(q, "upload", "save")'
          PROVE  At(q, "upload", "save") /\ req'[q] = req[q]
      BY <1>2, <2>1, <2>6, UploadSaveEffect, KeptSlot DEF Shape, At
    <2>7. CASE doc' = row /\ req'[r] = Goes(r, "emit") /\ storage' = storage
      <3>1. Goes(r, "emit").at = "emit"
        BY <2>1, UploadRow
      <3>2. ASSUME NEW q \in Slots, At(q, "upload", "save")'
            PROVE  req'[q].key \in storage'
        BY <2>4, <2>6, <2>7, <3>1, <3>2 DEF At
      <3> QED
        BY <2>1, <2>2, <2>4, <2>7, <3>2
    <2>8. CASE /\ doc' \in {doc, row} /\ req'[r] = Idle /\ storage' = storage \ {req[r].key}
               /\ doc' # doc => seen'.unsure
      <3>1. doc' = doc
        BY <2>8
      <3>2. ASSUME NEW q \in Slots, At(q, "upload", "save")'
            PROVE  req'[q].key \in storage'
        <4>1. q # r
          BY <2>8, <3>2, IdleSlot DEF At
        <4> QED
          BY <2>4, <2>5, <2>6, <2>8, <3>2, <4>1 DEF At
      <3> QED
        BY <2>4, <2>5, <2>8, <3>1, <3>2
    <2> QED
      BY <1>2, <2>7, <2>8, UploadSaveEffect
  <1>3. CASE UploadsStay
    <2> SUFFICES ASSUME ~seen'.unsure
                 PROVE  /\ doc'.key # 0 => doc'.key \in storage'
                        /\ \A q \in Slots : At(q, "upload", "save")' => req'[q].key \in storage'
      BY DEF Stored
    <2>1. /\ doc.key # 0 => doc.key \in storage
          /\ \A q \in Slots : At(q, "upload", "save") => req[q].key \in storage
          /\ doc'.key = doc.key
      BY <1>3 DEF Stored, UploadsStay
    <2>2. ASSUME NEW q \in Slots, At(q, "upload", "save")'
          PROVE  At(q, "upload", "save") /\ req'[q].key = req[q].key
      BY <1>3, <2>2 DEF UploadsStay, At
    <2>3. CASE storage' = storage
      BY <2>1, <2>2, <2>3
    <2>4. ASSUME NEW r \in Slots, At(r, "upload", "clean"), storage' = storage \ {req[r].previous}
          PROVE  /\ doc'.key # 0 => doc'.key \in storage'
                 /\ \A q \in Slots : At(q, "upload", "save")' => req'[q].key \in storage'
      <3>1. doc.key # req[r].previous
        BY <2>4 DEF Fresh, At
      <3>2. ASSUME NEW q \in Slots, At(q, "upload", "save") PROVE req[q].key # req[r].previous
        BY <2>4, <3>2 DEF Fresh, At
      <3> QED
        BY <2>1, <2>2, <2>4, <3>1, <3>2
    <2> QED
      BY <1>3, <2>3, <2>4 DEF UploadsStay
  <1>4. CASE (\A r \in Requests : ~UploadStart(r)) /\ \A r \in Slots : ~UploadSave(r)
    BY <1>3, <1>4, UploadsStaySteps
  <1> QED
    BY <1>1, <1>2, <1>4

-----------------------------------------------------------------------------
(* Results tell what the file holds *)

\* what a handler is about to write
Told(q) == req[q].msg.key = req[q].key /\ req[q].msg.value = content[req[q].key]

LEMMA TruthfulStays ==
    ASSUME Truthful, content' = content,
           \A n \in results' : n \in results \/ (n.kind = "extracted" => n.value = content[n.key]),
           \A q \in Slots : req'[q].op = "apply" => (req'[q] = req[q] \/ Told(q)'),
           doc'.of = doc.of, doc'.meta = doc.meta
    PROVE  Truthful'
  <1>1. ASSUME NEW q \in Slots, req'[q].op = "apply"
        PROVE  req'[q].msg.key = req'[q].key /\ req'[q].msg.value = content'[req'[q].key]
    <2>1. CASE req'[q] = req[q]
      BY <1>1, <2>1 DEF Truthful
    <2>2. CASE Told(q)'
      BY <2>2 DEF Told
    <2> QED
      BY <1>1, <2>1, <2>2
  <1>2. ASSUME NEW n \in results', n.kind = "extracted"
        PROVE  n.value = content'[n.key]
    BY <1>2 DEF Truthful
  <1> QED
    BY <1>1, <1>2 DEF Truthful

\* What extraction finds in a file is written once, when its key is drawn.
LEMMA TruthfulStep ==
    ASSUME Shape, Begun, Truthful, Next
    PROVE  Truthful'
  <1>1. ASSUME NEW r \in Requests, UploadStart(r) PROVE Truthful'
    <2>1. /\ UNCHANGED <<doc, results>> /\ \A k \in 1..files : content'[k] = content[k]
          /\ req'[r].op = "upload" /\ \A q \in Slots : q # r => req'[q] = req[q]
      BY <1>1, UploadStartEffect
    <2>2. \A m \in results : m.key \in 1..files
      BY DEF Shape, Message
    <2>3. ASSUME NEW q \in Slots, req[q].op = "apply" PROVE req[q].key \in 1..files
      BY <2>3, SlotOf DEF Shape, Applying
    <2>4. doc.of # 0 => doc.of \in 1..files
      BY ExtractionAssumption DEF Shape
    <2>5. ASSUME NEW q \in Slots, req'[q].op = "apply"
          PROVE  req'[q] = req[q] /\ req[q].key \in 1..files
      BY <2>1, <2>3, <2>5
    <2>6. \A q \in Slots : req'[q].op = "apply" =>
            req'[q].msg.key = req'[q].key /\ req'[q].msg.value = content'[req'[q].key]
      BY <2>1, <2>5 DEF Truthful
    <2>7. \A m \in results' : m.kind = "extracted" => m.value = content'[m.key]
      BY <2>1, <2>2 DEF Truthful
    <2>8. doc'.meta = IF doc'.of = 0 THEN None ELSE content'[doc'.of]
      BY <2>1, <2>4 DEF Truthful
    <2> QED
      BY <2>6, <2>7, <2>8 DEF Truthful
  <1>2. ASSUME NEW r \in Requests, RetryClaim(r) PROVE Truthful'
    <2>1. \A q \in Slots : req'[q].op = "apply" => req'[q] = req[q]
      BY <1>2, RetryClaimEffect, KeptSlot DEF Shape
    <2> QED
      BY <1>2, <2>1, RetryClaimEffect, TruthfulStays
  <1>3. ASSUME NEW r \in Requests, ResolveRead(r) PROVE Truthful'
    <2>1. \A q \in Slots : req'[q].op = "apply" => req'[q] = req[q]
      BY <1>3, ResolveReadEffect DEF Resolving
    <2> QED
      BY <1>3, <2>1, ResolveReadEffect, TruthfulStays
  <1>4. ASSUME NEW h \in Handlers, ApplyRead(h) PROVE Truthful'
    <2>1. UNCHANGED <<doc, content, results>> /\ h \in Slots
      BY <1>4, ApplyReadEffect
    <2>2. /\ req'[h].msg \in results /\ req'[h].msg.kind = "extracted"
          /\ req'[h].key = req'[h].msg.key
      BY <1>4, ApplyReadEffect
    <2>3. Told(h)'
      BY <2>1, <2>2 DEF Truthful, Told
    <2>4. \A q \in Slots : req'[q].op = "apply" => (req'[q] = req[q] \/ Told(q)')
      BY <1>4, <2>3, ApplyReadEffect
    <2> QED
      BY <2>1, <2>4, TruthfulStays
  <1>5. ASSUME NEW r \in Slots, UploadSave(r) PROVE Truthful'
    <2>1. At(r, "upload", "save") /\ UNCHANGED <<content, results, files>>
      BY <1>5, UploadSaveEffect
    <2>2. req'[r].op # "apply"
      BY <1>5, <2>1, UploadSaveEffect, UploadRow, IdleSlot
    <2>3. \A q \in Slots : req'[q].op = "apply" => req'[q] = req[q]
      BY <1>5, <2>1, <2>2, UploadSaveEffect, KeptSlot DEF Shape
    <2> DEFINE row == [doc EXCEPT !.key = req[r].key, !.ext = "PROCESSING", !.age = "fresh"]
    <2>5. row.of = doc.of /\ row.meta = doc.meta
      BY DEF Shape, Document
    <2>6. doc' \in {doc, row}
      BY <1>5, UploadSaveEffect
    <2>4. doc'.of = doc.of /\ doc'.meta = doc.meta
      BY <2>5, <2>6
    <2> QED
      BY <2>1, <2>3, <2>4, TruthfulStays
  <1>6. ASSUME NEW r \in Slots, UploadEmit(r) PROVE Truthful'
    <2>1. At(r, "upload", "emit") /\ UNCHANGED <<doc, content, results>>
      BY <1>6 DEF UploadEmit
    <2>2. PICK ok \in BOOLEAN : req' = [req EXCEPT ![r] = Goes(r, IF ok THEN "clean" ELSE "fail")]
      BY <1>6 DEF UploadEmit
    <2>3. \A q \in Slots : req'[q].op = "apply" => req'[q] = req[q]
      BY <2>1, <2>2, UploadRow DEF Shape
    <2> QED
      BY <2>1, <2>3, TruthfulStays
  <1>7. ASSUME NEW r \in Slots, RetryEmit(r) PROVE Truthful'
    <2>1. At(r, "retry", "emit") /\ UNCHANGED <<doc, content, results>>
      BY <1>7 DEF RetryEmit
    <2>2. PICK ok \in BOOLEAN : req' = [req EXCEPT ![r] = IF ok THEN Idle ELSE Goes(r, "fail")]
      BY <1>7 DEF RetryEmit
    <2>3. \A q \in Slots : req'[q].op = "apply" => req'[q] = req[q]
      BY <2>1, <2>2, RetryRow, IdleSlot DEF Shape
    <2> QED
      BY <2>1, <2>3, TruthfulStays
  <1>8. ASSUME NEW r \in Slots, UploadFail(r) \/ RetryFail(r) PROVE Truthful'
    <2>1. Busy(r)
      BY <1>8 DEF UploadFail, RetryFail, At, Busy, Placed
    <2>2. doc.key # 0
      BY <2>1, BegunActor
    <2>3. UNCHANGED <<content, results, files>> /\ doc'.of = doc.of /\ doc'.meta = doc.meta
      BY <1>8, <2>2, FailEffect, FailedRow
    <2>4. req'[r].op # "apply"
      BY <1>8, <2>2, FailEffect, UploadRow, IdleSlot
    <2>5. \A q \in Slots : req'[q].op = "apply" => req'[q] = req[q]
      BY <1>8, <2>2, <2>3, <2>4, FailEffect, KeptSlot DEF Shape
    <2> QED
      BY <2>3, <2>5, TruthfulStays
  <1>9. ASSUME NEW r \in Slots, UploadClean(r) \/ Stop(r) PROVE Truthful'
    <2>1. UNCHANGED <<doc, content, results>>
      BY <1>9 DEF UploadClean, Stop
    <2>2. \A q \in Slots : req'[q].op = "apply" => req'[q] = req[q]
      BY <1>9, IdleSlot DEF UploadClean, Stop, Shape
    <2> QED
      BY <2>1, <2>2, TruthfulStays
  <1>10. ASSUME NEW r \in Slots, ResolveSave(r) PROVE Truthful'
    <2>1. UNCHANGED <<content, results, files>> /\ doc'.of = doc.of /\ doc'.meta = doc.meta
      BY <1>10, ResolveSaveEffect, ConfirmingRow
    <2>2. \A q \in Slots : req'[q].op = "apply" => req'[q] = req[q]
      BY <1>10, <2>1, ResolveSaveEffect, KeptSlot, IdleSlot DEF Shape
    <2> QED
      BY <2>1, <2>2, TruthfulStays
  <1>11. ASSUME NEW r \in Slots, ApplySave(r) PROVE Truthful'
    <2>1. At(r, "apply", "save") /\ UNCHANGED <<content, files>> /\ results' \subseteq results
      BY <1>11, ApplySaveEffect
    <2>2. doc.key # 0
      BY <2>1, BegunActor DEF At, Busy, Placed
    <2>3. \A q \in Slots : req'[q].op = "apply" => req'[q] = req[q]
      BY <1>11, <2>1, ApplySaveEffect, KeptSlot, IdleSlot DEF Shape
    <2>4. CASE doc' = doc
      BY <2>1, <2>3, <2>4, TruthfulStays
    <2>5. CASE doc' = Applied(r)
      <3>1. doc'.meta = req[r].msg.value /\ doc'.of = req[r].msg.key /\ req[r].msg.key \in 1..files
        BY <2>1, <2>2, <2>5, AppliedRow
      <3>2. req[r].msg.value = content[req[r].msg.key]
        BY <2>1 DEF Truthful, At
      <3>3. doc'.of # 0
        BY <3>1
      <3>4. doc'.meta = IF doc'.of = 0 THEN None ELSE content'[doc'.of]
        BY <2>1, <3>1, <3>2, <3>3
      <3> QED
        BY <2>1, <2>3, <3>4 DEF Truthful
    <2> QED
      BY <1>11, <2>4, <2>5, ApplySaveEffect
  <1>12. CASE Age
    BY <1>12 DEF Age, Truthful, Shape, Document
  <1>13. CASE Extract
    <2>1. PICK m \in uploads :
          /\ m.key \in 1..files
          /\ \A n \in results' :
               \/ n \in results
               \/ n = Failed(m.key)
               \/ n = Extracted(m.key) /\ content[m.key] # Unreadable
      BY <1>13, ExtractEffect
    <2>2. \A n \in results' : n \in results \/ (n.kind = "extracted" => n.value = content[n.key])
      BY <2>1 DEF Failed, Extracted
    <2> QED
      BY <1>13, <2>2, ExtractEffect, TruthfulStays
  <1>14. CASE MarkFailed
    <2>1. doc'.of = doc.of /\ doc'.meta = doc.meta /\ UNCHANGED <<content, files>> /\ results' \subseteq results
      BY <1>14, MarkFailedEffect, MarkedRow DEF Shape
    <2>2. \A q \in Slots : req'[q].op = "apply" => req'[q] = req[q]
      BY <1>14, <2>1, MarkFailedEffect, KeptSlot DEF Shape
    <2> QED
      BY <2>1, <2>2, TruthfulStays
  <1>15. CASE Discard
    BY <1>15 DEF Discard, Truthful
  <1>16. CASE Update
    <2>1. \A q \in Slots : req'[q].op = "apply" => req'[q] = req[q]
      BY <1>16, UpdateEffect, KeptSlot DEF Shape
    <2> QED
      BY <1>16, <2>1, UpdateEffect, TruthfulStays
  <1> QED
    BY <1>1, <1>2, <1>3, <1>4, <1>5, <1>6, <1>7, <1>8, <1>9, <1>10, <1>11, <1>12,
       <1>13, <1>14, <1>15, <1>16 DEF Next, Continue

-----------------------------------------------------------------------------
(* One file at a time *)

LEMMA OneFileStays ==
    ASSUME OneFile, seen'.crossed = seen.crossed, doc'.key = doc.key,
           \A n \in uploads' \cup results' : n \in uploads \cup results \/ (~seen.crossed => n.key = doc.key),
           \A q \in Slots : Placed(q)' => \/ Placed(q) /\ req'[q].key = req[q].key
                                          \/ ~seen.crossed => req'[q].key = doc.key,
           \A q \in Slots : req'[q].op = "resolve" =>
                \/ req[q].op = "resolve"
                \/ ~seen.crossed => q \in Requests /\ doc.of = doc.key,
           ~seen.crossed => doc'.of \in {doc.of, doc.key},
           doc'.ext \in Resulting => \/ doc.ext \in Resulting
                                     \/ ~seen.crossed => doc'.of = doc.key
    PROVE  OneFile'
  <1> SUFFICES ASSUME ~seen.crossed
               PROVE  /\ \A m \in uploads' \cup results' : m.key = doc'.key
                      /\ \A q \in Slots : Placed(q)' => req'[q].key = doc'.key
                      /\ \A q \in Slots : req'[q].op = "resolve" => q \in Requests /\ doc'.of = doc'.key
                      /\ doc'.ext \in Resulting => doc'.of = doc'.key
    BY DEF OneFile
  <1>1. /\ \A m \in uploads \cup results : m.key = doc.key
        /\ \A q \in Slots : Placed(q) => req[q].key = doc.key
        /\ \A q \in Slots : req[q].op = "resolve" => q \in Requests /\ doc.of = doc.key
        /\ doc.ext \in Resulting => doc.of = doc.key
    BY DEF OneFile
  <1> QED
    BY <1>1

\* Others keep the key they have.
LEMMA KeptKey ==
    ASSUME Shape, files' = files, NEW q \in Slots, Kept(q)
    PROVE  /\ Placed(q)' => Placed(q) /\ req'[q].key = req[q].key
           /\ req'[q].op = "resolve" => req[q].op = "resolve"
    BY KeptSlot DEF Placed, Shape

\* An upload that saves over the work of another is seen to cross it.
LEMMA OneFileStep ==
    ASSUME Shape, Begun, Truthful, OneFile, Next
    PROVE  OneFile'
  <1>1. ASSUME NEW r \in Requests, UploadStart(r) PROVE OneFile'
    <2>1. UNCHANGED <<doc, uploads, results, seen>>
      BY <1>1, UploadStartEffect
    <2>2. ASSUME NEW q \in Slots
          PROVE  /\ Placed(q)' => Placed(q) /\ req'[q].key = req[q].key
                 /\ req'[q].op = "resolve" => req[q].op = "resolve"
      BY <1>1, UploadStartEffect DEF Placed
    <2> QED
      BY <2>1, <2>2, OneFileStays
  <1>2. ASSUME NEW r \in Requests, RetryClaim(r) PROVE OneFile'
    <2>1. \A q \in Slots : Placed(q)' => \/ Placed(q) /\ req'[q].key = req[q].key
                                         \/ req'[q].key = doc.key
      BY <1>2, RetryClaimEffect, KeptKey
    <2>2. \A q \in Slots : req'[q].op = "resolve" => req[q].op = "resolve"
      BY <1>2, RetryClaimEffect, KeptKey
    <2>3. doc'.ext \notin Resulting
      BY <1>2, RetryClaimEffect DEF Resulting
    <2> QED
      BY <1>2, <2>1, <2>2, <2>3, RetryClaimEffect, OneFileStays
  <1>3. ASSUME NEW r \in Requests, ResolveRead(r) PROVE OneFile'
    <2>1. UNCHANGED <<doc, uploads, results, seen>> /\ doc.ext \in Resulting
      BY <1>3, ResolveReadEffect DEF Resulting
    <2>2. \A q \in Slots : Placed(q)' => Placed(q) /\ req'[q].key = req[q].key
      BY <1>3, ResolveReadEffect DEF Placed, Resolving
    <2>3. ~seen.crossed => doc.of = doc.key
      BY <2>1 DEF OneFile
    <2>4. \A q \in Slots : req'[q].op = "resolve" =>
                \/ req[q].op = "resolve"
                \/ ~seen.crossed => q \in Requests /\ doc.of = doc.key
      BY <1>3, <2>3, ResolveReadEffect
    <2> QED
      BY <2>1, <2>2, <2>4, OneFileStays
  <1>4. ASSUME NEW h \in Handlers, ApplyRead(h) PROVE OneFile'
    <2>1. UNCHANGED <<doc, uploads, results, seen>> /\ h \in Slots
      BY <1>4, ApplyReadEffect
    <2>2. ~seen.crossed => req'[h].key = doc.key
      BY <1>4, ApplyReadEffect DEF OneFile
    <2>3. \A q \in Slots : Placed(q)' => \/ Placed(q) /\ req'[q].key = req[q].key
                                         \/ ~seen.crossed => req'[q].key = doc.key
      BY <1>4, <2>2, ApplyReadEffect DEF Placed
    <2>4. \A q \in Slots : req'[q].op = "resolve" => req[q].op = "resolve"
      BY <1>4, ApplyReadEffect DEF Applying
    <2> QED
      BY <2>1, <2>3, <2>4, OneFileStays
  <1>5. ASSUME NEW r \in Slots, UploadSave(r) PROVE OneFile'
    <2> DEFINE row == [doc EXCEPT !.key = req[r].key, !.ext = "PROCESSING", !.age = "fresh"]
    <2>1. At(r, "upload", "save") /\ UNCHANGED <<uploads, results, files>>
      BY <1>5, UploadSaveEffect
    <2>2. row.key = req[r].key /\ row.ext = "PROCESSING"
      BY DEF Shape, Document
    <2>3. CASE seen'.crossed
      BY <2>3 DEF OneFile
    <2>4. CASE ~seen'.crossed
      <3>1. /\ ~seen.crossed /\ UnderWay = {req[r].key}
            /\ \A q \in Requests : req[q].op # "resolve"
        BY <1>5, <2>4, UploadSaveEffect
      <3>2. /\ \A m \in uploads \cup results : m.key = doc.key
            /\ \A q \in Slots : Placed(q) => req[q].key = doc.key
            /\ \A q \in Slots : req[q].op # "resolve"
            /\ doc.ext \in Resulting => doc.of = doc.key
        BY <3>1 DEF OneFile
      <3>3. /\ \A m \in uploads \cup results : m.key = req[r].key
            /\ \A q \in Slots : Placed(q) => req[q].key = req[r].key
        BY <3>1 DEF UnderWay, Placed
      <3>4. ASSUME NEW q \in Slots, q # r
            PROVE  /\ Placed(q)' => Placed(q) /\ req'[q].key = req[q].key
                   /\ req'[q].op # "resolve"
        BY <1>5, <2>1, <3>2, <3>4, UploadSaveEffect, KeptKey
      <3>5. CASE doc' = row
        <4>1. req'[r] \in {Idle, Goes(r, "emit")}
          BY <1>5, UploadSaveEffect
        <4>2. req'[r].op # "resolve" /\ (Placed(r)' => req'[r].key = req[r].key)
          BY <2>1, <4>1, UploadRow, IdleSlot DEF Placed
        <4>3. doc'.key = req[r].key /\ doc'.ext \notin Resulting
          BY <2>2, <3>5 DEF Resulting
        <4>4. \A q \in Slots : Placed(q)' => req'[q].key = req[r].key
          BY <3>3, <3>4, <4>2
        <4>5. \A q \in Slots : req'[q].op # "resolve"
          BY <3>4, <4>2
        <4> QED
          BY <2>1, <3>3, <4>3, <4>4, <4>5 DEF OneFile
      <3>6. CASE doc' = doc /\ req'[r] = Idle
        <4>1. req'[r].op # "resolve" /\ ~Placed(r)'
          BY <3>6, IdleSlot DEF Placed
        <4>2. \A q \in Slots : Placed(q)' => req'[q].key = doc.key
          BY <3>2, <3>4, <4>1
        <4>3. \A q \in Slots : req'[q].op # "resolve"
          BY <3>4, <4>1
        <4> QED
          BY <2>1, <3>2, <3>6, <4>2, <4>3 DEF OneFile
      <3> QED
        BY <1>5, <3>5, <3>6, UploadSaveEffect
    <2> QED
      BY <2>3, <2>4
  <1>6. ASSUME NEW r \in Slots, UploadEmit(r) PROVE OneFile'
    <2>1. At(r, "upload", "emit") /\ UNCHANGED <<doc, content, results, seen>>
      BY <1>6 DEF UploadEmit
    <2>2. PICK ok \in BOOLEAN :
            /\ Send(uploads, Event(req[r].key), ok)
            /\ req' = [req EXCEPT ![r] = Goes(r, IF ok THEN "clean" ELSE "fail")]
      BY <1>6 DEF UploadEmit
    <2>3. Placed(r) /\ req[r].key \in 1..files
      BY <2>1, UploadRow DEF Placed, At
    <2>4. ~seen.crossed => req[r].key = doc.key
      BY <2>3 DEF OneFile
    <2>5. uploads' \subseteq uploads \cup {[key |-> req[r].key]}
      BY <2>2, <2>3, SendEffect
    <2>6. ASSUME NEW q \in Slots
          PROVE  /\ Placed(q)' => Placed(q) /\ req'[q].key = req[q].key
                 /\ req'[q].op = "resolve" => req[q].op = "resolve"
      BY <2>1, <2>2, <2>3, UploadRow DEF Shape, Placed
    <2> QED
      BY <2>1, <2>4, <2>5, <2>6, OneFileStays
  <1>7. ASSUME NEW r \in Slots, RetryEmit(r) PROVE OneFile'
    <2>1. At(r, "retry", "emit") /\ UNCHANGED <<doc, content, results, seen>>
      BY <1>7 DEF RetryEmit
    <2>2. PICK ok \in BOOLEAN :
            /\ Send(uploads, Event(req[r].key), ok)
            /\ req' = [req EXCEPT ![r] = IF ok THEN Idle ELSE Goes(r, "fail")]
      BY <1>7 DEF RetryEmit
    <2>3. Placed(r) /\ req[r].key \in 1..files
      BY <2>1, RetryRow DEF Placed, At
    <2>4. ~seen.crossed => req[r].key = doc.key
      BY <2>3 DEF OneFile
    <2>5. uploads' \subseteq uploads \cup {[key |-> req[r].key]}
      BY <2>2, <2>3, SendEffect
    <2>6. ASSUME NEW q \in Slots
          PROVE  /\ Placed(q)' => Placed(q) /\ req'[q].key = req[q].key
                 /\ req'[q].op = "resolve" => req[q].op = "resolve"
      BY <2>1, <2>2, <2>3, RetryRow, IdleSlot DEF Shape, Placed
    <2> QED
      BY <2>1, <2>4, <2>5, <2>6, OneFileStays
  <1>8. ASSUME NEW r \in Slots, UploadFail(r) \/ RetryFail(r) PROVE OneFile'
    <2>1. Placed(r)
      BY <1>8 DEF UploadFail, RetryFail, At, Placed
    <2>2. doc.key # 0
      BY <2>1, BegunActor DEF Busy
    <2>3. /\ UNCHANGED <<uploads, results, files, seen>> /\ doc'.of = doc.of /\ doc'.key = doc.key
          /\ doc'.ext \in {doc.ext, "FAILED"}
      BY <1>8, <2>2, FailEffect, FailedRow
    <2>4. /\ Placed(r)' => req'[r].key = req[r].key
          /\ req'[r].op # "resolve"
      BY <1>8, <2>2, FailEffect, UploadRow, IdleSlot DEF Placed
    <2>5. ASSUME NEW q \in Slots
          PROVE  /\ Placed(q)' => Placed(q) /\ req'[q].key = req[q].key
                 /\ req'[q].op = "resolve" => req[q].op = "resolve"
      BY <1>8, <2>1, <2>2, <2>3, <2>4, FailEffect, KeptKey
    <2>6. doc'.ext \in Resulting => doc.ext \in Resulting
      BY <2>3 DEF Resulting
    <2> QED
      BY <2>3, <2>5, <2>6, OneFileStays
  <1>9. ASSUME NEW r \in Slots, UploadClean(r) \/ Stop(r) PROVE OneFile'
    <2>1. UNCHANGED <<doc, uploads, results, seen>>
      BY <1>9 DEF UploadClean, Stop
    <2>2. ASSUME NEW q \in Slots
          PROVE  /\ Placed(q)' => Placed(q) /\ req'[q].key = req[q].key
                 /\ req'[q].op = "resolve" => req[q].op = "resolve"
      BY <1>9, IdleSlot DEF UploadClean, Stop, Shape, Placed
    <2> QED
      BY <2>1, <2>2, OneFileStays
  <1>10. ASSUME NEW r \in Slots, ResolveSave(r) PROVE OneFile'
    <2>1. /\ UNCHANGED <<uploads, results, files>> /\ seen'.crossed = seen.crossed
          /\ doc'.of = doc.of /\ doc'.key = doc.key /\ At(r, "resolve", "save")
      BY <1>10, ResolveSaveEffect, ConfirmingRow
    <2>2. ASSUME NEW q \in Slots
          PROVE  /\ Placed(q)' => Placed(q) /\ req'[q].key = req[q].key
                 /\ req'[q].op = "resolve" => req[q].op = "resolve"
      <3>1. CASE q = r
        BY <1>10, <3>1, ResolveSaveEffect, IdleSlot DEF Placed
      <3>2. CASE q # r
        BY <1>10, <2>1, <3>2, ResolveSaveEffect, KeptKey
      <3> QED
        BY <3>1, <3>2
    <2>3. ~seen.crossed => doc'.of = doc.key
      BY <2>1 DEF OneFile, At
    <2> QED
      BY <2>1, <2>2, <2>3, OneFileStays
  <1>11. ASSUME NEW r \in Slots, ApplySave(r) PROVE OneFile'
    <2>1. /\ At(r, "apply", "save") /\ UNCHANGED <<uploads, files, seen>> /\ results' \subseteq results
      BY <1>11, ApplySaveEffect
    <2>2. Placed(r) /\ doc.key # 0
      BY <2>1, BegunActor DEF At, Busy, Placed
    <2>3. ASSUME NEW q \in Slots
          PROVE  /\ Placed(q)' => Placed(q) /\ req'[q].key = req[q].key
                 /\ req'[q].op = "resolve" => req[q].op = "resolve"
      <3>1. CASE q = r
        BY <1>11, <3>1, ApplySaveEffect, IdleSlot DEF Placed
      <3>2. CASE q # r
        BY <1>11, <2>1, <3>2, ApplySaveEffect, KeptKey
      <3> QED
        BY <3>1, <3>2
    <2>4. CASE doc' = doc
      BY <2>1, <2>3, <2>4, OneFileStays
    <2>5. CASE doc' = Applied(r)
      <3>1. doc'.key = doc.key /\ doc'.of = req[r].msg.key
        BY <2>1, <2>2, <2>5, AppliedRow
      <3>2. ~seen.crossed => doc'.of = doc.key
        BY <2>1, <2>2, <3>1 DEF OneFile, Truthful, At
      <3> QED
        BY <2>1, <2>3, <3>1, <3>2, OneFileStays
    <2> QED
      BY <1>11, <2>4, <2>5, ApplySaveEffect
  <1>12. CASE Age
    <2>1. UNCHANGED <<uploads, results, req, seen>> /\ doc'.key = doc.key /\ doc'.of = doc.of /\ doc'.ext = doc.ext
      BY <1>12 DEF Age, Shape, Document
    <2> QED
      BY <2>1, OneFileStays DEF Placed
  <1>13. CASE Extract
    <2>1. PICK m \in uploads :
          /\ m.key \in 1..files
          /\ \A n \in results' :
               \/ n \in results
               \/ n = Failed(m.key)
               \/ n = Extracted(m.key) /\ content[m.key] # Unreadable
      BY <1>13, ExtractEffect
    <2>2. UNCHANGED <<doc, req, seen>> /\ uploads' \subseteq uploads
      BY <1>13, ExtractEffect
    <2>3. ~seen.crossed => m.key = doc.key
      BY DEF OneFile
    <2>4. \A n \in uploads' \cup results' : n \in uploads \cup results \/ (~seen.crossed => n.key = doc.key)
      BY <2>1, <2>2, <2>3 DEF Failed, Extracted
    <2> QED
      BY <2>2, <2>4, OneFileStays DEF Placed
  <1>14. CASE MarkFailed
    <2>1. /\ doc'.of = doc.of /\ doc'.key = doc.key /\ doc'.ext = "FAILED"
          /\ UNCHANGED <<uploads, files, seen>> /\ results' \subseteq results
      BY <1>14, MarkFailedEffect, MarkedRow DEF Shape
    <2>2. doc'.ext \notin Resulting
      BY <2>1 DEF Resulting
    <2>3. ASSUME NEW q \in Slots
          PROVE  /\ Placed(q)' => Placed(q) /\ req'[q].key = req[q].key
                 /\ req'[q].op = "resolve" => req[q].op = "resolve"
      BY <1>14, <2>1, MarkFailedEffect, KeptKey
    <2> QED
      BY <2>1, <2>2, <2>3, OneFileStays
  <1>15. CASE Discard
    BY <1>15, OneFileStays DEF Discard, Placed
  <1>16. CASE Update
    <2>1. ASSUME NEW q \in Slots
          PROVE  /\ Placed(q)' => Placed(q) /\ req'[q].key = req[q].key
                 /\ req'[q].op = "resolve" => req[q].op = "resolve"
      BY <1>16, UpdateEffect, KeptKey
    <2> QED
      BY <1>16, <2>1, UpdateEffect, OneFileStays
  <1> QED
    BY <1>1, <1>2, <1>3, <1>4, <1>5, <1>6, <1>7, <1>8, <1>9, <1>10, <1>11, <1>12,
       <1>13, <1>14, <1>15, <1>16 DEF Next, Continue

-----------------------------------------------------------------------------
(* Resolutions that nothing has overtaken *)

LEMMA NotOvertakenStays ==
    ASSUME NotOvertaken,
           \A q \in Slots : (req'[q].op = "resolve" /\ ~req'[q].behind) => req'[q] = req[q],
           \/ doc' = doc
           \/ \A q \in Slots : req'[q].op = "resolve" => req'[q].behind
    PROVE  NotOvertaken'
    BY DEF NotOvertaken

\* Others that are not behind are as they were.
LEMMA KeptBehind ==
    ASSUME Shape, files' = files, NEW q \in Slots, Kept(q)
    PROVE  (req'[q].op = "resolve" /\ ~req'[q].behind) => req'[q] = req[q]
    BY KeptSlot DEF Shape

\* Every write of the row puts the resolutions in course behind.
LEMMA NotOvertakenStep ==
    ASSUME Shape, Begun, NotOvertaken, Next
    PROVE  NotOvertaken'
  <1> DEFINE Same == \A q \in Slots : (req'[q].op = "resolve" /\ ~req'[q].behind) => req'[q] = req[q]
             Overtaken == \A q \in Slots : req'[q].op = "resolve" => req'[q].behind
  <1>0. ASSUME NEW r, files' = files, r \in Slots => req'[r].op # "resolve",
               \A q \in Slots : q # r => Kept(q)
        PROVE  Same
    BY <1>0, KeptBehind
  <1>1. ASSUME NEW r \in Requests, UploadStart(r) PROVE NotOvertaken'
    BY <1>1, UploadStartEffect, NotOvertakenStays
  <1>2. ASSUME NEW r \in Requests, RetryClaim(r) PROVE NotOvertaken'
    <2>1. Same
      BY <1>0, <1>2, RetryClaimEffect
    <2>2. Overtaken
      BY <1>2, RetryClaimEffect
    <2> QED
      BY <2>1, <2>2, NotOvertakenStays
  <1>3. ASSUME NEW r \in Requests, ResolveRead(r) PROVE NotOvertaken'
    <2>1. /\ doc' = doc /\ doc.ext \in {"DISCREPANCY", "PENDING_CONFIRMATION"}
          /\ req'[r].declared = doc.declared /\ Agrees(doc.meta, req'[r].declares)
          /\ \A q \in Slots : q # r => req'[q] = req[q]
      BY <1>3, ResolveReadEffect
    <2>2. ASSUME NEW q \in Slots, req'[q].op = "resolve", ~req'[q].behind
          PROVE  /\ doc'.ext \in {"DISCREPANCY", "PENDING_CONFIRMATION"}
                 /\ doc'.declared = req'[q].declared
                 /\ Agrees(doc'.meta, req'[q].declares)
      BY <2>1, <2>2 DEF NotOvertaken
    <2> QED
      BY <2>2 DEF NotOvertaken, Agrees
  <1>4. ASSUME NEW h \in Handlers, ApplyRead(h) PROVE NotOvertaken'
    <2>1. Same /\ doc' = doc
      BY <1>4, ApplyReadEffect DEF Applying
    <2> QED
      BY <2>1, NotOvertakenStays
  <1>5. ASSUME NEW r \in Slots, UploadSave(r) PROVE NotOvertaken'
    <2>1. At(r, "upload", "save") /\ files' = files
      BY <1>5, UploadSaveEffect
    <2>2. req'[r].op # "resolve"
      BY <1>5, <2>1, UploadSaveEffect, UploadRow, IdleSlot
    <2>3. Same
      BY <1>0, <1>5, <2>1, <2>2, UploadSaveEffect
    <2>4. doc' = doc \/ Overtaken
      BY <1>5, <2>2, UploadSaveEffect
    <2> QED
      BY <2>3, <2>4, NotOvertakenStays
  <1>6. ASSUME NEW r \in Slots, UploadEmit(r) PROVE NotOvertaken'
    <2>1. At(r, "upload", "emit") /\ doc' = doc
      BY <1>6 DEF UploadEmit
    <2>2. PICK ok \in BOOLEAN : req' = [req EXCEPT ![r] = Goes(r, IF ok THEN "clean" ELSE "fail")]
      BY <1>6 DEF UploadEmit
    <2>3. Same
      BY <2>1, <2>2, UploadRow DEF Shape
    <2> QED
      BY <2>1, <2>3, NotOvertakenStays
  <1>7. ASSUME NEW r \in Slots, RetryEmit(r) PROVE NotOvertaken'
    <2>1. At(r, "retry", "emit") /\ doc' = doc
      BY <1>7 DEF RetryEmit
    <2>2. PICK ok \in BOOLEAN : req' = [req EXCEPT ![r] = IF ok THEN Idle ELSE Goes(r, "fail")]
      BY <1>7 DEF RetryEmit
    <2>3. Same
      BY <2>1, <2>2, RetryRow, IdleSlot DEF Shape
    <2> QED
      BY <2>1, <2>3, NotOvertakenStays
  <1>8. ASSUME NEW r \in Slots, UploadFail(r) \/ RetryFail(r) PROVE NotOvertaken'
    <2>1. doc.key # 0
      BY <1>8, BegunActor DEF UploadFail, RetryFail, At, Busy, Placed
    <2>2. req'[r].op # "resolve" /\ files' = files
      BY <1>8, <2>1, FailEffect, UploadRow, IdleSlot
    <2>3. Same
      BY <1>0, <1>8, <2>1, <2>2, FailEffect
    <2>4. doc' = doc \/ Overtaken
      BY <1>8, <2>1, <2>2, FailEffect
    <2> QED
      BY <2>3, <2>4, NotOvertakenStays
  <1>9. ASSUME NEW r \in Slots, UploadClean(r) \/ Stop(r) PROVE NotOvertaken'
    <2>1. doc' = doc
      BY <1>9 DEF UploadClean, Stop
    <2>2. Same
      BY <1>9, IdleSlot DEF UploadClean, Stop, Shape
    <2> QED
      BY <2>1, <2>2, NotOvertakenStays
  <1>10. ASSUME NEW r \in Slots, ResolveSave(r) PROVE NotOvertaken'
    <2>1. req'[r].op # "resolve" /\ files' = files
      BY <1>10, ResolveSaveEffect, IdleSlot
    <2>2. Same
      BY <1>0, <1>10, <2>1, ResolveSaveEffect
    <2>3. doc' = doc \/ Overtaken
      BY <1>10, <2>1, ResolveSaveEffect
    <2> QED
      BY <2>2, <2>3, NotOvertakenStays
  <1>11. ASSUME NEW r \in Slots, ApplySave(r) PROVE NotOvertaken'
    <2>1. req'[r].op # "resolve" /\ files' = files
      BY <1>11, ApplySaveEffect, IdleSlot
    <2>2. Same
      BY <1>0, <1>11, <2>1, ApplySaveEffect
    <2>3. doc' = doc \/ Overtaken
      BY <1>11, <2>1, ApplySaveEffect
    <2> QED
      BY <2>2, <2>3, NotOvertakenStays
  <1>12. CASE Age
    <2>1. doc.ext = "PROCESSING" /\ req' = req
      BY <1>12 DEF Age
    <2>2. \A q \in Slots : req[q].op = "resolve" => req[q].behind
      BY <2>1, SlotOf DEF NotOvertaken, Shape, Resolving
    <2> QED
      BY <2>1, <2>2, NotOvertakenStays
  <1>13. CASE Extract
    BY <1>13, ExtractEffect, NotOvertakenStays
  <1>14. CASE MarkFailed
    <2>1. Same
      BY <1>14, MarkFailedEffect, KeptBehind
    <2>2. Overtaken
      BY <1>14, MarkFailedEffect
    <2> QED
      BY <2>1, <2>2, NotOvertakenStays
  <1>15. CASE Discard
    BY <1>15, NotOvertakenStays DEF Discard
  <1>16. CASE Update
    <2>1. Same
      BY <1>16, UpdateEffect, KeptBehind
    <2>2. Overtaken
      BY <1>16, UpdateEffect
    <2> QED
      BY <2>1, <2>2, NotOvertakenStays
  <1> QED
    BY <1>1, <1>2, <1>3, <1>4, <1>5, <1>6, <1>7, <1>8, <1>9, <1>10, <1>11, <1>12,
       <1>13, <1>14, <1>15, <1>16 DEF Next, Continue

-----------------------------------------------------------------------------
(* Confirmed data agree with the file *)

LEMMA ConfirmedStays ==
    ASSUME ConfirmedAgrees, doc'.ext = "CONFIRMED" => doc.ext = "CONFIRMED",
           doc'.meta = doc.meta, doc'.declared = doc.declared,
           seen.edited => seen'.edited, seen.crossed => seen'.crossed
    PROVE  ConfirmedAgrees'
    BY DEF ConfirmedAgrees, Agrees

\* While no file was replaced under way, what is extracted of the document
\* is what its file holds.
LEMMA MetaOfDocument ==
    ASSUME Truthful, OneFile, doc.key # 0, ~seen.crossed, doc.ext \in Resulting
    PROVE  doc.meta = content[doc.key]
    BY DEF Truthful, OneFile

\* A confirmation agrees with the metadata it was compared with; a result that
\* is applied after it is of the same file, and says the same.
LEMMA ConfirmedStep ==
    ASSUME Shape, Begun, Truthful, OneFile, NotOvertaken, ConfirmedAgrees, Next
    PROVE  ConfirmedAgrees'
  <1>1. ASSUME NEW r \in Requests, UploadStart(r) PROVE ConfirmedAgrees'
    BY <1>1, UploadStartEffect, ConfirmedStays
  <1>2. ASSUME NEW r \in Requests, RetryClaim(r) PROVE ConfirmedAgrees'
    BY <1>2, RetryClaimEffect DEF ConfirmedAgrees
  <1>3. ASSUME NEW r \in Requests, ResolveRead(r) PROVE ConfirmedAgrees'
    BY <1>3, ResolveReadEffect, ConfirmedStays
  <1>4. ASSUME NEW h \in Handlers, ApplyRead(h) PROVE ConfirmedAgrees'
    BY <1>4, ApplyReadEffect, ConfirmedStays
  <1>5. ASSUME NEW r \in Slots, UploadSave(r) PROVE ConfirmedAgrees'
    <2> DEFINE row == [doc EXCEPT !.key = req[r].key, !.ext = "PROCESSING", !.age = "fresh"]
    <2>1. row.ext = "PROCESSING"
      BY DEF Shape, Document
    <2>2. doc' \in {doc, row} /\ seen'.edited = seen.edited /\ (seen.crossed => seen'.crossed)
      BY <1>5, UploadSaveEffect
    <2>3. CASE doc' = doc
      BY <2>2, <2>3, ConfirmedStays
    <2>4. CASE doc' = row
      BY <2>1, <2>4 DEF ConfirmedAgrees
    <2> QED
      BY <2>2, <2>3, <2>4
  <1>6. ASSUME NEW r \in Slots, UploadEmit(r) \/ UploadClean(r) \/ RetryEmit(r) \/ Stop(r)
        PROVE  ConfirmedAgrees'
    BY <1>6, ConfirmedStays DEF UploadEmit, UploadClean, RetryEmit, Stop
  <1>7. ASSUME NEW r \in Slots, UploadFail(r) \/ RetryFail(r) PROVE ConfirmedAgrees'
    <2>1. doc.key # 0
      BY <1>7, BegunActor DEF UploadFail, RetryFail, At, Busy, Placed
    <2>2. /\ doc'.meta = doc.meta /\ doc'.declared = doc.declared
          /\ doc'.ext \in {doc.ext, "FAILED"} /\ seen' = seen
      BY <1>7, <2>1, FailEffect, FailedRow
    <2> QED
      BY <2>2, ConfirmedStays
  <1>8. ASSUME NEW r \in Slots, ResolveSave(r) PROVE ConfirmedAgrees'
    <2>1. At(r, "resolve", "save") /\ seen'.edited = req[r].behind /\ doc' \in {doc, Confirming(r)}
      BY <1>8, ResolveSaveEffect
    <2>2. CASE req[r].behind
      BY <2>1, <2>2 DEF ConfirmedAgrees
    <2>3. CASE ~req[r].behind
      <3>1. /\ doc.ext \in {"DISCREPANCY", "PENDING_CONFIRMATION"}
            /\ doc.declared = req[r].declared
            /\ Agrees(doc.meta, req[r].declares)
        BY <2>1, <2>3 DEF NotOvertaken, At
      <3>2. CASE doc' = doc
        BY <3>1, <3>2 DEF ConfirmedAgrees
      <3>3. CASE doc' = Confirming(r)
        <4>1. doc'.meta = doc.meta /\ doc'.declared = req[r].declares
          BY <2>1, <3>1, <3>3, ConfirmingRow
        <4> QED
          BY <3>1, <4>1 DEF ConfirmedAgrees, Agrees
      <3> QED
        BY <2>1, <3>2, <3>3
    <2> QED
      BY <2>2, <2>3
  <1>9. ASSUME NEW r \in Slots, ApplySave(r) PROVE ConfirmedAgrees'
    <2>1. At(r, "apply", "save") /\ doc' \in {doc, Applied(r)} /\ seen' = seen
      BY <1>9, ApplySaveEffect
    <2>2. Placed(r) /\ doc.key # 0
      BY <2>1, BegunActor DEF At, Busy, Placed
    <2>3. CASE doc' = doc
      BY <2>1, <2>3, ConfirmedStays
    <2>4. CASE doc' = Applied(r) /\ doc'.ext = "CONFIRMED" /\ ~seen.crossed
      <3>1. /\ doc.ext = "CONFIRMED" /\ doc'.declared = doc.declared
            /\ doc'.meta = req[r].msg.value
        BY <2>1, <2>2, <2>4, AppliedRow
      <3>2. doc.meta = content[doc.key]
        BY <2>2, <2>4, <3>1, MetaOfDocument DEF Resulting
      <3>3. req[r].msg.value = content[doc.key]
        BY <2>1, <2>2, <2>4 DEF Truthful, OneFile, At
      <3>4. doc'.meta = doc.meta
        BY <3>1, <3>2, <3>3
      <3> QED
        BY <2>1, <3>1, <3>4, ConfirmedStays
    <2>5. CASE doc'.ext # "CONFIRMED" \/ seen'.crossed
      BY <2>5 DEF ConfirmedAgrees
    <2> QED
      BY <2>1, <2>3, <2>4, <2>5
  <1>10. CASE Age
    <2>1. doc'.ext = doc.ext /\ doc'.meta = doc.meta /\ doc'.declared = doc.declared /\ seen' = seen
      BY <1>10 DEF Age, Shape, Document
    <2> QED
      BY <2>1, ConfirmedStays
  <1>11. CASE Extract
    BY <1>11, ExtractEffect, ConfirmedStays
  <1>12. CASE MarkFailed
    <2>1. doc'.ext = "FAILED"
      BY <1>12, MarkFailedEffect, MarkedRow DEF Shape
    <2> QED
      BY <2>1 DEF ConfirmedAgrees
  <1>13. CASE Discard
    BY <1>13, ConfirmedStays DEF Discard
  <1>14. CASE Update
    BY <1>14, UpdateEffect DEF ConfirmedAgrees
  <1> QED
    BY <1>1, <1>2, <1>3, <1>4, <1>5, <1>6, <1>7, <1>8, <1>9, <1>10, <1>11, <1>12,
       <1>13, <1>14 DEF Next, Continue

-----------------------------------------------------------------------------

LEMMA InitIInv == Init => IInv
  <1> SUFFICES ASSUME Init PROVE IInv
    OBVIOUS
  <1>1. Shape
    BY InitShape
  <1>2. /\ doc.key = 0 /\ doc.of = 0 /\ doc.meta = None /\ doc.ext = "NOT_UPLOADED"
        /\ uploads = {} /\ results = {} /\ \A q \in Slots : req[q].op = "idle"
    BY IdleSlot DEF Init
  <1>3. Begun /\ Truthful /\ Fresh /\ Stored /\ NotOvertaken /\ ConfirmedAgrees
    BY <1>2 DEF Begun, Placed, Truthful, Fresh, Stored, At, NotOvertaken, ConfirmedAgrees
  <1>4. OneFile
    BY <1>2 DEF OneFile, Placed
  <1> QED
    BY <1>1, <1>3, <1>4 DEF IInv

LEMMA Stutter == IInv /\ UNCHANGED vars => IInv'
  <1> SUFFICES ASSUME IInv, UNCHANGED vars PROVE IInv'
    OBVIOUS
  <1> USE DEF IInv, vars
  <1>1. Shape'
    BY ShapeIfKept DEF Shape
  <1>2. Begun' /\ Truthful' /\ Fresh' /\ Stored' /\ NotOvertaken' /\ ConfirmedAgrees'
    BY DEF Begun, Placed, Truthful, Fresh, Stored, At, NotOvertaken, ConfirmedAgrees
  <1>3. OneFile'
    BY DEF OneFile, Placed
  <1> QED
    BY <1>1, <1>2, <1>3

-----------------------------------------------------------------------------
(* The theorems *)

\* Everything said of the typology, its file, the events in flight and the
\* requests in course holds after every handler of document-service and
\* metadata-extractor-service, in whatever order they interleave or fail.
THEOREM Invariant == Spec => []IInv
  <1>1. IInv /\ [Next]_vars => IInv'
    <2> SUFFICES ASSUME IInv, Next PROVE IInv'
      BY Stutter
    <2> QED
      BY ShapeStep, BegunStep, TruthfulStep, FreshStep, StoredStep, OneFileStep,
         NotOvertakenStep, ConfirmedStep DEF IInv
  <1> QED
    BY InitIInv, <1>1, PTL DEF Spec

\* Every row, event and request keeps its type.
THEOREM TypeCorrect == Spec => []TypeOK
  <1>1. IInv => TypeOK
    <2> SUFFICES ASSUME IInv PROVE TypeOK
      OBVIOUS
    <2>1. Shape
      BY DEF IInv
    <2>2. \A r \in Slots : req[r].op \in {"idle", "upload", "retry", "resolve", "apply"}
      BY <2>1, SlotOf DEF Shape
    <2> QED
      BY <2>1, <2>2 DEF TypeOK, Shape, Message
  <1> QED
    BY Invariant, <1>1, PTL

\* A result that stands is the one of the file the typology has, although
\* applyExtractedMetadata finds the typology by its id and a result does not
\* name its upload, unless an upload was saved while the extraction of another
\* file, or a resolution, was under way.
THEOREM ResultIsOfDocumentCorrect == Spec => []ResultIsOfDocument
  <1>1. IInv => ResultIsOfDocument
    BY DEF IInv, OneFile, ResultIsOfDocument
  <1> QED
    BY Invariant, <1>1, PTL

\* The file a typology points at is in storage, unless the save of an upload
\* failed after it was applied: upload deletes only what it has replaced, or
\* what it could not save.
THEOREM FileIsStoredCorrect == Spec => []FileIsStored
  <1>1. IInv => FileIsStored
    BY DEF IInv, Stored, FileIsStored
  <1> QED
    BY Invariant, <1>1, PTL

\* Confirmed data agree with what was extracted, through redeliveries, retries
\* and late failures, unless they were edited since or two uploads crossed.
THEOREM ConfirmedAgreesCorrect == Spec => []ConfirmedAgrees
  <1>1. IInv => ConfirmedAgrees
    BY DEF IInv
  <1> QED
    BY Invariant, <1>1, PTL
=============================================================================
