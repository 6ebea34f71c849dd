------------------------------- MODULE Blob --------------------------------
(***************************************************************************)
(* One image of stored messages: the externalizer that replaces it by a    *)
(* reference, the upload pool of each instance, the retry job and the      *)
(* purge (infrastructure/blobstore), over the blobs row of its sha256, the *)
(* object in the store, and the messages that name it.                     *)
(*                                                                         *)
(* Whether the image can be compressed below the limit is a choice.        *)
(***************************************************************************)
EXTENDS Naturals, FiniteSets

CONSTANTS Pods,
          Writers,      \* store-pool workers, each with a message to store
          MaxAttempts,  \* BlobRetryMaxAttempts
          MaxFaults     \* bound: failed statements and uploads, and crashes

VARIABLES
    row,       \* the blobs row: its status, or "none", and its attempts
    object,    \* the object exists
    message,   \* of each writer: none, inline data, ref, deleted (softly), gone
    writer,    \* what each writer is at
    inflight,  \* Uploader.inflight has the image: who put it there
    job,       \* the pool's task: none, queued, put or failed to put, inserting raw
    draining,  \* Uploader.draining
    retry,     \* the retry job: idle, loaded the row, has put the object
    purge,     \* the purge's step
    fits,      \* Compress gets the image below the limit
    home,      \* the instance each writer works on
    lost,      \* why a reference may name nothing
    faults

vars == <<row, object, message, writer, inflight, job, draining, retry, purge, fits, home, lost, faults>>
given == <<fits, home>>
jobs == <<inflight, job, draining, given>>

NoRow == [status |-> "none", attempts |-> 0]
Row(status, n) == [status |-> status, attempts |-> n]
Retryable == row.status \in {"pending", "failed"}
Fault == faults < MaxFaults /\ faults' = faults + 1
Unless(fine, reason) == IF fine THEN lost ELSE lost \cup {reason}

Init ==
    /\ row = NoRow /\ object = FALSE
    /\ message = [w \in Writers |-> "none"]
    /\ writer = [w \in Writers |-> "idle"]
    /\ inflight = [p \in Pods |-> "none"]
    /\ job = [p \in Pods |-> "none"]
    /\ draining = [p \in Pods |-> FALSE]
    /\ retry = "idle" /\ purge = "idle" /\ fits \in BOOLEAN /\ home \in [Writers -> Pods] /\ lost = {} /\ faults = 0

\* INSERT ... ON CONFLICT (sha256) DO NOTHING.
Insert(r) == row' = IF row = NoRow THEN r ELSE row

-----------------------------------------------------------------------------
(* Externalizer and the message store *)

Goto(w, step) == writer' = [writer EXCEPT ![w] = step]

\* FindMetaBySHA256s: the row is there, is not, or the query fails.
LookUp(w) ==
    /\ writer[w] = "idle" /\ message[w] = "none"
    /\ \/ Goto(w, IF row = NoRow THEN "submit" ELSE "ref") /\ UNCHANGED faults
       \/ Goto(w, "inline") /\ Fault
    /\ UNCHANGED <<row, object, message, jobs, retry, purge, lost>>

\* Mutation of Submit: an image that the queue does not take is forgotten.
SubmitForgets(w) ==
    LET p == home[w] IN
    /\ writer[w] = "submit" /\ Goto(w, "ref")
    /\ \/ (inflight[p] # "none" \/ draining[p] \/ job[p] # "none") /\ UNCHANGED <<inflight, job>>
       \/ /\ inflight[p] = "none" /\ ~draining[p] /\ job[p] = "none"
          /\ inflight' = [inflight EXCEPT ![p] = "job"]
          /\ job' = [job EXCEPT ![p] = "queued"]
    /\ UNCHANGED <<given, row, object, message, draining, retry, purge, lost, faults>>

\* Submit: somebody on this instance has the image in hand; or it is queued; or,
\* with the queue full or draining, the raw image is to be inserted here and now.
Submit(w) ==
    LET p == home[w] IN
    /\ writer[w] = "submit"
    /\ \/ inflight[p] # "none" /\ Goto(w, "ref") /\ UNCHANGED <<inflight, job>>
       \/ /\ inflight[p] = "none" /\ ~draining[p] /\ job[p] = "none"
          /\ inflight' = [inflight EXCEPT ![p] = "job"]
          /\ job' = [job EXCEPT ![p] = "queued"]
          /\ Goto(w, "ref")
       \/ /\ inflight[p] = "none"
          /\ inflight' = [inflight EXCEPT ![p] = w]
          /\ Goto(w, "raw") /\ UNCHANGED job
    /\ UNCHANGED <<given, row, object, message, draining, retry, purge, lost, faults>>

\* persistRaw by the submitter; if it fails the message keeps its data.
PersistRaw(w) ==
    /\ writer[w] = "raw"
    /\ inflight' = [inflight EXCEPT ![home[w]] = "none"]
    /\ \/ Insert(Row("pending", 0)) /\ Goto(w, "ref") /\ UNCHANGED <<lost, faults>>
       \/ Goto(w, "inline") /\ Fault /\ lost' = lost \cup {"insert"} /\ UNCHANGED row
    /\ UNCHANGED <<given, object, message, job, draining, retry, purge>>

\* The store transaction commits the message.
StoreMessage(w) ==
    /\ writer[w] \in {"ref", "inline"}
    /\ message' = [message EXCEPT ![w] = writer[w]]
    /\ Goto(w, "idle")
    /\ lost' = Unless(purge \notin {"scanned", "deleting"}, "purge")
    /\ UNCHANGED <<row, object, jobs, retry, purge, faults>>

\* Its conversation is deleted; the purge looks at the message a month later.
DeleteMessage(w) ==
    /\ message[w] = "ref" /\ message' = [message EXCEPT ![w] = "deleted"]
    /\ UNCHANGED <<row, object, writer, jobs, retry, purge, lost, faults>>

-----------------------------------------------------------------------------
(* The upload pool *)

\* An upload fails, or only its answer is lost.
PutFails ==
    /\ Fault
    /\ \/ UNCHANGED <<object, lost>>
       \/ object' = TRUE /\ lost' = lost \cup {"reply"}

JobIs(p, step) == job' = [job EXCEPT ![p] = step]

\* run, process: the image is put, is not, or cannot be; when draining it is not tried.
JobPut(p) ==
    /\ job[p] = "queued"
    /\ \/ draining[p] /\ JobIs(p, "raw") /\ UNCHANGED <<object, lost, faults>>
       \/ ~draining[p] /\ fits /\ JobIs(p, "put") /\ object' = TRUE /\ UNCHANGED faults
          /\ lost' = Unless(purge # "deleting", "purge")
       \/ ~draining[p] /\ fits /\ JobIs(p, "unput") /\ PutFails
       \/ ~draining[p] /\ ~fits /\ JobIs(p, "tooLarge") /\ UNCHANGED <<object, lost, faults>>
    /\ UNCHANGED <<given, row, message, writer, inflight, draining, retry, purge>>

\* Mutation of JobRow: a failed upload is recorded like a good one.
JobRowAlwaysUploaded(p) ==
    CASE job[p] = "raw" -> Row("pending", 0)
      [] job[p] \in {"put", "unput"} -> Row("uploaded", 0)
      [] job[p] = "tooLarge" -> Row("unprocessable", 0)

JobRow(p) == CASE job[p] = "raw" -> Row("pending", 0)
               [] job[p] = "put" -> Row("uploaded", 0)
               [] job[p] = "unput" -> Row("pending", 1)
               [] job[p] = "tooLarge" -> Row("unprocessable", 0)

JobInsert(p) ==
    /\ job[p] \in {"raw", "put", "unput", "tooLarge"}
    /\ \/ Insert(JobRow(p)) /\ UNCHANGED faults
          /\ lost' = Unless(row.status \in {"none", "uploaded"} \/ job[p] # "put", "ignored")
       \/ Fault /\ lost' = lost \cup {"insert"} /\ UNCHANGED row
    /\ job' = [job EXCEPT ![p] = "none"]
    /\ inflight' = [inflight EXCEPT ![p] = "none"]
    /\ UNCHANGED <<given, object, message, writer, draining, retry, purge>>

\* Stop; the process ends when its pool is empty, and another takes its place.
Drain(p) ==
    /\ ~draining[p] /\ draining' = [draining EXCEPT ![p] = TRUE]
    /\ UNCHANGED <<given, row, object, message, writer, inflight, job, retry, purge, lost, faults>>

Replaced(p) ==
    /\ draining[p] /\ job[p] = "none" /\ inflight[p] = "none"
    /\ draining' = [draining EXCEPT ![p] = FALSE]
    /\ UNCHANGED <<given, row, object, message, writer, inflight, job, retry, purge, lost, faults>>

\* The process is killed: what its pool and its writers held is gone.
Crash(p) ==
    /\ Fault
    /\ job' = [job EXCEPT ![p] = "none"]
    /\ inflight' = [inflight EXCEPT ![p] = "none"]
    /\ draining' = [draining EXCEPT ![p] = FALSE]
    /\ writer' = [w \in Writers |-> IF home[w] = p THEN "idle" ELSE writer[w]]
    /\ lost' = Unless(inflight[p] = "none", "crash")
    /\ UNCHANGED <<given, row, object, message, retry, purge>>

-----------------------------------------------------------------------------
(* The retry job, under its cron lock *)

RetryLoad ==
    /\ retry = "idle" /\ row.status = "pending"
    /\ retry' = "loaded"
    /\ lost' = Unless(purge # "deleting", "purge")
    /\ UNCHANGED <<row, object, message, writer, jobs, purge, faults>>

\* A row that was deleted meanwhile takes no mark: retryableRow finds none.
Mark(r) == row' = IF Retryable THEN r ELSE row

RetryPut ==
    /\ retry = "loaded"
    /\ \/ fits /\ object' = TRUE /\ retry' = "put" /\ UNCHANGED <<row, lost, faults>>
       \/ /\ fits /\ PutFails /\ retry' = "idle"
          /\ Mark(IF row.attempts + 1 >= MaxAttempts THEN Row("failed", row.attempts + 1)
                  ELSE Row("pending", row.attempts + 1))
       \/ ~fits /\ Mark(Row("unprocessable", row.attempts)) /\ retry' = "idle" /\ UNCHANGED <<object, lost, faults>>
    /\ UNCHANGED <<message, writer, jobs, purge>>

RetryMark ==
    /\ retry = "put" /\ retry' = "idle"
    /\ \/ Mark(Row("uploaded", row.attempts)) /\ UNCHANGED <<lost, faults>>
       \/ Fault /\ lost' = lost \cup {"reply"} /\ UNCHANGED row
    /\ UNCHANGED <<object, message, writer, jobs, purge>>

\* ResetFailed, the operator's command.
ResetFailed ==
    /\ row.status = "failed" /\ row' = Row("pending", 0)
    /\ UNCHANGED <<object, message, writer, jobs, retry, purge, lost, faults>>

-----------------------------------------------------------------------------
(* The purge, under its cron lock *)

\* CollectImageRefs of the messages it is about to delete, then their deletion.
PurgeMessages ==
    /\ purge = "idle" /\ \E w \in Writers : message[w] = "deleted"
    /\ purge' = "collected"
    /\ message' = [w \in Writers |-> IF message[w] = "deleted" THEN "gone" ELSE message[w]]
    /\ UNCHANGED <<row, object, writer, jobs, retry, lost, faults>>

\* referencedSHAs: the image is dropped from the candidates if a message names
\* it, a deleted one included.
Referenced == \E w \in Writers : message[w] \in {"ref", "deleted"}

PurgeScan ==
    /\ purge = "collected"
    /\ \/ purge' = (IF Referenced THEN "idle" ELSE "scanned") /\ UNCHANGED faults
       \/ purge' = "idle" /\ Fault
    /\ UNCHANGED <<row, object, message, writer, jobs, retry, lost>>

\* The object of an uploaded row goes first; if that fails the row is kept.
PurgeObject ==
    /\ purge = "scanned"
    /\ \/ row = NoRow /\ purge' = "idle" /\ UNCHANGED <<object, faults>>
       \/ row.status = "uploaded" /\ object' = FALSE /\ purge' = "deleting" /\ UNCHANGED faults
       \/ row.status = "uploaded" /\ Fault /\ purge' = "idle" /\ UNCHANGED object
       \/ row.status \notin {"none", "uploaded"} /\ purge' = "deleting" /\ UNCHANGED <<object, faults>>
    /\ lost' = Unless(row = NoRow \/ (retry = "idle" /\ \A p \in Pods : job[p] # "put"), "purge")
    /\ UNCHANGED <<row, message, writer, jobs, retry>>

\* DeleteByIDs: whoever has looked at the row before relies on it still.
PurgeRow ==
    /\ purge = "deleting" /\ purge' = "idle"
    /\ \/ row' = NoRow /\ UNCHANGED faults
          /\ lost' = Unless(\A w \in Writers : writer[w] # "ref", "purge")
       \/ Fault /\ lost' = lost \cup {"rowKept"} /\ UNCHANGED row
    /\ UNCHANGED <<object, message, writer, jobs, retry>>

Next ==
    \/ \E w \in Writers : LookUp(w) \/ Submit(w) \/ PersistRaw(w) \/ StoreMessage(w) \/ DeleteMessage(w)
    \/ \E p \in Pods : JobPut(p) \/ JobInsert(p) \/ Drain(p) \/ Replaced(p) \/ Crash(p)
    \/ RetryLoad \/ RetryPut \/ RetryMark \/ ResetFailed
    \/ PurgeMessages \/ PurgeScan \/ PurgeObject \/ PurgeRow

Spec == Init /\ [][Next]_vars

-----------------------------------------------------------------------------
(* Properties *)

InHand == \E p \in Pods : inflight[p] # "none"

\* A stored reference can be resolved: the image has its row or is in hand on
\* some instance, unless a process was killed with it, the insert of its row
\* failed, or a purge overlapped the message (uploader.go:28, purge.go:53).
RefsResolve == ((\E w \in Writers : message[w] = "ref") /\ lost \cap {"crash", "insert", "purge"} = {})
    => row # NoRow \/ InHand

\* A row that says uploaded has its object, unless the purge overlapped an upload
\* or failed to delete the row after the object; and no object is left without a
\* row that leads to it (purge.go:50), unless its upload was cut short or its row
\* says something else than uploaded.
RowAndObjectAgree ==
    /\ row.status = "uploaded" /\ lost \cap {"purge", "rowKept"} = {} =>
          object \/ purge = "deleting"
    /\ object /\ lost \subseteq {"rowKept"} => row # NoRow \/ InHand \/ retry = "put"

\* The type of every variable.
TypeOK ==
    /\ row \in {NoRow} \cup [status : {"pending", "failed", "uploaded", "unprocessable"}, attempts : Nat]
    /\ object \in BOOLEAN /\ fits \in BOOLEAN
    /\ message \in [Writers -> {"none", "inline", "ref", "deleted", "gone"}]
    /\ writer \in [Writers -> {"idle", "submit", "raw", "ref", "inline"}]
    /\ inflight \in [Pods -> {"none", "job"} \cup Writers]
    /\ job \in [Pods -> {"none", "queued", "raw", "put", "unput", "tooLarge"}]
    /\ draining \in [Pods -> BOOLEAN]
    /\ retry \in {"idle", "loaded", "put"}
    /\ purge \in {"idle", "collected", "scanned", "deleting"}
    /\ home \in [Writers -> Pods]
    /\ lost \subseteq {"crash", "insert", "purge", "reply", "rowKept", "ignored"}
    /\ faults \in Nat

\* Who works on the image on an instance has put it into inflight.
HandsFull ==
    /\ \A p \in Pods : job[p] # "none" => inflight[p] = "job"
    /\ \A w \in Writers : writer[w] = "raw" => inflight[home[w]] = w

\* A purge past its scan has no message to fear for, and whoever is about to store
\* a reference has the row or the image behind it.
Resolvable == lost \cap {"crash", "insert", "purge"} = {} =>
    /\ purge \in {"scanned", "deleting"} => ~Referenced
    /\ Referenced \/ (\E w \in Writers : writer[w] = "ref") => row # NoRow \/ InHand

\* Whoever is about to record an upload has the object.
Recorded ==
    /\ row.status = "unprocessable" \/ (\E p \in Pods : job[p] = "tooLarge") => ~fits
    /\ retry = "put" => fits
    /\ "purge" \notin lost /\ (retry = "put" \/ \E p \in Pods : job[p] = "put") => object

\* Where nothing was lost an object is recorded or about to be, and the purge
\* deletes a row nobody is about to record in.
Accounted == lost \subseteq {"rowKept"} =>
    /\ object => row.status = "uploaded" \/ retry = "put" \/ \E p \in Pods : job[p] = "put"
    /\ retry # "idle" => row # NoRow
    /\ purge = "deleting" => retry = "idle" /\ ~object /\ \A p \in Pods : job[p] # "put"

BlobInv == TypeOK /\ HandsFull /\ Resolvable /\ Recorded /\ Accounted /\ RowAndObjectAgree
=============================================================================
