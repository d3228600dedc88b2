----------------------------- MODULE Attachments -----------------------------
(***************************************************************************)
(* Files attached to records (internal/api/attachment.go and its blob      *)
(* store, internal/kernel/blobstore), and the screen recording of an issue *)
(* report (internal/api/issuereport.go).                                   *)
(*                                                                         *)
(* The bytes are on a disk, the Attachment row in the tenant's database;   *)
(* no transaction spans the two.  Every upload has a key of its own, which *)
(* is random in the code and a number here.                                *)
(***************************************************************************)
EXTENDS Integers

CONSTANTS
  Clients, Records, Reports,  \* records that are there, and reports to be filed
  MaxUploads, MaxFaults       \* natural numbers; no report is a record of the first kind

VARIABLES
  configured,   \* does the deployment have a blob store
  record,       \* target record -> "none", "live" or "deleted"
  blob,         \* keys with bytes
  row,          \* key -> its Attachment row: "none", "live" or "deleted"
  req,          \* client -> its request
  keys,         \* number of keys made
  stranded,     \* keys whose upload ended by a fault (history)
  unclear,      \* keys whose row was committed although the commit failed (history)
  faults

vars == <<configured, record, blob, row, req, keys, stranded, unclear, faults>>

UploadKeys == 1..MaxUploads
Asked(pc, kind, key) == [pc |-> pc, kind |-> kind, key |-> key, answer |-> "none"]
Idle == Asked("idle", "upload", 0)

Init ==
  /\ configured \in BOOLEAN
  /\ record = [r \in Records \union Reports |-> IF r \in Records THEN "live" ELSE "none"]
  /\ blob = {} /\ row = [k \in UploadKeys |-> "none"]
  /\ req = [c \in Clients |-> Idle]
  /\ keys = 0 /\ stranded = {} /\ unclear = {} /\ faults = 0

------------------------------------------------------------------------------
Set(c, r) == req' = [req EXCEPT ![c] = r]
Goto(c, pc) == Set(c, [req[c] EXCEPT !.pc = pc])
(* A failed upload is an error; the report it belongs to says that its     *)
(* recording is missing.                                                   *)
Refuse(c) ==
  Set(c, [req[c] EXCEPT !.pc = "idle",
                        !.answer = IF req[c].kind = "report" THEN "note" ELSE "error"])
Fault == faults < MaxFaults /\ faults' = faults + 1

(* attachmentStorageKey.                                                   *)
NewKey(c, kind) ==
  /\ keys < MaxUploads /\ keys' = keys + 1
  /\ Set(c, Asked("put", kind, keys + 1))

(* attachmentUpload: the target is there and the caller reads it.          *)
Upload(c, r) ==
  /\ req[c].pc = "idle" /\ configured /\ record[r] = "live"
  /\ NewKey(c, "upload")
  /\ UNCHANGED <<configured, record, blob, row, stranded, unclear, faults>>

(* issueReportSubmit: the report first; its recording, if it has one and   *)
(* there is a store, in steps of its own.                                  *)
Submit(c, r, recording) ==
  /\ req[c].pc = "idle" /\ r \in Reports /\ record[r] = "none"
  /\ record' = [record EXCEPT ![r] = "live"]
  /\ IF recording /\ configured
       THEN NewKey(c, "report")
       ELSE /\ Set(c, [Asked("idle", "report", 0) EXCEPT
                         !.answer = IF recording THEN "note" ELSE "plain"])
            /\ UNCHANGED keys
  /\ UNCHANGED <<configured, blob, row, stranded, unclear, faults>>

(* FSStore.Put renames a synced file into place, or fails without a trace. *)
Put(c) ==
  /\ req[c].pc = "put"
  /\ \/ blob' = blob \union {req[c].key} /\ Goto(c, "create") /\ UNCHANGED faults
     \/ Fault /\ Refuse(c) /\ UNCHANGED blob
  /\ UNCHANGED <<configured, record, row, keys, stranded, unclear>>

Insert(k) == row' = [row EXCEPT ![k] = "live"]

(* crud.Create of the Attachment row; validation, rights and the database  *)
(* may refuse it.  A connection that breaks in the commit leaves it open   *)
(* whether the row is there.                                               *)
CreateRow(c) ==
  LET k == req[c].key IN
  /\ req[c].pc = "create"
  /\ \/ /\ Insert(k) /\ Set(c, [req[c] EXCEPT !.pc = "idle", !.answer = "attached"])
        /\ UNCHANGED <<unclear, faults>>
     \/ Goto(c, "cleanup") /\ Fault /\ UNCHANGED <<row, unclear>>
     \/ Goto(c, "cleanup") /\ Fault /\ Insert(k) /\ unclear' = unclear \union {k}
  /\ UNCHANGED <<configured, record, blob, keys, stranded>>

(* FSStore.Delete.                                                         *)
RemoveBlob(k) == blob' = blob \ {k}

(* cleanupOrphanBlob: once, and not ended by the client's disconnection.   *)
Cleanup(c) ==
  LET k == req[c].key IN
  /\ req[c].pc = "cleanup"
  /\ \/ RemoveBlob(k) /\ UNCHANGED <<stranded, faults>>
     \/ Fault /\ stranded' = stranded \union {k} /\ UNCHANGED blob
  /\ Refuse(c)
  /\ UNCHANGED <<configured, record, row, keys, unclear>>

(* The process dies, in any number of requests.                            *)
Crash ==
  /\ Fault
  /\ stranded' = stranded \union {req[c].key : c \in {d \in Clients : req[d].pc # "idle"}}
  /\ req' = [c \in Clients |-> IF req[c].pc = "idle" THEN req[c] ELSE Idle]
  /\ UNCHANGED <<configured, record, blob, row, keys, unclear>>

(* deleteRecord, of the target or of the Attachment; neither cascades.     *)
DeleteTarget(r) ==
  /\ record[r] = "live" /\ record' = [record EXCEPT ![r] = "deleted"]
  /\ UNCHANGED <<configured, blob, row, req, keys, stranded, unclear, faults>>

DeleteAttachment(k) ==
  /\ row[k] = "live" /\ row' = [row EXCEPT ![k] = "deleted"]
  /\ UNCHANGED <<configured, record, blob, req, keys, stranded, unclear, faults>>

(* attachmentDownload: the row, then its bytes.                            *)
FindRow(c, k) ==
  /\ req[c].pc = "idle" /\ configured /\ row[k] = "live"
  /\ Set(c, Asked("open", "download", k))
  /\ UNCHANGED <<configured, record, blob, row, keys, stranded, unclear, faults>>

Open(c) ==
  /\ req[c].pc = "open"
  /\ Set(c, [req[c] EXCEPT !.pc = "idle",
                           !.answer = IF req[c].key \in blob THEN "bytes" ELSE "missing"])
  /\ UNCHANGED <<configured, record, blob, row, keys, stranded, unclear, faults>>

Next ==
  \/ \E c \in Clients :
       \/ \E r \in DOMAIN record :
             Upload(c, r) \/ \E recording \in BOOLEAN : Submit(c, r, recording)
       \/ \E k \in UploadKeys : FindRow(c, k)
       \/ Put(c) \/ CreateRow(c) \/ Cleanup(c) \/ Open(c)
  \/ \E r \in DOMAIN record : DeleteTarget(r)
  \/ \E k \in UploadKeys : DeleteAttachment(k)
  \/ Crash

Spec == Init /\ [][Next]_vars

------------------------------------------------------------------------------
TypeOK ==
  /\ configured \in BOOLEAN /\ blob \subseteq 1..keys /\ stranded \subseteq 1..keys /\ unclear \subseteq 1..keys
  /\ \A r \in DOMAIN record : record[r] \in {"none", "live", "deleted"}
  /\ row \in [UploadKeys -> {"none", "live", "deleted"}]
  /\ \A c \in Clients : req[c].pc \in {"idle", "put", "create", "cleanup", "open"}
  /\ keys \in 0..MaxUploads /\ faults \in 0..MaxFaults

(* attachmentUpload stores the bytes before the row: no row names bytes    *)
(* that are not there, and no download finds them missing, not even when   *)
(* the row is deleted meanwhile; but for a commit that took effect and     *)
(* reported an error, whose bytes the cleanup removes.                     *)
RowsHaveBytes ==
  /\ \A k \in UploadKeys \ unclear : row[k] = "live" => k \in blob
  /\ \A c \in Clients : req[c].answer = "missing" => req[c].key \in unclear

(* What the comment of attachmentUpload says without that exception.       *)
NoRowWithoutBytes == \A k \in UploadKeys : row[k] = "live" => k \in blob

(* cleanupOrphanBlob: bytes without a row belong to an upload under way,   *)
(* or to one that a fault ended.                                           *)
OrphansAreExplained ==
  \A k \in blob :
     \/ row[k] # "none" \/ k \in stranded
     \/ \E c \in Clients : req[c].key = k /\ req[c].pc \in {"create", "cleanup"}

(* attachScreenRecording: a report that was filed with its recording has   *)
(* it, and one without it says so.                                         *)
NoSilentLoss ==
  \A c \in Clients :
     req[c].pc = "idle" /\ req[c].kind = "report"
     => CASE req[c].answer = "attached" -> row[req[c].key] # "none"
          [] req[c].answer = "note" -> req[c].key \in {0} \union unclear \/ row[req[c].key] = "none"
          [] OTHER -> req[c].key = 0
=============================================================================
