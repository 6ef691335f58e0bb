------------------------------ MODULE Attachments ------------------------------
(***************************************************************************)
(* Files on tickets and documents: internal/attachment (the rows),         *)
(* internal/storage (the folder the bytes are in) and the handlers of      *)
(* internal/api/attachment.go.                                             *)
(*                                                                         *)
(* The row and the file are in two stores with no transaction over both:   *)
(* an upload stores the file, then inserts the row; a delete takes the     *)
(* row, then the file.  Between the two another request, a failure, a      *)
(* caller who hangs up or the end of the process may come.                 *)
(*                                                                         *)
(* Left out: filenames, the text of the multipart form, reach beyond       *)
(* "the target is live and the caller a member", lists.  Sizes are small   *)
(* numbers; a storage key names its row as well (storage_key is UNIQUE).   *)
(***************************************************************************)
EXTENDS Integers, FiniteSets

CONSTANTS
    Requests,    \* calls of the API, each of one operation
    Uploaders,   \* accounts
    Targets,     \* tickets and documents
    Blobs,       \* storage keys
    Keys,        \* idempotency keys
    NoKey,       \* the header left out
    NoOne,       \* created_by of a deleted account
    Files,       \* what is sent: [size, declared, sniffed]
    MaxBytes,    \* MAX_ATTACHMENT_BYTES
    MaxCrashes   \* bound: how often the process may end

Allowed == {"image/png", "text/plain", "text/markdown", "application/zip", "docx"}
Textual == {"text/plain", "text/markdown"}
OpenXML == {"docx"}

ASSUME AttachmentsAssumption ==
    /\ MaxBytes \in Nat /\ MaxCrashes \in Nat
    /\ NoKey \notin Keys /\ NoOne \notin Uploaders
    /\ \A f \in Files : f.size \in Nat

VARIABLES
    target,    \* whether each ticket or document is live or archived
    member,    \* the accounts there are
    row,       \* the attachment table, by storage key
    file,      \* the folder: how many bytes are under each key, -1 for none
    tmp,       \* the uploads being written, in the folder's .tmp
    crashes,
    at, op, tx,
    leaked,    \* files whose removal a failure or the end of the process prevented
    doubt      \* rows whose insert was never answered

disk == <<file, tmp>>
vars == <<target, member, row, file, tmp, crashes, at, op, tx, leaked, doubt>>

NoOp == [kind |-> "none"]
NoTx == [blob |-> {}, got |-> 0]
NoRow == [there |-> FALSE, target |-> "", by |-> NoOne, key |-> NoKey, size |-> 0, type |-> ""]

Init ==
    /\ target = [t \in Targets |-> "live"]
    /\ member = Uploaders
    /\ row = [b \in Blobs |-> NoRow]
    /\ file = [b \in Blobs |-> -1]
    /\ tmp = {}
    /\ crashes = 0
    /\ at = [r \in Requests |-> "idle"]
    /\ op = [r \in Requests |-> NoOp]
    /\ tx = [r \in Requests |-> NoTx]
    /\ leaked = {} /\ doubt = {}

Stored(b) == file[b] >= 0
Mine(r, b) == b \in tx[r].blob

\* The attachment an account made under a key.
ByKey(r) == {b \in Blobs : row[b].there /\ row[b].by = op[r].by /\ row[b].key = op[r].key}

\* What Get returns a caller.
Reachable(b, a) == row[b].there /\ target[row[b].target] = "live" /\ a \in member

Go(r, from, to) == at[r] = from /\ at' = [at EXCEPT ![r] = to]

End(r) ==
    /\ at' = [at EXCEPT ![r] = "done"]
    /\ op' = [op EXCEPT ![r] = NoOp]
    /\ tx' = [tx EXCEPT ![r] = NoTx]

Refuse(r) == End(r) /\ UNCHANGED <<target, member, row, file, tmp, crashes, leaked, doubt>>

-----------------------------------------------------------------------------
(* Uploads                                                                 *)

\* The form: the owner first, then the file.
AskUpload(r) ==
    /\ Go(r, "idle", "asked")
    /\ \E a \in member, t \in Targets, k \in Keys \cup {NoKey}, f \in Files :
        op' = [op EXCEPT ![r] = [kind |-> "upload", by |-> a, target |-> t, key |-> k, file |-> f]]
    /\ UNCHANGED <<target, member, row, disk, crashes, tx, leaked, doubt>>

\* A stored attachment, by id.
Asks(r, kind) ==
    /\ Go(r, "idle", "asked")
    /\ \E a \in member, b \in {c \in Blobs : Stored(c) \/ row[c].there} :
        op' = [op EXCEPT ![r] = [kind |-> kind, by |-> a, blob |-> b]]
    /\ UNCHANGED <<target, member, row, disk, crashes, tx, leaked, doubt>>

AskDownload(r) == Asks(r, "download")

AskDelete(r) == Asks(r, "delete")

Uploading(r, stage) == at[r] = stage /\ op[r].kind = "upload"

\* The key was used: answered with the attachment of then.
Replay(r) == Uploading(r, "asked") /\ op[r].key # NoKey /\ ByKey(r) # {} /\ Refuse(r)

LookUp(r) ==
    /\ Uploading(r, "asked")
    /\ op[r].key = NoKey \/ ByKey(r) = {}
    /\ Go(r, "asked", "unkeyed")
    /\ UNCHANGED <<target, member, row, disk, crashes, op, tx, leaked, doubt>>

TargetFound(r) ==
    /\ Go(r, "unkeyed", "aimed")
    /\ target[op[r].target] = "live" /\ op[r].by \in member
    /\ UNCHANGED <<target, member, row, disk, crashes, op, tx, leaked, doubt>>

TargetNotFound(r) ==
    /\ at[r] = "unkeyed"
    /\ target[op[r].target] # "live" \/ op[r].by \notin member
    /\ Refuse(r)

\* resolveType: the first bytes decide, the declared type only between kinds of
\* text and of zip, and one that is not stored is refused whatever the bytes are.
Resolved(f) ==
    IF f.declared # "" /\ f.declared \notin Allowed THEN "refused"
    ELSE IF f.sniffed = "text/plain" /\ f.declared \in Textual THEN f.declared
    ELSE IF f.sniffed = "application/zip" /\ f.declared \in OpenXML THEN f.declared
    ELSE IF f.sniffed \in Allowed THEN f.sniffed ELSE "refused"

Acceptable(f) == f.size > 0 /\ Resolved(f) # "refused"

\* A fresh key, and a temporary file to write to.
Accept(r) ==
    /\ Go(r, "aimed", "receiving")
    /\ Acceptable(op[r].file)
    /\ \E b \in Blobs :
        /\ ~Stored(b) /\ ~row[b].there /\ b \notin tmp /\ b \notin leaked
        /\ \A q \in Requests : ~Mine(q, b) /\ (op[q].kind \in {"download", "delete"} => op[q].blob # b)
        /\ tmp' = tmp \cup {b}
        /\ tx' = [tx EXCEPT ![r].blob = {b}]
    /\ UNCHANGED <<target, member, row, file, crashes, op, leaked, doubt>>

NotAccepted(r) == at[r] = "aimed" /\ ~Acceptable(op[r].file) /\ Refuse(r)

\* One byte of headroom, to tell a file at the limit from one over it.
Left(r) == MaxBytes - tx[r].got + 1

OverLimit(r) == tx[r].got > MaxBytes

\* A read of the stream, of any length up to what is left.
Receive(r) ==
    /\ at[r] = "receiving" /\ ~OverLimit(r)
    /\ \E n \in 1 .. (op[r].file.size - tx[r].got) :
        /\ n <= Left(r)
        /\ tx' = [tx EXCEPT ![r].got = @ + n]
    /\ UNCHANGED <<target, member, row, disk, crashes, at, op, leaked, doubt>>

\* Too large, or the caller hung up, or the disk is full: the temporary file goes.
ReceiveFails(r) ==
    /\ at[r] = "receiving"
    /\ tmp' = tmp \ tx[r].blob
    /\ End(r)
    /\ UNCHANGED <<target, member, row, file, crashes, leaked, doubt>>

\* The end of the stream: synced, and renamed to its key.
Put(r) ==
    /\ Go(r, "receiving", "stored")
    /\ tx[r].got = op[r].file.size /\ ~OverLimit(r)
    /\ tmp' = tmp \ tx[r].blob
    /\ file' = [b \in Blobs |-> IF Mine(r, b) THEN tx[r].got ELSE file[b]]
    /\ UNCHANGED <<target, member, row, crashes, op, tx, leaked, doubt>>

Conflict(r) == op[r].key # NoKey /\ ByKey(r) # {}

Inserted(r) ==
    [b \in Blobs |->
        IF ~Mine(r, b) THEN row[b]
        ELSE [there |-> TRUE, target |-> op[r].target, by |-> op[r].by, key |-> op[r].key,
              size |-> tx[r].got, type |-> Resolved(op[r].file)]]

Insert(r) ==
    /\ at[r] = "stored" /\ op[r].by \in member /\ ~Conflict(r)
    /\ row' = Inserted(r)
    /\ End(r)
    /\ UNCHANGED <<target, member, disk, crashes, leaked, doubt>>

\* ON CONFLICT DO NOTHING: the key was used between the lookup and the insert.
InsertConflicts(r) ==
    /\ Go(r, "stored", "losing")
    /\ op[r].by \in member /\ Conflict(r)
    /\ UNCHANGED <<target, member, row, disk, crashes, op, tx, leaked, doubt>>

\* The account went away, or the statement failed before the database had it.
InsertFails(r) ==
    /\ Go(r, "stored", "discarding")
    /\ UNCHANGED <<target, member, row, disk, crashes, op, tx, leaked, doubt>>

\* The row is in, and the answer is not: the caller hung up, the connection broke.
InsertUnanswered(r) ==
    /\ Go(r, "stored", "discarding")
    /\ op[r].by \in member /\ ~Conflict(r)
    /\ row' = Inserted(r)
    /\ doubt' = doubt \cup tx[r].blob
    /\ UNCHANGED <<target, member, disk, crashes, op, tx, leaked>>

\* Mutant of Surplus: the loser removes what was stored under its key.
Surplus_OfTheKey(r) == IF at[r] = "losing" THEN tx[r].blob \cup ByKey(r) ELSE tx[r].blob

\* The file discard removes.
Surplus(r) == tx[r].blob

\* A removal, of a file that may be gone already, and that may fail.
Removed(gone, ok) ==
    /\ file' = [b \in Blobs |-> IF ok /\ b \in gone THEN -1 ELSE file[b]]
    /\ leaked' = IF ok THEN leaked ELSE leaked \cup {b \in gone : Stored(b)}

\* discard, by a request that failed ...
Discard(r) ==
    /\ at[r] = "discarding"
    /\ \E ok \in BOOLEAN : Removed(Surplus(r), ok)
    /\ End(r)
    /\ UNCHANGED <<target, member, row, tmp, crashes, doubt>>

\* Mutant of DiscardLost: the loser answers and leaves its file where it is.
DiscardLost_Kept(r) ==
    /\ Go(r, "losing", "lost")
    /\ tx' = [tx EXCEPT ![r] = NoTx]
    /\ UNCHANGED <<target, member, row, disk, crashes, op, leaked, doubt>>

\* ... or by the loser of a race, who reads the winner's row next.
DiscardLost(r) ==
    /\ Go(r, "losing", "lost")
    /\ \E ok \in BOOLEAN : Removed(Surplus(r), ok)
    /\ tx' = [tx EXCEPT ![r] = NoTx]
    /\ UNCHANGED <<target, member, row, tmp, crashes, op, doubt>>

\* The winner's row, or an error when it has been deleted since.
Answer(r) == at[r] = "lost" /\ Refuse(r)

-----------------------------------------------------------------------------
(* Downloads and deletes                                                   *)

Get(r) ==
    /\ op[r].kind \in {"download", "delete"}
    /\ Reachable(op[r].blob, op[r].by)
    /\ Go(r, "asked", "found")
    /\ tx' = [tx EXCEPT ![r].got = row[op[r].blob].size]
    /\ UNCHANGED <<target, member, row, disk, crashes, op, leaked, doubt>>

NotFound(r) == at[r] = "asked" /\ op[r].kind \in {"download", "delete"} /\ ~Reachable(op[r].blob, op[r].by) /\ Refuse(r)

\* The file is opened; a delete cannot truncate it from then on.
Open(r) ==
    /\ Go(r, "found", "streaming")
    /\ op[r].kind = "download" /\ Stored(op[r].blob)
    /\ UNCHANGED <<target, member, row, disk, crashes, op, tx, leaked, doubt>>

\* "the file's contents are missing from storage"
FileMissing(r) == at[r] = "found" /\ op[r].kind = "download" /\ ~Stored(op[r].blob) /\ Refuse(r)

Streamed(r) == at[r] = "streaming" /\ Refuse(r)

\* The row first ...
DeleteRow(r) ==
    /\ Go(r, "found", "rowless")
    /\ op[r].kind = "delete" /\ row[op[r].blob].there
    /\ row' = [row EXCEPT ![op[r].blob] = NoRow]
    /\ tx' = [tx EXCEPT ![r].blob = {op[r].blob}]
    /\ UNCHANGED <<target, member, disk, crashes, op, leaked, doubt>>

\* ... deleted by someone else since, or the statement fails ...
DeleteNoRow(r) == at[r] = "found" /\ op[r].kind = "delete" /\ Refuse(r)

\* ... and the file after.
DeleteFile(r) ==
    /\ at[r] = "rowless"
    /\ \E ok \in BOOLEAN : Removed(tx[r].blob, ok)
    /\ End(r)
    /\ UNCHANGED <<target, member, row, tmp, crashes, doubt>>

-----------------------------------------------------------------------------
(* Around them                                                             *)

\* Archived and restored by other requests.
Archive(t) ==
    /\ target' = [target EXCEPT ![t] = IF @ = "live" THEN "archived" ELSE "live"]
    /\ UNCHANGED <<member, row, disk, crashes, at, op, tx, leaked, doubt>>

\* An account is deleted: its files stay, without an uploader.
DeleteAccount(a) ==
    /\ a \in member
    /\ member' = member \ {a}
    /\ row' = [b \in Blobs |-> IF row[b].by = a THEN [row[b] EXCEPT !.by = NoOne] ELSE row[b]]
    /\ UNCHANGED <<target, disk, crashes, at, op, tx, leaked, doubt>>

\* Whose file it is to insert a row for or to remove.
InHand(r) == at[r] \in {"stored", "discarding", "losing", "rowless"}

\* The process ends: what was in flight stops where it is; .tmp is not emptied
\* by the next one.
Crash ==
    /\ crashes < MaxCrashes
    /\ crashes' = crashes + 1
    /\ leaked' = leaked \cup {b \in Blobs : Stored(b) /\ ~row[b].there /\ \E r \in Requests : InHand(r) /\ Mine(r, b)}
    /\ at' = [r \in Requests |-> IF at[r] = "idle" THEN "idle" ELSE "done"]
    /\ op' = [r \in Requests |-> NoOp]
    /\ tx' = [r \in Requests |-> NoTx]
    /\ UNCHANGED <<target, member, row, disk, doubt>>

Next ==
    \/ Crash
    \/ \E t \in Targets : Archive(t)
    \/ \E a \in Uploaders : DeleteAccount(a)
    \/ \E r \in Requests :
        \/ AskUpload(r) \/ Replay(r) \/ LookUp(r) \/ TargetFound(r) \/ TargetNotFound(r) \/ Accept(r) \/ NotAccepted(r)
        \/ Receive(r) \/ ReceiveFails(r) \/ Put(r) \/ Insert(r) \/ InsertConflicts(r) \/ InsertFails(r) \/ InsertUnanswered(r)
        \/ Discard(r) \/ DiscardLost(r) \/ Answer(r)
        \/ AskDownload(r) \/ AskDelete(r) \/ Get(r) \/ NotFound(r) \/ Open(r) \/ FileMissing(r) \/ Streamed(r)
        \/ DeleteRow(r) \/ DeleteNoRow(r) \/ DeleteFile(r)

Spec == Init /\ [][Next]_vars
-----------------------------------------------------------------------------
(* Properties                                                              *)

\* A row always has the whole of its file behind it, within the limit, through
\* races for a key, deletes and the end of the process: but for a row whose
\* insert was not answered (attachment.go:22 "the blob first, the row second").
RowHasItsFile ==
    \A b \in Blobs \ doubt : row[b].there => file[b] = row[b].size /\ row[b].size <= MaxBytes

\* A file that no row names and no request has in hand is one whose removal
\* failed or was cut off by the end of the process; the loser of a race for a
\* key leaves none (attachment.go:225 "The loser of a race removes the blob it
\* wrote").
StrayFilesAreKnown ==
    \A b \in Blobs : Stored(b) /\ ~row[b].there =>
        b \in leaked \/ \E r \in Requests : InHand(r) /\ Mine(r, b)

\* attachment.go:25 "a failure between the two leaves a stray file and never a
\* row pointing at nothing".
NoRowPointsAtNothing == \A b \in Blobs : row[b].there => Stored(b)
===============================================================================
