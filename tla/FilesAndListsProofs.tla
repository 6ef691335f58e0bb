-------------------------- MODULE FilesAndListsProofs --------------------------
(***************************************************************************)
(* Theorems about Attachments, for any number of requests, files and ends  *)
(* of the process, and about Lists, for any tables, filters, sorts, page   *)
(* sizes and number of writes.  The two components share no state.         *)
(*                                                                         *)
(* Attachments: a row has its whole file, and a file without a row has a   *)
(* known reason.  Both rest on who may touch a file: a request that has    *)
(* one in hand has it alone, and no row names it (Alone).                  *)
(*                                                                         *)
(* Lists: the pages of a list add up, and a view that could be saved can   *)
(* be opened.  What a filter keeps is what it says (WhereMeans), what a    *)
(* cursor compiles to is the rest of the order (ResumesAfter), and what    *)
(* has been read is all there is up to the row the cursor was cut at       *)
(* (ReadingInv).                                                           *)
(***************************************************************************)
EXTENDS Attachments, Lists, FiniteSetTheorems, SequenceTheorems, TLAPS

-----------------------------------------------------------------------------
(* Attachments.                                                            *)

Uploads == {"receiving", "stored", "losing", "discarding"}

\* Rows and requests have the fields the steps look at; got counts bytes
\* until a download or a delete finds its row.
Shape ==
    /\ DOMAIN row = Blobs /\ DOMAIN at = Requests /\ DOMAIN tx = Requests
    /\ \A b \in Blobs : {"there", "size"} \subseteq DOMAIN row[b] /\ row[b].there \in BOOLEAN
    /\ \A r \in Requests :
        /\ DOMAIN tx[r] = {"blob", "got"}
        /\ at[r] \in {"idle", "asked", "unkeyed", "aimed"} \cup Uploads => tx[r].got \in Int

\* A request has a file from its first byte to its row, and from its row to the last.
Holding == \A r \in Requests : tx[r].blob # {} => at[r] \in Uploads \cup {"rowless"}

\* A file in a request's hands is its own, and no row's yet, or no more.
Alone ==
    \A b \in Blobs \ doubt, r \in Requests : Mine(r, b) =>
        /\ ~row[b].there
        /\ \A q \in Requests : Mine(q, b) => q = r

\* What is stored before its row is inserted is what was received.
Whole ==
    \A b \in Blobs \ doubt, r \in Requests :
        at[r] = "stored" /\ Mine(r, b) => file[b] = tx[r].got /\ tx[r].got <= MaxBytes

Inv == Shape /\ Holding /\ Alone /\ Whole /\ RowHasItsFile /\ StrayFilesAreKnown

LEMMA InRange == \A m, n : \A i \in m .. n : i \in Int
  OBVIOUS

LEMMA InvInit == Init => Inv
<1> SUFFICES ASSUME Init PROVE Inv
  OBVIOUS
<1>1. /\ DOMAIN row = Blobs /\ DOMAIN at = Requests /\ DOMAIN tx = Requests
      /\ \A b \in Blobs : row[b] = NoRow
      /\ \A b \in Blobs : file[b] = -1
      /\ \A r \in Requests : at[r] = "idle"
      /\ \A r \in Requests : tx[r] = NoTx
  <2>1. DOMAIN row = Blobs /\ \A b \in Blobs : row[b] = NoRow
    BY DEF Init
  <2>2. \A b \in Blobs : file[b] = -1
    BY DEF Init
  <2>3. DOMAIN at = Requests /\ \A r \in Requests : at[r] = "idle"
    BY DEF Init
  <2>4. DOMAIN tx = Requests /\ \A r \in Requests : tx[r] = NoTx
    BY DEF Init
  <2>5. QED BY <2>1, <2>2, <2>3, <2>4
<1>2. Shape
  <2>1. {"there", "size"} \subseteq DOMAIN NoRow /\ NoRow.there \in BOOLEAN
    BY DEF NoRow
  <2>2. DOMAIN NoTx = {"blob", "got"} /\ NoTx.got \in Int
    BY DEF NoTx
  <2>3. QED BY <1>1, <2>1, <2>2 DEF Shape
<1>3. Holding /\ Alone /\ Whole
  BY <1>1 DEF Holding, Alone, Whole, NoTx, Mine
<1>4. RowHasItsFile /\ StrayFilesAreKnown
  <2>1. ~NoRow.there /\ ~(-1 >= 0)
    BY DEF NoRow
  <2>2. QED BY <1>1, <2>1 DEF RowHasItsFile, StrayFilesAreKnown, Stored
<1>5. QED BY <1>2, <1>3, <1>4 DEF Inv

-----------------------------------------------------------------------------
(* Steps of one request                                                    *)

\* Nobody else's step: r alone changes, to the stage s.
Moves(r, s) ==
    /\ DOMAIN at' = Requests /\ at'[r] = s /\ \A q \in Requests \ {r} : at'[q] = at[q]
    /\ DOMAIN tx' = Requests /\ DOMAIN tx'[r] = {"blob", "got"}
    /\ \A q \in Requests \ {r} : tx'[q] = tx[q]

\* A step that writes neither store and holds on to what it had in hand.
LEMMA Reads ==
  ASSUME Inv, NEW r \in Requests, NEW s, Moves(r, s), UNCHANGED <<row, file, leaked, doubt>>,
         tx'[r].blob \subseteq tx[r].blob,
         s \in {"idle", "asked", "unkeyed", "aimed"} \cup Uploads => tx'[r].got \in Int,
         s = "stored" => at[r] = "stored" /\ tx'[r] = tx[r],
         tx'[r].blob # {} => s \in Uploads \cup {"rowless"},
         InHand(r) => s \in {"stored", "losing", "discarding", "rowless"} /\ tx'[r].blob = tx[r].blob
  PROVE  Inv'
<1>1. \A q \in Requests : at'[q] = IF q = r THEN s ELSE at[q]
  BY DEF Moves, Inv, Shape
<1>2. \A q \in Requests : tx'[q].blob \subseteq tx[q].blob
  BY DEF Moves
<1>3. Shape'
  BY <1>1 DEF Moves, Inv, Shape
<1>4. Holding'
  BY <1>1 DEF Moves, Inv, Holding
<1>5. Alone'
  BY <1>2 DEF Inv, Alone, Mine
<1>6. Whole'
  BY <1>1, <1>2 DEF Moves, Inv, Whole, Mine
<1>7. RowHasItsFile'
  BY DEF Inv, RowHasItsFile
<1>8. StrayFilesAreKnown'
  BY <1>1 DEF Moves, Inv, StrayFilesAreKnown, InHand, Mine, Stored
<1>9. QED BY <1>3, <1>4, <1>5, <1>6, <1>7, <1>8 DEF Inv

\* The end of a request that had nothing in hand.
LEMMA Ends ==
  ASSUME Inv, NEW r \in Requests, End(r), ~InHand(r), UNCHANGED <<row, file, leaked, doubt>>
  PROVE  Inv'
<1>1. Moves(r, "done") /\ tx'[r] = NoTx
  BY DEF End, Moves, NoTx, Inv, Shape
<1>2. QED BY <1>1, Reads DEF NoTx, Uploads

\* The removal of the files r has in hand, which may fail, and what r does then.
LEMMA Removes ==
  ASSUME Inv, NEW r \in Requests, InHand(r) \/ tx[r].blob = {}, at[r] # "stored", NEW s, Moves(r, s),
         NEW ok \in BOOLEAN, Removed(tx[r].blob, ok), tx'[r] = NoTx, s \notin {"stored"},
         UNCHANGED <<row, doubt>>
  PROVE  Inv'
<1>1. \A q \in Requests : at'[q] = IF q = r THEN s ELSE at[q]
  BY DEF Moves, Inv, Shape
<1>2. Shape'
  BY <1>1 DEF Moves, Inv, Shape, NoTx
<1>3. Holding'
  BY <1>1 DEF Moves, Inv, Holding, NoTx
<1>4. Alone'
  BY DEF Moves, Inv, Alone, Mine, NoTx
<1>5. Whole'
  <2> SUFFICES ASSUME NEW b \in Blobs \ doubt, NEW q \in Requests, at'[q] = "stored", b \in tx'[q].blob
               PROVE  file'[b] = tx'[q].got /\ tx'[q].got <= MaxBytes
    BY DEF Whole, Mine
  <2>1. q # r /\ at[q] = "stored" /\ tx'[q] = tx[q]
    BY <1>1 DEF Moves
  <2>2. b \notin tx[r].blob
    BY <2>1 DEF Inv, Alone, Mine
  <2>3. file'[b] = file[b]
    BY <2>2 DEF Removed
  <2>4. QED BY <2>1, <2>3 DEF Inv, Whole, Mine
<1>6. RowHasItsFile'
  BY DEF Inv, Alone, Mine, RowHasItsFile, Removed
<1>7. StrayFilesAreKnown'
  <2> SUFFICES ASSUME NEW b \in Blobs, Stored(b)', ~row[b].there, b \notin leaked'
               PROVE  \E q \in Requests : InHand(q)' /\ Mine(q, b)'
    BY DEF StrayFilesAreKnown
  <2>1. file'[b] = file[b] /\ b \notin tx[r].blob
    BY DEF Removed, Stored
  <2>2. Stored(b) /\ b \notin leaked
    BY <2>1 DEF Removed, Stored
  <2>3. PICK q \in Requests : InHand(q) /\ Mine(q, b)
    BY <2>2 DEF Inv, StrayFilesAreKnown
  <2>4. q # r /\ at'[q] = at[q] /\ tx'[q] = tx[q]
    BY <1>1, <2>1, <2>3 DEF Moves, Mine
  <2>5. QED BY <2>3, <2>4 DEF InHand, Mine
<1>8. QED BY <1>2, <1>3, <1>4, <1>5, <1>6, <1>7 DEF Inv

-----------------------------------------------------------------------------
(* The steps of an upload that write                                       *)

LEMMA AcceptStep ==
  ASSUME Inv, NEW r \in Requests, Accept(r)
  PROVE  Inv'
<1>1. PICK b \in Blobs : /\ ~row[b].there
                         /\ \A q \in Requests : ~Mine(q, b)
                         /\ tx' = [tx EXCEPT ![r].blob = {b}]
  BY DEF Accept
<1>2. at[r] = "aimed" /\ at' = [at EXCEPT ![r] = "receiving"] /\ UNCHANGED <<row, file, leaked, doubt>>
  BY DEF Accept, Go
<1>3. \A q \in Requests : /\ at'[q] = IF q = r THEN "receiving" ELSE at[q]
                          /\ DOMAIN tx'[q] = DOMAIN tx[q] /\ tx'[q].got = tx[q].got
                          /\ tx'[q].blob = IF q = r THEN {b} ELSE tx[q].blob
  BY <1>1, <1>2 DEF Inv, Shape
<1>4. Shape' /\ Holding'
  BY <1>1, <1>2, <1>3 DEF Inv, Shape, Holding, Uploads
<1>5. Alone' /\ Whole'
  BY <1>1, <1>2, <1>3 DEF Inv, Alone, Whole, Mine
<1>6. RowHasItsFile' /\ StrayFilesAreKnown'
  BY <1>2, <1>3 DEF Inv, RowHasItsFile, StrayFilesAreKnown, InHand, Mine, Stored
<1>7. QED BY <1>4, <1>5, <1>6 DEF Inv

LEMMA PutStep ==
  ASSUME Inv, NEW r \in Requests, Put(r)
  PROVE  Inv'
<1>1. /\ at[r] = "receiving" /\ ~(tx[r].got > MaxBytes)
      /\ \A b \in Blobs : file'[b] = IF b \in tx[r].blob THEN tx[r].got ELSE file[b]
      /\ UNCHANGED <<row, tx, leaked, doubt>>
  BY DEF Put, Go, OverLimit, Mine
<1>2. \A q \in Requests : at'[q] = IF q = r THEN "stored" ELSE at[q]
  BY DEF Put, Go, Inv, Shape
<1>3. tx[r].got \in Int /\ tx[r].got <= MaxBytes
  BY <1>1, AttachmentsAssumption DEF Inv, Shape, Uploads
<1>4. DOMAIN at' = Requests
  BY DEF Put, Go, Inv, Shape
<1>5. Shape' /\ Holding'
  BY <1>1, <1>2, <1>3, <1>4 DEF Inv, Shape, Holding, Uploads
<1>6. Alone'
  BY <1>1 DEF Inv, Alone, Mine
<1>7. Whole'
  BY <1>1, <1>2, <1>3 DEF Inv, Whole, Alone, Mine
<1>8. RowHasItsFile'
  BY <1>1 DEF Inv, RowHasItsFile, Alone, Mine
<1>9. StrayFilesAreKnown'
  <2> SUFFICES ASSUME NEW b \in Blobs, file'[b] >= 0, ~row[b].there, b \notin leaked
               PROVE  \E q \in Requests : InHand(q)' /\ b \in tx[q].blob
    BY <1>1 DEF StrayFilesAreKnown, Stored, Mine
  <2>1. CASE b \in tx[r].blob
    BY <2>1, <1>2 DEF InHand
  <2>2. CASE b \notin tx[r].blob
    BY <2>2, <1>1, <1>2 DEF Inv, StrayFilesAreKnown, Stored, InHand, Mine
  <2>3. QED BY <2>1, <2>2
<1>10. QED BY <1>5, <1>6, <1>7, <1>8, <1>9 DEF Inv

\* The row of what is in hand is inserted.
LEMMA InsertedRows ==
  ASSUME Inv, NEW r \in Requests, row' = Inserted(r)
  PROVE  /\ DOMAIN row' = Blobs
         /\ \A b \in Blobs : {"there", "size"} \subseteq DOMAIN row'[b] /\ row'[b].there \in BOOLEAN
         /\ \A b \in Blobs : b \in tx[r].blob => row'[b].there /\ row'[b].size = tx[r].got
         /\ \A b \in Blobs : b \notin tx[r].blob => row'[b] = row[b]
  BY DEF Inv, Shape, Inserted, Mine

LEMMA InsertStep ==
  ASSUME Inv, NEW r \in Requests, Insert(r)
  PROVE  Inv'
<1>1. /\ at[r] = "stored" /\ row' = Inserted(r)
      /\ UNCHANGED <<file, leaked, doubt>>
      /\ DOMAIN at' = Requests /\ DOMAIN tx' = Requests
      /\ \A q \in Requests : at'[q] = (IF q = r THEN "done" ELSE at[q]) /\ tx'[q] = (IF q = r THEN NoTx ELSE tx[q])
  BY DEF Insert, End, disk, Inv, Shape
<1>2. Shape' /\ Holding'
  BY <1>1, InsertedRows DEF Inv, Shape, Holding, NoTx, Uploads
<1>3. Alone'
  BY <1>1, InsertedRows DEF Inv, Alone, Mine, NoTx
<1>4. Whole'
  BY <1>1 DEF Inv, Whole, Mine, NoTx
<1>5. RowHasItsFile'
  BY <1>1, InsertedRows DEF Inv, Whole, RowHasItsFile, Mine
<1>6. StrayFilesAreKnown'
  BY <1>1, InsertedRows DEF Inv, StrayFilesAreKnown, InHand, Mine, Stored, NoTx
<1>7. QED BY <1>2, <1>3, <1>4, <1>5, <1>6 DEF Inv

LEMMA InsertUnansweredStep ==
  ASSUME Inv, NEW r \in Requests, InsertUnanswered(r)
  PROVE  Inv'
<1>1. /\ at[r] = "stored" /\ row' = Inserted(r) /\ doubt' = doubt \cup tx[r].blob
      /\ UNCHANGED <<file, leaked, tx>>
      /\ DOMAIN at' = Requests
      /\ \A q \in Requests : at'[q] = (IF q = r THEN "discarding" ELSE at[q])
  BY DEF InsertUnanswered, Go, disk, Inv, Shape
<1>2. Shape' /\ Holding'
  BY <1>1, InsertedRows DEF Inv, Shape, Holding, Uploads
<1>3. Alone'
  BY <1>1, InsertedRows DEF Inv, Alone, Mine
<1>4. Whole'
  BY <1>1 DEF Inv, Whole, Mine
<1>5. RowHasItsFile'
  BY <1>1, InsertedRows DEF Inv, RowHasItsFile
<1>6. StrayFilesAreKnown'
  BY <1>1, InsertedRows DEF Inv, StrayFilesAreKnown, InHand, Mine, Stored
<1>7. QED BY <1>2, <1>3, <1>4, <1>5, <1>6 DEF Inv

-----------------------------------------------------------------------------
(* Deletes, and what happens around the requests                           *)

LEMMA DeleteRowStep ==
  ASSUME Inv, NEW r \in Requests, DeleteRow(r)
  PROVE  Inv'
<1> DEFINE x == op[r].blob
<1>1. /\ at[r] = "found" /\ row[x].there /\ row' = [row EXCEPT ![x] = NoRow]
      /\ UNCHANGED <<file, leaked, doubt>>
      /\ DOMAIN at' = Requests /\ DOMAIN tx' = Requests
      /\ \A q \in Requests : /\ at'[q] = (IF q = r THEN "rowless" ELSE at[q])
                             /\ DOMAIN tx'[q] = DOMAIN tx[q] /\ tx'[q].got = tx[q].got
                             /\ tx'[q].blob = (IF q = r THEN {x} ELSE tx[q].blob)
  BY DEF DeleteRow, Go, disk, Inv, Shape
<1>2. /\ DOMAIN row' = Blobs
      /\ \A b \in Blobs : row'[b] = (IF b = x THEN NoRow ELSE row[b])
  BY <1>1 DEF Inv, Shape
<1>3. tx[r].blob = {}
  BY <1>1 DEF Inv, Holding, Uploads
<1>4. Shape' /\ Holding'
  BY <1>1, <1>2 DEF Inv, Shape, Holding, NoRow, Uploads
<1>5. Alone'
  <2> SUFFICES ASSUME NEW b \in Blobs \ doubt, NEW q \in Requests, b \in tx'[q].blob
               PROVE  ~row'[b].there /\ \A p \in Requests : b \in tx'[p].blob => p = q
    BY <1>1 DEF Alone, Mine
  <2>1. CASE b = x
    <3>1. row[b].there
      BY <2>1, <1>1
    <3>2. \A p \in Requests : b \notin tx[p].blob
      BY <3>1 DEF Inv, Alone, Mine
    <3>3. ~NoRow.there
      BY DEF NoRow
    <3>4. row'[b] = NoRow
      BY <2>1, <1>2
    <3>5. QED BY <3>2, <3>3, <3>4, <1>1
  <2>2. CASE b # x
    BY <2>2, <1>1, <1>2 DEF Inv, Alone, Mine
  <2>3. QED BY <2>1, <2>2
<1>6. Whole'
  BY <1>1 DEF Inv, Whole, Mine
<1>7. RowHasItsFile'
  BY <1>1, <1>2 DEF Inv, RowHasItsFile, NoRow
<1>8. StrayFilesAreKnown'
  BY <1>1, <1>2, <1>3 DEF Inv, StrayFilesAreKnown, InHand, Mine, Stored
<1>9. QED BY <1>4, <1>5, <1>6, <1>7, <1>8 DEF Inv

LEMMA DeleteAccountStep ==
  ASSUME Inv, NEW a, DeleteAccount(a)
  PROVE  Inv'
<1>1. /\ DOMAIN row' = Blobs /\ UNCHANGED <<file, at, tx, leaked, doubt>>
      /\ \A b \in Blobs : DOMAIN row'[b] = DOMAIN row[b] /\ row'[b].there = row[b].there /\ row'[b].size = row[b].size
  BY DEF DeleteAccount, disk, Inv, Shape
<1>2. QED BY <1>1 DEF Inv, Shape, Holding, Alone, Whole, RowHasItsFile, StrayFilesAreKnown, InHand, Mine, Stored

LEMMA CrashStep ==
  ASSUME Inv, Crash
  PROVE  Inv'
<1>1. /\ UNCHANGED <<row, file, doubt>>
      /\ leaked' = leaked \cup {b \in Blobs : Stored(b) /\ ~row[b].there /\ \E r \in Requests : InHand(r) /\ Mine(r, b)}
      /\ DOMAIN at' = Requests /\ DOMAIN tx' = Requests
      /\ \A r \in Requests : at'[r] \in {"idle", "done"} /\ tx'[r] = NoTx
  BY DEF Crash, disk
<1>2. Shape' /\ Holding'
  BY <1>1 DEF Inv, Shape, Holding, NoTx, Uploads
<1>3. Alone' /\ Whole' /\ RowHasItsFile'
  BY <1>1 DEF Inv, Alone, Whole, RowHasItsFile, Mine, NoTx
<1>4. StrayFilesAreKnown'
  BY <1>1 DEF Inv, StrayFilesAreKnown, Stored
<1>5. QED BY <1>2, <1>3, <1>4 DEF Inv

-----------------------------------------------------------------------------
LEMMA InvNext == Inv /\ [Next]_vars => Inv'
<1> SUFFICES ASSUME Inv, [Next]_vars PROVE Inv'
  OBVIOUS
<1>1. CASE UNCHANGED vars
  BY <1>1 DEF vars, Inv, Shape, Holding, Alone, Whole, RowHasItsFile, StrayFilesAreKnown, InHand, Mine, Stored
<1>2. CASE \E t \in Targets : Archive(t)
  BY <1>2 DEF Archive, disk, Inv, Shape, Holding, Alone, Whole, RowHasItsFile, StrayFilesAreKnown, InHand, Mine, Stored
<1>3. CASE Crash \/ \E a \in Uploaders : DeleteAccount(a)
  BY <1>3, CrashStep, DeleteAccountStep
<1>4. ASSUME NEW r \in Requests,
             AskUpload(r) \/ LookUp(r) \/ TargetFound(r) \/ AskDownload(r) \/ AskDelete(r) \/ Open(r)
      PROVE  Inv'
  <2>1. PICK s : at' = [at EXCEPT ![r] = s] /\ s \in {"asked", "unkeyed", "aimed", "streaming"}
    BY <1>4 DEF AskUpload, LookUp, TargetFound, AskDownload, AskDelete, Asks, Open, Go
  <2>2. UNCHANGED <<row, file, tx, leaked, doubt>> /\ at[r] \in {"idle", "asked", "unkeyed", "found"}
    BY <1>4 DEF AskUpload, LookUp, TargetFound, AskDownload, AskDelete, Asks, Open, Go, Uploading, disk
  <2>3. tx[r].blob = {} /\ (s # "streaming" => at[r] \in {"idle", "asked", "unkeyed"})
    <3>1. tx[r].blob = {}
      BY <2>2 DEF Inv, Holding, Uploads
    <3>2. s # "streaming" => at[r] # "found"
      BY <1>4, <2>1 DEF AskUpload, LookUp, TargetFound, AskDownload, AskDelete, Asks, Open, Go, Uploading, Inv, Shape
    <3>3. QED BY <3>1, <3>2, <2>2
  <2>4. s \in {"idle", "asked", "unkeyed", "aimed"} \cup Uploads => tx'[r].got \in Int
    BY <2>1, <2>2, <2>3 DEF Inv, Shape, Uploads
  <2>5. Moves(r, s)
    BY <2>1, <2>2 DEF Moves, Inv, Shape
  <2>6. ~InHand(r)
    BY <2>2 DEF InHand
  <2>7. QED BY <2>1, <2>2, <2>3, <2>4, <2>5, <2>6, Reads
<1>5. ASSUME NEW r \in Requests, Receive(r)
      PROVE  Inv'
  <2>1. PICK n \in 1 .. (op[r].file.size - tx[r].got) : tx' = [tx EXCEPT ![r].got = @ + n]
    BY <1>5 DEF Receive
  <2>2. at[r] = "receiving" /\ UNCHANGED <<row, file, at, leaked, doubt>>
    BY <1>5 DEF Receive, disk
  <2>3. n \in Int /\ tx[r].got \in Int
    BY <2>2, InRange DEF Inv, Shape, Uploads
  <2>4. tx'[r].blob = tx[r].blob /\ tx'[r].got = tx[r].got + n
    BY <2>1 DEF Inv, Shape
  <2>5. Moves(r, "receiving")
    BY <2>1, <2>2 DEF Moves, Inv, Shape
  <2>6. ~InHand(r)
    BY <2>2 DEF InHand
  <2>7. QED BY <2>2, <2>3, <2>4, <2>5, <2>6, Reads DEF Uploads
<1>6. ASSUME NEW r \in Requests, Get(r)
      PROVE  Inv'
  <2>1. at[r] = "asked" /\ at' = [at EXCEPT ![r] = "found"] /\ UNCHANGED <<row, file, leaked, doubt>>
    BY <1>6 DEF Get, Go, disk
  <2>2. Moves(r, "found") /\ tx'[r].blob = tx[r].blob /\ tx[r].blob = {}
    BY <1>6, <2>1 DEF Get, Moves, Inv, Shape, Holding, Uploads
  <2>3. ~InHand(r)
    BY <2>1 DEF InHand
  <2>4. QED BY <2>1, <2>2, <2>3, Reads DEF Uploads
<1>7. ASSUME NEW r \in Requests, InsertConflicts(r) \/ InsertFails(r)
      PROVE  Inv'
  <2>1. PICK s \in {"losing", "discarding"} : at[r] = "stored" /\ at' = [at EXCEPT ![r] = s]
    BY <1>7 DEF InsertConflicts, InsertFails, Go
  <2>2. UNCHANGED <<row, file, tx, leaked, doubt>>
    BY <1>7 DEF InsertConflicts, InsertFails, disk
  <2>3. Moves(r, s) /\ tx[r].got \in Int
    BY <2>1, <2>2 DEF Moves, Inv, Shape, Uploads
  <2>4. QED BY <2>1, <2>2, <2>3, Reads DEF Uploads
<1>8. ASSUME NEW r \in Requests,
             \/ Replay(r) \/ TargetNotFound(r) \/ NotAccepted(r) \/ ReceiveFails(r) \/ Answer(r)
             \/ NotFound(r) \/ FileMissing(r) \/ Streamed(r) \/ DeleteNoRow(r)
      PROVE  Inv'
  <2>1. End(r) /\ UNCHANGED <<row, file, leaked, doubt>>
    BY <1>8 DEF Replay, TargetNotFound, NotAccepted, ReceiveFails, Answer, NotFound, FileMissing, Streamed, DeleteNoRow, Refuse
  <2>2. ~InHand(r)
    BY <1>8 DEF Replay, TargetNotFound, NotAccepted, ReceiveFails, Answer, NotFound, FileMissing, Streamed, DeleteNoRow, Uploading, InHand
  <2>3. QED BY <2>1, <2>2, Ends
<1>9. ASSUME NEW r \in Requests, Discard(r) \/ DiscardLost(r) \/ DeleteFile(r)
      PROVE  Inv'
  <2>1. PICK ok \in BOOLEAN : Removed(tx[r].blob, ok)
    BY <1>9 DEF Discard, DiscardLost, DeleteFile, Surplus
  <2>2. at[r] \in {"discarding", "losing", "rowless"} /\ tx'[r] = NoTx /\ UNCHANGED <<row, doubt>>
    BY <1>9 DEF Discard, DiscardLost, DeleteFile, End, Go, Inv, Shape
  <2>3. PICK s \in {"done", "lost"} : Moves(r, s)
    <3>1. \E s \in {"done", "lost"} : at' = [at EXCEPT ![r] = s]
      BY <1>9 DEF Discard, DiscardLost, DeleteFile, End, Go
    <3>2. tx' = [tx EXCEPT ![r] = NoTx]
      BY <1>9 DEF Discard, DiscardLost, DeleteFile, End
    <3>3. QED BY <3>1, <3>2 DEF Moves, NoTx, Inv, Shape
  <2>4. QED BY <2>1, <2>2, <2>3, Removes DEF InHand
<1>10. ASSUME NEW r \in Requests,
              Accept(r) \/ Put(r) \/ Insert(r) \/ InsertUnanswered(r) \/ DeleteRow(r)
       PROVE  Inv'
  BY <1>10, AcceptStep, PutStep, InsertStep, InsertUnansweredStep, DeleteRowStep
<1>11. QED BY <1>1, <1>2, <1>3, <1>4, <1>5, <1>6, <1>7, <1>8, <1>9, <1>10 DEF Next

\* The invariant of every file and request, which the two theorems read off.
LEMMA SpecInv == Spec => []Inv
<1>1. Inv => Inv OBVIOUS
<1>2. QED BY InvInit, InvNext, PTL DEF Spec

\* internal/attachment, "the blob first, the row second": whatever requests
\* overlap and wherever the process ends, a row has the whole of its file
\* behind it, unless its insert was never answered.
THEOREM RowsHaveFiles == Spec => []RowHasItsFile
<1>1. Inv => RowHasItsFile
  BY DEF Inv
<1>2. QED BY <1>1, SpecInv, PTL

\* A file without a row is in the hands of a request, or one whose removal
\* failed or was cut off: nothing else strays.
THEOREM StraysAreKnown == Spec => []StrayFilesAreKnown
<1>1. Inv => StrayFilesAreKnown
  BY DEF Inv
<1>2. QED BY <1>1, SpecInv, PTL

-----------------------------------------------------------------------------
(* Induction, over sets instead of predicates.                             *)

\* Every set of naturals that is not empty has a least element.
LEMMA LeastIs ==
  ASSUME NEW T \in SUBSET Nat, T # {}
  PROVE  \E n \in T : \A m \in T : n <= m
<1> DEFINE Below == {0 .. n : n \in T}
<1>1. Below \subseteq FiniteSubsetsOf(Nat) /\ Below # {}
  <2>1. \A n \in T : 0 .. n \in SUBSET Nat /\ IsFiniteSet(0 .. n)
    BY FS_Interval
  <2> QED BY <2>1 DEF FiniteSubsetsOf
<1>2. PICK B \in Below : \A C \in Below : ~ <<C, B>> \in StrictSubsetOrdering(Nat)
  <2> HIDE DEF Below
  <2> QED BY <1>1, FS_StrictSubsetOrderingWellFounded, WFMin
<1>3. PICK n \in T : B = 0 .. n
  OBVIOUS
<1>4. ASSUME NEW m \in T, m < n PROVE FALSE
  <2>1. 0 .. m \in Below
    OBVIOUS
  <2>2. 0 .. m \subseteq 0 .. n /\ 0 .. m # 0 .. n
    <3>1. n \in 0 .. n /\ n \notin 0 .. m
      BY <1>4
    <3> QED BY <3>1, <1>4
  <2>3. 0 .. m \in SUBSET Nat /\ 0 .. n \in SUBSET Nat
    OBVIOUS
  <2>4. <<0 .. m, 0 .. n>> \in (SUBSET Nat) \X (SUBSET Nat)
    BY <2>3
  <2>5. <<0 .. m, 0 .. n>> \in StrictSubsetOrdering(Nat)
    BY <2>2, <2>4 DEF StrictSubsetOrdering
  <2> QED BY <2>1, <2>5, <1>2, <1>3
<1> QED BY <1>4

\* What holds of a number of 1 .. N whenever it holds of all greater ones holds of all.
Inherits(N, T) == \A n \in 1 .. N : (\A m \in n + 1 .. N : m \in T) => n \in T

LEMMA Down ==
  ASSUME NEW N \in Nat, NEW T, Inherits(N, T)
  PROVE  1 .. N \subseteq T
<1> DEFINE Missing == {k \in 0 .. N : N - k \in 1 .. N /\ N - k \notin T}
<1>1. SUFFICES ASSUME Missing # {} PROVE FALSE
  <2>1. ASSUME NEW n \in 1 .. N, n \notin T PROVE N - n \in Missing
    BY <2>1
  <2> QED BY <1>1, <2>1
<1>2. PICK k \in Missing : \A m \in Missing : k <= m
  <2> Missing \subseteq Nat
    OBVIOUS
  <2> HIDE DEF Missing
  <2> QED BY <1>1, LeastIs
<1>3. ASSUME NEW m \in N - k + 1 .. N PROVE m \in T
  <2>1. N - m < k /\ N - m \in 0 .. N /\ N - (N - m) = m /\ m \in 1 .. N
    BY <1>3
  <2>2. N - m \notin Missing
    <3>1. ASSUME N - m \in Missing PROVE FALSE
      <4>1. k <= N - m
        <5> HIDE DEF Missing
        <5> QED BY <1>2, <3>1
      <4>2. k \in Int /\ N - m \in Int
        OBVIOUS
      <4> QED BY <4>1, <4>2, <2>1
    <3> QED BY <3>1
  <2> QED BY <2>1, <2>2
<1> QED BY <1>3, <1>2 DEF Inherits

\* What is defined on 1 .. N from its values at greater numbers is defined.
LooksUp(step, N, D) ==
    /\ D # {}
    /\ step \in [1 .. N -> [[1 .. N -> D] -> D]]
    /\ \A n \in 1 .. N, g, h \in [1 .. N -> D] :
        (\A m \in n + 1 .. N : g[m] = h[m]) => step[n][g] = step[n][h]

LEMMA RecursionIs ==
  ASSUME NEW N \in Nat \ {0}, NEW D, NEW step, LooksUp(step, N, D)
  PROVE  \E f \in [1 .. N -> D] : \A n \in 1 .. N : f[n] = step[n][f]
<1> DEFINE From(f, n) == \A m \in n .. N : f[m] = step[m][f]
           T == {n \in 1 .. N : \E f \in [1 .. N -> D] : From(f, n)}
<1>1. ASSUME NEW n \in 1 .. N, \A m \in n + 1 .. N : m \in T PROVE n \in T
  <2>1. PICK f \in [1 .. N -> D] : From(f, n + 1)
    <3>1. CASE n = N
      <4>1. PICK d \in D : TRUE
        BY DEF LooksUp
      <4>2. [m \in 1 .. N |-> d] \in [1 .. N -> D]
        OBVIOUS
      <4>3. \A m : m \notin n + 1 .. N
        BY <3>1
      <4> QED BY <4>2, <4>3
    <3>2. CASE n # N
      <4>1. n + 1 \in n + 1 .. N
        BY <3>2
      <4> QED BY <1>1, <4>1
    <3> QED BY <3>1, <3>2
  <2> DEFINE h == [f EXCEPT ![n] = step[n][f]]
  <2>2. h \in [1 .. N -> D] /\ h[n] = step[n][f] /\ \A m \in 1 .. N : m # n => h[m] = f[m]
    BY DEF LooksUp
  <2> HIDE DEF h
  <2>3. ASSUME NEW m \in n .. N PROVE h[m] = step[m][h]
    <3>1. m \in 1 .. N /\ \A k \in m + 1 .. N : h[k] = f[k]
      BY <2>2
    <3>2. step[m][f] = step[m][h]
      BY <3>1, <2>2 DEF LooksUp
    <3>3. h[m] = step[m][f]
      BY <2>1, <2>2
    <3> QED BY <3>2, <3>3
  <2>4. From(h, n)
    BY <2>3
  <2> QED BY <2>2, <2>4
<1>2. 1 \in T
  <2>1. Inherits(N, T)
    BY <1>1 DEF Inherits
  <2> HIDE DEF T
  <2> QED BY <2>1, Down
<1> QED BY <1>2

-----------------------------------------------------------------------------
Truths == {"true", "false", "unknown"}

LEMMA FilterIs ==
  ASSUME NEW g, IsFilter(g)
  PROVE  /\ Len(g) \in Nat \ {0} /\ DOMAIN g = 1 .. Len(g)
         /\ \A n \in DOMAIN g : Inside(g, n) \subseteq n + 1 .. Len(g)
<1>1. Len(g) \in Nat \ {0} /\ DOMAIN g = 1 .. Len(g)
  BY EmptySeq, LenProperties DEF IsFilter
<1>2. ASSUME NEW n \in DOMAIN g, NEW m \in Inside(g, n) PROVE m \in n + 1 .. Len(g)
  <2>1. m \in 1 .. Len(g) /\ g[m].parent = n /\ n \in 1 .. Len(g)
    BY <1>1 DEF Inside
  <2>2. m # 1
    BY <2>1 DEF IsFilter
  <2>3. n \in 1 .. m - 1
    <3>1. m \in 2 .. Len(g)
      BY <1>1, <2>1, <2>2
    <3> QED BY <3>1, <2>1 DEF IsFilter
  <2> QED BY <2>1, <2>3
<1> QED BY <1>1, <1>2

WhereFrom(g, r, w, n) ==
    IF Bare(g, n) THEN "true"
    ELSE Joined(g[n].op, {Condition(c, r) : c \in ToSet(g[n].conditions)}
                         \cup {w[m] : m \in Inside(g, n)})

LEMMA WhereIs ==
  ASSUME NEW g, IsFilter(g), NEW r
  PROVE  \E w \in [DOMAIN g -> Truths] :
            Where(g, r) = w[1] /\ \A n \in DOMAIN g : w[n] = WhereFrom(g, r, w, n)
<1> DEFINE N == Len(g)
           step == [n \in 1 .. N |-> [w \in [1 .. N -> Truths] |-> WhereFrom(g, r, w, n)]]
<1>1. N \in Nat \ {0} /\ DOMAIN g = 1 .. N /\ \A n \in DOMAIN g : Inside(g, n) \subseteq n + 1 .. N
  BY FilterIs
<1>2. \A n, w : WhereFrom(g, r, w, n) \in Truths
  BY DEF WhereFrom, Joined, Truths
<1>3. ASSUME NEW n \in 1 .. N, NEW v \in [1 .. N -> Truths], NEW w \in [1 .. N -> Truths],
             \A m \in n + 1 .. N : v[m] = w[m]
      PROVE  step[n][v] = step[n][w]
  <2>1. {v[m] : m \in Inside(g, n)} = {w[m] : m \in Inside(g, n)}
    BY <1>1, <1>3
  <2> QED BY <2>1 DEF WhereFrom
<1>4. step \in [1 .. N -> [[1 .. N -> Truths] -> Truths]] /\ Truths # {}
  BY <1>2 DEF Truths
<1>5. PICK f \in [1 .. N -> Truths] : \A n \in 1 .. N : f[n] = step[n][f]
  <2>1. LooksUp(step, N, Truths)
    <3> HIDE DEF step, N
    <3> QED BY <1>3, <1>4 DEF LooksUp
  <2> HIDE DEF step, N
  <2> QED BY <1>1, <2>1, RecursionIs
<1>6. f = [n \in DOMAIN g |-> WhereFrom(g, r, f, n)]
  BY <1>1, <1>5
<1> DEFINE w == CHOOSE w : w = [n \in DOMAIN g |-> WhereFrom(g, r, w, n)]
<1>7. w = [n \in DOMAIN g |-> WhereFrom(g, r, w, n)]
  BY <1>6
<1>8. Where(g, r) = w[1]
  BY DEF Where, WhereFrom
<1>9. \A n \in DOMAIN g : w[n] = WhereFrom(g, r, w, n)
  <2> HIDE DEF w
  <2> QED BY <1>7
<1>10. w \in [DOMAIN g -> Truths]
  <2> HIDE DEF w
  <2> QED BY <1>7, <1>2
<1> QED BY <1>8, <1>9, <1>10

MeansFrom(g, r, w, n) ==
    IF g[n].op = "or" /\ ~Bare(g, n)
    THEN (\E c \in ToSet(g[n].conditions) : Holds(c, r)) \/ (\E m \in Inside(g, n) : w[m])
    ELSE (\A c \in ToSet(g[n].conditions) : Holds(c, r)) /\ (\A m \in Inside(g, n) : w[m])

LEMMA MeansIs ==
  ASSUME NEW g, IsFilter(g), NEW r
  PROVE  \E w \in [DOMAIN g -> BOOLEAN] :
            (Means(g, r) <=> w[1]) /\ \A n \in DOMAIN g : w[n] <=> MeansFrom(g, r, w, n)
<1> DEFINE N == Len(g)
           step == [n \in 1 .. N |-> [w \in [1 .. N -> BOOLEAN] |-> MeansFrom(g, r, w, n)]]
<1>1. N \in Nat \ {0} /\ DOMAIN g = 1 .. N /\ \A n \in DOMAIN g : Inside(g, n) \subseteq n + 1 .. N
  BY FilterIs
<1>2. \A n, w : MeansFrom(g, r, w, n) \in BOOLEAN
  BY DEF MeansFrom
<1>3. ASSUME NEW n \in 1 .. N, NEW v \in [1 .. N -> BOOLEAN], NEW w \in [1 .. N -> BOOLEAN],
             \A m \in n + 1 .. N : v[m] = w[m]
      PROVE  step[n][v] = step[n][w]
  <2>1. \A m \in Inside(g, n) : v[m] = w[m]
    BY <1>1, <1>3
  <2>2. MeansFrom(g, r, v, n) = MeansFrom(g, r, w, n)
    BY <2>1, Zenon DEF MeansFrom
  <2> QED BY <2>2
<1>4. step \in [1 .. N -> [[1 .. N -> BOOLEAN] -> BOOLEAN]]
  BY <1>2
<1>5. PICK f \in [1 .. N -> BOOLEAN] : \A n \in 1 .. N : f[n] = step[n][f]
  <2>1. LooksUp(step, N, BOOLEAN)
    <3> HIDE DEF step, N
    <3> QED BY <1>3, <1>4 DEF LooksUp
  <2> HIDE DEF step, N
  <2> QED BY <1>1, <2>1, RecursionIs
<1>6. f = [n \in DOMAIN g |-> MeansFrom(g, r, f, n)]
  BY <1>1, <1>5
<1> DEFINE w == CHOOSE w : w = [n \in DOMAIN g |-> MeansFrom(g, r, w, n)]
<1>7. w = [n \in DOMAIN g |-> MeansFrom(g, r, w, n)]
  BY <1>6
<1>8. Means(g, r) = w[1]
  BY DEF Means, MeansFrom
<1>9. \A n \in DOMAIN g : w[n] = MeansFrom(g, r, w, n)
  <2> HIDE DEF w
  <2> QED BY <1>7
<1>10. w \in [DOMAIN g -> BOOLEAN]
  <2> HIDE DEF w
  <2> QED BY <1>7, <1>2
<1> HIDE DEF w
<1> QED BY <1>8, <1>9, <1>10

\* A condition without a fault is true of a row when what it says holds of it.
LEMMA ConditionHolds ==
  ASSUME NEW c \in Conditions, ConditionFaults(c) = {}, NEW r \in Rows
  PROVE  /\ Condition(c, r) \in Truths
         /\ Condition(c, r) = "true" <=> Holds(c, r)
<1>1. c.field \in Names /\ c.op \in Legal[KindOf[c.field]]
  BY DEF ConditionFaults
<1>2. c.op \notin {"is_null", "is_not_null"} =>
        /\ c.value # <<>> /\ \A i \in DOMAIN c.value : c.value[i] # Malformed
        /\ c.op # "in" => Len(c.value) <= 1
  BY <1>1 DEF ConditionFaults, BadList, Coerced
<1>3. c.op \notin {"is_null", "is_not_null"} =>
        /\ c.value[1] \in Int /\ ToSet(c.value) \subseteq Int /\ c.value[1] \in ToSet(c.value)
        /\ c.op # "in" => ToSet(c.value) = {c.value[1]}
  BY <1>2 DEF ToSet, Conditions
<1> DEFINE x == r[c.field]
           kind == KindOf[c.field]
           has == IF kind = "uuid_set" THEN x ELSE {x} \ {NULL}
<1>4. /\ c.op = "is_null" => (Holds(c, r) <=> has = {}) /\ Condition(c, r) = NullTest(x, kind, c.op)
      /\ c.op = "is_not_null" => (Holds(c, r) <=> has # {}) /\ Condition(c, r) = NullTest(x, kind, c.op)
  <2>1. c.op = "is_null" => (Holds(c, r) <=> has = {})
    BY DEF Holds
  <2>2. c.op = "is_not_null" => (Holds(c, r) <=> has # {})
    BY DEF Holds
  <2>3. c.op \in {"is_null", "is_not_null"} => Condition(c, r) = NullTest(x, kind, c.op)
    BY DEF Condition
  <2> QED BY <2>1, <2>2, <2>3
<1>5. /\ c.op = "in" => (Holds(c, r) <=> has \cap ToSet(c.value) # {}) /\ Condition(c, r) = AnyOf(x, kind, ToSet(c.value))
      /\ c.op = "eq" => (Holds(c, r) <=> has \cap ToSet(c.value) # {})
      /\ c.op = "neq" => (Holds(c, r) <=> has \cap ToSet(c.value) = {})
  <2>1. c.op \in {"in", "eq"} => (Holds(c, r) <=> has \cap ToSet(c.value) # {})
    BY DEF Holds
  <2>2. c.op = "neq" => (Holds(c, r) <=> has \cap ToSet(c.value) = {})
    BY DEF Holds
  <2>3. c.op = "in" => Condition(c, r) = AnyOf(x, kind, ToSet(c.value))
    BY DEF Condition
  <2> QED BY <2>1, <2>2, <2>3
<1>6. /\ c.op = "gt" => (Holds(c, r) <=> \E v \in has : v > c.value[1])
      /\ c.op = "gte" => (Holds(c, r) <=> \E v \in has : v >= c.value[1])
      /\ c.op = "lt" => (Holds(c, r) <=> \E v \in has : v < c.value[1])
      /\ c.op = "lte" => (Holds(c, r) <=> \E v \in has : v <= c.value[1])
  BY DEF Holds
<1>7. c.op \in {"eq", "neq", "gt", "gte", "lt", "lte"} =>
        Condition(c, r) = IF kind = "uuid_set" THEN SetTest(x, c.op, c.value[1]) ELSE ScalarTest(x, c.op, c.value[1])
  BY DEF Condition
<1>8. CASE c.field = "label"
  <2>1. kind = "uuid_set" /\ x \in SUBSET Int /\ c.op \in {"eq", "neq", "in", "is_null", "is_not_null"}
    BY <1>1, <1>8, ListsAssumption DEF Legal, Rows
  <2>2. CASE c.op \in {"is_null", "is_not_null"}
    BY <2>1, <2>2, <1>4 DEF NullTest, Truth, Truths
  <2>3. CASE c.op = "in"
    BY <2>1, <2>3, <1>5 DEF AnyOf, Truth, Truths
  <2>4. CASE c.op \in {"eq", "neq"}
    BY <2>1, <2>4, <1>3, <1>5, <1>7 DEF SetTest, Truth, Truths
  <2> QED BY <2>1, <2>2, <2>3, <2>4
<1>9. CASE c.field # "label"
  <2>1. /\ kind \in {"uuid", "time", "number"} /\ x \in Int \cup {NULL}
        /\ c.op \in {"eq", "neq", "gt", "gte", "lt", "lte", "in", "is_null", "is_not_null"}
    BY <1>1, <1>9, ListsAssumption DEF Legal, Rows, Scalars
  <2>2. kind # "uuid_set" /\ has = {x} \ {NULL}
    BY <2>1
  <2>3. CASE c.op \in {"is_null", "is_not_null"}
    BY <2>2, <2>3, <1>4 DEF NullTest, Truth, Truths
  <2>4. CASE c.op = "in"
    BY <2>1, <2>2, <2>4, <1>3, <1>5 DEF AnyOf, Truth, Truths
  <2>5. CASE c.op = "eq"
    BY FilterAssumption, <2>1, <2>2, <2>5, <1>3, <1>5, <1>7 DEF ScalarTest, Compared, Truth, Truths
  <2>6. CASE c.op = "neq"
    BY FilterAssumption, <2>1, <2>2, <2>6, <1>3, <1>5, <1>7 DEF ScalarTest, Truth, Truths
  <2>7. CASE c.op \in {"gt", "gte", "lt", "lte"}
    <3>1. x = NULL => Condition(c, r) = "unknown" /\ ~Holds(c, r)
      BY <2>2, <2>7, <1>6, <1>7 DEF ScalarTest
    <3>2. x # NULL => Condition(c, r) = Truth(Compared(x, c.op, c.value[1])) /\ has = {x}
      BY <2>2, <2>7, <1>7 DEF ScalarTest
    <3>3. x # NULL => (Compared(x, c.op, c.value[1]) <=> Holds(c, r))
      BY <2>7, <3>2, <1>6 DEF Compared
    <3> QED BY <3>1, <3>2, <3>3 DEF Truth, Truths
  <2> QED BY <2>1, <2>3, <2>4, <2>5, <2>6, <2>7
<1> QED BY <1>8, <1>9

\* A filter the compiler finds no fault with keeps the rows of which what it says
\* holds, however its groups nest: the third truth value of SQL (a comparison with
\* nothing there) and the two of the words come to the same.
THEOREM WhereMeans ==
  ASSUME NEW g, IsFilter(g), FilterFaults(g) = {}, NEW r \in Rows
  PROVE  Where(g, r) = "true" <=> Means(g, r)
<1>1. PICK w \in [DOMAIN g -> Truths] :
        Where(g, r) = w[1] /\ \A n \in DOMAIN g : w[n] = WhereFrom(g, r, w, n)
  BY WhereIs
<1>2. PICK v \in [DOMAIN g -> BOOLEAN] :
        (Means(g, r) <=> v[1]) /\ \A n \in DOMAIN g : v[n] <=> MeansFrom(g, r, v, n)
  BY MeansIs
<1>3. Len(g) \in Nat \ {0} /\ DOMAIN g = 1 .. Len(g) /\ \A n \in DOMAIN g : Inside(g, n) \subseteq n + 1 .. Len(g)
  BY FilterIs
<1>4. ASSUME NEW n \in DOMAIN g
      PROVE  /\ g[n].op \in {"and", "or"} \/ (n = 1 /\ Bare(g, n))
             /\ \A c \in ToSet(g[n].conditions) : c \in Conditions /\ ConditionFaults(c) = {}
  <2>1. GroupFaults(g, n) = {}
    BY DEF FilterFaults
  <2>2. /\ n = 1 \/ ~Bare(g, n)
        /\ g[n].op \in {"and", "or"}
        /\ \A c \in ToSet(g[n].conditions) : ConditionFaults(c) = {}
    BY <2>1 DEF GroupFaults
  <2>3. g[n].conditions \in Seq(Conditions)
    <3>1. g[n] \in Groups
      BY <1>3, ElementOfSeq DEF IsFilter
    <3> QED BY <3>1 DEF Groups
  <2>4. ToSet(g[n].conditions) \subseteq Conditions
    BY <2>3 DEF ToSet
  <2> QED BY <2>2, <2>4
<1> DEFINE T == {n \in 1 .. Len(g) : w[n] = "true" <=> v[n]}
<1>5. ASSUME NEW n \in 1 .. Len(g), \A m \in n + 1 .. Len(g) : m \in T PROVE n \in T
  <2> DEFINE Cs == ToSet(g[n].conditions)
  <2>1. \A m \in Inside(g, n) : w[m] \in Truths /\ (w[m] = "true" <=> v[m])
    BY <1>3, <1>5
  <2>2. \A c \in Cs : Condition(c, r) \in Truths /\ (Condition(c, r) = "true" <=> Holds(c, r))
    BY <1>3, <1>4, ConditionHolds
  <2> DEFINE terms == {Condition(c, r) : c \in Cs} \cup {w[m] : m \in Inside(g, n)}
  <2>3. CASE Bare(g, n)
    <3>1. Cs = {} /\ Inside(g, n) = {}
      BY <2>3 DEF Bare, ToSet
    <3>2. w[n] = "true"
      BY <1>1, <1>3, <2>3 DEF WhereFrom
    <3>3. v[n]
      BY <1>2, <1>3, <2>3, <3>1 DEF MeansFrom
    <3> QED BY <3>2, <3>3
  <2>4. CASE ~Bare(g, n)
    <3>1. w[n] = Joined(g[n].op, terms)
      BY <1>1, <1>3, <2>4 DEF WhereFrom
    <3>2. CASE g[n].op = "or"
      <4>1. w[n] = "true" <=> "true" \in terms
        BY <3>1, <3>2 DEF Joined
      <4>2. v[n] <=> (\E c \in Cs : Holds(c, r)) \/ (\E m \in Inside(g, n) : v[m])
        BY <1>2, <1>3, <2>4, <3>2 DEF MeansFrom
      <4> QED BY <4>1, <4>2, <2>1, <2>2
    <3>3. CASE g[n].op = "and"
      <4>1. w[n] = "true" <=> terms \subseteq {"true"}
        <5>1. terms \subseteq Truths
          BY <2>1, <2>2
        <5> HIDE DEF terms
        <5> QED BY <5>1, <3>1, <3>3 DEF Joined, Truths
      <4>2. v[n] <=> (\A c \in Cs : Holds(c, r)) /\ (\A m \in Inside(g, n) : v[m])
        BY <1>2, <1>3, <2>4, <3>3 DEF MeansFrom
      <4> QED BY <4>1, <4>2, <2>1, <2>2
    <3> QED BY <3>2, <3>3, <2>4, <1>3, <1>4
  <2> QED BY <2>3, <2>4
<1>6. 1 \in T
  <2>1. Inherits(Len(g), T)
    BY <1>5 DEF Inherits
  <2> HIDE DEF T
  <2> QED BY <2>1, <1>3, Down
<1> QED BY <1>1, <1>2, <1>6

-----------------------------------------------------------------------------
(* The order of a page.                                                    *)

LEMMA IdsAre == /\ IsFiniteSet(Ids) /\ Ids \subseteq Nat \ {0} /\ Entities \subseteq Int
                /\ \A r \in Rows : r.id \in Nat \ {0}
<1>1. IsFiniteSet(Ids) /\ Ids \subseteq Nat \ {0} /\ Entities \subseteq Int
  BY ListsAssumption
<1>2. \A r \in Rows : r.id \in Ids
  BY DEF Rows
<1> QED BY <1>1, <1>2

\* An order that was not refused sorts by columns that have one value or none.
Sortable(O) == O \in Seq(Orders) /\ SortFaults(O) = {}

LEMMA SortIs ==
  ASSUME NEW O, Sortable(O)
  PROVE  /\ Len(O) \in Nat /\ DOMAIN O = 1 .. Len(O)
         /\ \A n \in DOMAIN O : /\ O[n].field \in {"link", "stamp"} /\ O[n].desc \in BOOLEAN
                                /\ \A r \in Rows : r[O[n].field] \in Scalars
<1>1. Len(O) \in Nat /\ DOMAIN O = 1 .. Len(O)
  BY LenProperties DEF Sortable
<1>2. ASSUME NEW n \in DOMAIN O
      PROVE  /\ O[n].field \in {"link", "stamp"} /\ O[n].desc \in BOOLEAN
             /\ \A r \in Rows : r[O[n].field] \in Scalars
  <2>1. O[n] \in Orders /\ O[n] \in ToSet(O)
    BY <1>1, ElementOfSeq DEF Sortable, ToSet
  <2>2. O[n].field \in Names /\ KindOf[O[n].field] # "uuid_set"
    BY <2>1 DEF Sortable, SortFaults
  <2>3. O[n].field \in {"link", "stamp"}
    BY <2>2, ListsAssumption
  <2> QED BY <2>1, <2>3 DEF Orders, Rows, Scalars
<1> QED BY <1>1, <1>2

\* One column: a strict order of all there is, what is not there last.
LEMMA BeforeIs ==
  ASSUME NEW o, NEW x \in Scalars, NEW y \in Scalars, NEW z \in Scalars
  PROVE  /\ ~Before(o, x, x)
         /\ x = y \/ Before(o, x, y) \/ Before(o, y, x)
         /\ Before(o, x, y) /\ Before(o, y, z) => Before(o, x, z)
  BY FilterAssumption DEF Before, Scalars

Same(O, r, s, n) == r[O[n].field] = s[O[n].field]

\* Two rows are alike in every column of the order, or there is a first that tells them apart.
LEMMA FirstDifference ==
  ASSUME NEW O, Sortable(O), NEW r, NEW s
  PROVE  \/ \A n \in DOMAIN O : Same(O, r, s, n)
         \/ \E n \in DOMAIN O : ~Same(O, r, s, n) /\ \A m \in 1 .. n - 1 : Same(O, r, s, m)
<1> DEFINE T == {n \in DOMAIN O : ~Same(O, r, s, n)}
<1>1. DOMAIN O = 1 .. Len(O) /\ Len(O) \in Nat
  BY SortIs
<1>2. CASE T = {}
  BY <1>2
<1>3. CASE T # {}
  <2>1. PICK n \in T : \A m \in T : n <= m
    <3>1. T \in SUBSET Nat
      BY <1>1
    <3> HIDE DEF T
    <3> QED BY <1>3, <3>1, LeastIs
  <2>2. ASSUME NEW m \in 1 .. n - 1 PROVE Same(O, r, s, m)
    <3>1. m \in DOMAIN O /\ ~(n <= m)
      BY <1>1
    <3> QED BY <2>1, <3>1
  <2> QED BY <2>2
<1> QED BY <1>2, <1>3

\* At which column one row precedes another: past the last one it is the id that decides.
At(O, r, s, n) ==
    /\ \A m \in 1 .. n - 1 : Same(O, r, s, m)
    /\ IF n \in DOMAIN O THEN Before(O[n], r[O[n].field], s[O[n].field]) ELSE r.id < s.id

LEMMA PrecedesAt ==
  ASSUME NEW O, Sortable(O), NEW r, NEW s
  PROVE  Precedes(O, r, s) <=> \E n \in 1 .. Len(O) + 1 : At(O, r, s, n)
<1>1. DOMAIN O = 1 .. Len(O) /\ Len(O) \in Nat
  BY SortIs
<1>2. At(O, r, s, Len(O) + 1) <=> (\A m \in 1 .. Len(O) + 1 - 1 : Same(O, r, s, m)) /\ r.id < s.id
  BY <1>1 DEF At
<1>3. \A n \in DOMAIN O : At(O, r, s, n) <=>
        (\A m \in 1 .. n - 1 : Same(O, r, s, m)) /\ Before(O[n], r[O[n].field], s[O[n].field])
  BY <1>1 DEF At
<1>4. 1 .. Len(O) + 1 = DOMAIN O \cup {Len(O) + 1}
  BY <1>1
<1> QED BY <1>2, <1>3, <1>4 DEF Precedes, Same

\* The order of a page is strict and total: two rows of different ids never tie.
LEMMA PrecedesIsStrict ==
  ASSUME NEW O, Sortable(O), NEW r \in Rows
  PROVE  ~Precedes(O, r, r)
<1>1. r.id \in Int
  BY IdsAre
<1>2. ASSUME NEW n \in 1 .. Len(O) + 1, At(O, r, r, n) PROVE FALSE
  <2>1. CASE n \in DOMAIN O
    <3>1. r[O[n].field] \in Scalars
      BY <2>1, SortIs
    <3>2. ~Before(O[n], r[O[n].field], r[O[n].field])
      BY <3>1, BeforeIs
    <3> QED BY <1>2, <2>1, <3>2 DEF At
  <2>2. CASE n \notin DOMAIN O
    BY <1>1, <1>2, <2>2 DEF At
  <2> QED BY <2>1, <2>2
<1> QED BY <1>2, PrecedesAt

LEMMA PrecedesIsTotal ==
  ASSUME NEW O, Sortable(O), NEW r \in Rows, NEW s \in Rows
  PROVE  \/ Precedes(O, r, s) \/ Precedes(O, s, r)
         \/ r.id = s.id /\ \A n \in DOMAIN O : Same(O, r, s, n)
<1>1. r.id \in Int /\ s.id \in Int
  BY IdsAre
<1>2. DOMAIN O = 1 .. Len(O) /\ Len(O) \in Nat
  BY SortIs
<1>3. CASE \A n \in DOMAIN O : Same(O, r, s, n)
  <2>1. r.id < s.id => At(O, r, s, Len(O) + 1)
    BY <1>2, <1>3 DEF At
  <2>2. s.id < r.id => At(O, s, r, Len(O) + 1)
    BY <1>2, <1>3 DEF At, Same
  <2>3. Len(O) + 1 \in 1 .. Len(O) + 1
    BY <1>2
  <2> QED BY <1>1, <1>3, <2>1, <2>2, <2>3, PrecedesAt
<1>4. CASE ~(\A n \in DOMAIN O : Same(O, r, s, n))
  <2>1. PICK n \in DOMAIN O : ~Same(O, r, s, n) /\ \A m \in 1 .. n - 1 : Same(O, r, s, m)
    BY <1>4, FirstDifference
  <2>2. Before(O[n], r[O[n].field], s[O[n].field]) \/ Before(O[n], s[O[n].field], r[O[n].field])
    <3>1. r[O[n].field] \in Scalars /\ s[O[n].field] \in Scalars
      BY SortIs
    <3> QED BY <2>1, <3>1, BeforeIs DEF Same
  <2>3. At(O, r, s, n) \/ At(O, s, r, n)
    BY <2>1, <2>2 DEF At, Same
  <2>4. n \in 1 .. Len(O) + 1
    BY <1>2
  <2> QED BY <2>3, <2>4, PrecedesAt
<1> QED BY <1>3, <1>4

LEMMA PrecedesIsTransitive ==
  ASSUME NEW O, Sortable(O), NEW r \in Rows, NEW s \in Rows, NEW t \in Rows,
         Precedes(O, r, s), Precedes(O, s, t)
  PROVE  Precedes(O, r, t)
<1> r.id \in Int /\ s.id \in Int /\ t.id \in Int
  BY IdsAre
<1>1. PICK m \in 1 .. Len(O) + 1 : At(O, r, s, m)
  BY PrecedesAt
<1>2. PICK n \in 1 .. Len(O) + 1 : At(O, s, t, n)
  BY PrecedesAt
<1>3. DOMAIN O = 1 .. Len(O) /\ Len(O) \in Nat
  BY SortIs
<1>4. CASE m < n
  <2>1. \A k \in 1 .. m : Same(O, s, t, k)
    BY <1>2, <1>4, <1>3 DEF At
  <2>2. m \in DOMAIN O
    BY <1>3, <1>4
  <2>3. At(O, r, t, m)
    BY <1>1, <2>1, <2>2 DEF At, Same
  <2> QED BY <2>3, PrecedesAt
<1>5. CASE n < m
  <2>1. \A k \in 1 .. n : Same(O, r, s, k)
    BY <1>1, <1>5, <1>3 DEF At
  <2>2. n \in DOMAIN O
    BY <1>3, <1>5
  <2>3. At(O, r, t, n)
    BY <1>2, <2>1, <2>2 DEF At, Same
  <2> QED BY <2>3, PrecedesAt
<1>6. CASE m = n
  <2>1. \A k \in 1 .. n - 1 : Same(O, r, t, k)
    BY <1>1, <1>2, <1>6 DEF At, Same
  <2>2. CASE n \in DOMAIN O
    <3>1. Before(O[n], r[O[n].field], s[O[n].field]) /\ Before(O[n], s[O[n].field], t[O[n].field])
      BY <1>1, <1>2, <1>6, <2>2 DEF At
    <3>2. Before(O[n], r[O[n].field], t[O[n].field])
      <4>1. r[O[n].field] \in Scalars /\ s[O[n].field] \in Scalars /\ t[O[n].field] \in Scalars
        BY <2>2, SortIs
      <4>2. \A x, y, z \in Scalars : Before(O[n], x, y) /\ Before(O[n], y, z) => Before(O[n], x, z)
        BY BeforeIs
      <4> QED BY <3>1, <4>1, <4>2
    <3>3. At(O, r, t, n)
      BY <2>1, <2>2, <3>2 DEF At
    <3> QED BY <3>3, PrecedesAt
  <2>3. CASE n \notin DOMAIN O
    <3>1. r.id < s.id /\ s.id < t.id
      BY <1>1, <1>2, <1>6, <2>3 DEF At
    <3>2. At(O, r, t, n)
      BY <2>1, <2>3, <3>1 DEF At
    <3> QED BY <3>2, PrecedesAt
  <2> QED BY <2>2, <2>3
<1> QED BY <1>4, <1>5, <1>6

\* Only the first column two rows differ in tells them apart, and the id when there is none.
LEMMA FirstDecides ==
  ASSUME NEW O, Sortable(O), NEW r \in Rows, NEW s \in Rows
  PROVE  /\ \A n \in DOMAIN O :
              ~Same(O, r, s, n) /\ (\A m \in 1 .. n - 1 : Same(O, r, s, m))
              => (Precedes(O, r, s) <=> Before(O[n], r[O[n].field], s[O[n].field]))
         /\ (\A n \in DOMAIN O : Same(O, r, s, n)) => (Precedes(O, r, s) <=> r.id < s.id)
<1>1. DOMAIN O = 1 .. Len(O) /\ Len(O) \in Nat
  BY SortIs
<1>2. \A m \in DOMAIN O : Same(O, r, s, m) => ~At(O, r, s, m)
  <2>1. TAKE m \in DOMAIN O
  <2>2. s[O[m].field] \in Scalars
    BY SortIs
  <2>3. \A x \in Scalars : ~Before(O[m], x, x)
    BY BeforeIs
  <2> QED BY <2>2, <2>3 DEF At, Same
<1>3. ASSUME NEW n \in DOMAIN O, ~Same(O, r, s, n), \A m \in 1 .. n - 1 : Same(O, r, s, m)
      PROVE  Precedes(O, r, s) <=> Before(O[n], r[O[n].field], s[O[n].field])
  <2>1. At(O, r, s, n) <=> Before(O[n], r[O[n].field], s[O[n].field])
    BY <1>3 DEF At
  <2>2. ASSUME NEW m \in 1 .. Len(O) + 1, At(O, r, s, m) PROVE m = n
    <3>1. CASE m < n
      <4>1. m \in DOMAIN O /\ Same(O, r, s, m)
        BY <1>1, <1>3, <3>1
      <4> QED BY <2>2, <4>1, <1>2
    <3>2. CASE n < m
      <4>1. n \in 1 .. m - 1
        BY <1>1, <3>2
      <4> QED BY <1>3, <2>2, <4>1 DEF At
    <3> QED BY <3>1, <3>2, <1>1
  <2>3. n \in 1 .. Len(O) + 1
    BY <1>1
  <2> QED BY <2>1, <2>2, <2>3, PrecedesAt
<1>4. ASSUME \A n \in DOMAIN O : Same(O, r, s, n)
      PROVE  Precedes(O, r, s) <=> r.id < s.id
  <2>1. At(O, r, s, Len(O) + 1) <=> r.id < s.id
    BY <1>1, <1>4 DEF At
  <2>2. \A m \in 1 .. Len(O) + 1 : At(O, r, s, m) => m = Len(O) + 1
    BY <1>1, <1>2, <1>4
  <2>3. Len(O) + 1 \in 1 .. Len(O) + 1
    BY <1>1
  <2> QED BY <2>1, <2>2, <2>3, PrecedesAt
<1> QED BY <1>3, <1>4

\* The ORDER BY of a page, nulls last and ended by the id, is the order in words: by the
\* first column two rows differ in, those with nothing there last, then by id.
THEOREM SoonerIs ==
  ASSUME NEW O, Sortable(O), NEW r \in Rows, NEW s \in Rows
  PROVE  Sooner(O, r, s) <=> Precedes(O, r, s)
<1> DEFINE Differ == {n \in DOMAIN O : r[O[n].field] # s[O[n].field]}
<1>1. DOMAIN O = 1 .. Len(O) /\ Len(O) \in Nat
  BY SortIs
<1>2. Sooner(O, r, s) <=>
        IF Differ = {} THEN r.id < s.id
        ELSE \E n \in Differ : /\ \A m \in Differ : n <= m
                               /\ Less(Rank(O[n], r[O[n].field]), Rank(O[n], s[O[n].field]))
  BY DEF Sooner
<1>3. CASE \A n \in DOMAIN O : Same(O, r, s, n)
  <2>1. Differ = {}
    BY <1>3 DEF Same
  <2>2. Precedes(O, r, s) <=> r.id < s.id
    BY <1>3, FirstDecides
  <2> QED BY <1>2, <2>1, <2>2
<1>4. CASE ~(\A n \in DOMAIN O : Same(O, r, s, n))
  <2>1. PICK n \in DOMAIN O : ~Same(O, r, s, n) /\ \A m \in 1 .. n - 1 : Same(O, r, s, m)
    BY <1>4, FirstDifference
  <2>2. Precedes(O, r, s) <=> Before(O[n], r[O[n].field], s[O[n].field])
    BY <2>1, FirstDecides
  <2>3. n \in Differ /\ \A m \in Differ : n <= m
    <3>1. ASSUME NEW m \in Differ, ~(n <= m) PROVE FALSE
      <4>1. m \in 1 .. n - 1
        BY <1>1, <3>1
      <4> QED BY <2>1, <4>1 DEF Same
    <3> QED BY <2>1, <3>1 DEF Same
  <2>4. Before(O[n], r[O[n].field], s[O[n].field]) <=> Less(Rank(O[n], r[O[n].field]), Rank(O[n], s[O[n].field]))
    <3>1. O[n].desc \in BOOLEAN /\ r[O[n].field] \in Scalars /\ s[O[n].field] \in Scalars
      BY SortIs
    <3>2. \A x, y \in Scalars : Before(O[n], x, y) <=> Less(Rank(O[n], x), Rank(O[n], y))
      BY FilterAssumption DEF Before, Less, Rank, Scalars
    <3> QED BY <3>1, <3>2
  <2>5. \A m \in Differ : (\A k \in Differ : m <= k) => m = n
    BY <1>1, <2>3
  <2> HIDE DEF Differ
  <2> QED BY <1>2, <2>2, <2>3, <2>4, <2>5
<1> QED BY <1>3, <1>4

\* The predicate CompileAfter makes of a cursor, for any number of columns in either
\* direction and with nulls, keeps exactly the rows after the one it was cut at.
THEOREM ResumesAfter ==
  ASSUME NEW O, Sortable(O), NEW l \in Rows, NEW b \in Rows
  PROVE  CompileAfter(O, KeysOf(O, l), b) <=> Precedes(O, l, b)
<1> DEFINE N == Len(O) + 1
           K == KeysOf(O, l)
           Ahead(n) == Before(O[n], l[O[n].field], b[O[n].field])
<1>1. Len(O) \in Nat /\ DOMAIN O = 1 .. Len(O) /\ N \in Nat \ {0}
  BY SortIs
<1>2. Last(K) = l.id /\ \A n \in DOMAIN O : K[n] = l[O[n].field]
  <2>1. [n \in DOMAIN O |-> l[O[n].field]] \in Seq(Scalars)
    <3>1. \A n \in DOMAIN O : l[O[n].field] \in Scalars
      BY SortIs
    <3> QED BY <1>1, <3>1
  <2>2. Len([n \in DOMAIN O |-> l[O[n].field]]) = Len(O)
    BY <1>1
  <2> QED BY <1>1, <2>1, <2>2 DEF KeysOf, Last
<1> DEFINE Step(w, i) ==
             IF i > Len(O) THEN b.id > Last(K)
             ELSE LET x == b[O[i].field] IN AfterKey(O[i], K[i], x) \/ (K[i] = x /\ w[i + 1])
           step == [i \in 1 .. N |-> [w \in [1 .. N -> BOOLEAN] |-> Step(w, i)]]
<1> HIDE DEF K
<1>3. PICK f \in [1 .. N -> BOOLEAN] : \A i \in 1 .. N : f[i] = step[i][f]
  <2>1. step \in [1 .. N -> [[1 .. N -> BOOLEAN] -> BOOLEAN]]
    <3>1. ASSUME NEW i \in 1 .. N, NEW w \in [1 .. N -> BOOLEAN] PROVE Step(w, i) \in BOOLEAN
      <4>1. CASE i > Len(O)
        <5>1. b.id \in Int /\ Last(K) \in Int
          BY <1>2, IdsAre
        <5>2. (b.id > Last(K)) \in BOOLEAN
          BY <5>1
        <5> QED BY <4>1, <5>2
      <4>2. CASE ~(i > Len(O))
        <5>1. AfterKey(O[i], K[i], b[O[i].field]) \in BOOLEAN
          <6>1. i \in DOMAIN O
            BY <1>1, <4>2
          <6>2. K[i] \in Scalars /\ b[O[i].field] \in Scalars
            BY <1>2, <6>1, SortIs
          <6>3. \A x, y \in Scalars : AfterKey(O[i], x, y) \in BOOLEAN
            BY FilterAssumption DEF AfterKey, Scalars
          <6> QED BY <6>2, <6>3
        <5>2. w[i + 1] \in BOOLEAN
          BY <1>1, <4>2
        <5> QED BY <4>2, <5>1, <5>2
      <4> QED BY <4>1, <4>2
    <3> HIDE DEF Step
    <3> QED BY <3>1
  <2>2. ASSUME NEW i \in 1 .. N, NEW v \in [1 .. N -> BOOLEAN], NEW w \in [1 .. N -> BOOLEAN],
               \A m \in i + 1 .. N : v[m] = w[m]
        PROVE  step[i][v] = step[i][w]
    <3>1. ~(i > Len(O)) => v[i + 1] = w[i + 1]
      BY <1>1, <2>2
    <3> QED BY <3>1
  <2>3. LooksUp(step, N, BOOLEAN)
    <3> HIDE DEF step, N
    <3> QED BY <2>1, <2>2 DEF LooksUp
  <2> HIDE DEF step, N
  <2> QED BY <1>1, <2>3, RecursionIs
<1>4. f = [i \in 1 .. N |-> Step(f, i)]
  <2>1. \A i \in 1 .. N : step[i][f] = Step(f, i)
    <3> HIDE DEF Step
    <3> QED OBVIOUS
  <2> HIDE DEF step, Step
  <2> QED BY <1>3, <2>1
<1> DEFINE w == CHOOSE w : w = [i \in 1 .. N |-> Step(w, i)]
<1>5. w = [i \in 1 .. N |-> Step(w, i)]
  BY <1>4
<1>6. CompileAfter(O, K, b) = w[1]
  BY DEF CompileAfter
<1>7. \A i \in 1 .. N : w[i] = Step(w, i)
  <2> HIDE DEF w, Step
  <2> QED BY <1>5
<1> HIDE DEF w
<1>8. ASSUME NEW i \in 1 .. N
      PROVE  IF i = N THEN w[i] <=> l.id < b.id
             ELSE w[i] <=> Ahead(i) \/ (Same(O, l, b, i) /\ w[i + 1])
  <2>1. l.id \in Int /\ b.id \in Int
    BY IdsAre
  <2>2. CASE i = N
    <3>1. w[i] = (b.id > Last(K))
      BY <1>1, <1>7, <2>2
    <3>2. (b.id > Last(K)) <=> l.id < b.id
      BY <1>2, <2>1
    <3> QED BY <2>2, <3>1, <3>2
  <2>3. CASE i # N
    <3>1. i \in DOMAIN O /\ ~(i > Len(O))
      BY <1>1, <2>3
    <3>2. w[i] <=> AfterKey(O[i], K[i], b[O[i].field]) \/ (K[i] = b[O[i].field] /\ w[i + 1])
      BY <1>7, <3>1
    <3>3. K[i] = l[O[i].field]
      BY <1>2, <3>1
    <3>4. l[O[i].field] \in Scalars /\ b[O[i].field] \in Scalars
      BY <3>1, SortIs
    <3>5. \A x, y \in Scalars : AfterKey(O[i], x, y) <=> Before(O[i], x, y)
      BY FilterAssumption DEF AfterKey, Before, Scalars
    <3> QED BY <2>3, <3>2, <3>3, <3>4, <3>5 DEF Same
  <2> QED BY <2>2, <2>3
<1> DEFINE From(i, n) == /\ \A m \in i .. n - 1 : Same(O, l, b, m)
                         /\ IF n = N THEN l.id < b.id ELSE Ahead(n)
           T == {i \in 1 .. N : w[i] <=> \E n \in i .. N : From(i, n)}
<1>9. ASSUME NEW i \in 1 .. N, \A m \in i + 1 .. N : m \in T PROVE i \in T
  <2>1. CASE i = N
    <3>1. \A n : n \in i .. N <=> n = N
      BY <1>1, <2>1
    <3>2. From(i, N) <=> l.id < b.id
      BY <1>1, <2>1
    <3> QED BY <1>8, <2>1, <3>1, <3>2
  <2>2. CASE i # N
    <3>1. i + 1 \in i + 1 .. N
      BY <1>1, <2>2
    <3>2. w[i + 1] <=> \E n \in i + 1 .. N : From(i + 1, n)
      BY <1>9, <3>1
    <3>3. From(i, i) <=> Ahead(i)
      BY <1>1, <2>2
    <3>4. \A n \in i + 1 .. N : From(i, n) <=> Same(O, l, b, i) /\ From(i + 1, n)
      <4>1. TAKE n \in i + 1 .. N
      <4>2. i .. n - 1 = {i} \cup (i + 1 .. n - 1)
        BY <1>1
      <4> QED BY <4>2
    <3>5. i .. N = {i} \cup (i + 1 .. N)
      BY <1>1
    <3>6. w[i] <=> Ahead(i) \/ (Same(O, l, b, i) /\ w[i + 1])
      BY <1>8, <2>2
    <3> HIDE DEF From, Ahead
    <3> QED BY <3>2, <3>3, <3>4, <3>5, <3>6
  <2> QED BY <2>1, <2>2
<1>10. w[1] <=> \E n \in 1 .. N : From(1, n)
  <2>1. Inherits(N, T)
    BY <1>9 DEF Inherits
  <2>2. 1 \in T
    <3> HIDE DEF T
    <3> QED BY <1>1, <2>1, Down
  <2> QED BY <2>2
<1>11. \A n \in 1 .. N : From(1, n) <=> At(O, l, b, n)
  BY <1>1 DEF At
<1> QED BY <1>6, <1>10, <1>11, PrecedesAt DEF K

-----------------------------------------------------------------------------
(* The types.                                                              *)



IsTable(t) == t \in [Ids -> Rows \cup {Absent}] /\ \A i \in Ids : t[i].id \in {i, 0}

IsAsk(q) ==
    /\ q = [filter |-> q.filter, sort |-> q.sort, limit |-> q.limit,
            cursor |-> q.cursor, archived |-> q.archived, under |-> q.under]
    /\ IsFilter(q.filter) /\ q.sort \in Seq(Orders)

ListsTypes ==
    /\ resource \in Resources
    /\ IsTable(table)
    /\ turn \in {"idle", "asking", "reading", "between", "done"}
    /\ IsAsk(ask)
    /\ got \in Seq(Ids)
    /\ saved = NoConfig \/ (saved \in Configs /\ ConfigFaults(saved) = {})

\* A finite set of integers that is not empty has a greatest element.
LEMMA MaxIs ==
  ASSUME NEW S \in SUBSET Int, IsFiniteSet(S), S # {}
  PROVE  Max(S) \in S
<1> DEFINE Above(x) == {y \in S : y >= x}
           All == {Above(x) : x \in S}
<1>1. All \subseteq FiniteSubsetsOf(S) /\ All # {}
  <2>1. \A x \in S : Above(x) \in SUBSET S /\ IsFiniteSet(Above(x))
    BY FS_Subset
  <2> HIDE DEF Above
  <2> QED BY <2>1 DEF FiniteSubsetsOf
<1>2. PICK B \in All : \A C \in All : ~ <<C, B>> \in StrictSubsetOrdering(S)
  <2> HIDE DEF All
  <2> QED BY <1>1, FS_StrictSubsetOrderingWellFounded, WFMin
<1>3. PICK x \in S : B = Above(x)
  OBVIOUS
<1>4. ASSUME NEW y \in S, ~(x >= y) PROVE FALSE
  <2>1. x \in Int /\ y \in Int
    OBVIOUS
  <2>2. Above(y) \subseteq Above(x) /\ x \in Above(x) /\ x \notin Above(y)
    <3>1. \A z \in S : z >= y => z >= x
      BY <2>1, <1>4
    <3>2. x >= x /\ ~(x >= y)
      BY <2>1, <1>4
    <3> QED BY <3>1, <3>2
  <2>3. <<Above(y), Above(x)>> \in (SUBSET S) \X (SUBSET S) /\ Above(y) \in All
    OBVIOUS
  <2> HIDE DEF Above, All
  <2>4. <<Above(y), Above(x)>> \in StrictSubsetOrdering(S)
    BY <2>2, <2>3 DEF StrictSubsetOrdering
  <2> QED BY <2>3, <2>4, <1>2, <1>3
<1>5. \E m \in S : \A y \in S : m >= y
  BY <1>4
<1> QED BY <1>5 DEF Max

\* A filter of one group.
LEMMA OneGroup ==
  ASSUME NEW b \in Groups, b.parent = 0
  PROVE  IsFilter(<<b>>)
<1>1. <<b>> \in Seq(Groups) /\ Len(<<b>>) = 1 /\ <<b>>[1] = b
  OBVIOUS
<1>2. <<b>> # <<>> /\ \A n : n \notin 2 .. Len(<<b>>)
  OBVIOUS
<1> QED BY <1>1, <1>2 DEF IsFilter

LEMMA NothingIs == IsFilter(Nothing) /\ IsAsk(NoAsk)
<1>1. <<>> \in Seq(Conditions)
  OBVIOUS
<1>2. [op |-> "none", conditions |-> <<>>, parent |-> 0] \in Groups
  BY <1>1 DEF Groups
<1>3. IsFilter(Nothing)
  BY <1>2, OneGroup DEF Nothing
<1>4. <<>> \in Seq(Orders)
  OBVIOUS
<1> QED BY <1>3, <1>4 DEF NoAsk, IsAsk

LEMMA EqualsIs ==
  ASSUME NEW f \in Seq(Conditions)
  PROVE  IsFilter(Equals(f))
<1>1. [op |-> "and", conditions |-> f, parent |-> 0] \in Groups
  BY DEF Groups
<1> QED BY <1>1, OneGroup DEF Equals

LEMMA BodiesAre ==
  ASSUME resource \in Resources, NEW q \in Bodies
  PROVE  IsAsk(q) /\ q.cursor = NoCursor /\ q.limit \in Int
<1>1. CASE resource = "document"
  <2>1. q \in DocumentRequests
    BY <1>1 DEF Bodies
  <2>2. IsFilter(Equals(<<>>))
    <3>1. <<>> \in Seq(Conditions)
      OBVIOUS
    <3> QED BY <3>1, EqualsIs
  <2>3. ASSUME NEW p \in Entities PROVE IsFilter(Equals(<<[field |-> "link", op |-> "eq", value |-> <<p>>]>>))
    <3>1. <<p>> \in Seq(Int \cup {Malformed})
      BY IdsAre
    <3>2. [field |-> "link", op |-> "eq", value |-> <<p>>] \in Conditions
      <4>1. "link" \in Fields
        BY ListsAssumption
      <4>2. "eq" \in Operators
        BY DEF Operators, Legal
      <4> QED BY <3>1, <4>1, <4>2 DEF Conditions
    <3>3. <<[field |-> "link", op |-> "eq", value |-> <<p>>]>> \in Seq(Conditions)
      BY <3>2
    <3> QED BY <3>3, EqualsIs
  <2>4. IsFilter(q.filter)
    BY <2>1, <2>2, <2>3 DEF DocumentRequests
  <2>5. q.sort = <<>> /\ q.limit \in Limits /\ q.cursor = NoCursor
    BY <2>1 DEF DocumentRequests
  <2>6. q = [filter |-> q.filter, sort |-> q.sort, limit |-> q.limit,
             cursor |-> q.cursor, archived |-> q.archived, under |-> q.under]
    BY <2>1 DEF DocumentRequests
  <2> QED BY <2>4, <2>5, <2>6, ListsAssumption DEF IsAsk
<1>2. CASE resource = "view"
  <2>1. q \in ViewRequests
    BY <1>2 DEF Bodies
  <2>2. q.filter = Nothing /\ q.sort = <<>> /\ q.limit \in Limits /\ q.cursor = NoCursor
    BY <2>1 DEF ViewRequests
  <2>3. q = [filter |-> q.filter, sort |-> q.sort, limit |-> q.limit,
             cursor |-> q.cursor, archived |-> q.archived, under |-> q.under]
    BY <2>1 DEF ViewRequests
  <2> QED BY <2>2, <2>3, NothingIs, ListsAssumption DEF IsAsk
<1>3. CASE resource \notin {"document", "view"}
  <2>1. q \in ListRequests
    BY <1>3 DEF Bodies
  <2>2. q.filter \in Filters(resource) /\ q.sort \in Sorts(resource) /\ q.limit \in Limits /\ q.cursor = NoCursor
    BY <2>1 DEF ListRequests
  <2>3. q = [filter |-> q.filter, sort |-> q.sort, limit |-> q.limit,
             cursor |-> q.cursor, archived |-> q.archived, under |-> q.under]
    BY <2>1 DEF ListRequests
  <2>4. IsFilter(q.filter) /\ q.sort \in Seq(Orders) /\ q.limit \in Int
    BY <2>2, ListsAssumption
  <2> QED BY <2>2, <2>3, <2>4 DEF IsAsk
<1> QED BY <1>1, <1>2, <1>3

-----------------------------------------------------------------------------
(* The state of a reading.                                                 *)

\* What a list takes in of a filter stands in the filter and in what a cursor cannot change.
AskOf(F) == [filter |-> F, archived |-> ask.archived, under |-> ask.under]

\* The rows a reading of F is to bring, those that were written meanwhile left aside.
Wanted(F) == {i \in There \ touched : Listed(AskOf(F), table[i]) /\ Where(F, table[i]) = "true"}

Came(i) == \E n \in DOMAIN got : got[n] \notin touched /\ got[n] = i

\* What has been read of the rows of B: all that is wanted, in order, nothing else.
ReadUpTo(F, O, B) ==
    /\ \A n \in DOMAIN got : got[n] \notin touched => got[n] \in Wanted(F) /\ table[got[n]] \in B
    /\ \A m, n \in DOMAIN got :
        m < n /\ got[m] \notin touched /\ got[n] \notin touched => Precedes(O, table[got[m]], table[got[n]])
    /\ \A i \in Wanted(F) : table[i] \in B => Came(i)

\* A set of rows a page can end at: with a row, all that precede it.
Behind(O, B) == B \subseteq Rows /\ \A r \in B, s \in Rows : Precedes(O, s, r) => s \in B

UpTo(O, l) == {r \in Rows : ~Precedes(O, l, r)}

\* A cursor that was handed out: cut at a row l, which may have changed since.
Cut(F, O, l) ==
    /\ ask.cursor = [query |-> Fingerprint(F, O), key |-> KeysOf(O, l)]
    /\ FilterFaults(F) = {} /\ Sortable(O) /\ l \in Rows
    /\ ReadUpTo(F, O, UpTo(O, l))

Planned == Normalised(ask.filter)

ReadingInv ==
    /\ turn \in {"asking", "reading"} =>
        \/ ask.cursor = NoCursor /\ got = <<>>
        \/ ask.cursor = Garbled
        \/ \E F, O, l : Cut(F, O, l)
    /\ turn = "between" => \E l : Cut(Planned, Order, l)
    /\ turn = "done" =>
        FilterFaults(Planned) = {} /\ Sortable(Order) /\ ReadUpTo(Planned, Order, Rows)

LEMMA BehindIs ==
  ASSUME NEW O, Sortable(O)
  PROVE  /\ Behind(O, {}) /\ Behind(O, Rows)
         /\ \A l \in Rows : Behind(O, UpTo(O, l))
<1>1. ASSUME NEW l \in Rows, NEW r \in UpTo(O, l), NEW s \in Rows, Precedes(O, s, r)
      PROVE  s \in UpTo(O, l)
  <2>1. r \in Rows /\ ~Precedes(O, l, r)
    BY DEF UpTo
  <2>2. Precedes(O, l, s) => Precedes(O, l, r)
    BY <1>1, <2>1, PrecedesIsTransitive
  <2> QED BY <2>1, <2>2 DEF UpTo
<1>2. \A l \in Rows : UpTo(O, l) \subseteq Rows
  BY DEF UpTo
<1> QED BY <1>1, <1>2 DEF Behind

\* The enumeration of a page is of all that matches.
LEMMA EnumerationIs ==
  ASSUME ListsTypes, Sortable(Order), NEW S \in SUBSET There, NEW top \in InOrder(S)
  PROVE  /\ top \in Seq(S) /\ DOMAIN top = 1 .. Len(top)
         /\ \A i \in S : \E n \in DOMAIN top : top[n] = i
         /\ \A m, n \in DOMAIN top : m < n => Precedes(Order, table[top[m]], table[top[n]])
<1> DEFINE N == Cardinality(S)
<1>1. IsFiniteSet(S) /\ N \in Nat
  <2>1. S \in SUBSET Ids
    BY DEF There
  <2>2. IsFiniteSet(S)
    BY <2>1, IdsAre, FS_Subset
  <2> QED BY <2>2, FS_CardinalityType
<1>2. top \in [1 .. N -> S] /\ \A m, n \in DOMAIN top : m < n => Precedes(Order, table[top[m]], table[top[n]])
  BY DEF InOrder
<1>3. top \in Seq(S) /\ Len(top) = N /\ DOMAIN top = 1 .. N
  <2> HIDE DEF N
  <2> QED BY <1>1, <1>2
<1>4. \A i \in S : table[i] \in Rows
  BY DEF There, ListsTypes, IsTable
<1>5. IsInjective(top)
  <2>1. ASSUME NEW m \in DOMAIN top, NEW n \in DOMAIN top, top[m] = top[n], m < n PROVE FALSE
    <3>1. table[top[m]] \in Rows
      BY <1>2, <1>4
    <3> QED BY <1>2, <2>1, <3>1, PrecedesIsStrict
  <2>2. \A m, n \in DOMAIN top : m # n => m < n \/ n < m
    BY <1>1, <1>3
  <2> QED BY <2>1, <2>2 DEF IsInjective
<1>6. top \in Surjection(1 .. N, S)
  <2>1. top \in Injection(1 .. N, S)
    BY <1>2, <1>5 DEF Injection
  <2>2. Cardinality(1 .. N) = N
    BY <1>1, FS_Interval
  <2> HIDE DEF N
  <2>3. Cardinality(S) = N
    BY DEF N
  <2> QED BY <1>1, <2>1, <2>2, <2>3, FS_Injection
<1> QED BY <1>2, <1>3, <1>6 DEF Surjection

LEMMA JoinedIs ==
  ASSUME NEW T, NEW a \in Seq(T), NEW b \in Seq(T)
  PROVE  /\ DOMAIN (a \o b) = 1 .. Len(a) + Len(b)
         /\ \A n \in 1 .. Len(a) : (a \o b)[n] = a[n] /\ a[n] \in T
         /\ \A n \in 1 .. Len(b) : (a \o b)[Len(a) + n] = b[n]
<1>1. Len(a) \in Nat /\ Len(b) \in Nat
  OBVIOUS
<1>2. Len(a \o b) = Len(a) + Len(b) /\ a \o b \in Seq(T)
  OBVIOUS
<1>3. \A n \in 1 .. Len(a) : (a \o b)[n] = a[n] /\ a[n] \in T
  OBVIOUS
<1>4. \A n \in 1 .. Len(b) : (a \o b)[Len(a) + n] = b[n]
  OBVIOUS
<1> QED BY <1>2, <1>3, <1>4

\* One page more: what has been read grows from the rows of A to those of B.
LEMMA PageAdds ==
  ASSUME ListsTypes, NEW F, NEW O, Sortable(O), O = Order, NEW A, NEW B, Behind(O, A),
         ReadUpTo(F, O, A), A \subseteq B, B \subseteq Rows,
         NEW S \in SUBSET There,
         \A i \in There : i \in S <=> /\ Listed(AskOf(F), table[i]) /\ Where(F, table[i]) = "true"
                                      /\ table[i] \notin A,
         NEW top \in InOrder(S), NEW k \in 0 .. Len(top),
         \A n \in DOMAIN top : table[top[n]] \in B <=> n <= k,
         got' = got \o SubSeq(top, 1, k),
         ask'.archived = ask.archived, ask'.under = ask.under,
         UNCHANGED <<resource, table, touched>>
  PROVE  ReadUpTo(F, O, B)'
<1> DEFINE G == Len(got)
<1>1. /\ top \in Seq(S) /\ DOMAIN top = 1 .. Len(top) /\ Len(top) \in Nat
      /\ \A i \in S : \E n \in DOMAIN top : top[n] = i
      /\ \A m, n \in DOMAIN top : m < n => Precedes(O, table[top[m]], table[top[n]])
  BY EnumerationIs, LenProperties
<1>2. /\ G \in Nat /\ DOMAIN got = 1 .. G /\ DOMAIN got' = 1 .. G + k
      /\ \A n \in 1 .. G : got'[n] = got[n] /\ got[n] \in Ids
      /\ \A n \in 1 .. k : got'[G + n] = top[n]
  <2>1. got \in Seq(Ids) /\ G \in Nat /\ DOMAIN got = 1 .. G
    BY LenProperties DEF ListsTypes
  <2>2. /\ SubSeq(top, 1, k) \in Seq(S) /\ Len(SubSeq(top, 1, k)) = k
        /\ \A n \in 1 .. k : SubSeq(top, 1, k)[n] = top[n]
    BY <1>1
  <2>3. S \subseteq Ids
    BY DEF There
  <2>4. SubSeq(top, 1, k) \in Seq(Ids)
    BY <2>2, <2>3
  <2> HIDE DEF G
  <2>5. Len(got) = G
    BY DEF G
  <2> DEFINE p == SubSeq(top, 1, k)
  <2>6. p \in Seq(Ids) /\ Len(p) = k /\ (\A n \in 1 .. k : p[n] = top[n]) /\ got' = got \o p
    BY <2>2, <2>4
  <2> HIDE DEF p
  <2>7. /\ DOMAIN (got \o p) = 1 .. Len(got) + Len(p)
        /\ \A n \in 1 .. Len(got) : (got \o p)[n] = got[n] /\ got[n] \in Ids
        /\ \A n \in 1 .. Len(p) : (got \o p)[Len(got) + n] = p[n]
    <3>1. got \in Seq(Ids) /\ p \in Seq(Ids)
      BY <2>1, <2>6
    <3>2. \A a, b \in Seq(Ids) :
            /\ DOMAIN (a \o b) = 1 .. Len(a) + Len(b)
            /\ \A n \in 1 .. Len(a) : (a \o b)[n] = a[n] /\ a[n] \in Ids
            /\ \A n \in 1 .. Len(b) : (a \o b)[Len(a) + n] = b[n]
      BY JoinedIs
    <3> QED BY <3>1, <3>2
  <2> QED BY <2>1, <2>5, <2>6, <2>7
<1>3. /\ Wanted(F)' = Wanted(F) /\ touched' = touched
      /\ table' = table
  <2>1. AskOf(F)' = AskOf(F)
    BY DEF AskOf
  <2>2. \A i \in Ids : Listed(AskOf(F), table[i])' <=> Listed(AskOf(F), table[i])
    BY <2>1 DEF Listed, Tickets, Documents, Comments, Attachments, Reviews, Views, Members, Teams, Projects, Activity
  <2> QED BY <2>2 DEF Wanted, There
<1> HIDE DEF G
<1>4. ASSUME NEW n \in 1 .. k
      PROVE  /\ n \in DOMAIN top /\ top[n] \in S /\ top[n] \in There
             /\ table[top[n]] \in Rows \ A /\ table[top[n]] \in B
             /\ top[n] \notin touched => top[n] \in Wanted(F)
  <2>1. n \in DOMAIN top /\ top[n] \in S
    BY <1>1
  <2>2. top[n] \in There /\ table[top[n]] \in Rows
    BY <2>1 DEF There, ListsTypes, IsTable
  <2> QED BY <2>1, <2>2 DEF Wanted
<1>5. ASSUME NEW n \in 1 .. G, got[n] \notin touched
      PROVE  got[n] \in Wanted(F) /\ table[got[n]] \in A /\ got[n] \in There
  BY <1>2, <1>5 DEF ReadUpTo, Wanted
<1>6. ASSUME NEW n \in 1 .. G + k, got'[n] \notin touched
      PROVE  got'[n] \in Wanted(F) /\ table[got'[n]] \in B
  <2>1. CASE n \in 1 .. G
    BY <1>2, <1>5, <1>6, <2>1
  <2>2. CASE n \notin 1 .. G
    <3>1. n - G \in 1 .. k /\ n = G + (n - G)
      BY <1>2, <2>2
    <3> QED BY <1>2, <1>4, <1>6, <3>1
  <2> QED BY <2>1, <2>2
<1>7. ASSUME NEW m \in 1 .. G + k, NEW n \in 1 .. G + k, m < n, got'[m] \notin touched, got'[n] \notin touched
      PROVE  Precedes(O, table[got'[m]], table[got'[n]])
  <2>1. CASE n \in 1 .. G
    <3>1. m \in 1 .. G
      BY <1>2, <1>7, <2>1
    <3> QED BY <1>2, <1>7, <2>1, <3>1 DEF ReadUpTo
  <2>2. CASE m \notin 1 .. G
    <3>1. m - G \in 1 .. k /\ n - G \in 1 .. k /\ m = G + (m - G) /\ n = G + (n - G) /\ m - G < n - G
      <4>1. m \in Int /\ n \in Int /\ G \in Nat /\ m < n /\ G < m
        BY <1>2, <1>7, <2>2
      <4>2. m - G \in 1 .. k /\ m = G + (m - G)
        BY <4>1
      <4>3. n - G \in 1 .. k /\ n = G + (n - G) /\ m - G < n - G
        BY <4>1
      <4> QED BY <4>2, <4>3
    <3>2. got'[m] = top[m - G] /\ got'[n] = top[n - G]
      BY <1>2, <3>1
    <3>3. m - G \in DOMAIN top /\ n - G \in DOMAIN top
      BY <1>4, <3>1
    <3> QED BY <1>1, <3>1, <3>2, <3>3
  <2>3. CASE m \in 1 .. G /\ n \notin 1 .. G
    <3>1. n - G \in 1 .. k /\ n = G + (n - G)
      BY <1>2, <2>3
    <3>2. got'[n] = top[n - G] /\ got'[m] = got[m]
      BY <1>2, <2>3, <3>1
    <3> DEFINE x == table[got'[m]]
               y == table[got'[n]]
    <3>3. x \in A /\ got'[m] \in There
      BY <1>5, <1>7, <2>3, <3>2
    <3>4. y \in Rows /\ y \notin A /\ got'[n] \in There
      BY <1>4, <3>1, <3>2
    <3>5. x \in Rows /\ x.id = got'[m] /\ y.id = got'[n]
      <4>1. \A i \in There : table[i] \in Rows /\ table[i].id = i
        BY IdsAre DEF There, ListsTypes, IsTable
      <4> QED BY <3>3, <3>4, <4>1
    <3>6. ~Precedes(O, y, x)
      BY <3>3, <3>4 DEF Behind
    <3>7. x.id # y.id
      BY <3>3, <3>4, <3>5
    <3> QED BY <3>4, <3>5, <3>6, <3>7, PrecedesIsTotal
  <2> QED BY <2>1, <2>2, <2>3
<1>8. ASSUME NEW i \in Wanted(F), table[i] \in B
      PROVE  \E n \in 1 .. G + k : got'[n] \notin touched /\ got'[n] = i
  <2>1. CASE table[i] \in A
    <3>1. PICK n \in 1 .. G : got[n] \notin touched /\ got[n] = i
      BY <1>2, <2>1 DEF ReadUpTo, Came
    <3> QED BY <1>2, <3>1
  <2>2. CASE table[i] \notin A
    <3>1. i \in S /\ i \notin touched
      BY <2>2 DEF Wanted
    <3>2. PICK n \in DOMAIN top : top[n] = i
      BY <1>1, <3>1
    <3>3. n \in 1 .. k
      BY <1>1, <1>8, <3>2
    <3>4. G + n \in 1 .. G + k /\ got'[G + n] = i
      BY <1>2, <3>2, <3>3
    <3> QED BY <3>1, <3>4
  <2> QED BY <2>1, <2>2
<1>9. ReadUpTo(F, O, B)' <=>
        /\ \A n \in DOMAIN got' : got'[n] \notin touched' => got'[n] \in Wanted(F)' /\ table'[got'[n]] \in B
        /\ \A m, n \in DOMAIN got' :
            m < n /\ got'[m] \notin touched' /\ got'[n] \notin touched'
            => Precedes(O, table'[got'[m]], table'[got'[n]])
        /\ \A i \in Wanted(F)' : table'[i] \in B => \E n \in DOMAIN got' : got'[n] \notin touched' /\ got'[n] = i
  BY DEF ReadUpTo, Came
<1>10. \A n \in DOMAIN got' : got'[n] \notin touched' => got'[n] \in Wanted(F)' /\ table'[got'[n]] \in B
  BY <1>2, <1>3, <1>6
<1>11. \A m, n \in DOMAIN got' :
            m < n /\ got'[m] \notin touched' /\ got'[n] \notin touched'
            => Precedes(O, table'[got'[m]], table'[got'[n]])
  BY <1>2, <1>3, <1>7
<1>12. \A i \in Wanted(F)' : table'[i] \in B => \E n \in DOMAIN got' : got'[n] \notin touched' /\ got'[n] = i
  BY <1>2, <1>3, <1>8
<1> QED BY <1>9, <1>10, <1>11, <1>12

-----------------------------------------------------------------------------
(* What a step does to it.                                                 *)

LEMMA AskChanged ==
  ASSUME NEW q, NEW c, IsAsk(q)
  PROVE  LET e == [q EXCEPT !.cursor = c] IN
         /\ IsAsk(e) /\ e.cursor = c
         /\ e.filter = q.filter /\ e.sort = q.sort /\ e.limit = q.limit
         /\ e.archived = q.archived /\ e.under = q.under
<1> DEFINE e == [q EXCEPT !.cursor = c]
<1>1. e = [filter |-> q.filter, sort |-> q.sort, limit |-> q.limit, cursor |-> c,
           archived |-> q.archived, under |-> q.under]
  BY DEF IsAsk
<1>2. /\ e.cursor = c /\ e.filter = q.filter /\ e.sort = q.sort /\ e.limit = q.limit
      /\ e.archived = q.archived /\ e.under = q.under
  BY <1>1
<1>3. IsAsk(e)
  <2> HIDE DEF e
  <2> QED BY <1>1, <1>2 DEF IsAsk
<1> QED BY <1>2, <1>3

LEMMA SortTyped ==
  ASSUME ListsTypes
  PROVE  Order \in Seq(Orders) /\ DefaultSort \in Seq(Orders)
<1>1. DefaultSort \in Seq(Orders)
  <2>1. "stamp" \in Fields
    BY ListsAssumption, FilterAssumption DEF Names
  <2>2. (resource \in {"ticket", "document", "activity"}) \in BOOLEAN
    OBVIOUS
  <2>3. [field |-> "stamp", desc |-> resource \in {"ticket", "document", "activity"}] \in Orders
    BY <2>1, <2>2 DEF Orders
  <2> QED BY <2>3 DEF DefaultSort
<1> QED BY <1>1 DEF Order, SortOf, ListsTypes, IsAsk

LEMMA OpenedIs ==
  ASSUME NEW c \in Configs
  PROVE  /\ IsAsk(Opened(c)) /\ Opened(c).cursor = NoCursor /\ Opened(c).limit = 0
         /\ Opened(c).filter = c.filter /\ Opened(c).sort = c.sort
<1>1. IsFilter(c.filter) /\ c.sort \in Seq(Orders)
  BY ListsAssumption
<1> QED BY <1>1 DEF Opened, IsAsk

LEMMA NowIs ==
  ASSUME ListsTypes
  PROVE  Now \in Int
<1> DEFINE S == {table[i].stamp : i \in There} \cup {0}
<1>1. \A i \in There : table[i] \in Rows
  BY DEF There, ListsTypes, IsTable
<1>2. S \in SUBSET Int /\ S # {}
  BY <1>1 DEF Rows
<1>3. IsFiniteSet(S)
  <2>1. IsFiniteSet(There)
    BY IdsAre, FS_Subset DEF There
  <2>2. IsFiniteSet({table[i].stamp : i \in There})
    <3> DEFINE f == [i \in There |-> table[i].stamp]
    <3>1. f \in Surjection(There, {table[i].stamp : i \in There})
      BY DEF Surjection
    <3> QED BY <2>1, <3>1, FS_Surjection
  <2> QED BY <2>2, FS_AddElement
<1>4. Max(S) \in S
  <2> HIDE DEF S
  <2> QED BY <1>2, <1>3, MaxIs
<1>5. 1 + Max(S) \in Int
  BY <1>2, <1>4
<1> QED BY <1>5 DEF Now

LEMMA Overwritten ==
  ASSUME IsTable(table), NEW i \in Ids, NEW r \in Rows \cup {Absent}, r.id \in {i, 0}
  PROVE  IsTable([table EXCEPT ![i] = r])
  BY DEF IsTable

\* What a writer writes is a row of its id, or none.
LEMMA WritesAre ==
  ASSUME ListsTypes, NEW i \in Ids, Create(i) \/ Edit(i) \/ Rename(i) \/ Hide(i) \/ Delete(i)
  PROVE  /\ \E r \in Rows \cup {Absent} : r.id \in {i, 0} /\ table' = [table EXCEPT ![i] = r]
         /\ turn \in {"between", "reading"} /\ touched' = touched \cup {i}
         /\ UNCHANGED <<resource, within, turn, ask, got, saved>>
<1>1. i \in There => table[i] \in Rows /\ table[i].id = i
  BY IdsAre DEF There, ListsTypes, IsTable
<1>2. SUFFICES ASSUME NEW r, Write(i, r), r = Absent \/ (r \in Rows /\ r.id = i)
               PROVE  \E s \in Rows \cup {Absent} : s.id \in {i, 0} /\ table' = [table EXCEPT ![i] = s]
  <2>1. ASSUME NEW l \in Entities \cup {NULL},
               NEW r, r = [id |-> i, link |-> l, stamp |-> Now, label |-> {}, seen |-> TRUE, live |-> TRUE]
        PROVE  r \in Rows /\ r.id = i
    BY <2>1, NowIs, IdsAre DEF Rows, Scalars
  <2>2. ASSUME NEW l \in Entities \cup {NULL}, i \in There,
               NEW s \in {Now, table[i].stamp}, NEW r, r = [table[i] EXCEPT !.link = l, !.stamp = s]
        PROVE  r \in Rows /\ r.id = i
    <3>1. l \in Scalars /\ s \in Int
      BY <1>1, <2>2, NowIs, IdsAre DEF Scalars, Rows
    <3> QED BY <1>1, <2>2, <3>1 DEF Rows
  <2>3. ASSUME NEW n \in Ids, i \in There, NEW r, r = [table[i] EXCEPT !.stamp = n]
        PROVE  r \in Rows /\ r.id = i
    BY <1>1, <2>3, IdsAre DEF Rows
  <2>4. ASSUME i \in There, NEW r, r = [table[i] EXCEPT !.live = ~table[i].live]
        PROVE  r \in Rows /\ r.id = i
    BY <1>1, <2>4 DEF Rows
  <2>5. \E r : Write(i, r) /\ (r = Absent \/ (r \in Rows /\ r.id = i))
    <3>1. CASE Create(i)
      BY <3>1, <2>1 DEF Create
    <3>2. CASE Edit(i)
      <4>1. PICK l \in Entities \cup {NULL} :
              Write(i, [table[i] EXCEPT !.link = l,
                                        !.stamp = IF resource \in {"ticket", "document"} THEN Now ELSE table[i].stamp])
        BY <3>2 DEF Edit
      <4>2. \E s \in {Now, table[i].stamp} : Write(i, [table[i] EXCEPT !.link = l, !.stamp = s])
        BY <4>1
      <4>3. i \in There
        BY <3>2 DEF Edit
      <4> QED BY <2>2, <4>2, <4>3
    <3>3. CASE Rename(i)
      BY <3>3, <2>3 DEF Rename
    <3>4. CASE Hide(i)
      BY <3>4, <2>4 DEF Hide
    <3>5. CASE Delete(i)
      BY <3>5 DEF Delete
    <3> QED BY <3>1, <3>2, <3>3, <3>4, <3>5
  <2>6. PICK r : Write(i, r) /\ (r = Absent \/ (r \in Rows /\ r.id = i))
    BY <2>5
  <2>7. /\ turn \in {"between", "reading"} /\ touched' = touched \cup {i}
        /\ UNCHANGED <<resource, within, turn, ask, got, saved>>
    BY <2>6 DEF Write
  <2> QED BY <1>2, <2>6, <2>7
<1>3. r \in Rows \cup {Absent} /\ r.id \in {i, 0}
  BY <1>2 DEF Absent
<1> QED BY <1>2, <1>3 DEF Write

LEMMA EmptyIs ==
  ASSUME NEW g, g = Nothing \/ g = Equals(<<>>)
  PROVE  /\ IsFilter(g) /\ DOMAIN g = {1} /\ g[1].conditions = <<>> /\ Inside(g, 1) = {} /\ Bare(g, 1)
         /\ \A r : Means(g, r)
         /\ ~NamesField(g) /\ Named(g) = {}
<1>1. IsFilter(g)
  <2>1. <<>> \in Seq(Conditions)
    OBVIOUS
  <2> QED BY <2>1, NothingIs, EqualsIs
<1>2. DOMAIN g = {1} /\ g[1].conditions = <<>> /\ g[1].parent = 0
  BY DEF Nothing, Equals
<1>3. Inside(g, 1) = {} /\ Bare(g, 1) /\ ToSet(g[1].conditions) = {}
  BY <1>2 DEF Inside, Bare, ToSet
<1>4. ASSUME NEW r PROVE Means(g, r)
  <2>1. PICK w \in [DOMAIN g -> BOOLEAN] :
          (Means(g, r) <=> w[1]) /\ \A n \in DOMAIN g : w[n] <=> MeansFrom(g, r, w, n)
    BY <1>1, MeansIs
  <2>2. MeansFrom(g, r, w, 1)
    BY <1>3 DEF MeansFrom
  <2> QED BY <1>2, <2>1, <2>2
<1>5. ~NamesField(g) /\ Named(g) = {}
  BY <1>2, <1>3 DEF NamesField, Named
<1> QED BY <1>1, <1>2, <1>3, <1>4, <1>5

\* An absent filter is normalised to one that says the same.
LEMMA NormalisedIs ==
  ASSUME NEW g, IsFilter(g)
  PROVE  /\ IsFilter(Normalised(g))
         /\ \A r : Means(Normalised(g), r) <=> Means(g, r)
         /\ NamesField(Normalised(g)) <=> NamesField(g)
         /\ Named(Normalised(g)) = Named(g)
<1>1. CASE g = Nothing
  <2>1. Normalised(g) = Equals(<<>>)
    BY <1>1 DEF Normalised, Nothing, Equals
  <2>2. /\ IsFilter(Equals(<<>>)) /\ \A r : Means(Equals(<<>>), r)
        /\ ~NamesField(Equals(<<>>)) /\ Named(Equals(<<>>)) = {}
    BY EmptyIs
  <2>3. (\A r : Means(g, r)) /\ ~NamesField(g) /\ Named(g) = {}
    BY <1>1, EmptyIs
  <2> QED BY <2>1, <2>2, <2>3
<1>2. CASE g # Nothing
  BY <1>2 DEF Normalised
<1> QED BY <1>1, <1>2

\* A request the plan finds no fault with.
LEMMA PlannedIs ==
  ASSUME ListsTypes, Fault(ask, DefaultSort) = "none"
  PROVE  /\ IsFilter(Planned) /\ FilterFaults(Planned) = {} /\ Sortable(Order)
         /\ LimitOf(ask) \in 1 .. MaxLimit
         /\ ask.cursor = NoCursor \/ (Decodes(ask.cursor) /\ ask.cursor.query = Fingerprint(Planned, Order))
<1>1. IsFilter(Planned) /\ Order \in Seq(Orders)
  BY NormalisedIs, SortTyped DEF Planned, ListsTypes, IsAsk
<1>2. LimitOf(ask) \in 1 .. MaxLimit /\ FilterFaults(Planned) = {}
  BY DEF Fault, Planned
<1>3. CursorFault(ask, Order) = "none" /\ SortFaults(Order) = {}
  BY DEF Fault, Order
<1>4. ask.cursor = NoCursor \/ (Decodes(ask.cursor) /\ ask.cursor.query = Fingerprint(Planned, Order))
  BY <1>3 DEF CursorFault, Planned
<1> QED BY <1>1, <1>2, <1>3, <1>4 DEF Sortable

LEMMA ListsTypesInit == ListsInit => ListsTypes
<1> SUFFICES ASSUME ListsInit PROVE ListsTypes
  OBVIOUS
<1>1. resource \in Resources /\ table \in Tables(resource)
  BY DEF ListsInit
<1>2. IsTable(table)
  BY <1>1, ListsAssumption DEF IsTable
<1>3. <<>> \in Seq(Ids)
  OBVIOUS
<1> QED BY <1>1, <1>2, <1>3, NothingIs DEF ListsInit, ListsTypes

LEMMA PageTyped ==
  ASSUME ListsTypes, ReadPage
  PROVE  ListsTypes'
<1>1. Sortable(Order) /\ LimitOf(ask) \in Nat \ {0}
  BY PlannedIs DEF ReadPage
<1>2. Matching \in SUBSET There /\ There \subseteq Ids
  BY DEF Matching, There
<1>3. PICK top \in InOrder(Matching) :
        LET limit == LimitOf(ask)
            more == Len(top) > limit IN
        /\ got' = got \o (IF more THEN SubSeq(top, 1, limit) ELSE top)
        /\ IF more
           THEN /\ ask' = [ask EXCEPT !.cursor = CursorAfter(ask, Order, table[KeptLast(top, limit)])]
                /\ turn' = "between"
           ELSE turn' = "done" /\ UNCHANGED ask
  BY DEF ReadPage
<1>4. top \in Seq(Ids) /\ (Len(top) > LimitOf(ask) => SubSeq(top, 1, LimitOf(ask)) \in Seq(Ids))
  <2>1. top \in Seq(Ids)
    <3>1. top \in Seq(Matching)
      BY <1>1, <1>2, EnumerationIs
    <3> QED BY <1>2, <3>1
  <2>2. Len(top) > LimitOf(ask) => SubSeq(top, 1, LimitOf(ask)) \in Seq(Ids)
    <3>1. \A k \in Nat \ {0} : Len(top) > k => SubSeq(top, 1, k) \in Seq(Ids)
      <4>1. Len(top) \in Nat /\ DOMAIN top = 1 .. Len(top)
        BY <2>1, LenProperties
      <4> QED BY <2>1, <4>1
    <3> QED BY <1>1, <3>1
  <2> QED BY <2>1, <2>2
<1>5. got' \in Seq(Ids)
  <2>1. got \in Seq(Ids)
    BY DEF ListsTypes
  <2> QED BY <1>3, <1>4, <2>1
<1>6. IsAsk(ask)' /\ turn' \in {"between", "done"}
  <2>1. IsAsk(ask)
    BY DEF ListsTypes
  <2>2. IsAsk(ask')
    <3>1. \A c : IsAsk([ask EXCEPT !.cursor = c])
      BY <2>1, AskChanged
    <3>2. ask' = ask \/ \E c : ask' = [ask EXCEPT !.cursor = c]
      BY <1>3
    <3> QED BY <2>1, <3>1, <3>2
  <2> QED BY <1>3, <2>2 DEF IsAsk
<1>7. UNCHANGED <<resource, table, saved>>
  BY DEF ReadPage
<1>8. IsTable(table)' /\ (saved' = NoConfig \/ (saved' \in Configs /\ ConfigFaults(saved') = {}))
  BY <1>7 DEF ListsTypes, IsTable
<1> QED BY <1>5, <1>6, <1>7, <1>8 DEF ListsTypes

LEMMA ListsTypesStep == ListsTypes /\ [ListsNext]_listsVars => ListsTypes'
<1> SUFFICES ASSUME ListsTypes, [ListsNext]_listsVars PROVE ListsTypes'
  OBVIOUS
<1>1. ASSUME UNCHANGED listsVars PROVE ListsTypes'
  BY <1>1 DEF ListsTypes, listsVars, reader, IsTable, IsAsk
<1>2. ASSUME UNCHANGED <<resource, table, saved>>, NEW q, IsAsk(q), ask' = q,
             turn' \in {"idle", "asking", "reading", "between", "done"}, got' = got \/ got' = <<>>
      PROVE  ListsTypes'
  <2>1. got' \in Seq(Ids)
    <3>1. <<>> \in Seq(Ids)
      OBVIOUS
    <3> QED BY <3>1, <1>2 DEF ListsTypes
  <2> QED BY <1>2, <2>1 DEF ListsTypes, IsTable, IsAsk
<1>3. IsAsk(ask) /\ IsAsk(NoAsk) /\ turn \in {"idle", "asking", "reading", "between", "done"}
  BY NothingIs DEF ListsTypes
<1>4. ASSUME NEW request \in Bodies, Ask(request) PROVE ListsTypes'
  <2>1. IsAsk(request)
    BY BodiesAre DEF ListsTypes
  <2> QED BY <1>2, <1>4, <2>1 DEF Ask
<1>5. ASSUME NEW request \in Bodies, Continue(request) PROVE ListsTypes'
  <2>1. IsAsk([request EXCEPT !.cursor = ask.cursor])
    <3>1. IsAsk(request)
      BY BodiesAre DEF ListsTypes
    <3> QED BY <3>1, AskChanged
  <2> QED BY <1>2, <1>5, <2>1 DEF Continue
<1>6. ASSUME Refused \/ RefusedLate \/ Stop PROVE ListsTypes'
  BY <1>2, <1>3, <1>6 DEF Refused, RefusedLate, Stop, Over
<1>7. ASSUME Look PROVE ListsTypes'
  BY <1>2, <1>3, <1>7 DEF Look, Over
<1>8. ASSUME Damage PROVE ListsTypes'
  <2>1. IsAsk([ask EXCEPT !.cursor = Garbled])
    BY <1>3, AskChanged
  <2> QED BY <1>2, <1>8, <2>1 DEF Damage
<1>9. ASSUME NEW i \in Ids, Create(i) \/ Edit(i) \/ Rename(i) \/ Hide(i) \/ Delete(i) PROVE ListsTypes'
  <2>1. IsTable(table)'
    <3>1. PICK r \in Rows \cup {Absent} : r.id \in {i, 0} /\ table' = [table EXCEPT ![i] = r]
      BY <1>9, WritesAre
    <3>2. IsTable([table EXCEPT ![i] = r])
      BY <3>1, Overwritten DEF ListsTypes
    <3> QED BY <3>1, <3>2 DEF IsTable
  <2>2. UNCHANGED <<resource, within, turn, ask, got, saved>>
    BY <1>9, WritesAre
  <2> QED BY <2>1, <2>2 DEF ListsTypes, IsAsk
<1>10. ASSUME OutOfReach PROVE ListsTypes'
  BY <1>2, <1>3, <1>10 DEF OutOfReach, reader
<1>11. ASSUME NEW c \in Configs, Save(c) PROVE ListsTypes'
  BY <1>11 DEF Save, reader, ListsTypes, IsTable, IsAsk
<1>12. ASSUME OpenView PROVE ListsTypes'
  <2>1. IsAsk(Opened(saved))
    BY <1>12, OpenedIs DEF OpenView, ListsTypes
  <2> QED BY <1>2, <1>12, <2>1 DEF OpenView
<1> QED BY <1>1, <1>4, <1>5, <1>6, <1>7, <1>8, <1>9, <1>10, <1>11, <1>12, PageTyped DEF ListsNext

\* Whatever is asked, continued, damaged and written, the table is one of rows under
\* their ids, the request is well formed and a saved configuration has no fault.
THEOREM ListsTyped == ListsSpec => []ListsTypes
<1> QED BY ListsTypesInit, ListsTypesStep, PTL DEF ListsSpec

-----------------------------------------------------------------------------
(* The pages add up.                                                       *)

LEMMA ReadUpToIs ==
  ASSUME NEW F, NEW O, NEW B
  PROVE  ReadUpTo(F, O, B)' <=>
        /\ \A n \in DOMAIN got' : got'[n] \notin touched' => got'[n] \in Wanted(F)' /\ table'[got'[n]] \in B
        /\ \A m, n \in DOMAIN got' :
            m < n /\ got'[m] \notin touched' /\ got'[n] \notin touched'
            => Precedes(O, table'[got'[m]], table'[got'[n]])
        /\ \A i \in Wanted(F)' : table'[i] \in B => \E n \in DOMAIN got' : got'[n] \notin touched' /\ got'[n] = i
  BY DEF ReadUpTo, Came

\* A row is listed by what it is, the resource, and what the reader asked.
LEMMA ListedStill ==
  ASSUME NEW F, resource' = resource, ask'.archived = ask.archived, ask'.under = ask.under
  PROVE  \A i \in Ids : table'[i] = table[i] =>
            (Listed(AskOf(F), table[i])' <=> Listed(AskOf(F), table[i]))
<1>1. AskOf(F)' = AskOf(F)
  BY DEF AskOf
<1> QED BY <1>1 DEF Listed, Tickets, Documents, Comments, Attachments, Reviews, Views, Members, Teams, Projects, Activity

LEMMA ReadStill ==
  ASSUME NEW F, NEW O, NEW B, ReadUpTo(F, O, B), UNCHANGED <<resource, table, got, touched>>,
         ask'.archived = ask.archived, ask'.under = ask.under
  PROVE  ReadUpTo(F, O, B)'
<1>1. Wanted(F)' = Wanted(F)
  BY ListedStill DEF Wanted, There
<1> QED BY <1>1, ReadUpToIs DEF ReadUpTo, Came

\* A write sets its row aside, and nothing else of what was read or is to be read.
LEMMA ReadDespite ==
  ASSUME ListsTypes, NEW F, NEW O, NEW B, ReadUpTo(F, O, B), NEW i \in Ids, NEW r,
         table' = [table EXCEPT ![i] = r], touched' = touched \cup {i},
         UNCHANGED <<resource, ask, got>>
  PROVE  ReadUpTo(F, O, B)'
<1>1. \A j \in Ids \ {i} : table'[j] = table[j]
  BY DEF ListsTypes, IsTable
<1>2. Wanted(F)' = Wanted(F) \ {i}
  BY <1>1, ListedStill DEF Wanted, There
<1>3. \A n \in DOMAIN got : got[n] \in Ids
  BY ElementOfSeq, LenProperties DEF ListsTypes
<1>4. \A n \in DOMAIN got : got[n] \notin touched' => got[n] \notin touched /\ got[n] # i /\ table'[got[n]] = table[got[n]]
  BY <1>1, <1>3
<1>5. \A n \in DOMAIN got : got[n] \notin touched' => got[n] \in Wanted(F)' /\ table'[got[n]] \in B
  BY <1>2, <1>4 DEF ReadUpTo
<1>6. \A m, n \in DOMAIN got :
        m < n /\ got[m] \notin touched' /\ got[n] \notin touched' => Precedes(O, table'[got[m]], table'[got[n]])
  BY <1>4 DEF ReadUpTo
<1>7. \A j \in Wanted(F)' : table'[j] \in B => \E n \in DOMAIN got : got[n] \notin touched' /\ got[n] = j
  <2>1. TAKE j \in Wanted(F)'
  <2>2. j \in Wanted(F) /\ j # i /\ j \in Ids
    BY <1>2 DEF Wanted, There
  <2>3. table[j] \in B => \E n \in DOMAIN got : got[n] \notin touched /\ got[n] = j
    BY <2>2 DEF ReadUpTo, Came
  <2> QED BY <1>1, <2>2, <2>3
<1>8. got' = got
  OBVIOUS
<1> QED BY <1>5, <1>6, <1>7, <1>8, ReadUpToIs

LEMMA CutStill ==
  ASSUME NEW F, NEW O, NEW l, Cut(F, O, l), ask'.cursor = ask.cursor, ReadUpTo(F, O, UpTo(O, l))'
  PROVE  Cut(F, O, l)'
<1>1. UpTo(O, l)' = UpTo(O, l)
  BY DEF UpTo
<1> QED BY <1>1 DEF Cut

\* What the list takes in of the request is what it takes in of the planned one.
LEMMA ListedPlanned ==
  ASSUME ListsTypes, NEW r
  PROVE  Listed(ask, r) <=> Listed(AskOf(Planned), r)
<1>1. (NamesField(Planned) <=> NamesField(ask.filter)) /\ Named(Planned) = Named(ask.filter)
  BY NormalisedIs DEF Planned, ListsTypes, IsAsk
<1>2. AskOf(Planned).filter = Planned /\ AskOf(Planned).archived = ask.archived /\ AskOf(Planned).under = ask.under
  BY DEF AskOf
<1>3. Scope(AskOf(Planned).filter) = Scope(ask.filter)
  BY <1>1, <1>2 DEF Scope
<1> HIDE DEF Planned
<1> QED BY <1>1, <1>2, <1>3 DEF Listed, Tickets, Documents, Comments, Attachments, Reviews, Views, Members, Teams, Projects, Activity

\* Where a page begins: a cursor that passed the plan is one that was handed out for it.
LEMMA Begins ==
  ASSUME ListsTypes, ReadingInv, ReadPage
  PROVE  \E A : /\ Behind(Order, A) /\ ReadUpTo(Planned, Order, A)
                /\ \A r \in Rows : Kept(ask, Order, r) <=> Where(Planned, r) = "true" /\ r \notin A
<1>1. /\ Sortable(Order)
      /\ ask.cursor = NoCursor \/ (Decodes(ask.cursor) /\ ask.cursor.query = Fingerprint(Planned, Order))
  BY PlannedIs DEF ReadPage
<1>2. turn \in {"asking", "reading"}
  BY DEF ReadPage
<1>3. CASE ask.cursor = NoCursor /\ got = <<>>
  <2>1. ReadUpTo(Planned, Order, {})
    BY <1>3 DEF ReadUpTo
  <2>2. \A r : Kept(ask, Order, r) <=> Where(Planned, r) = "true" /\ r \notin {}
    BY <1>3 DEF Kept, Planned
  <2> QED BY <1>1, <2>1, <2>2, BehindIs
<1>4. CASE ask.cursor = Garbled
  <2>1. Garbled # NoCursor
    <3>1. Garbled.key # NoCursor.key
      BY DEF Garbled, NoCursor
    <3> QED BY <3>1
  <2>2. ~Decodes(Garbled)
    BY DEF Decodes, Garbled
  <2> QED BY <1>1, <1>4, <2>1, <2>2
<1>5. ASSUME NEW F, NEW O, NEW l, Cut(F, O, l)
      PROVE  \E A : /\ Behind(Order, A) /\ ReadUpTo(Planned, Order, A)
                    /\ \A r \in Rows : Kept(ask, Order, r) <=> Where(Planned, r) = "true" /\ r \notin A
  <2>1. ask.cursor.query = <<F, O>> /\ ask.cursor.key = KeysOf(O, l)
    BY <1>5 DEF Cut, Fingerprint
  <2>2. ask.cursor # NoCursor
    <3>1. ask.cursor.query # NoCursor.query
      BY <2>1 DEF NoCursor
    <3> QED BY <3>1
  <2>3. F = Planned /\ O = Order
    <3>1. <<F, O>> = <<Planned, Order>>
      BY <1>1, <2>1, <2>2 DEF Fingerprint
    <3> HIDE DEF Planned, Order
    <3> QED BY <3>1
  <2>4. l \in Rows /\ ReadUpTo(Planned, Order, UpTo(Order, l))
    BY <1>5, <2>3 DEF Cut
  <2>5. ASSUME NEW r \in Rows
        PROVE  Kept(ask, Order, r) <=> Where(Planned, r) = "true" /\ r \notin UpTo(Order, l)
    <3>1. CompileAfter(Order, ask.cursor.key, r) <=> Precedes(Order, l, r)
      BY <1>1, <2>1, <2>3, <2>4, ResumesAfter
    <3> QED BY <2>2, <3>1 DEF Kept, Planned, UpTo
  <2> QED BY <1>1, <2>4, <2>5, BehindIs
<1> QED BY <1>2, <1>3, <1>4, <1>5 DEF ReadingInv

\* A page read from where a reading stands leaves it where the page ends.
LEMMA PageReads ==
  ASSUME ListsTypes, ReadingInv, ReadPage
  PROVE  ReadingInv'
<1> DEFINE limit == LimitOf(ask)
<1>1. FilterFaults(Planned) = {} /\ Sortable(Order) /\ limit \in Nat \ {0}
  BY PlannedIs DEF ReadPage
<1>2. PICK top \in InOrder(Matching) :
        /\ got' = got \o (IF Len(top) > limit THEN SubSeq(top, 1, limit) ELSE top)
        /\ IF Len(top) > limit
           THEN /\ ask' = [ask EXCEPT !.cursor = CursorAfter(ask, Order, table[top[limit]])]
                /\ turn' = "between"
           ELSE turn' = "done" /\ UNCHANGED ask
  BY DEF ReadPage, KeptLast
<1>3. UNCHANGED <<resource, table, touched>>
  BY DEF ReadPage
<1>4. PICK A : /\ Behind(Order, A) /\ ReadUpTo(Planned, Order, A)
               /\ \A r \in Rows : Kept(ask, Order, r) <=> Where(Planned, r) = "true" /\ r \notin A
  BY Begins
<1>5. \A i \in There : table[i] \in Rows
  BY DEF There, ListsTypes, IsTable
<1>6. /\ Matching \in SUBSET There
      /\ \A i \in There : i \in Matching <=> /\ Listed(AskOf(Planned), table[i])
                                             /\ Where(Planned, table[i]) = "true" /\ table[i] \notin A
  BY <1>4, <1>5, ListedPlanned DEF Matching
<1>7. /\ top \in Seq(Matching) /\ DOMAIN top = 1 .. Len(top) /\ Len(top) \in Nat
      /\ \A m, n \in DOMAIN top : m < n => Precedes(Order, table[top[m]], table[top[n]])
  BY <1>1, <1>6, EnumerationIs, LenProperties
<1>8. \A n \in DOMAIN top : top[n] \in Matching /\ table[top[n]] \in Rows /\ table[top[n]] \notin A
  BY <1>5, <1>6, <1>7
<1>9. /\ ask'.filter = ask.filter /\ ask'.sort = ask.sort
      /\ ask'.archived = ask.archived /\ ask'.under = ask.under
  <2>1. \A c : LET e == [ask EXCEPT !.cursor = c] IN
               e.filter = ask.filter /\ e.sort = ask.sort /\ e.archived = ask.archived /\ e.under = ask.under
    BY AskChanged DEF ListsTypes
  <2>2. ask' = ask \/ \E c : ask' = [ask EXCEPT !.cursor = c]
    BY <1>2
  <2> QED BY <2>1, <2>2
<1>10. PICK F, O : F = Planned /\ O = Order /\ F = Planned' /\ O = Order'
  BY <1>3, <1>9 DEF Planned, Order, SortOf, DefaultSort
<1>11. ASSUME NEW B, A \subseteq B, B \subseteq Rows, NEW k \in 0 .. Len(top),
              \A n \in DOMAIN top : table[top[n]] \in B <=> n <= k,
              got' = got \o SubSeq(top, 1, k)
       PROVE  ReadUpTo(F, O, B)'
  <2>1. Behind(O, A) /\ ReadUpTo(F, O, A) /\ Sortable(O)
    BY <1>1, <1>4, <1>10
  <2>2. \A i \in There : i \in Matching <=> /\ Listed(AskOf(F), table[i])
                                            /\ Where(F, table[i]) = "true" /\ table[i] \notin A
    BY <1>6, <1>10
  <2> HIDE DEF limit
  <2> QED BY <1>3, <1>6, <1>9, <1>10, <1>11, <2>1, <2>2, PageAdds
<1>12. CASE Len(top) > limit
  <2> DEFINE l == table[top[limit]]
             B == UpTo(O, l)
  <2>1. limit \in DOMAIN top
    BY <1>1, <1>7, <1>12
  <2>2. l \in Rows /\ l \notin A
    BY <1>8, <2>1
  <2>3. A \subseteq B
    <3>1. ASSUME NEW r \in A, Precedes(O, l, r) PROVE FALSE
      BY <1>4, <1>10, <2>2, <3>1 DEF Behind
    <3>2. A \subseteq Rows
      BY <1>4 DEF Behind
    <3> QED BY <3>1, <3>2 DEF UpTo
  <2>4. ASSUME NEW n \in DOMAIN top PROVE table[top[n]] \in B <=> n <= limit
    <3>1. table[top[n]] \in Rows
      BY <1>8
    <3>2. n < limit => Precedes(O, table[top[n]], l)
      BY <1>7, <1>10, <2>1
    <3>3. limit < n => Precedes(O, l, table[top[n]])
      BY <1>7, <1>10, <2>1
    <3>4. ~Precedes(O, l, l)
      BY <1>1, <1>10, <2>2, PrecedesIsStrict
    <3>5. Precedes(O, table[top[n]], l) => ~Precedes(O, l, table[top[n]])
      BY <1>1, <1>10, <2>2, <3>1, <3>4, PrecedesIsTransitive
    <3>6. n = limit \/ n < limit \/ limit < n
      BY <1>1, <1>7
    <3>7. n \in Int /\ limit \in Int
      BY <1>1, <1>7
    <3> HIDE DEF limit
    <3> QED BY <3>1, <3>2, <3>3, <3>4, <3>5, <3>6, <3>7 DEF UpTo
  <2>5. PICK k, cut : k = limit /\ cut = l
    OBVIOUS
  <2>6. ReadUpTo(F, O, UpTo(O, cut))'
    <3>1. k \in 0 .. Len(top)
      BY <1>1, <1>7, <1>12, <2>5
    <3>2. got' = got \o SubSeq(top, 1, k)
      BY <1>2, <1>12, <2>5
    <3>3. UpTo(O, cut) \subseteq Rows /\ A \subseteq UpTo(O, cut)
      BY <2>3, <2>5 DEF UpTo
    <3>4. \A n \in DOMAIN top : table[top[n]] \in UpTo(O, cut) <=> n <= k
      BY <2>4, <2>5
    <3>5. \A B1 : B1 = UpTo(O, cut) => ReadUpTo(F, O, B1)'
      <4>1. TAKE B1
      <4>2. HAVE B1 = UpTo(O, cut)
      <4> HIDE DEF limit
      <4> QED BY <1>11, <3>1, <3>2, <3>3, <3>4, <4>2
    <3> QED BY <3>5
  <2>7. ask'.cursor = [query |-> Fingerprint(F, O), key |-> KeysOf(O, cut)]
    <3>1. \A c : [ask EXCEPT !.cursor = c].cursor = c
      BY AskChanged DEF ListsTypes
    <3>2. ask'.cursor = CursorAfter(ask, Order, cut)
      BY <1>2, <1>12, <2>5, <3>1
    <3> QED BY <1>10, <3>2 DEF CursorAfter, Planned
  <2>8. FilterFaults(F) = {} /\ Sortable(O) /\ cut \in Rows
    BY <1>1, <1>10, <2>2, <2>5
  <2>9. Cut(F, O, cut)'
    BY <2>6, <2>7, <2>8 DEF Cut
  <2>10. turn' = "between"
    BY <1>2, <1>12
  <2>11. \E m : Cut(Planned, Order, m)'
    BY <1>10, <2>9 DEF Cut
  <2> QED BY <2>10, <2>11 DEF ReadingInv
<1>13. CASE ~(Len(top) > limit)
  <2>1. got' = got \o SubSeq(top, 1, Len(top))
    <3>1. SubSeq(top, 1, Len(top)) = top
      BY <1>7
    <3> QED BY <1>2, <1>13, <3>1
  <2>2. A \subseteq Rows
    BY <1>4 DEF Behind
  <2>3. ReadUpTo(F, O, Rows)'
    <3>1. \A n \in DOMAIN top : table[top[n]] \in Rows <=> n <= Len(top)
      BY <1>7, <1>8
    <3>2. Len(top) \in 0 .. Len(top)
      BY <1>7
    <3>3. \A B : B = Rows => ReadUpTo(F, O, B)'
      <4>1. TAKE B
      <4>2. HAVE B = Rows
      <4> HIDE DEF limit
      <4> QED BY <1>11, <2>1, <2>2, <3>1, <3>2, <4>2
    <3> QED BY <3>3
  <2>4. turn' = "done"
    BY <1>2, <1>13
  <2>5. FilterFaults(F) = {} /\ Sortable(O)
    BY <1>1, <1>10
  <2>6. FilterFaults(Planned') = {} /\ Sortable(Order') /\ ReadUpTo(Planned, Order, Rows)'
    BY <1>10, <2>3, <2>5 DEF ReadUpTo
  <2> QED BY <2>4, <2>6 DEF ReadingInv, Sortable
<1> QED BY <1>12, <1>13

\* The reading goes on, at another turn, with what the reader had.
LEMMA GoesOn ==
  ASSUME ReadingInv, turn \in {"asking", "reading", "between"}, turn' \in {"asking", "reading"},
         UNCHANGED <<resource, table, got, touched>>,
         ask'.cursor = ask.cursor, ask'.archived = ask.archived, ask'.under = ask.under
  PROVE  ReadingInv'
<1>1. ASSUME NEW F, NEW O, NEW l, Cut(F, O, l) PROVE Cut(F, O, l)'
  <2>1. ReadUpTo(F, O, UpTo(O, l))
    BY <1>1 DEF Cut
  <2>2. \A B : B = UpTo(O, l) => ReadUpTo(F, O, B)'
    BY <2>1, ReadStill
  <2>3. ReadUpTo(F, O, UpTo(O, l))'
    BY <2>2
  <2> QED BY <1>1, <2>3, CutStill
<1>2. CASE turn \in {"asking", "reading"}
  <2>1. CASE \E F, O, l : Cut(F, O, l)
    BY <1>1, <2>1 DEF ReadingInv
  <2>2. CASE ~(\E F, O, l : Cut(F, O, l))
    BY <1>2, <2>2 DEF ReadingInv
  <2> QED BY <2>1, <2>2
<1>3. CASE turn = "between"
  <2>1. PICK l : Cut(Planned, Order, l)
    BY <1>3 DEF ReadingInv
  <2>2. \E F, O : Cut(F, O, l)
    BY <2>1
  <2> QED BY <1>1, <2>2 DEF ReadingInv
<1> QED BY <1>2, <1>3

\* Whatever is written between two pages, the reading goes on from where it was cut.
LEMMA Written ==
  ASSUME ListsTypes, ReadingInv, NEW i \in Ids, Create(i) \/ Edit(i) \/ Rename(i) \/ Hide(i) \/ Delete(i)
  PROVE  ReadingInv'
<1>1. /\ \E r : table' = [table EXCEPT ![i] = r]
      /\ turn \in {"between", "reading"} /\ touched' = touched \cup {i}
      /\ UNCHANGED <<resource, turn, ask, got>>
  BY WritesAre
<1>2. ASSUME NEW F, NEW O, NEW l, Cut(F, O, l) PROVE Cut(F, O, l)'
  <2>1. ReadUpTo(F, O, UpTo(O, l))
    BY <1>2 DEF Cut
  <2>2. \A B : B = UpTo(O, l) => ReadUpTo(F, O, B)'
    BY <1>1, <2>1, ReadDespite
  <2>3. ReadUpTo(F, O, UpTo(O, l))'
    BY <2>2
  <2> QED BY <1>1, <1>2, <2>3, CutStill
<1>3. CASE turn = "reading"
  <2>1. CASE \E F, O, l : Cut(F, O, l)
    BY <1>1, <1>2, <1>3, <2>1 DEF ReadingInv
  <2>2. CASE ~(\E F, O, l : Cut(F, O, l))
    BY <1>1, <1>3, <2>2 DEF ReadingInv
  <2> QED BY <2>1, <2>2
<1>4. CASE turn = "between"
  <2>1. PICK l : Cut(Planned, Order, l)
    BY <1>4 DEF ReadingInv
  <2>2. Planned' = Planned /\ Order' = Order
    BY <1>1 DEF Planned, Order, DefaultSort
  <2>3. \A F, O : F = Planned /\ O = Order => Cut(F, O, l)'
    BY <1>2, <2>1
  <2>4. Cut(Planned, Order, l)'
    BY <2>2, <2>3 DEF Cut
  <2> QED BY <1>1, <1>4, <2>4 DEF ReadingInv
<1> QED BY <1>1, <1>3, <1>4

LEMMA ReadingStep == ListsTypes /\ ReadingInv /\ [ListsNext]_listsVars => ReadingInv'
<1> SUFFICES ASSUME ListsTypes, ReadingInv, [ListsNext]_listsVars PROVE ReadingInv'
  OBVIOUS
<1>1. ASSUME UNCHANGED <<resource, table, ask, got, touched>>,
             turn' = turn \/ (turn = "asking" /\ turn' = "reading")
      PROVE  ReadingInv'
  <2>1. CASE turn \in {"asking", "reading"}
    BY <1>1, <2>1, GoesOn
  <2>2. CASE turn \notin {"asking", "reading"}
    <3>1. turn' = turn /\ Planned' = Planned /\ Order' = Order
      BY <1>1, <2>2 DEF Planned, Order, DefaultSort
    <3>2. \A F, O, B : ReadUpTo(F, O, B) => ReadUpTo(F, O, B)'
      BY <1>1, ReadStill
    <3>3. ASSUME NEW l, Cut(Planned, Order, l) PROVE Cut(Planned, Order, l)'
      <4>1. ReadUpTo(Planned, Order, UpTo(Order, l))
        BY <3>3 DEF Cut
      <4>2. \A F, O, B : F = Planned /\ O = Order /\ B = UpTo(Order, l) => ReadUpTo(F, O, B)'
        BY <3>2, <4>1
      <4>3. \A F, O : F = Planned /\ O = Order => Cut(F, O, l)'
        <5>1. TAKE F, O
        <5>2. HAVE F = Planned /\ O = Order
        <5>3. ReadUpTo(F, O, UpTo(O, l))'
          BY <4>2, <5>2
        <5>4. Cut(F, O, l)
          BY <3>3, <5>2
        <5> QED BY <1>1, <5>3, <5>4, CutStill
      <4> QED BY <3>1, <4>3 DEF Cut
    <3>4. turn = "between" => (\E l : Cut(Planned, Order, l))'
      BY <3>3 DEF ReadingInv
    <3>5. turn = "done" => (FilterFaults(Planned) = {} /\ Sortable(Order) /\ ReadUpTo(Planned, Order, Rows))'
      <4>1. \A F, O, B : F = Planned /\ O = Order /\ B = Rows /\ turn = "done" => ReadUpTo(F, O, B)'
        BY <3>2 DEF ReadingInv
      <4>2. turn = "done" => FilterFaults(Planned') = {} /\ Sortable(Order')
        BY <3>1 DEF ReadingInv
      <4>3. turn = "done" => ReadUpTo(Planned, Order, Rows)'
        BY <3>1, <4>1 DEF ReadUpTo
      <4> QED BY <4>2, <4>3 DEF Sortable
    <3> QED BY <2>2, <3>1, <3>4, <3>5 DEF ReadingInv
  <2> QED BY <2>1, <2>2
<1>2. ASSUME UNCHANGED listsVars PROVE ReadingInv'
  BY <1>1, <1>2 DEF listsVars, reader
<1>3. ASSUME turn' = "idle" PROVE ReadingInv'
  BY <1>3 DEF ReadingInv
<1>4. ASSUME turn' = "asking", ask'.cursor = NoCursor, got' = <<>> PROVE ReadingInv'
  BY <1>4 DEF ReadingInv
<1>5. ASSUME NEW request \in Bodies, Ask(request) PROVE ReadingInv'
  <2>1. request.cursor = NoCursor
    BY BodiesAre DEF ListsTypes
  <2> QED BY <1>4, <1>5, <2>1 DEF Ask
<1>6. ASSUME NEW request \in Bodies, Continue(request) PROVE ReadingInv'
  <2>1. LET e == [request EXCEPT !.cursor = ask.cursor] IN
        e.cursor = ask.cursor /\ e.archived = request.archived /\ e.under = request.under
    <3>1. IsAsk(request)
      BY BodiesAre DEF ListsTypes
    <3>2. \A c : LET e == [request EXCEPT !.cursor = c] IN
                 e.cursor = c /\ e.archived = request.archived /\ e.under = request.under
      BY <3>1, AskChanged
    <3> QED BY <3>2
  <2> QED BY <1>6, <2>1, GoesOn DEF Continue
<1>7. ASSUME Damage PROVE ReadingInv'
  <2>1. [ask EXCEPT !.cursor = Garbled].cursor = Garbled
    BY AskChanged DEF ListsTypes
  <2> QED BY <1>7, <2>1 DEF Damage, ReadingInv
<1>8. ASSUME Refused \/ RefusedLate \/ Stop PROVE ReadingInv'
  BY <1>3, <1>8 DEF Refused, RefusedLate, Stop, Over
<1>9. ASSUME Look PROVE ReadingInv'
  BY <1>1, <1>3, <1>9 DEF Look, Over
<1>10. ASSUME OutOfReach PROVE ReadingInv'
  BY <1>1, <1>10 DEF OutOfReach, reader
<1>11. ASSUME NEW c \in Configs, Save(c) PROVE ReadingInv'
  BY <1>3, <1>11 DEF Save, reader
<1>12. ASSUME OpenView PROVE ReadingInv'
  <2>1. Opened(saved).cursor = NoCursor
    BY <1>12, OpenedIs DEF OpenView, ListsTypes
  <2> QED BY <1>4, <1>12, <2>1 DEF OpenView
<1> QED BY <1>2, <1>5, <1>6, <1>7, <1>8, <1>9, <1>10, <1>11, <1>12, PageReads, Written DEF ListsNext

LEMMA StillIs ==
  ASSUME ListsTypes, FilterFaults(Planned) = {}
  PROVE  Still = Wanted(Planned)
<1>1. IsFilter(Planned) /\ \A r : Means(Planned, r) <=> Means(ask.filter, r)
  BY NormalisedIs DEF Planned, ListsTypes, IsAsk
<1>2. ASSUME NEW i \in There
      PROVE  /\ Means(ask.filter, table[i]) <=> Where(Planned, table[i]) = "true"
             /\ Listed(ask, table[i]) <=> Listed(AskOf(Planned), table[i])
  <2>1. table[i] \in Rows
    BY DEF There, ListsTypes, IsTable
  <2> QED BY <1>1, <2>1, WhereMeans, ListedPlanned
<1> QED BY <1>2 DEF Still, Wanted

\* What has been read up to the cut of the cursor is what the pages are to add up to.
LEMMA ReadsAddUp == ListsTypes /\ ReadingInv => PagesAddUp
<1> SUFFICES ASSUME ListsTypes, ReadingInv, turn \in {"between", "done"}
             PROVE  LET read == {n \in DOMAIN got : got[n] \notin touched}
                        AlsoCame(i) == \E n \in read : got[n] = i
                    IN  /\ \A n \in read : got[n] \in Still
                        /\ \A m, n \in read : m < n => Sooner(Order, table[got[m]], table[got[n]])
                        /\ \A i \in Still : turn = "done" => AlsoCame(i)
                        /\ \A i \in Still, n \in read : Sooner(Order, table[i], table[got[n]]) => AlsoCame(i)
  BY DEF PagesAddUp
<1>1. \E B : /\ FilterFaults(Planned) = {} /\ Sortable(Order)
             /\ Behind(Order, B) /\ ReadUpTo(Planned, Order, B) /\ (turn = "done" => B = Rows)
  <2>1. CASE turn = "done"
    BY <2>1, BehindIs DEF ReadingInv
  <2>2. CASE turn = "between"
    <3>1. PICK l : Cut(Planned, Order, l)
      BY <2>2 DEF ReadingInv
    <3> QED BY <2>2, <3>1, BehindIs DEF Cut
  <2> QED BY <2>1, <2>2
<1>2. PICK B : /\ FilterFaults(Planned) = {} /\ Sortable(Order)
               /\ Behind(Order, B) /\ ReadUpTo(Planned, Order, B) /\ (turn = "done" => B = Rows)
  BY <1>1
<1>3. Still = Wanted(Planned) /\ \A i \in Still : table[i] \in Rows
  BY <1>2, StillIs DEF Still, There, ListsTypes, IsTable
<1>4. \A r, s \in Rows : Sooner(Order, r, s) <=> Precedes(Order, r, s)
  BY <1>2, SoonerIs
<1>5. \A n \in DOMAIN got : got[n] \notin touched => got[n] \in Still /\ table[got[n]] \in B /\ table[got[n]] \in Rows
  BY <1>2, <1>3 DEF ReadUpTo
<1>6. \A m, n \in DOMAIN got :
        m < n /\ got[m] \notin touched /\ got[n] \notin touched => Sooner(Order, table[got[m]], table[got[n]])
  BY <1>2, <1>4, <1>5 DEF ReadUpTo
<1>7. \A i \in Still : table[i] \in B => Came(i)
  BY <1>2, <1>3 DEF ReadUpTo
<1>8. ASSUME NEW i \in Still, NEW n \in DOMAIN got, got[n] \notin touched, Sooner(Order, table[i], table[got[n]])
      PROVE  Came(i)
  <2>1. Precedes(Order, table[i], table[got[n]])
    BY <1>3, <1>4, <1>5, <1>8
  <2>2. table[i] \in B
    BY <1>2, <1>3, <1>5, <1>8, <2>1 DEF Behind
  <2> QED BY <1>7, <2>2
<1>9. ASSUME NEW i \in Still, turn = "done" PROVE Came(i)
  BY <1>2, <1>3, <1>7, <1>9
<1> QED BY <1>5, <1>6, <1>8, <1>9 DEF Came

\* The pages add up, over any table, filter, sort and page size and any writes between
\* two pages: what nothing wrote comes in the order asked for, each row once, none left
\* out, and a damaged cursor or one of another query never continues a reading.
THEOREM Pages == ListsSpec => []PagesAddUp
<1>1. ListsInit => ReadingInv
  BY DEF ListsInit, ReadingInv
<1> QED BY <1>1, ListsTypesInit, ListsTypesStep, ReadingStep, ReadsAddUp, PTL DEF ListsSpec

LEMMA SavedOpens == ListsTypes => SavedViewsOpen
<1> SUFFICES ASSUME ListsTypes, saved # NoConfig PROVE Fault(Opened(saved), DefaultSort) = "none"
  BY DEF SavedViewsOpen
<1> DEFINE q == Opened(saved)
<1>1. saved \in Configs /\ FilterFaults(Normalised(saved.filter)) = {} /\ SortFaults(saved.sort) = {}
  BY DEF ListsTypes, ConfigFaults
<1>2. q.cursor = NoCursor /\ q.limit = 0 /\ q.filter = saved.filter /\ q.sort = saved.sort
  BY <1>1, OpenedIs
<1>3. SortFaults(DefaultSort) = {}
  <2>1. "stamp" \in Names /\ KindOf["stamp"] # "uuid_set"
    BY ListsAssumption
  <2>2. \A o \in ToSet(DefaultSort) : o.field = "stamp"
    BY DEF DefaultSort, ToSet
  <2> QED BY <2>1, <2>2 DEF SortFaults
<1> HIDE DEF q
<1>4. SortFaults(SortOf(q, DefaultSort)) = {}
  BY <1>1, <1>2, <1>3 DEF SortOf
<1>5. LimitOf(q) \in 1 .. MaxLimit
  BY <1>2, FilterAssumption DEF LimitOf
<1>6. CursorFault(q, SortOf(q, DefaultSort)) = "none"
  BY <1>2 DEF CursorFault
<1>7. Fault(q, DefaultSort) = "none"
  BY <1>1, <1>2, <1>4, <1>5, <1>6 DEF Fault
<1> QED BY <1>7 DEF q

\* A view that could be saved can be opened: whatever Config.Validate accepts, the plan of
\* the ticket list accepts with the default sort and page size.
THEOREM ViewsOpen == ListsSpec => []SavedViewsOpen
<1> QED BY ListsTypesInit, ListsTypesStep, SavedOpens, PTL DEF ListsSpec
=============================================================================
