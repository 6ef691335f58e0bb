---------------------------- MODULE DocumentsProofs ----------------------------
(***************************************************************************)
(* Theorems about Documents, for any number of requests, comments, fields  *)
(* and texts: it implements Register, its search rows follow what is       *)
(* stored, a conversion takes its anchors along, and an approval stands    *)
(* over the text it was given for.  All rest on what the row locks of a    *)
(* save keep from the other requests (HoldInv, LookInv).                   *)
(***************************************************************************)
EXTENDS Documents, TLAPS, WellFoundedInduction, SequenceTheorems

Wanted(r) == IF "known" \in DOMAIN op[r] THEN op[r].known ELSE 0

RowKeys == {"life", "edits", "review", "field", "region", "status", "stale", "anchor"}
TxKeys == {"doc", "order", "movedTo", "looked", "rows", "searched", "anchor"}

\* The rows and the requests have the fields the steps look at.
ShapeInv ==
    /\ doc \in DocumentRows
    /\ fields \subseteq Fields
    /\ DOMAIN at = Requests /\ DOMAIN op = Requests /\ DOMAIN tx = Requests
    /\ DOMAIN comment = Comments
    /\ DOMAIN search = {"doc", "comments"}
    /\ \A r \in Requests : TxKeys \subseteq DOMAIN tx[r]
    /\ \A c \in Comments : RowKeys \subseteq DOMAIN comment[c]

\* What a caller may have asked.
OpTyped(o) ==
    /\ o.kind = "insert" => o.type \in {"normal", "aspect"} /\ o.body \in Bodies /\ "known" \notin DOMAIN o
    /\ o.kind = "save" => o.type \in {"normal", "aspect"} /\ o.body \in Bodies /\ doc.version > 0
    /\ o.kind \in {"save", "archive", "unarchive"} => "known" \in DOMAIN o
    /\ "known" \in DOMAIN o => o.known \in Nat

OpInv ==
    \A r \in Requests :
        /\ OpTyped(op[r])
        /\ at[r] \in {"idle", "done"} => op[r] = NoOp

Holds(r) == at[r] \in {"locked", "looked"}

\* A save that holds the document: the row is the one it locked.
Saves(o, x, d) ==
    /\ o.kind = "save"
    /\ d.live
    /\ o.known \in {0, d.version}
    /\ x.doc \in DocumentRows
    /\ x.doc.version = d.version + 1 /\ x.doc.live
    /\ x.movedTo # "" => x.order # {}

HoldInv ==
    \A r \in Requests : Holds(r) =>
        /\ \A q \in Requests \ {r} : ~Holds(q)
        /\ Saves(op[r], tx[r], doc)

\* A save that has looked: the comments it locked are as it saw them, and it
\* locked every anchor it has to move.
Saw(x, rows) ==
    /\ DOMAIN x.rows = x.looked
    /\ x.looked \subseteq Comments
    /\ \A c \in x.looked :
        /\ RowKeys \subseteq DOMAIN x.rows[c]
        /\ x.rows[c].life = "there" /\ rows[c].life = "there"
        /\ x.rows[c].edits = rows[c].edits
    /\ x.movedTo # "" =>
        \A c \in Comments : rows[c].life = "there" /\ rows[c].region # <<>> =>
            /\ c \in x.looked
            /\ rows[c].field = ContentKey => x.rows[c].field = x.movedTo

LookInv == \A r \in Requests : at[r] = "looked" => Saw(tx[r], comment)

Inv == ShapeInv /\ OpInv /\ HoldInv /\ LookInv /\ SearchFollowsDocument

\* What a save saw of a comment it looked at.
LEMMA SawRow ==
  ASSUME NEW x, NEW rows, Saw(x, rows), NEW c \in DOMAIN x.rows
  PROVE  /\ c \in x.looked /\ c \in Comments
         /\ RowKeys \subseteq DOMAIN x.rows[c]
         /\ x.rows[c].life = "there" /\ rows[c].life = "there"
         /\ x.rows[c].edits = rows[c].edits
  BY DEF Saw

\* It saw the same when only comments it did not look at changed, and none of
\* them got an anchor.
LEMMA StillSaw ==
  ASSUME NEW x, NEW rows, NEW now, Saw(x, rows),
         \A c \in x.looked : now[c] = rows[c],
         \A c \in Comments \ x.looked :
            now[c].life = "there" /\ now[c].region # <<>> => rows[c].life = "there" /\ rows[c].region # <<>>
  PROVE  Saw(x, now)
<1>1. DOMAIN x.rows = x.looked /\ x.looked \subseteq Comments
  BY DEF Saw
<1>2. \A c \in x.looked : /\ RowKeys \subseteq DOMAIN x.rows[c]
                          /\ x.rows[c].life = "there" /\ now[c].life = "there"
                          /\ x.rows[c].edits = now[c].edits
  BY DEF Saw
<1>3. ASSUME x.movedTo # "", NEW c \in Comments, now[c].life = "there", now[c].region # <<>>
      PROVE  c \in x.looked /\ (now[c].field = ContentKey => x.rows[c].field = x.movedTo)
  <2>1. CASE c \in x.looked
    BY <1>3, <2>1 DEF Saw
  <2>2. CASE c \notin x.looked
    BY <1>3, <2>2 DEF Saw
  <2>3. QED BY <2>1, <2>2
<1>4. QED BY <1>1, <1>2, <1>3 DEF Saw

-----------------------------------------------------------------------------
(* Bodies                                                                  *)

\* A body is a function from the content and the fields to texts.
LEMMA BodiesAre ==
  ASSUME NEW b \in Bodies
  PROVE  /\ DOMAIN b \subseteq Fields \cup {ContentKey}
         /\ \A k \in DOMAIN b : b[k] \in Texts
<1>1. PICK S \in SUBSET (Fields \cup {ContentKey}) : b \in [S -> Texts]
  BY DEF Bodies
<1>2. QED BY <1>1

\* And every such function is a body.
LEMMA ABody ==
  ASSUME NEW S \in SUBSET (Fields \cup {ContentKey}), NEW b \in [S -> Texts]
  PROVE  b \in Bodies
  BY DEF Bodies

\* checkBody stores a body.
LEMMA StoredIsABody ==
  ASSUME ShapeInv, NEW o, NEW ids, o.body \in Bodies, o.type \in {"normal", "aspect"}, Fits(o, ids)
  PROVE  Stored(o, ids) \in Bodies
<1>1. CASE ~Converts(o)
  BY <1>1 DEF Stored
<1>2. CASE Converts(o)
  <2> DEFINE kept == DOMAIN o.body \ {ContentKey}
             keys == kept \cup (IF Moves(o, ids) THEN {FirstOf(ids)} ELSE {})
             val(k) == IF k \in kept THEN o.body[k] ELSE CHOOSE t \in Carried(o) : TRUE
  <2>1. Stored(o, ids) = [k \in keys |-> val(k)]
    BY <1>2 DEF Stored
  <2>2. keys \subseteq Fields \cup {ContentKey}
    <3>1. DOMAIN Stored(o, ids) \subseteq fields
      BY <1>2 DEF Fits, Converts
    <3>2. DOMAIN Stored(o, ids) = keys
      BY <2>1
    <3>3. QED BY <3>1, <3>2 DEF ShapeInv
  <2>3. ASSUME NEW k \in keys PROVE val(k) \in Texts
    <3>1. CASE k \in kept
      BY <3>1, BodiesAre
    <3>2. CASE k \notin kept
      <4>1. Carried(o) # {}
        BY <2>3, <3>2 DEF Moves
      <4>2. doc.body \in Bodies
        BY DEF ShapeInv, DocumentRows
      <4>3. Carried(o) \subseteq Texts
        BY <4>2, BodiesAre DEF Carried
      <4>4. QED BY <3>2, <4>1, <4>3
    <3>3. QED BY <3>1, <3>2
  <2> HIDE DEF keys, val
  <2>4. [k \in keys |-> val(k)] \in [keys -> Texts]
    BY <2>3
  <2>5. QED BY <2>1, <2>2, <2>4, ABody
<1>3. QED BY <1>1, <1>2

-----------------------------------------------------------------------------
(* How a step moves the requests                                           *)

\* What End leaves of the requests.
LEMMA EndFacts ==
  ASSUME ShapeInv, NEW r \in Requests, End(r)
  PROVE  /\ DOMAIN at' = Requests /\ DOMAIN op' = Requests /\ DOMAIN tx' = Requests
         /\ \A q \in Requests : TxKeys \subseteq DOMAIN tx'[q]
         /\ at'[r] = "done" /\ op'[r] = NoOp
         /\ \A q \in Requests \ {r} : at'[q] = at[q] /\ op'[q] = op[q] /\ tx'[q] = tx[q]
<1>1. DOMAIN at' = Requests /\ at'[r] = "done" /\ \A q \in Requests \ {r} : at'[q] = at[q]
  BY DEF End, ShapeInv
<1>2. DOMAIN op' = Requests /\ op'[r] = NoOp /\ \A q \in Requests \ {r} : op'[q] = op[q]
  BY DEF End, ShapeInv
<1>3. DOMAIN tx' = Requests /\ tx'[r] = NoTx /\ \A q \in Requests \ {r} : tx'[q] = tx[q]
  BY DEF End, ShapeInv
<1>4. TxKeys \subseteq DOMAIN NoTx
  BY DEF TxKeys, NoTx
<1>5. \A q \in Requests : TxKeys \subseteq DOMAIN tx'[q]
  BY <1>3, <1>4 DEF ShapeInv
<1>6. QED BY <1>1, <1>2, <1>3, <1>5

\* NoOp asks for nothing.
LEMMA NoOpIsTyped == OpTyped(NoOp)' /\ OpTyped(NoOp)
  BY DEF OpTyped, NoOp

\* The requests stay well formed when one of them ends.
LEMMA EndKeepsOps ==
  ASSUME Inv, NEW r \in Requests, End(r), doc' \in DocumentRows, doc.version > 0 => doc'.version > 0
  PROVE  OpInv'
<1> SUFFICES ASSUME NEW q \in Requests
             PROVE  OpTyped(op[q])' /\ (at'[q] \in {"idle", "done"} => op'[q] = NoOp)
  BY DEF OpInv
<1>1. CASE q = r
  BY <1>1, EndFacts, NoOpIsTyped DEF Inv, OpTyped
<1>2. CASE q # r
  BY <1>2, EndFacts DEF Inv, OpInv, OpTyped
<1>3. QED BY <1>1, <1>2

\* A request that ends and leaves the document alone keeps every hold.
LEMMA EndKeepsHolds ==
  ASSUME Inv, NEW r \in Requests, End(r), doc' = doc
  PROVE  HoldInv'
<1>1. \A p \in Requests : Holds(p)' => p # r /\ Holds(p) /\ op'[p] = op[p] /\ tx'[p] = tx[p]
  BY EndFacts DEF Holds, Inv
<1>2. QED BY <1>1 DEF Inv, HoldInv

\* When nobody holds the document, nobody has looked.
LEMMA NobodyHolds ==
  ASSUME Inv, NEW r \in Requests, End(r), at[r] \notin {"locked", "looked"} => DocFree(r)
  PROVE  HoldInv' /\ LookInv'
<1>1. \A q \in Requests : ~Holds(q)'
  BY EndFacts DEF Inv, HoldInv, Holds, DocFree
<1>2. QED BY <1>1 DEF HoldInv, LookInv, Holds

\* A save that has looked keeps what it saw, when no other request touches
\* the comments.
LEMMA EndKeepsLooks ==
  ASSUME Inv, NEW r \in Requests, End(r), doc' = doc, comment' = comment
  PROVE  LookInv'
<1>1. \A p \in Requests : at'[p] = "looked" => at[p] = "looked" /\ tx'[p] = tx[p]
  BY EndFacts DEF Inv
<1>2. QED BY <1>1 DEF Inv, LookInv

\* A refusal.
LEMMA RefuseKeeps ==
  ASSUME Inv, NEW r \in Requests, Refuse(r)
  PROVE  Inv'
<1>1. End(r) /\ UNCHANGED <<doc, fields, comment, search>>
  BY DEF Refuse
<1>2. doc \in DocumentRows
  BY DEF Inv, ShapeInv
<1>3. OpInv'
  BY <1>1, <1>2, EndKeepsOps
<1>4. HoldInv' /\ LookInv'
  BY <1>1, EndKeepsHolds, EndKeepsLooks
<1>5. ShapeInv'
  BY <1>1, EndFacts DEF Inv, ShapeInv
<1>6. SearchFollowsDocument'
  BY <1>1 DEF Inv, SearchFollowsDocument, There
<1>7. QED BY <1>3, <1>4, <1>5, <1>6 DEF Inv

\* A caller's choice.
LEMMA AskKeeps ==
  ASSUME Inv, NEW r \in Requests, NEW o, OpTyped(o), Begin(r, o), Rest
  PROVE  Inv'
<1>1. /\ DOMAIN at' = Requests /\ DOMAIN op' = Requests
      /\ at[r] = "idle" /\ at'[r] = "asked" /\ op'[r] = o
      /\ \A q \in Requests \ {r} : at'[q] = at[q] /\ op'[q] = op[q]
  BY DEF Begin, Go, Inv, ShapeInv
<1>2. UNCHANGED <<doc, fields, comment, search, tx>>
  BY DEF Rest
<1>3. ShapeInv'
  BY <1>1, <1>2 DEF Inv, ShapeInv
<1>4. OpInv'
  BY <1>1, <1>2 DEF Inv, OpInv, OpTyped
<1>5. \A p \in Requests : (Holds(p)' <=> Holds(p)) /\ (Holds(p) => op'[p] = op[p])
  BY <1>1 DEF Holds
<1>6. HoldInv'
  BY <1>2, <1>5 DEF Inv, HoldInv
<1>7. LookInv'
  BY <1>1, <1>2 DEF Inv, LookInv
<1>8. SearchFollowsDocument'
  BY <1>2 DEF Inv, SearchFollowsDocument, There
<1>9. QED BY <1>3, <1>4, <1>6, <1>7, <1>8 DEF Inv

\* A request for a review reads on: nothing but where it stands, and the text
\* it keeps as its anchor.
LEMMA ReadOnKeeps ==
  ASSUME Inv, NEW r \in Requests, NEW from, NEW to, Go(r, from, to),
         from \in {"asked", "aimed"}, to \in {"aimed", "read"},
         UNCHANGED <<doc, fields, comment, search, op>>,
         DOMAIN tx' = Requests, TxKeys \subseteq DOMAIN tx'[r],
         \A q \in Requests \ {r} : tx'[q] = tx[q]
  PROVE  Inv'
<1>1. DOMAIN at' = Requests /\ at[r] = from /\ at'[r] = to /\ \A q \in Requests \ {r} : at'[q] = at[q]
  BY DEF Go, Inv, ShapeInv
<1>2. ShapeInv'
  BY <1>1 DEF Inv, ShapeInv
<1>3. OpInv'
  BY <1>1 DEF Inv, OpInv, OpTyped
<1>4. \A p \in Requests : (Holds(p)' <=> Holds(p)) /\ (Holds(p) => tx'[p] = tx[p])
  BY <1>1 DEF Holds
<1>5. HoldInv'
  BY <1>4 DEF Inv, HoldInv
<1>6. \A p \in Requests : at'[p] = "looked" => at[p] = "looked" /\ tx'[p] = tx[p]
  BY <1>1
<1>7. LookInv'
  BY <1>6 DEF Inv, LookInv
<1>8. SearchFollowsDocument'
  BY DEF Inv, SearchFollowsDocument, There
<1>9. QED BY <1>2, <1>3, <1>5, <1>7, <1>8 DEF Inv

-----------------------------------------------------------------------------
(* The writes of the document                                              *)

\* The search rows of a document written as d.
LEMMA Reindexed ==
  ASSUME Inv, NEW d
  PROVE  /\ DOMAIN ClearDocument(search) = {"doc", "comments"}
         /\ ClearDocument(search).doc = {} /\ ClearDocument(search).comments = search.comments
         /\ DOMAIN IndexDocument(ClearDocument(search), d) = {"doc", "comments"}
         /\ IndexDocument(ClearDocument(search), d).doc = RowsOf(d.body)
         /\ IndexDocument(ClearDocument(search), d).comments = search.comments
<1>1. /\ DOMAIN ClearDocument(search) = {"doc", "comments"}
      /\ ClearDocument(search).doc = {} /\ ClearDocument(search).comments = search.comments
  BY DEF ClearDocument, Inv, ShapeInv
<1>2. QED BY <1>1 DEF IndexDocument

\* A write of the document by a request that holds it, or while nobody does.
LEMMA WriteKeeps ==
  ASSUME Inv, NEW r \in Requests, End(r), at[r] \notin {"locked", "looked"} => DocFree(r),
         doc' \in DocumentRows, doc'.version = doc.version + 1,
         search' = IF doc'.live THEN IndexDocument(ClearDocument(search), doc') ELSE ClearDocument(search),
         UNCHANGED fields, DOMAIN comment' = Comments,
         \A c \in Comments : /\ RowKeys \subseteq DOMAIN comment'[c]
                             /\ comment'[c].life = comment[c].life
                             /\ comment'[c].edits = comment[c].edits
  PROVE  Inv'
<1>1. doc.version \in Nat /\ doc'.version > 0
  BY DEF Inv, ShapeInv, DocumentRows
<1>2. OpInv'
  BY <1>1, EndKeepsOps
<1>3. HoldInv' /\ LookInv'
  BY NobodyHolds
<1>4. DOMAIN search' = {"doc", "comments"} /\ search'.comments = search.comments
      /\ search'.doc = IF doc'.live THEN RowsOf(doc'.body) ELSE {}
  BY Reindexed
<1>5. ShapeInv'
  BY <1>4, EndFacts DEF Inv, ShapeInv
<1>6. There' = There
  BY DEF There
<1>7. \A c \in There : comment'[c].edits = comment[c].edits
  BY DEF There
<1>8. search'.comments = {<<c, comment'[c].edits>> : c \in There'}
  BY <1>4, <1>6, <1>7 DEF Inv, SearchFollowsDocument
<1>9. SearchFollowsDocument'
  BY <1>1, <1>4, <1>8 DEF SearchFollowsDocument
<1>10. QED BY <1>2, <1>3, <1>5, <1>9 DEF Inv

\* An archived row is a row.
LEMMA ArchivedRow ==
  ASSUME NEW d \in DocumentRows, NEW n \in Nat, NEW l \in BOOLEAN
  PROVE  LET new == [d EXCEPT !.live = l, !.version = n]
         IN  new \in DocumentRows /\ new.version = n /\ new.live = l
<1> DEFINE new == [d EXCEPT !.live = l, !.version = n]
<1>1. new \in DocumentRows
  BY DEF DocumentRows
<1>2. new.version = n
  BY DEF DocumentRows
<1>3. new.live = l
  BY DEF DocumentRows
<1>4. QED BY <1>1, <1>2, <1>3

\* And so is an edited one.
EditedTo(d, t, b, n) == [d EXCEPT !.type = t, !.body = b, !.version = n]

LEMMA EditedRow ==
  ASSUME NEW d \in DocumentRows, NEW n \in Nat, NEW t \in {"normal", "aspect"}, NEW b \in Bodies
  PROVE  EditedTo(d, t, b, n) \in DocumentRows /\ EditedTo(d, t, b, n).version = n /\ EditedTo(d, t, b, n).live = d.live
<1>1. EditedTo(d, t, b, n) \in DocumentRows
  BY DEF DocumentRows, EditedTo
<1>2. EditedTo(d, t, b, n).version = n
  BY DEF DocumentRows, EditedTo
<1>3. EditedTo(d, t, b, n).live = d.live
  BY DEF DocumentRows, EditedTo
<1>4. QED BY <1>1, <1>2, <1>3

\* A new document.
LEMMA InsertKeeps ==
  ASSUME Inv, NEW r \in Requests, Insert(r)
  PROVE  Inv' /\ doc' \in DocumentRows /\ doc'.version = doc.version + 1
<1>1. op[r].type \in {"normal", "aspect"} /\ op[r].body \in Bodies
  BY DEF Insert, Inv, OpInv, OpTyped
<1>2. Stored(op[r], FieldIDs) \in Bodies
  BY <1>1, StoredIsABody DEF Insert, Inv
<1>3. doc' = [live |-> TRUE, type |-> op[r].type, body |-> Stored(op[r], FieldIDs), version |-> 1] /\ doc.version = 0
  BY DEF Insert
<1>4. doc' \in DocumentRows /\ doc'.version = doc.version + 1 /\ doc'.live
  BY <1>1, <1>2, <1>3 DEF DocumentRows
<1>5. DocFree(r)
  <2> SUFFICES ASSUME NEW q \in Requests \ {r}, Holds(q) PROVE FALSE
    BY DEF DocFree, Holds
  <2>1. op[q].kind = "save" /\ OpTyped(op[q])
    BY DEF Inv, HoldInv, Saves, OpInv
  <2>2. QED BY <2>1, <1>3 DEF OpTyped
<1>6. End(r) /\ UNCHANGED <<fields, comment>> /\ search' = IndexDocument(ClearDocument(search), doc')
  BY DEF Insert
<1>7. Inv'
  BY <1>4, <1>5, <1>6, WriteKeeps DEF Inv, ShapeInv
<1>8. QED BY <1>4, <1>7

\* A document archived, or brought back.
LEMMA SetArchivedKeeps ==
  ASSUME Inv, NEW r \in Requests, SetArchived(r)
  PROVE  Inv' /\ doc' \in DocumentRows /\ doc'.version = doc.version + 1
<1> DEFINE archive == op[r].kind = "archive"
<1>1. /\ DocFree(r) /\ End(r) /\ UNCHANGED <<fields, comment>>
      /\ doc' = [doc EXCEPT !.live = ~archive, !.version = @ + 1]
      /\ search' = IF archive THEN ClearDocument(search) ELSE IndexDocument(ClearDocument(search), doc')
  BY DEF SetArchived
<1>2. archive \in BOOLEAN
  OBVIOUS
<1> HIDE DEF archive
<1>3. doc \in DocumentRows
  BY DEF Inv, ShapeInv
<1>4. doc' \in DocumentRows /\ doc'.version = doc.version + 1 /\ doc'.live = ~archive
  <2> DEFINE n == doc.version + 1
  <2>1. n \in Nat
    BY <1>3 DEF DocumentRows
  <2>2. doc' = [doc EXCEPT !.live = ~archive, !.version = n]
    BY <1>1
  <2> HIDE DEF n
  <2>3. CASE archive
    <3>1. doc' = [doc EXCEPT !.live = FALSE, !.version = n]
      BY <2>2, <2>3, Zenon
    <3>2. doc' \in DocumentRows /\ doc'.version = n /\ doc'.live = FALSE
      BY <1>3, <2>1, <3>1, ArchivedRow, Zenon
    <3>3. QED BY <2>3, <3>2 DEF n
  <2>4. CASE ~archive
    <3>1. doc' = [doc EXCEPT !.live = TRUE, !.version = n]
      BY <2>2, <2>4, Zenon
    <3>2. doc' \in DocumentRows /\ doc'.version = n /\ doc'.live = TRUE
      BY <1>3, <2>1, <3>1, ArchivedRow, Zenon
    <3>3. QED BY <2>4, <3>2 DEF n
  <2>5. QED BY <2>3, <2>4
<1>5. search' = IF doc'.live THEN IndexDocument(ClearDocument(search), doc') ELSE ClearDocument(search)
  BY <1>1, <1>2, <1>4
<1>6. Inv'
  BY <1>1, <1>4, <1>5, WriteKeeps DEF Inv, ShapeInv
<1>7. QED BY <1>4, <1>6

\* A save takes the row of the document.
LEMMA SaveLockKeeps ==
  ASSUME Inv, NEW r \in Requests, SaveLock(r)
  PROVE  Inv'
<1> DEFINE o == op[r]
           new == [doc EXCEPT !.type = o.type, !.body = Stored(o, FieldIDs), !.version = @ + 1]
           x == tx'[r]
<1>1. /\ o.kind = "save" /\ DocFree(r) /\ Accepts(o, TRUE) /\ Fits(o, FieldIDs)
      /\ Go(r, "asked", "locked")
      /\ UNCHANGED <<doc, fields, comment, search, op, approval>>
      /\ tx' = [tx EXCEPT ![r].doc = new,
                          ![r].order = IF Converts(o) THEN FieldIDs ELSE {},
                          ![r].movedTo = IF Moves(o, FieldIDs) THEN FirstOf(FieldIDs) ELSE ""]
  BY DEF SaveLock
<1>2. DOMAIN at' = Requests /\ at[r] = "asked" /\ at'[r] = "locked" /\ \A q \in Requests \ {r} : at'[q] = at[q]
  BY <1>1 DEF Go, Inv, ShapeInv
<1>3. o.type \in {"normal", "aspect"} /\ o.body \in Bodies /\ "known" \in DOMAIN o /\ o.known \in Nat
  BY <1>1 DEF Inv, OpInv, OpTyped
<1>4. Stored(o, FieldIDs) \in Bodies
  BY <1>1, <1>3, StoredIsABody DEF Inv
<1>5. new \in DocumentRows /\ new.version = doc.version + 1 /\ new.live = doc.live
  <2>1. doc.version + 1 \in Nat /\ doc \in DocumentRows
    BY DEF Inv, ShapeInv, DocumentRows
  <2>2. new = EditedTo(doc, o.type, Stored(o, FieldIDs), doc.version + 1)
    BY DEF EditedTo
  <2>3. o.type \in {"normal", "aspect"} /\ Stored(o, FieldIDs) \in Bodies
    BY <1>3, <1>4
  <2> HIDE DEF new, o
  <2>4. \A t \in {"normal", "aspect"}, b \in Bodies :
            LET e == EditedTo(doc, t, b, doc.version + 1)
            IN  e \in DocumentRows /\ e.version = doc.version + 1 /\ e.live = doc.live
    BY <2>1, EditedRow
  <2>5. QED BY <2>2, <2>3, <2>4, ZenonT(60)
<1>6. DOMAIN tx' = Requests /\ \A q \in Requests \ {r} : tx'[q] = tx[q]
  BY <1>1 DEF Inv, ShapeInv
<1>7. TxKeys \subseteq DOMAIN x /\ x.doc = new /\ (x.movedTo # "" => x.order # {})
  <2>1. Moves(o, FieldIDs) => Converts(o) /\ FieldIDs # {}
    BY DEF Moves
  <2> HIDE DEF o, new
  <2>2. TxKeys \subseteq DOMAIN tx[r]
    BY DEF Inv, ShapeInv
  <2>3. QED BY <1>1, <2>1, <2>2 DEF Inv, ShapeInv, TxKeys
<1>8. Saves(o, x, doc)
  <2>1. doc.live /\ o.known \in {0, doc.version}
    BY <1>1 DEF Accepts, Inv, ShapeInv, DocumentRows
  <2> HIDE DEF new, x
  <2>2. QED BY <1>1, <1>5, <1>7, <2>1 DEF Saves
<1> HIDE DEF new
<1>9. ShapeInv'
  BY <1>1, <1>2, <1>6, <1>7 DEF Inv, ShapeInv
<1>10. OpInv'
  BY <1>1, <1>2 DEF Inv, OpInv, OpTyped
<1>11. \A q \in Requests \ {r} : ~Holds(q)'
  BY <1>1, <1>2 DEF DocFree, Holds
<1>12. HoldInv'
  BY <1>1, <1>8, <1>11 DEF HoldInv
<1>13. LookInv'
  BY <1>2, <1>11 DEF LookInv, Holds
<1>14. SearchFollowsDocument'
  BY <1>1 DEF Inv, SearchFollowsDocument, There
<1>15. QED BY <1>9, <1>10, <1>12, <1>13, <1>14 DEF Inv

\* What a save makes of a comment it looks at: the same comment, and with the
\* text when the text moves.
LEMMA JudgedRow ==
  ASSUME NEW r \in Requests, NEW row, RowKeys \subseteq DOMAIN row
  PROVE  /\ RowKeys \subseteq DOMAIN Judged(r, row)
         /\ Judged(r, row).life = row.life /\ Judged(r, row).edits = row.edits
         /\ tx[r].order # {} /\ tx[r].movedTo # "" /\ row.region # <<>> /\ row.field = ContentKey =>
                Judged(r, row).field = tx[r].movedTo
<1> DEFINE new == Follows(r, row)
           Same(x) == RowKeys \subseteq DOMAIN x /\ x.life = row.life /\ x.edits = row.edits
<1>1. Same(Reanchored(r, row))
  <2>1. CASE tx[r].movedTo # ""
    BY <2>1 DEF Reanchored, RowKeys
  <2>2. CASE tx[r].movedTo = "" /\ (row.anchor = <<>> \/ Hits(r, row) = {})
    BY <2>2 DEF Reanchored
  <2>3. CASE tx[r].movedTo = "" /\ ~(row.anchor = <<>> \/ Hits(r, row) = {})
    <3>1. PICK f, g : Reanchored(r, row) = [row EXCEPT !.field = f, !.region = g]
      BY <2>3 DEF Reanchored
    <3>2. QED BY <3>1 DEF RowKeys
  <2>4. QED BY <2>1, <2>2, <2>3
<1>2. Same(new)
  BY <1>1 DEF Follows
<1>3. tx[r].order # {} /\ tx[r].movedTo # "" /\ row.region # <<>> /\ row.field = ContentKey =>
        new.field = tx[r].movedTo
  BY DEF Follows, Reanchored, RowKeys
<1> HIDE DEF new
<1>4. Judged(r, row) \in {new, [new EXCEPT !.status = "pending", !.stale = TRUE]}
  BY DEF Judged, new
<1>5. QED BY <1>2, <1>3, <1>4 DEF RowKeys

\* A save looks at the review requests.
LEMMA SaveLookKeeps ==
  ASSUME Inv, NEW r \in Requests, SaveLook(r)
  PROVE  Inv'
<1> DEFINE S == Selected(r)
           x == tx'[r]
<1>1. /\ Go(r, "locked", "looked")
      /\ UNCHANGED <<doc, fields, comment, search, op>>
      /\ tx' = [tx EXCEPT ![r].looked = S,
                          ![r].rows = [c \in S |-> Judged(r, comment[c])],
                          ![r].searched = {c \in S : BySearch(r, comment[c])}]
  BY DEF SaveLook
<1>2. DOMAIN at' = Requests /\ at[r] = "locked" /\ at'[r] = "looked" /\ \A q \in Requests \ {r} : at'[q] = at[q]
  BY <1>1 DEF Go, Inv, ShapeInv
<1>3. DOMAIN tx' = Requests /\ \A q \in Requests \ {r} : tx'[q] = tx[q]
  BY <1>1 DEF Inv, ShapeInv
<1>4. Saves(op[r], tx[r], doc) /\ \A q \in Requests \ {r} : ~Holds(q)
  BY <1>2 DEF Inv, HoldInv, Holds
<1>5. S \subseteq Comments /\ \A c \in S : comment[c].life = "there"
  BY DEF Selected, There
<1>6. \A c \in Comments : comment[c].life = "there" /\ comment[c].region # <<>> /\ tx[r].order # {} => c \in S
  BY DEF Selected, There
<1> HIDE DEF S
<1>7. /\ TxKeys \subseteq DOMAIN x
      /\ x.doc = tx[r].doc /\ x.order = tx[r].order /\ x.movedTo = tx[r].movedTo
      /\ x.looked = S /\ x.rows = [c \in S |-> Judged(r, comment[c])]
  <2>1. TxKeys \subseteq DOMAIN tx[r]
    BY DEF Inv, ShapeInv
  <2>2. QED BY <1>1, <2>1 DEF Inv, ShapeInv, TxKeys
<1> HIDE DEF x
<1>8. \A c \in Comments : RowKeys \subseteq DOMAIN comment[c]
  BY DEF Inv, ShapeInv
<1>9. Saw(x, comment)
  <2>1. ASSUME NEW c \in S
        PROVE  /\ RowKeys \subseteq DOMAIN x.rows[c]
               /\ x.rows[c].life = comment[c].life /\ x.rows[c].edits = comment[c].edits
               /\ tx[r].order # {} /\ tx[r].movedTo # "" /\ comment[c].region # <<>> /\ comment[c].field = ContentKey =>
                    x.rows[c].field = tx[r].movedTo
    <3>1. RowKeys \subseteq DOMAIN comment[c]
      BY <1>5, <1>8
    <3>2. x.rows[c] = Judged(r, comment[c])
      BY <1>7
    <3>3. /\ RowKeys \subseteq DOMAIN Judged(r, comment[c])
          /\ Judged(r, comment[c]).life = comment[c].life /\ Judged(r, comment[c]).edits = comment[c].edits
          /\ tx[r].order # {} /\ tx[r].movedTo # "" /\ comment[c].region # <<>> /\ comment[c].field = ContentKey =>
                Judged(r, comment[c]).field = tx[r].movedTo
      BY <3>1, JudgedRow, ZenonT(60)
    <3>4. QED BY <3>2, <3>3, ZenonT(60)
  <2>2. x.movedTo # "" => tx[r].order # {} /\ tx[r].movedTo # ""
    BY <1>4, <1>7 DEF Saves
  <2>3. QED BY <1>5, <1>6, <1>7, <2>1, <2>2 DEF Saw
<1>10. Saves(op[r], x, doc)
  BY <1>4, <1>7 DEF Saves
<1>11. ShapeInv'
  BY <1>1, <1>2, <1>3, <1>7 DEF Inv, ShapeInv, x
<1>12. OpInv'
  BY <1>1, <1>2 DEF Inv, OpInv, OpTyped
<1>13. \A q \in Requests \ {r} : ~Holds(q)'
  BY <1>2, <1>4 DEF Holds
<1>14. HoldInv'
  BY <1>1, <1>10, <1>13 DEF HoldInv, x
<1>15. LookInv'
  BY <1>1, <1>9, <1>13 DEF LookInv, Holds, x
<1>16. SearchFollowsDocument'
  BY <1>1 DEF Inv, SearchFollowsDocument, There
<1>17. QED BY <1>11, <1>12, <1>14, <1>15, <1>16 DEF Inv

\* A save commits the row it locked and the comments it looked at.
LEMMA SaveCommitKeeps ==
  ASSUME Inv, NEW r \in Requests, SaveCommit(r)
  PROVE  Inv' /\ doc' \in DocumentRows /\ doc'.version = doc.version + 1
<1>1. /\ at[r] = "looked" /\ doc' = tx[r].doc /\ End(r) /\ UNCHANGED fields
      /\ comment' = [c \in Comments |-> IF c \in DOMAIN tx[r].rows THEN tx[r].rows[c] ELSE comment[c]]
      /\ search' = IndexDocument(ClearDocument(search), doc')
  BY DEF SaveCommit
<1>2. Saves(op[r], tx[r], doc) /\ Saw(tx[r], comment)
  BY <1>1 DEF Inv, HoldInv, LookInv, Holds
<1>3. doc' \in DocumentRows /\ doc'.version = doc.version + 1 /\ doc'.live
  BY <1>1, <1>2 DEF Saves
<1>4. \A c \in Comments : /\ RowKeys \subseteq DOMAIN comment'[c]
                          /\ comment'[c].life = comment[c].life
                          /\ comment'[c].edits = comment[c].edits
  <2> SUFFICES ASSUME NEW c \in Comments
               PROVE  RowKeys \subseteq DOMAIN comment'[c] /\ comment'[c].life = comment[c].life /\ comment'[c].edits = comment[c].edits
    OBVIOUS
  <2>1. CASE c \in DOMAIN tx[r].rows
    <3> DEFINE x == tx[r]
    <3>1. comment'[c] = x.rows[c] /\ c \in DOMAIN x.rows /\ Saw(x, comment)
      BY <1>1, <1>2, <2>1
    <3> HIDE DEF x
    <3>2. RowKeys \subseteq DOMAIN x.rows[c] /\ x.rows[c].life = comment[c].life /\ x.rows[c].edits = comment[c].edits
      BY <3>1, SawRow
    <3>3. QED BY <3>1, <3>2
  <2>2. CASE c \notin DOMAIN tx[r].rows
    <3>1. comment'[c] = comment[c]
      BY <1>1, <2>2
    <3>2. QED BY <3>1 DEF Inv, ShapeInv
  <2>3. QED BY <2>1, <2>2
<1>5. Inv'
  BY <1>1, <1>3, <1>4, WriteKeeps
<1>6. QED BY <1>3, <1>5

-----------------------------------------------------------------------------
(* Comments and review requests                                            *)

\* A write of comments no save has looked at.
LEMMA CommentsKeep ==
  ASSUME Inv, NEW r \in Requests, End(r), at[r] \notin {"locked", "looked"},
         doc' = doc, fields' \subseteq fields,
         DOMAIN comment' = Comments,
         \A c \in Comments :
            /\ RowKeys \subseteq DOMAIN comment'[c]
            /\ comment'[c] # comment[c] => CommentFree(r, c)
            /\ comment'[c].life = "there" => comment[c].life = "there" /\ comment'[c].region = comment[c].region,
         DOMAIN search' = {"doc", "comments"}, search'.doc = search.doc,
         search'.comments = {<<c, comment'[c].edits>> : c \in There'}
  PROVE  Inv'
<1>1. OpInv'
  BY EndKeepsOps DEF Inv, ShapeInv
<1>2. HoldInv'
  BY EndKeepsHolds
<1>3. ASSUME NEW q \in Requests, at'[q] = "looked" PROVE Saw(tx'[q], comment')
  <2>1. q # r /\ at[q] = "looked" /\ tx'[q] = tx[q]
    BY <1>3, EndFacts DEF Inv
  <2>2. Saw(tx[q], comment)
    BY <2>1 DEF Inv, LookInv
  <2>3. \A c \in tx[q].looked : comment'[c] = comment[c]
    BY <2>1, <2>2 DEF CommentFree, Saw
  <2>4. \A c \in Comments \ tx[q].looked :
            comment'[c].life = "there" /\ comment'[c].region # <<>> =>
                comment[c].life = "there" /\ comment[c].region # <<>>
    OBVIOUS
  <2>5. Saw(tx[q], comment')
    BY <2>2, <2>3, <2>4, StillSaw
  <2>6. QED BY <2>1, <2>5
<1>4. LookInv'
  BY <1>3 DEF LookInv
<1>5. ShapeInv'
  BY EndFacts DEF Inv, ShapeInv
<1>6. SearchFollowsDocument'
  BY DEF Inv, SearchFollowsDocument
<1>7. QED BY <1>1, <1>2, <1>4, <1>5, <1>6 DEF Inv

\* The search row of a comment replaced.
LEMMA CommentReindexed ==
  ASSUME Inv, NEW c \in Comments, NEW row
  PROVE  /\ ClearComment(search, c) = [search EXCEPT !.comments = {<<d, comment[d].edits>> : d \in There \ {c}}]
         /\ DOMAIN ClearComment(search, c) = {"doc", "comments"}
         /\ ClearComment(search, c).doc = search.doc
         /\ ClearComment(search, c).comments = {<<d, comment[d].edits>> : d \in There \ {c}}
         /\ DOMAIN IndexComment(ClearComment(search, c), c, row) = {"doc", "comments"}
         /\ IndexComment(ClearComment(search, c), c, row).doc = search.doc
         /\ IndexComment(ClearComment(search, c), c, row).comments
                = {<<d, comment[d].edits>> : d \in There \ {c}} \cup {<<c, row.edits>>}
         /\ DOMAIN IndexComment(search, c, row) = {"doc", "comments"}
         /\ IndexComment(search, c, row).doc = search.doc
         /\ IndexComment(search, c, row).comments = search.comments \cup {<<c, row.edits>>}
<1>1. DOMAIN search = {"doc", "comments"} /\ search.comments = {<<d, comment[d].edits>> : d \in There}
  BY DEF Inv, ShapeInv, SearchFollowsDocument
<1>2. {p \in search.comments : p[1] # c} = {<<d, comment[d].edits>> : d \in There \ {c}}
  BY <1>1
<1>3. ClearComment(search, c) = [search EXCEPT !.comments = {<<d, comment[d].edits>> : d \in There \ {c}}]
  BY <1>2 DEF ClearComment
<1>4. /\ DOMAIN ClearComment(search, c) = {"doc", "comments"}
      /\ ClearComment(search, c).doc = search.doc
      /\ ClearComment(search, c).comments = {<<d, comment[d].edits>> : d \in There \ {c}}
  BY <1>1, <1>3
<1>5. QED BY <1>1, <1>3, <1>4 DEF IndexComment

\* A new comment waits for the save that holds the document.
LEMMA InsertCommentKeeps ==
  ASSUME Inv, NEW r \in Requests, InsertComment(r)
  PROVE  Inv'
<1> DEFINE new == [Unborn EXCEPT !.life = "there", !.review = op[r].kind = "review", !.field = op[r].field,
                                !.region = op[r].region, !.status = IF op[r].kind = "review" THEN "pending" ELSE "none",
                                !.anchor = tx[r].anchor, !.key = op[r].key]
<1>1. DocFree(r) /\ End(r) /\ UNCHANGED <<doc, fields>>
  BY DEF InsertComment
<1>2. PICK c \in Comments : /\ comment[c].life = "unborn"
                            /\ comment' = [comment EXCEPT ![c] = new]
                            /\ search' = IndexComment(search, c, new)
  BY DEF InsertComment
<1>3. RowKeys \subseteq DOMAIN new /\ new.life = "there"
  BY DEF Unborn, RowKeys
<1> HIDE DEF new
<1>4. OpInv'
  BY <1>1, EndKeepsOps DEF Inv, ShapeInv
<1>5. HoldInv' /\ LookInv'
  BY <1>1, NobodyHolds
<1>6. DOMAIN search' = {"doc", "comments"} /\ search'.doc = search.doc
      /\ search'.comments = search.comments \cup {<<c, new.edits>>}
  BY <1>2, CommentReindexed
<1>7. DOMAIN comment' = Comments /\ comment'[c] = new /\ \A d \in Comments \ {c} : comment'[d] = comment[d]
  BY <1>2 DEF Inv, ShapeInv
<1>8. ShapeInv'
  BY <1>1, <1>3, <1>6, <1>7, EndFacts DEF Inv, ShapeInv
<1>9. There' = There \cup {c} /\ c \notin There
  BY <1>2, <1>3, <1>7 DEF There
<1>10. search'.comments = {<<d, comment'[d].edits>> : d \in There'}
  <2>1. search.comments = {<<d, comment[d].edits>> : d \in There}
    BY DEF Inv, SearchFollowsDocument
  <2>2. \A d \in There : comment'[d].edits = comment[d].edits
    BY <1>7, <1>9 DEF There
  <2>3. comment'[c].edits = new.edits
    BY <1>7
  <2>4. QED BY <1>6, <1>9, <2>1, <2>2, <2>3
<1>11. SearchFollowsDocument'
  BY <1>1, <1>6, <1>10 DEF Inv, SearchFollowsDocument
<1>12. QED BY <1>4, <1>5, <1>8, <1>11 DEF Inv

\* A decision.
LEMMA DecideKeeps ==
  ASSUME Inv, NEW r \in Requests, Decide(r)
  PROVE  Inv'
<1> DEFINE c == op[r].id
<1>1. /\ at[r] = "asked" /\ CommentFree(r, c) /\ c \in There
      /\ End(r) /\ UNCHANGED <<doc, fields, search>>
  BY DEF Decide, Reaches
<1>2. PICK s, b : comment' = [comment EXCEPT ![c].status = s, ![c].stale = b]
  BY DEF Decide
<1> HIDE DEF c
<1>3. c \in Comments
  BY <1>1 DEF There
<1>4. /\ DOMAIN comment' = Comments /\ \A d \in Comments \ {c} : comment'[d] = comment[d]
      /\ comment'[c] = [comment[c] EXCEPT !.status = s, !.stale = b]
  BY <1>2, <1>3 DEF Inv, ShapeInv
<1>5. RowKeys \subseteq DOMAIN comment[c]
  BY <1>3 DEF Inv, ShapeInv
<1>6. /\ RowKeys \subseteq DOMAIN comment'[c]
      /\ comment'[c].life = comment[c].life /\ comment'[c].edits = comment[c].edits
      /\ comment'[c].region = comment[c].region
  BY <1>4, <1>5 DEF RowKeys
<1>7. There' = There /\ \A d \in There : comment'[d].edits = comment[d].edits
  BY <1>4, <1>6 DEF There
<1>8. search'.comments = {<<d, comment'[d].edits>> : d \in There'}
  BY <1>1, <1>7 DEF Inv, SearchFollowsDocument
<1>9. \A d \in Comments :
        /\ RowKeys \subseteq DOMAIN comment'[d]
        /\ comment'[d] # comment[d] => CommentFree(r, d)
        /\ comment'[d].life = "there" => comment[d].life = "there" /\ comment'[d].region = comment[d].region
  BY <1>1, <1>4, <1>6 DEF Inv, ShapeInv
<1>10. DOMAIN search' = {"doc", "comments"} /\ search'.doc = search.doc /\ fields' \subseteq fields
  BY <1>1 DEF Inv, ShapeInv
<1>11. QED BY <1>1, <1>4, <1>8, <1>9, <1>10, CommentsKeep

\* A comment edited or deleted takes its search row with it.
LEMMA EditKeeps ==
  ASSUME Inv, NEW r \in Requests, Edit(r) \/ Delete(r)
  PROVE  Inv'
<1> DEFINE c == op[r].id
           row == comment'[c]
<1>1. /\ at[r] = "asked" /\ CommentFree(r, c) /\ c \in There
      /\ End(r) /\ UNCHANGED <<doc, fields>>
  BY DEF Edit, Delete, Reaches
<1>2. c \in Comments
  BY <1>1 DEF There
<1>3. /\ DOMAIN comment' = Comments
      /\ \A d \in Comments \ {c} : comment'[d] = comment[d]
  BY <1>2 DEF Edit, Delete, Inv, ShapeInv
<1>4. RowKeys \subseteq DOMAIN comment[c]
  BY <1>2 DEF Inv, ShapeInv
<1>5. \/ /\ row.life = "there" /\ row.region = comment[c].region /\ RowKeys \subseteq DOMAIN row
         /\ search' = IndexComment(ClearComment(search, c), c, row)
      \/ /\ row.life = "deleted" /\ RowKeys \subseteq DOMAIN row
         /\ search' = ClearComment(search, c)
  <2>1. CASE Edit(r)
    <3>1. row = [comment[c] EXCEPT !.edits = @ + 1] /\ search' = IndexComment(ClearComment(search, c), c, row)
      BY <2>1, <1>2 DEF Edit, Inv, ShapeInv
    <3>2. comment[c].life = "there"
      BY <1>1 DEF There
    <3> HIDE DEF row, c
    <3>3. row.life = "there" /\ row.region = comment[c].region /\ RowKeys \subseteq DOMAIN row
      BY <3>1, <3>2, <1>4 DEF RowKeys
    <3>4. QED BY <3>1, <3>3
  <2>2. CASE Delete(r)
    <3>1. row = [Unborn EXCEPT !.life = "deleted"] /\ search' = ClearComment(search, c)
      BY <2>2, <1>2 DEF Delete, Inv, ShapeInv
    <3>2. row.life = "deleted" /\ RowKeys \subseteq DOMAIN row
      BY <3>1 DEF Unborn, RowKeys
    <3>3. QED BY <3>1, <3>2
  <2>3. QED BY <2>1, <2>2
<1> HIDE DEF row, c
<1>6. row = comment'[c]
  BY DEF row
<1>7. There \ {c} = There' \ {c} /\ \A d \in There \ {c} : comment'[d].edits = comment[d].edits
  BY <1>3 DEF There
<1>8. c \in There' <=> row.life = "there"
  BY <1>2, <1>6 DEF There
<1>9. search'.comments = {<<d, comment'[d].edits>> : d \in There'}
  <2>1. {<<d, comment[d].edits>> : d \in There \ {c}} = {<<d, comment'[d].edits>> : d \in There' \ {c}}
    BY <1>7
  <2>2. CASE row.life = "there"
    <3>1. search'.comments = {<<d, comment'[d].edits>> : d \in There' \ {c}} \cup {<<c, row.edits>>}
      <4>1. search' = IndexComment(ClearComment(search, c), c, row)
        BY <1>5, <2>2
      <4>2. IndexComment(ClearComment(search, c), c, row).comments
                = {<<d, comment[d].edits>> : d \in There \ {c}} \cup {<<c, row.edits>>}
        BY <1>2, CommentReindexed, ZenonT(60)
      <4>3. QED BY <2>1, <4>1, <4>2
    <3>2. QED BY <1>6, <1>8, <2>2, <3>1
  <2>3. CASE row.life = "deleted"
    <3>1. search'.comments = {<<d, comment'[d].edits>> : d \in There' \ {c}}
      BY <1>2, <1>5, <2>1, <2>3, CommentReindexed
    <3>2. There' \ {c} = There'
      BY <1>8, <2>3
    <3>3. QED BY <3>1, <3>2
  <2>4. QED BY <1>5, <2>2, <2>3
<1>10. DOMAIN search' = {"doc", "comments"} /\ search'.doc = search.doc
  BY <1>2, <1>5, CommentReindexed
<1>11. \A d \in Comments :
        /\ RowKeys \subseteq DOMAIN comment'[d]
        /\ comment'[d] # comment[d] => CommentFree(r, d)
        /\ comment'[d].life = "there" => comment[d].life = "there" /\ comment'[d].region = comment[d].region
  BY <1>1, <1>3, <1>5, <1>6 DEF Inv, ShapeInv, There
<1>12. QED BY <1>1, <1>3, <1>9, <1>10, <1>11, CommentsKeep

\* A field removed from the type leaves its comments to the content.
LEMMA RemoveFieldKeeps ==
  ASSUME Inv, NEW r \in Requests, RemoveField(r)
  PROVE  Inv'
<1> DEFINE f == op[r].field
<1>1. /\ at[r] = "asked" /\ End(r) /\ UNCHANGED <<doc, search>>
      /\ fields' \subseteq fields
      /\ \A c \in There : comment[c].field = f => CommentFree(r, c)
      /\ comment' = [c \in Comments |-> IF comment[c].field = f THEN [comment[c] EXCEPT !.field = ContentKey] ELSE comment[c]]
  BY DEF RemoveField
<1> HIDE DEF f
<1>2. ASSUME NEW c \in Comments
      PROVE  /\ RowKeys \subseteq DOMAIN comment'[c]
             /\ comment'[c].life = comment[c].life /\ comment'[c].edits = comment[c].edits
             /\ comment'[c].region = comment[c].region
  <2>1. RowKeys \subseteq DOMAIN comment[c]
    BY DEF Inv, ShapeInv
  <2>2. comment'[c] \in {comment[c], [comment[c] EXCEPT !.field = ContentKey]}
    BY <1>1
  <2>3. QED BY <2>1, <2>2 DEF RowKeys
<1>3. ASSUME NEW c \in Comments, comment'[c] # comment[c] PROVE CommentFree(r, c)
  <2>1. comment[c].field = f
    BY <1>1, <1>3
  <2>2. CASE c \in There
    BY <1>1, <2>1, <2>2
  <2>3. CASE c \notin There
    BY <2>3 DEF CommentFree, Inv, LookInv, Saw, There
  <2>4. QED BY <2>2, <2>3
<1>4. There' = There /\ \A c \in There : comment'[c].edits = comment[c].edits
  BY <1>2 DEF There
<1>5. search'.comments = {<<c, comment'[c].edits>> : c \in There'}
  BY <1>1, <1>4 DEF Inv, SearchFollowsDocument
<1>6. DOMAIN search' = {"doc", "comments"} /\ search'.doc = search.doc
  BY <1>1 DEF Inv, ShapeInv
<1>7. DOMAIN comment' = Comments
  BY <1>1
<1>8. QED BY <1>1, <1>2, <1>3, <1>5, <1>6, <1>7, CommentsKeep

-----------------------------------------------------------------------------
(* Every step                                                              *)

Asks(r) ==
    \/ AskInsert(r) \/ AskSave(r) \/ AskArchive(r) \/ AskReview(r) \/ AskComment(r)
    \/ AskDecide(r) \/ AskEdit(r) \/ AskField(r)

Refusals(r) ==
    \/ InsertReplays(r) \/ InsertRefused(r) \/ SaveRefused(r) \/ SaveFails(r) \/ Abort(r) \/ ArchiveRefused(r)
    \/ Replays(r) \/ NoTarget(r) \/ RegionPastEnd(r) \/ InsertCommentRefused(r)
    \/ DecideNothing(r) \/ NoComment(r) \/ NoField(r)

Writes(r) == Insert(r) \/ SetArchived(r) \/ SaveCommit(r)

\* Steps of a request that goes on.
Goes(r) == SaveLock(r) \/ SaveLook(r) \/ Target(r) \/ ReadText(r)

CommentWrites(r) == InsertComment(r) \/ Decide(r) \/ Edit(r) \/ Delete(r) \/ RemoveField(r)

LEMMA Steps ==
  ASSUME Next
  PROVE  \E r \in Requests : Asks(r) \/ Refusals(r) \/ Writes(r) \/ Goes(r) \/ CommentWrites(r)
  BY Zenon DEF Next, Asks, Refusals, Writes, Goes, CommentWrites

\* A refusal is of a request under way.
LEMMA RefusalsRefuse ==
  ASSUME NEW r \in Requests, Refusals(r)
  PROVE  Refuse(r) /\ at[r] \in {"asked", "aimed", "read", "locked", "looked"}
  BY DEF Refusals, InsertReplays, InsertRefused, SaveRefused, SaveFails, Abort, ArchiveRefused, Replays, NoTarget,
         RegionPastEnd, InsertCommentRefused, DecideNothing, NoComment, NoField

\* Callers ask for what the handlers understand.
LEMMA AsksAreTyped ==
  ASSUME Inv, NEW r \in Requests, Asks(r)
  PROVE  \E o : OpTyped(o) /\ Begin(r, o) /\ Rest
<1>1. \A n \in Known : n \in Nat
  BY DEF Known, Inv, ShapeInv, DocumentRows
<1>2. CASE AskInsert(r)
  <2>1. PICK x \in Contents : Begin(r, [kind |-> "insert", type |-> x.type, body |-> x.body])
    BY <1>2 DEF AskInsert
  <2>2. x.type \in {"normal", "aspect"} /\ x.body \in Bodies
    BY DocumentsAssumption DEF DocumentsAssumption
  <2>3. OpTyped([kind |-> "insert", type |-> x.type, body |-> x.body])
    BY <2>2 DEF OpTyped
  <2>4. QED BY <1>2, <2>1, <2>3 DEF AskInsert
<1>3. CASE AskSave(r)
  <2>1. PICK x \in Contents, n \in Known : Begin(r, [kind |-> "save", type |-> x.type, body |-> x.body, known |-> n])
    BY <1>3 DEF AskSave
  <2>2. x.type \in {"normal", "aspect"} /\ x.body \in Bodies
    BY DocumentsAssumption DEF DocumentsAssumption
  <2>3. OpTyped([kind |-> "save", type |-> x.type, body |-> x.body, known |-> n])
    BY <1>1, <1>3, <2>2 DEF OpTyped, AskSave
  <2>4. QED BY <1>3, <2>1, <2>3 DEF AskSave
<1>4. CASE AskArchive(r)
  <2>1. PICK k \in {"archive", "unarchive"}, n \in Known : Begin(r, [kind |-> k, known |-> n])
    BY <1>4 DEF AskArchive
  <2>2. OpTyped([kind |-> k, known |-> n])
    BY <1>1 DEF OpTyped
  <2>3. QED BY <1>4, <2>1, <2>2 DEF AskArchive
<1>5. CASE AskReview(r)
  <2>1. PICK k, g, i : Begin(r, [kind |-> "review", field |-> k, region |-> g, key |-> i])
    BY <1>5 DEF AskReview
  <2>2. OpTyped([kind |-> "review", field |-> k, region |-> g, key |-> i])
    BY DEF OpTyped
  <2>3. QED BY <1>5, <2>1, <2>2 DEF AskReview
<1>6. CASE AskComment(r)
  <2>1. PICK k, g, i : Begin(r, [kind |-> "comment", field |-> k, region |-> g, key |-> i])
    BY <1>6 DEF AskComment
  <2>2. OpTyped([kind |-> "comment", field |-> k, region |-> g, key |-> i])
    BY DEF OpTyped
  <2>3. QED BY <1>6, <2>1, <2>2 DEF AskComment
<1>7. CASE AskDecide(r)
  <2>1. PICK c, s : Begin(r, [kind |-> "decide", id |-> c, status |-> s])
    BY <1>7 DEF AskDecide
  <2>2. OpTyped([kind |-> "decide", id |-> c, status |-> s])
    BY DEF OpTyped
  <2>3. QED BY <1>7, <2>1, <2>2 DEF AskDecide
<1>8. CASE AskEdit(r)
  <2>1. PICK c \in There, k \in {"edit", "delete"} : Begin(r, [kind |-> k, id |-> c])
    BY <1>8 DEF AskEdit
  <2>2. OpTyped([kind |-> k, id |-> c])
    BY DEF OpTyped
  <2>3. QED BY <1>8, <2>1, <2>2 DEF AskEdit
<1>9. CASE AskField(r)
  <2>1. PICK f : Begin(r, [kind |-> "removeField", field |-> f])
    BY <1>9 DEF AskField
  <2>2. OpTyped([kind |-> "removeField", field |-> f])
    BY DEF OpTyped
  <2>3. QED BY <1>9, <2>1, <2>2 DEF AskField
<1>10. QED BY <1>2, <1>3, <1>4, <1>5, <1>6, <1>7, <1>8, <1>9 DEF Asks

\* A reader goes on.
LEMMA ReadsKeep ==
  ASSUME Inv, NEW r \in Requests, Target(r) \/ ReadText(r)
  PROVE  Inv'
<1>1. TxKeys \subseteq DOMAIN tx[r] /\ DOMAIN tx = Requests
  BY DEF Inv, ShapeInv
<1>2. CASE Target(r)
  <2>1. PICK to \in {"aimed", "read"} : Go(r, "asked", to)
    BY <1>2 DEF Target
  <2>2. UNCHANGED <<doc, fields, comment, search, op, tx>>
    BY <1>2 DEF Target
  <2>3. QED BY <1>1, <2>1, <2>2, ReadOnKeeps
<1>3. CASE ReadText(r)
  <2>1. PICK t : tx' = [tx EXCEPT ![r].anchor = t]
    BY <1>3 DEF ReadText
  <2>2. DOMAIN tx' = Requests /\ TxKeys \subseteq DOMAIN tx'[r] /\ \A q \in Requests \ {r} : tx'[q] = tx[q]
    BY <1>1, <2>1
  <2>3. Go(r, "aimed", "read") /\ UNCHANGED <<doc, fields, comment, search, op>>
    BY <1>3 DEF ReadText
  <2>4. QED BY <2>2, <2>3, ReadOnKeeps
<1>4. QED BY <1>2, <1>3

\* It holds at the start.
LEMMA InitInv == Init => Inv
<1> SUFFICES ASSUME Init PROVE Inv OBVIOUS
<1>1. PICK s \in Starts :
        /\ doc = s.doc
        /\ comment = [c \in Comments |-> IF c \in DOMAIN s.comment THEN s.comment[c] ELSE Unborn]
        /\ search = [doc |-> IF s.doc.version > 0 THEN RowsOf(s.doc.body) ELSE {},
                     comments |-> {<<c, 0>> : c \in DOMAIN s.comment}]
  BY DEF Init
<1>2. /\ s.doc \in DocumentRows /\ (s.doc.live <=> s.doc.version > 0)
      /\ DOMAIN s.comment \subseteq Comments
      /\ \A c \in DOMAIN s.comment :
            RowKeys \subseteq DOMAIN s.comment[c] /\ s.comment[c].life = "there" /\ s.comment[c].edits = 0
  BY DocumentsAssumption DEF DocumentsAssumption, RowKeys
<1>3. at = [r \in Requests |-> "idle"] /\ op = [r \in Requests |-> NoOp] /\ tx = [r \in Requests |-> NoTx] /\ fields = Fields
  BY DEF Init
<1>4. RowKeys \subseteq DOMAIN Unborn /\ Unborn.life # "there"
  BY DEF Unborn, RowKeys
<1>5. TxKeys \subseteq DOMAIN NoTx
  BY DEF NoTx, TxKeys
<1>6. \A c \in Comments : RowKeys \subseteq DOMAIN comment[c]
  BY <1>1, <1>2, <1>4
<1>7. ShapeInv
  BY <1>1, <1>2, <1>3, <1>5, <1>6 DEF ShapeInv
<1>8. OpInv
  BY <1>3, NoOpIsTyped DEF OpInv
<1>9. HoldInv /\ LookInv
  BY <1>3 DEF HoldInv, LookInv, Holds
<1>10. There = DOMAIN s.comment /\ \A c \in There : comment[c].edits = 0
  BY <1>1, <1>2, <1>4 DEF There
<1>11. search.comments = {<<c, comment[c].edits>> : c \in There}
  BY <1>1, <1>10
<1>12. search.doc = IF doc.version > 0 /\ doc.live THEN RowsOf(doc.body) ELSE {}
  BY <1>1, <1>2
<1>13. SearchFollowsDocument
  BY <1>11, <1>12 DEF SearchFollowsDocument
<1>14. QED BY <1>7, <1>8, <1>9, <1>13 DEF Inv

\* Every step keeps it.
LEMMA NextInv == Inv /\ [Next]_vars => Inv'
<1> SUFFICES ASSUME Inv, [Next]_vars PROVE Inv' OBVIOUS
<1>1. CASE UNCHANGED vars
  BY <1>1 DEF vars, Inv, ShapeInv, OpInv, OpTyped, HoldInv, Holds, LookInv, SearchFollowsDocument, There
<1>2. CASE Next
  <2>1. PICK r \in Requests : Asks(r) \/ Refusals(r) \/ Writes(r) \/ Goes(r) \/ CommentWrites(r)
    BY <1>2, Steps
  <2>2. CASE Asks(r)
    BY <2>2, AsksAreTyped, AskKeeps
  <2>3. CASE Refusals(r)
    BY <2>3, RefusalsRefuse, RefuseKeeps
  <2>4. CASE Writes(r)
    BY <2>4, InsertKeeps, SetArchivedKeeps, SaveCommitKeeps DEF Writes
  <2>5. CASE Goes(r)
    BY <2>5, SaveLockKeeps, SaveLookKeeps, ReadsKeep DEF Goes
  <2>6. CASE CommentWrites(r)
    BY <2>6, InsertCommentKeeps, DecideKeeps, EditKeeps, RemoveFieldKeeps DEF CommentWrites
  <2>7. QED BY <2>1, <2>2, <2>3, <2>4, <2>5, <2>6
<1>3. QED BY <1>1, <1>2

THEOREM SpecInv == Spec => []Inv
  BY InitInv, NextInv, PTL DEF Spec

\* The search rows are those of what is stored, in any number of documents'
\* worth of saves, comments and requests (document.go:296 "the blob and the
\* index move together or not at all").
THEOREM SearchFollows == Spec => []SearchFollowsDocument
<1>1. Inv => SearchFollowsDocument
  BY DEF Inv
<1>2. QED BY <1>1, SpecInv, PTL

-----------------------------------------------------------------------------
(* Documents implements Register                                           *)

PhaseOf(a) == IF a \in {"idle", "done"} THEN a ELSE "asked"
WantOf(o) == IF "known" \in DOMAIN o THEN o.known ELSE 0

Value == [live |-> doc.live, type |-> doc.type, body |-> doc.body]
Values == [live : BOOLEAN, type : {"normal", "aspect"}, body : Bodies]
Phase == [r \in Requests |-> PhaseOf(at[r])]
Want == [r \in Requests |-> WantOf(op[r])]

\* The mapping, taken apart.
LEMMA Mapped ==
  /\ R!RegInit <=> /\ Value \in Values /\ doc.version \in Nat
                   /\ Phase = [r \in Requests |-> "idle"]
                   /\ Want = [r \in Requests |-> 0]
  /\ \A r : R!Ask(r) <=> /\ Phase[r] = "idle"
                         /\ Phase' = [Phase EXCEPT ![r] = "asked"]
                         /\ Want' \in [Requests -> Nat]
                         /\ \A v \in Requests \ {r} : Want'[v] = Want[v]
                         /\ UNCHANGED <<Value, doc.version>>
  /\ \A r : R!Put(r) <=> /\ Phase[r] = "asked"
                         /\ Want[r] \in {0, doc.version}
                         /\ Value' \in Values
                         /\ (doc.version)' = doc.version + 1
                         /\ Phase' = [Phase EXCEPT ![r] = "done"]
                         /\ Want' = [Want EXCEPT ![r] = 0]
  /\ \A r : R!Refuse(r) <=> /\ Phase[r] = "asked"
                            /\ Phase' = [Phase EXCEPT ![r] = "done"]
                            /\ Want' = [Want EXCEPT ![r] = 0]
                            /\ UNCHANGED <<Value, doc.version>>
  BY DEF R!RegInit, R!Ask, R!Put, R!Refuse, Value, Values, Phase, Want, PhaseOf, WantOf

\* How a step that moves one request shows.
LEMMA MovesOne ==
  ASSUME DOMAIN at = Requests, DOMAIN op = Requests, NEW r \in Requests,
         \A q \in Requests \ {r} : at'[q] = at[q] /\ op'[q] = op[q]
  PROVE  /\ Phase' = [Phase EXCEPT ![r] = PhaseOf(at'[r])]
         /\ Want' = [Want EXCEPT ![r] = WantOf(op'[r])]
  BY DEF Phase, Want

\* A caller asks.
LEMMA AskRefines ==
  ASSUME Inv, NEW r \in Requests, Asks(r)
  PROVE  R!Ask(r)
<1>1. PICK o : OpTyped(o) /\ Begin(r, o) /\ Rest
  BY AsksAreTyped
<1>2. /\ DOMAIN at = Requests /\ DOMAIN op = Requests
      /\ at[r] = "idle" /\ at'[r] = "asked" /\ op'[r] = o /\ doc' = doc
      /\ \A q \in Requests \ {r} : at'[q] = at[q] /\ op'[q] = op[q]
  BY <1>1 DEF Begin, Go, Rest, Inv, ShapeInv
<1>3. Phase' = [Phase EXCEPT ![r] = "asked"] /\ Phase[r] = "idle"
  BY <1>2, MovesOne DEF PhaseOf, Phase
<1>4. \A q \in Requests : WantOf(op'[q]) \in Nat
  BY <1>1, <1>2 DEF WantOf, OpTyped, Inv, OpInv
<1>5. Want' \in [Requests -> Nat] /\ \A q \in Requests \ {r} : Want'[q] = Want[q]
  BY <1>2, <1>4 DEF Want
<1>6. UNCHANGED <<Value, doc.version>>
  BY <1>2 DEF Value
<1>7. QED BY <1>3, <1>5, <1>6, Mapped

\* What a request that ends leaves of the mapping.
LEMMA EndMapped ==
  ASSUME Inv, NEW r \in Requests, End(r), at[r] \notin {"idle", "done"}
  PROVE  /\ Phase[r] = "asked" /\ Phase' = [Phase EXCEPT ![r] = "done"]
         /\ Want' = [Want EXCEPT ![r] = 0]
<1>1. /\ DOMAIN at = Requests /\ DOMAIN op = Requests
      /\ at'[r] = "done" /\ op'[r] = NoOp
      /\ \A q \in Requests \ {r} : at'[q] = at[q] /\ op'[q] = op[q]
  BY EndFacts DEF Inv, ShapeInv
<1>2. PhaseOf("done") = "done" /\ WantOf(NoOp) = 0 /\ PhaseOf(at[r]) = "asked"
  BY DEF PhaseOf, WantOf, NoOp
<1>3. QED BY <1>1, <1>2, MovesOne DEF Phase

\* A request that ends and leaves the document alone is refused.
LEMMA EndRefines ==
  ASSUME Inv, NEW r \in Requests, End(r), at[r] \notin {"idle", "done"}, doc' = doc
  PROVE  R!Refuse(r)
<1>1. UNCHANGED <<Value, doc.version>>
  BY DEF Value
<1>2. QED BY <1>1, EndMapped, Mapped

\* A write is one put, over the version its caller named.
LEMMA WriteRefines ==
  ASSUME Inv, NEW r \in Requests, Writes(r)
  PROVE  R!Put(r)
<1>1. End(r) /\ at[r] \notin {"idle", "done"}
  BY DEF Writes, Insert, SetArchived, SaveCommit
<1>2. doc' \in DocumentRows /\ doc'.version = doc.version + 1
  BY InsertKeeps, SetArchivedKeeps, SaveCommitKeeps DEF Writes
<1>3. Value' \in Values
  BY <1>2 DEF Value, Values, DocumentRows
<1>4. WantOf(op[r]) \in {0, doc.version}
  <2>1. CASE Insert(r)
    BY <2>1 DEF Insert, Inv, OpInv, OpTyped, WantOf
  <2>2. CASE SetArchived(r)
    BY <2>2 DEF SetArchived, Accepts, WantOf
  <2>3. CASE SaveCommit(r)
    BY <2>3 DEF SaveCommit, Inv, HoldInv, Holds, Saves, WantOf
  <2>4. QED BY <2>1, <2>2, <2>3 DEF Writes
<1>5. Want[r] \in {0, doc.version}
  BY <1>4 DEF Want
<1>6. QED BY <1>1, <1>2, <1>3, <1>5, EndMapped, Mapped

\* Between its first statement and its commit nobody sees a request move.
LEMMA GoStutters ==
  ASSUME Inv, NEW r \in Requests, Goes(r)
  PROVE  UNCHANGED R!regVars
<1>1. doc' = doc /\ op' = op
  BY DEF Goes, SaveLock, SaveLook, Target, ReadText
<1>2. PICK from \in {"asked", "locked", "aimed"}, to \in {"locked", "looked", "aimed", "read"} : Go(r, from, to)
  BY DEF Goes, SaveLock, SaveLook, Target, ReadText
<1>3. \A q \in Requests : PhaseOf(at'[q]) = PhaseOf(at[q])
  BY <1>2 DEF Go, PhaseOf, Inv, ShapeInv
<1>4. Phase' = Phase /\ Want' = Want /\ Value' = Value
  BY <1>1, <1>3 DEF Phase, Want, Value
<1>5. QED BY <1>1, <1>4 DEF R!regVars, Phase, Want, Value, PhaseOf, WantOf

\* The initial states map to initial states.
LEMMA InitRefines == Init => R!RegInit
<1> SUFFICES ASSUME Init PROVE R!RegInit OBVIOUS
<1>1. doc \in DocumentRows
  BY InitInv DEF Inv, ShapeInv
<1>2. Value \in Values /\ doc.version \in Nat
  BY <1>1 DEF Value, Values, DocumentRows
<1>3. Phase = [r \in Requests |-> "idle"]
  BY DEF Init, Phase, PhaseOf
<1>4. Want = [r \in Requests |-> 0]
  BY DEF Init, Want, WantOf, NoOp
<1>5. QED BY <1>2, <1>3, <1>4, Mapped

\* And every step to a step or a stutter.
LEMMA NextRefines == Inv /\ [Next]_vars => [R!RegNext]_R!regVars
<1> SUFFICES ASSUME Inv, [Next]_vars PROVE [R!RegNext]_R!regVars OBVIOUS
<1>1. CASE UNCHANGED vars
  BY <1>1 DEF vars, R!regVars
<1>2. CASE Next
  <2>1. PICK r \in Requests : Asks(r) \/ Refusals(r) \/ Writes(r) \/ Goes(r) \/ CommentWrites(r)
    BY <1>2, Steps
  <2>2. CASE Asks(r)
    BY <2>2, AskRefines DEF R!RegNext
  <2>3. CASE Refusals(r)
    <3>1. Refuse(r) /\ at[r] \notin {"idle", "done"}
      BY <2>3, RefusalsRefuse
    <3>2. R!Refuse(r)
      BY <3>1, EndRefines DEF Refuse
    <3>3. QED BY <3>2 DEF R!RegNext
  <2>4. CASE Writes(r)
    BY <2>4, WriteRefines DEF R!RegNext
  <2>5. CASE Goes(r)
    BY <2>5, GoStutters
  <2>6. CASE CommentWrites(r)
    <3>1. End(r) /\ at[r] \notin {"idle", "done"} /\ doc' = doc
      BY <2>6 DEF CommentWrites, InsertComment, Decide, Edit, Delete, RemoveField
    <3>2. R!Refuse(r)
      BY <3>1, EndRefines
    <3>3. QED BY <3>2 DEF R!RegNext
  <2>7. QED BY <2>1, <2>2, <2>3, <2>4, <2>5, <2>6
<1>3. QED BY <1>1, <1>2

\* The document is a versioned register, whatever its callers do between
\* their lock and their commit (document.go:647 "the version it checks is the
\* version it writes over").
THEOREM Implements == Spec => ImplementsRegister
<1>1. Spec => R!RegSpec
  BY InitRefines, NextRefines, SpecInv, PTL DEF Spec, R!RegSpec
<1>2. QED BY <1>1 DEF ImplementsRegister

-----------------------------------------------------------------------------
(* Anchors                                                                 *)

\* Only the commit of r's save ends a save of r's that wrote the document.
LEMMA OnlyItsCommit ==
  ASSUME Inv, Next, NEW r \in Requests, at[r] = "looked", at'[r] = "done", doc' # doc
  PROVE  SaveCommit(r)
<1>1. PICK w \in Requests : Asks(w) \/ Refusals(w) \/ Writes(w) \/ Goes(w) \/ CommentWrites(w)
  BY Steps
<1>2. CASE Asks(w)
  BY <1>2, AsksAreTyped DEF Rest
<1>3. CASE Refusals(w)
  BY <1>3, RefusalsRefuse DEF Refuse
<1>4. CASE Goes(w)
  BY <1>4 DEF Goes, SaveLock, SaveLook, Target, ReadText
<1>5. CASE CommentWrites(w)
  BY <1>5 DEF CommentWrites, InsertComment, Decide, Edit, Delete, RemoveField
<1>6. CASE Writes(w)
  <2>1. End(w)
    BY <1>6 DEF Writes, Insert, SetArchived, SaveCommit
  <2>2. w = r
    BY <2>1, EndFacts DEF Inv
  <2>3. QED BY <1>6, <2>2 DEF Writes, Insert, SetArchived
<1>7. QED BY <1>1, <1>2, <1>3, <1>4, <1>5, <1>6

\* A conversion that moves the text leaves no anchor on the content of an
\* aspect document (docs/review-requests.md:111).
THEOREM AnchorsFollow == Spec => AnchorsFollowTheText
<1> DEFINE Moved == \A r \in Requests : at[r] = "looked" /\ at'[r] = "done" /\ doc' # doc /\ tx[r].movedTo # "" =>
                        \A c \in There : comment[c].region # <<>> /\ comment[c].field = ContentKey =>
                            comment'[c].field = tx[r].movedTo
<1>1. Inv /\ [Next]_vars => [Moved]_vars
  <2> SUFFICES ASSUME Inv, Next PROVE Moved OBVIOUS
  <2> SUFFICES ASSUME NEW r \in Requests, at[r] = "looked", at'[r] = "done", doc' # doc, tx[r].movedTo # "",
                      NEW c \in There, comment[c].region # <<>>, comment[c].field = ContentKey
               PROVE  comment'[c].field = tx[r].movedTo
    OBVIOUS
  <2>1. SaveCommit(r)
    BY OnlyItsCommit
  <2>2. Saw(tx[r], comment)
    BY DEF Inv, LookInv
  <2>3. c \in Comments /\ comment[c].life = "there"
    BY DEF There
  <2>4. c \in DOMAIN tx[r].rows /\ tx[r].rows[c].field = tx[r].movedTo
    BY <2>2, <2>3 DEF Saw
  <2>5. QED BY <2>1, <2>3, <2>4 DEF SaveCommit
<1>2. Spec => [][Moved]_vars
  BY <1>1, SpecInv, PTL DEF Spec
<1>3. QED BY <1>2 DEF AnchorsFollowTheText
-----------------------------------------------------------------------------
(* Texts                                                                   *)

\* A set of naturals has a least member.
LEMMA LeastIsOne ==
  ASSUME NEW S, S \subseteq Nat, S # {}
  PROVE  Least(S) \in S /\ \A m \in S : Least(S) <= m
<1> DEFINE Before == {ss \in Nat \X Nat : ss[1] < ss[2]}
<1>1. IsWellFoundedOn(Before, Nat)
  BY NatLessThanWellFounded DEF OpToRel
<1>2. \A u, n \in Nat : u < n => <<u, n>> \in Before
  OBVIOUS
<1> HIDE DEF Before
<1>3. PICK m \in S : \A u \in S : ~ (<<u, m>> \in Before)
  BY <1>1, WFMin
<1>4. \A u \in S : u \in Nat /\ m \in Nat /\ ~(u < m)
  BY <1>2, <1>3
<1>5. \E n \in S : \A u \in S : n <= u
  BY <1>4
<1>6. QED BY <1>5 DEF Least

\* And a longest one, if it is bounded.
LEMMA LongestIsOne ==
  ASSUME NEW B \in Nat, NEW S, S \subseteq 0..B, S # {}
  PROVE  Longest(S) \in S /\ \A m \in S : m <= Longest(S)
<1> DEFINE T == {B - n : n \in S}
<1>1. T \subseteq Nat /\ T # {}
  <2>1. ASSUME NEW n \in S PROVE B - n \in Nat
    <3>1. n \in 0..B
      OBVIOUS
    <3>2. QED BY <3>1
  <2>2. PICK n \in S : TRUE
    OBVIOUS
  <2>3. B - n \in T
    BY <2>2
  <2>4. QED BY <2>1, <2>3
<1>2. Least(T) \in T /\ \A m \in T : Least(T) <= m
  BY <1>1, LeastIsOne
<1>3. PICK n \in S : Least(T) = B - n
  BY <1>2
<1>4. \A m \in S : B - n <= B - m
  BY <1>2, <1>3
<1>5. \A m \in S : m <= n
  BY <1>4
<1>6. QED BY <1>5 DEF Longest

\* Two texts of which no rune changed are one.
LEMMA NothingChanged ==
  ASSUME Percent = 0, NEW a \in Seq(Letters), NEW b \in Seq(Letters), ~IsStale(a, b)
  PROVE  a = b
<1> DEFINE n == Shorter(a, b)
           p == CommonPrefix(a, b)
           s == CommonSuffix(a, b, p)
<1>1. Len(a) \in Nat /\ Len(b) \in Nat /\ n \in Nat /\ n <= Len(a) /\ n <= Len(b)
  BY LenProperties DEF Shorter
<1>2. p \in 0..n /\ \A i \in 1..p : a[i] = b[i]
  <2> DEFINE S == {m \in 0..n : \A i \in 1..m : a[i] = b[i]}
  <2> HIDE DEF n
  <2>1. S \subseteq 0..n /\ S # {}
    <3>1. 0 \in S
      BY <1>1
    <3>2. QED BY <3>1
  <2>2. p = Longest(S)
    BY DEF CommonPrefix, n
  <2>3. p \in S
    BY <1>1, <2>1, <2>2, LongestIsOne
  <2>4. QED BY <2>3
<1> HIDE DEF p, n
<1>3. s \in 0..(n - p) /\ \A i \in 0..(s - 1) : a[Len(a) - i] = b[Len(b) - i]
  <2> DEFINE S == {m \in 0..(n - p) : \A i \in 0..(m - 1) : a[Len(a) - i] = b[Len(b) - i]}
  <2>1. n - p \in Nat
    BY <1>1, <1>2
  <2>2. S \subseteq 0..(n - p) /\ S # {}
    <3>1. 0 \in S
      BY <2>1
    <3>2. QED BY <3>1
  <2>3. s = Longest(S)
    BY DEF CommonSuffix, n
  <2>4. s \in S
    BY <2>1, <2>2, <2>3, LongestIsOne
  <2>5. QED BY <2>4
<1> HIDE DEF s
<1>4. ChangedRunes(a, b) = (IF Len(a) > Len(b) THEN Len(a) ELSE Len(b)) - p - s
  BY DEF ChangedRunes, p, s
<1>5. PICK c \in Int : c = ChangedRunes(a, b)
  <2>1. PICK M \in Nat : M = IF Len(a) > Len(b) THEN Len(a) ELSE Len(b)
    BY <1>1
  <2>2. p \in Int /\ s \in Int
    BY <1>1, <1>2, <1>3
  <2>3. M - p - s \in Int
    BY <2>2
  <2>4. QED BY <1>4, <2>1, <2>3
<1>6. ~(c * 100 > 0 * Len(a))
  BY <1>5 DEF IsStale
<1>7. c <= 0
  BY <1>1, <1>5, <1>6
<1>8. Len(a) = Len(b) /\ p + s = Len(a)
  BY <1>1, <1>2, <1>3, <1>4, <1>5, <1>7
<1>9. ASSUME NEW i \in 1..Len(a)
      PROVE  a[i] = b[i]
  <2>1. CASE i <= p
    BY <1>1, <1>2, <2>1
  <2>2. CASE ~(i <= p)
    <3>1. Len(a) - i \in 0..(s - 1)
      BY <1>1, <1>2, <1>3, <1>8, <2>2
    <3>2. a[Len(a) - (Len(a) - i)] = b[Len(b) - (Len(a) - i)]
      BY <1>3, <3>1
    <3>3. Len(a) - (Len(a) - i) = i /\ Len(b) - (Len(a) - i) = i
      BY <1>1, <1>8
    <3>4. QED BY <3>2, <3>3
  <2>3. QED BY <2>1, <2>2
<1>10. QED BY <1>8, <1>9, SeqEqual

\* A place in a text has a text.
LEMMA SliceIs ==
  ASSUME NEW t \in Seq(Letters), NEW g \in Nat \X Nat
  PROVE  Slice(t, g) \in Seq(Letters)
<1>1. PICK m \in Nat, n \in Nat : m = g[1] + 1 /\ m > 0 /\ n = (IF g[2] > Len(t) THEN Len(t) ELSE g[2]) /\ n <= Len(t)
  <2>1. g[1] \in Nat /\ g[2] \in Nat /\ Len(t) \in Nat
    BY LenProperties
  <2>2. QED BY <2>1
<1>2. \A i \in m..n : t[i] \in Letters
  <2>1. Len(t) \in Nat
    BY LenProperties
  <2>2. \A i \in m..n : i \in 1..Len(t)
    BY <1>1, <2>1
  <2>3. QED BY <2>2, ElementOfSeq
<1>3. SubSeq(t, m, n) \in Seq(Letters)
  BY <1>2, SubSeqProperties
<1>4. QED BY <1>1, <1>3 DEF Slice

\* What stands under a key of a body.
LEMMA FieldTextIs ==
  ASSUME NEW d \in DocumentRows, NEW k
  PROVE  FieldText(d.body, k) \in Seq(Letters)
<1>1. d.body \in Bodies
  BY DEF DocumentRows
<1>2. k \in DOMAIN d.body => d.body[k] \in Texts
  BY <1>1, BodiesAre
<1>3. Texts \subseteq Seq(Letters) /\ <<>> \in Seq(Letters)
  BY DocumentsAssumption, EmptySeq DEF DocumentsAssumption
<1>4. QED BY <1>2, <1>3 DEF FieldText

-----------------------------------------------------------------------------
(* Approvals                                                               *)

Place == Nat \X Nat

\* A row whose anchor, if it has one, is a place in a text; a request has one.
Anchors(row) ==
    /\ row.region \in {<<>>} \cup Place
    /\ row.anchor \in Seq(Letters)
    /\ row.review \/ row.status # "none" => row.region # <<>>

Approved(c) == comment[c].status = "approved" /\ approval[c].fair

\* What is anchored, what is approved, and the comments of no document.
TextInv ==
    /\ DOMAIN approval = Comments
    /\ \A c \in Comments : {"text", "fair"} \subseteq DOMAIN approval[c]
    /\ \A c \in Comments : Anchors(comment[c])
    /\ doc.version = 0 => There = {}

\* What is asked of a comment: a place for a new one, a request to decide.
Names(o) ==
    /\ o.kind \in {"review", "comment"} =>
        o.region \in {<<>>} \cup Place /\ (o.kind = "review" => o.region # <<>>)
    /\ o.kind = "decide" =>
        /\ o.id \in Comments /\ comment[o.id].life # "unborn"
        /\ comment[o.id].life = "there" => comment[o.id].region # <<>>

\* How far a request has come with it.
Aimed(r) ==
    /\ Names(op[r])
    /\ tx[r].anchor \in Seq(Letters)
    /\ at[r] = "aimed" => op[r].kind = "review"
    /\ at[r] = "read" => op[r].kind \in {"review", "comment"}
    /\ at[r] \in {"aimed", "read"} => doc.version > 0
    /\ Holds(r) => tx[r].order \subseteq DOMAIN FieldOrder

\* What a save promises of a comment it has looked at: one that it leaves
\* approved, and not by search, was approved, of the text that stands there then.
Promise(x, c) ==
    /\ Anchors(x.rows[c])
    /\ comment[c].region # <<>> => x.rows[c].region # <<>>
    /\ Percent = 0 /\ c \notin x.searched /\ x.rows[c].status = "approved" =>
        comment[c].status = "approved" /\ Anchored(x.doc, x.rows[c]) = Anchored(doc, comment[c])

\* It has looked at every approval that holds.
PromiseInv ==
    \A r \in Requests : at[r] = "looked" =>
        /\ \A c \in tx[r].looked : Promise(tx[r], c)
        /\ \A c \in There : Approved(c) => c \in tx[r].looked

AimInv == \A r \in Requests : Aimed(r)

ApprovalInv == TextInv /\ AimInv /\ PromiseInv /\ ApprovalHolds

\* What a comment becomes when it follows the text: the same request, at a
\* place; and where it was, unless it was found by search.
LEMMA FollowsRow ==
  ASSUME Inv, NEW r \in Requests, tx[r].order \subseteq DOMAIN FieldOrder, tx[r].doc \in DocumentRows,
         NEW row, RowKeys \subseteq DOMAIN row, Anchors(row),
         Follows(r, row) # row => Follows(r, row).field \in fields
  PROVE  /\ RowKeys \subseteq DOMAIN Follows(r, row)
         /\ Follows(r, row).status = row.status /\ Anchors(Follows(r, row))
         /\ row.region # <<>> => Follows(r, row).region # <<>>
         /\ ~BySearch(r, row) => Follows(r, row).region = row.region
<1> DEFINE new == Follows(r, row)
           searches == /\ tx[r].order # {} /\ row.field = ContentKey /\ row.region # <<>> /\ tx[r].movedTo = ""
                       /\ ~(row.anchor = <<>> \/ Hits(r, row) = {})
           f == FirstOf(Hits(r, row))
           places == Found(row.anchor, FieldText(tx[r].doc.body, f))
           i == Least(places)
           found == [row EXCEPT !.field = f, !.region = <<i, i + Len(row.anchor)>>]
<1>1. CASE new = row
  BY <1>1
<1>2. CASE new # row /\ tx[r].movedTo # ""
  <2>1. new = [row EXCEPT !.field = tx[r].movedTo]
    BY <1>2 DEF Follows, Reanchored
  <2> HIDE DEF new
  <2>2. /\ RowKeys \subseteq DOMAIN new /\ new.status = row.status /\ new.region = row.region
        /\ new.anchor = row.anchor /\ new.review = row.review
    BY <2>1 DEF RowKeys
  <2>3. Anchors(new)
    BY <2>2 DEF Anchors
  <2>4. QED BY <2>2, <2>3 DEF new
<1>3. CASE new # row /\ tx[r].movedTo = ""
  <2>1. searches /\ new = found
    BY <1>3 DEF Follows, Reanchored
  <2>2. row.anchor \in Seq(Letters) /\ Len(row.anchor) \in Nat
    BY LenProperties DEF Anchors
  <2>3. places # {} /\ places \subseteq Nat
    <3>1. Hits(r, row) \subseteq Nat /\ Hits(r, row) # {}
      <4>1. DOMAIN FieldOrder \subseteq Nat
        <5>1. FieldOrder \in Seq(Fields)
          BY DocumentsAssumption, Zenon DEF DocumentsAssumption
        <5>2. DOMAIN FieldOrder = 1..Len(FieldOrder) /\ Len(FieldOrder) \in Nat
          BY <5>1, LenProperties
        <5>3. QED BY <5>2
      <4>2. QED BY <2>1, <4>1 DEF Hits
    <3>2. Least(Hits(r, row)) \in Hits(r, row)
      BY <3>1, LeastIsOne
    <3>3. f = FieldOrder[Least(Hits(r, row))]
      BY DEF FirstOf
    <3>4. places # {}
      BY <3>2, <3>3 DEF Hits
    <3>5. places \subseteq Nat
      <4>1. PICK n \in Nat : n = Len(FieldText(tx[r].doc.body, f))
        BY FieldTextIs, LenProperties
      <4>2. places \subseteq 0..(n - Len(row.anchor))
        BY <4>1 DEF Found
      <4>3. QED BY <2>2, <4>2
    <3>6. QED BY <3>4, <3>5
  <2>4. i \in Nat
    <3> HIDE DEF places
    <3>1. QED BY <2>3, LeastIsOne
  <2>5. <<i, i + Len(row.anchor)>> \in Place
    BY <2>2, <2>4 DEF Place
  <2> HIDE DEF i, places, f, searches
  <2>6. PICK g \in Place : g = <<i, i + Len(row.anchor)>>
    BY <2>5
  <2>7. new = [row EXCEPT !.field = f, !.region = g]
    BY <2>1, <2>6
  <2>8. g # <<>>
    BY <2>6
  <2> HIDE DEF new
  <2>9. /\ RowKeys \subseteq DOMAIN new /\ new.status = row.status /\ new.region = g
        /\ new.anchor = row.anchor /\ new.review = row.review /\ new.field = f
    BY <2>7 DEF RowKeys
  <2>10. Anchors(new) /\ new.region # <<>>
    BY <2>8, <2>9 DEF Anchors
  <2>11. BySearch(r, row)
    <3>1. new.field \in Fields
      BY <1>3 DEF new, Inv, ShapeInv
    <3>2. row.field = ContentKey
      BY <2>1 DEF searches
    <3>3. new.field # row.field
      BY <3>1, <3>2, DocumentsAssumption DEF DocumentsAssumption
    <3>4. QED BY <1>3, <3>3 DEF BySearch, new
  <2>12. QED BY <2>9, <2>10, <2>11 DEF new
<1>4. QED BY <1>1, <1>2, <1>3

\* A save that looks at a comment keeps its promise of it.
LEMMA JudgedApproval ==
  ASSUME Inv, NEW r \in Requests, tx[r].order \subseteq DOMAIN FieldOrder, tx[r].doc \in DocumentRows,
         NEW row, RowKeys \subseteq DOMAIN row, Anchors(row),
         Follows(r, row) # row => Follows(r, row).field \in fields
  PROVE  /\ Anchors(Judged(r, row))
         /\ row.region # <<>> => Judged(r, row).region # <<>>
         /\ Percent = 0 /\ ~BySearch(r, row) /\ Judged(r, row).status = "approved" =>
                row.status = "approved" /\ Anchored(tx[r].doc, Judged(r, row)) = Anchored(doc, row)
<1> DEFINE new == Follows(r, row)
           before == Slice(FieldText(doc.body, row.field), new.region)
           stale == /\ row.status = "approved" /\ row.region # <<>> /\ ~BySearch(r, row)
                    /\ IsStale(before, Anchored(tx[r].doc, new))
<1>1. /\ RowKeys \subseteq DOMAIN new /\ new.status = row.status /\ Anchors(new)
      /\ row.region # <<>> => new.region # <<>>
      /\ ~BySearch(r, row) => new.region = row.region
  BY FollowsRow
<1>2. Judged(r, row) = IF stale THEN [new EXCEPT !.status = "pending", !.stale = TRUE] ELSE new
  BY DEF Judged
<1>3. CASE stale
  <2>1. new.region # <<>>
    BY <1>1, <1>3
  <2>2. PICK j : j = Judged(r, row) /\ j = [new EXCEPT !.status = "pending", !.stale = TRUE]
    BY <1>2, <1>3
  <2> HIDE DEF new
  <2>3. j.region = new.region /\ j.anchor = new.anchor /\ j.status = "pending"
    BY <1>1, <2>2 DEF RowKeys
  <2>4. Anchors(j)
    BY <1>1, <2>1, <2>3 DEF Anchors
  <2>5. QED BY <2>1, <2>2, <2>3, <2>4
<1>4. CASE ~stale
  <2>1. Judged(r, row) = new
    BY <1>2, <1>4
  <2>2. ASSUME Percent = 0, ~BySearch(r, row), new.status = "approved"
        PROVE  row.status = "approved" /\ Anchored(tx[r].doc, new) = Anchored(doc, row)
    <3>1. row.status = "approved" /\ row.region # <<>> /\ row.region \in Place /\ new.region = row.region
      BY <1>1, <2>2 DEF Anchors
    <3>2. ~IsStale(before, Anchored(tx[r].doc, new))
      BY <1>4, <2>2, <3>1
    <3>3. doc \in DocumentRows
      BY DEF Inv, ShapeInv
    <3>4. before \in Seq(Letters) /\ Anchored(tx[r].doc, new) \in Seq(Letters)
      BY <3>1, <3>3, FieldTextIs, SliceIs DEF Place, Anchored
    <3>5. before = Anchored(tx[r].doc, new)
      BY <2>2, <3>2, <3>4, NothingChanged
    <3>6. before = Anchored(doc, row)
      BY <3>1 DEF Anchored
    <3>7. QED BY <3>1, <3>5, <3>6
  <2>3. QED BY <1>1, <2>1, <2>2
<1>5. QED BY <1>3, <1>4
\* What a request that ends leaves of what the others have found, when comments
\* are not born, moved off their place or brought back under their eyes.
LEMMA EndKeepsAims ==
  ASSUME Inv, ApprovalInv, NEW r \in Requests, End(r), doc.version > 0 => doc'.version > 0,
         \A c \in Comments : comment[c].life # "unborn" =>
            /\ comment'[c].life # "unborn"
            /\ comment'[c].life = "there" => comment[c].life = "there" /\ (comment[c].region # <<>> => comment'[c].region # <<>>)
  PROVE  AimInv'
<1> SUFFICES ASSUME NEW q \in Requests PROVE Aimed(q)'
  BY DEF AimInv
<1>1. CASE q = r
  <2>1. at'[r] = "done" /\ op'[r].kind = "none"
    BY EndFacts DEF Inv, NoOp
  <2>2. tx'[r].anchor = <<>>
    BY Zenon DEF End, Inv, ShapeInv, NoTx
  <2>3. tx'[r].anchor \in Seq(Letters)
    BY <2>2, EmptySeq
  <2>4. QED BY <1>1, <2>1, <2>3 DEF Aimed, Names, Holds
<1>2. CASE q # r
  <2>1. at'[q] = at[q] /\ op'[q] = op[q] /\ tx'[q] = tx[q]
    BY <1>2, EndFacts DEF Inv
  <2>2. Aimed(q)
    BY DEF ApprovalInv, AimInv
  <2>3. Names(op[q])'
    BY <2>1, <2>2 DEF Aimed, Names
  <2>4. QED BY <2>1, <2>2, <2>3 DEF Aimed, Holds
<1>3. QED BY <1>1, <1>2

\* The comments of a step that leaves them alone.
LEMMA SameTexts ==
  ASSUME Inv, ApprovalInv, UNCHANGED <<comment, approval>>, doc.version > 0 => doc'.version > 0,
         doc' \in DocumentRows
  PROVE  TextInv'
<1>1. doc.version \in Nat /\ doc'.version \in Nat
  BY DEF Inv, ShapeInv, DocumentRows
<1>2. There' = There
  BY DEF There
<1>3. QED BY <1>1, <1>2 DEF ApprovalInv, TextInv

\* A save that had looked keeps its promise while nothing is written.
LEMMA SamePromises ==
  ASSUME Inv, ApprovalInv, UNCHANGED <<doc, comment, approval>>,
         \A q \in Requests : at'[q] = "looked" => at[q] = "looked" /\ tx'[q] = tx[q]
  PROVE  PromiseInv' /\ ApprovalHolds'
<1>1. There' = There
  BY DEF There
<1>2. ApprovalHolds'
  BY <1>1 DEF ApprovalInv, ApprovalHolds, Anchored
<1>3. ASSUME NEW q \in Requests, at'[q] = "looked"
      PROVE  /\ \A c \in tx'[q].looked : Promise(tx[q], c)'
             /\ \A c \in There' : Approved(c)' => c \in tx'[q].looked
  <2>1. at[q] = "looked" /\ tx'[q] = tx[q]
    BY <1>3
  <2>2. /\ \A c \in tx[q].looked : Promise(tx[q], c)
        /\ \A c \in There : Approved(c) => c \in tx[q].looked
    BY <2>1 DEF ApprovalInv, PromiseInv
  <2>3. QED BY <1>1, <2>1, <2>2 DEF Promise, Approved, Anchored
<1>4. PromiseInv'
  BY <1>3 DEF PromiseInv
<1>5. QED BY <1>2, <1>4

\* A refusal.
LEMMA RefusalApproves ==
  ASSUME Inv, ApprovalInv, NEW r \in Requests, Refusals(r)
  PROVE  ApprovalInv'
<1>1. End(r) /\ UNCHANGED <<doc, fields, comment, search, approval>>
  BY RefusalsRefuse DEF Refuse
<1>2. AimInv'
  BY <1>1, EndKeepsAims
<1>3. TextInv'
  BY <1>1, SameTexts DEF Inv, ShapeInv
<1>4. \A q \in Requests : at'[q] = "looked" => at[q] = "looked" /\ tx'[q] = tx[q]
  BY <1>1, EndFacts DEF Inv
<1>5. QED BY <1>1, <1>2, <1>3, <1>4, SamePromises DEF ApprovalInv

\* Callers name comments that are there.
LEMMA AsksName ==
  ASSUME Inv, ApprovalInv, NEW r \in Requests, Asks(r)
  PROVE  \E o : Names(o) /\ Begin(r, o) /\ Rest
<1>1. \A g \in Regions : g \in Place /\ g # <<>>
  BY DocumentsAssumption, Zenon DEF DocumentsAssumption, Place
<1>2. \A c \in There : c \in Comments /\ comment[c].life = "there" /\ Anchors(comment[c])
  BY DEF ApprovalInv, TextInv, There
<1>3. CASE AskInsert(r)
  <2>1. PICK t, b : Begin(r, [kind |-> "insert", type |-> t, body |-> b])
    BY <1>3 DEF AskInsert
  <2>2. Names([kind |-> "insert", type |-> t, body |-> b])
    BY DEF Names
  <2>3. QED BY <1>3, <2>1, <2>2 DEF AskInsert
<1>4. CASE AskSave(r)
  <2>1. PICK t, b, n : Begin(r, [kind |-> "save", type |-> t, body |-> b, known |-> n])
    BY <1>4 DEF AskSave
  <2>2. Names([kind |-> "save", type |-> t, body |-> b, known |-> n])
    BY DEF Names
  <2>3. QED BY <1>4, <2>1, <2>2 DEF AskSave
<1>5. CASE AskArchive(r)
  <2>1. PICK k \in {"archive", "unarchive"}, n \in Known : Begin(r, [kind |-> k, known |-> n])
    BY <1>5 DEF AskArchive
  <2>2. Names([kind |-> k, known |-> n])
    BY DEF Names
  <2>3. QED BY <1>5, <2>1, <2>2 DEF AskArchive
<1>6. CASE AskReview(r)
  <2>1. PICK k \in Targets, g \in Regions, i \in Keys \cup {NoKey} :
            Begin(r, [kind |-> "review", field |-> k, region |-> g, key |-> i])
    BY <1>6 DEF AskReview
  <2>2. Names([kind |-> "review", field |-> k, region |-> g, key |-> i])
    BY <1>1 DEF Names
  <2>3. QED BY <1>6, <2>1, <2>2 DEF AskReview
<1>7. CASE AskComment(r)
  <2>1. PICK k \in Targets \cup {ContentKey}, g \in Regions \cup {<<>>}, i \in Keys \cup {NoKey} :
            Begin(r, [kind |-> "comment", field |-> k, region |-> g, key |-> i])
    BY <1>7 DEF AskComment
  <2>2. Names([kind |-> "comment", field |-> k, region |-> g, key |-> i])
    BY <1>1 DEF Names
  <2>3. QED BY <1>7, <2>1, <2>2 DEF AskComment
<1>8. CASE AskDecide(r)
  <2>1. PICK c \in There, s \in {"pending", "approved", "changes_requested"} :
            comment[c].review /\ Begin(r, [kind |-> "decide", id |-> c, status |-> s])
    BY <1>8 DEF AskDecide
  <2>2. Names([kind |-> "decide", id |-> c, status |-> s])
    BY <1>2, <2>1 DEF Names, Anchors
  <2>3. QED BY <1>8, <2>1, <2>2 DEF AskDecide
<1>9. CASE AskEdit(r)
  <2>1. PICK c \in There, k \in {"edit", "delete"} : Begin(r, [kind |-> k, id |-> c])
    BY <1>9 DEF AskEdit
  <2>2. Names([kind |-> k, id |-> c])
    BY DEF Names
  <2>3. QED BY <1>9, <2>1, <2>2 DEF AskEdit
<1>10. CASE AskField(r)
  <2>1. PICK f : Begin(r, [kind |-> "removeField", field |-> f])
    BY <1>10 DEF AskField
  <2>2. Names([kind |-> "removeField", field |-> f])
    BY DEF Names
  <2>3. QED BY <1>10, <2>1, <2>2 DEF AskField
<1>11. QED BY <1>3, <1>4, <1>5, <1>6, <1>7, <1>8, <1>9, <1>10 DEF Asks

\* A caller's choice.
LEMMA AskApproves ==
  ASSUME Inv, ApprovalInv, NEW r \in Requests, Asks(r)
  PROVE  ApprovalInv'
<1>1. PICK o : Names(o) /\ Begin(r, o) /\ Rest
  BY AsksName
<1>2. /\ at'[r] = "asked" /\ op'[r] = o
      /\ \A q \in Requests \ {r} : at'[q] = at[q] /\ op'[q] = op[q]
      /\ UNCHANGED <<doc, fields, comment, search, tx, approval>>
  BY <1>1 DEF Begin, Go, Rest, Inv, ShapeInv
<1>3. ASSUME NEW q \in Requests PROVE Aimed(q)'
  <2>1. Aimed(q) /\ tx'[q] = tx[q] /\ doc' = doc
    BY <1>2 DEF ApprovalInv, AimInv
  <2>2. CASE q = r
    <3>1. Names(op[r])'
      BY <1>1, <1>2 DEF Names
    <3>2. QED BY <1>2, <2>1, <2>2, <3>1 DEF Aimed, Holds
  <2>3. CASE q # r
    <3>1. at'[q] = at[q] /\ op'[q] = op[q]
      BY <1>2, <2>3
    <3>2. Names(op[q])'
      BY <1>2, <2>1, <3>1 DEF Aimed, Names
    <3>3. QED BY <2>1, <3>1, <3>2 DEF Aimed, Holds
  <2>4. QED BY <2>2, <2>3
<1>4. AimInv'
  BY <1>3 DEF AimInv
<1>5. TextInv'
  BY <1>2, SameTexts DEF Inv, ShapeInv
<1>6. \A q \in Requests : at'[q] = "looked" => at[q] = "looked" /\ tx'[q] = tx[q]
  BY <1>2
<1>7. QED BY <1>2, <1>4, <1>5, <1>6, SamePromises DEF ApprovalInv
\* A save takes the row, or a reader goes on.
LEMMA GoApproves ==
  ASSUME Inv, ApprovalInv, NEW r \in Requests, SaveLock(r) \/ Target(r) \/ ReadText(r)
  PROVE  ApprovalInv'
<1>1. /\ UNCHANGED <<doc, fields, comment, op, approval>>
      /\ at'[r] \in {"locked", "aimed", "read"}
      /\ \A q \in Requests \ {r} : at'[q] = at[q] /\ tx'[q] = tx[q]
  BY DEF SaveLock, Target, ReadText, Go, Inv, ShapeInv
<1>2. Aimed(r) /\ Names(op[r])' /\ TxKeys \subseteq DOMAIN tx[r] /\ DOMAIN tx = Requests /\ DOMAIN at = Requests
  BY <1>1 DEF ApprovalInv, AimInv, Aimed, Names, Inv, ShapeInv
<1>3. Aimed(r)'
  <2>1. CASE SaveLock(r)
    <3>1. at'[r] = "locked"
      BY <1>2, <2>1 DEF SaveLock, Go
    <3>2. PICK d, S, m : /\ S \subseteq DOMAIN FieldOrder
                         /\ tx' = [tx EXCEPT ![r].doc = d, ![r].order = S, ![r].movedTo = m]
      <4>1. FieldIDs \subseteq DOMAIN FieldOrder
        BY DEF FieldIDs
      <4>2. QED BY <2>1, <4>1 DEF SaveLock
    <3>3. tx'[r].order = S /\ tx'[r].anchor = tx[r].anchor
      BY <1>2, <3>2 DEF TxKeys
    <3>4. QED BY <1>2, <3>1, <3>2, <3>3 DEF Aimed
  <2>2. CASE Target(r)
    <3>1. at'[r] = (IF op[r].kind = "review" THEN "aimed" ELSE "read") /\ tx'[r] = tx[r]
      BY <1>2, <2>2 DEF Target, Go
    <3>2. op[r].kind \in {"review", "comment"} /\ doc.version > 0
      BY <2>2 DEF Target, Creates, Aims
    <3>3. QED BY <1>1, <1>2, <3>1, <3>2 DEF Aimed, Holds
  <2>3. CASE ReadText(r)
    <3>1. at[r] = "aimed" /\ at'[r] = "read"
      BY <1>2, <2>3 DEF ReadText, Go
    <3>2. op[r].kind = "review" /\ op[r].region \in Place /\ doc.version > 0
      BY <1>2, <3>1 DEF Aimed, Names
    <3>3. tx'[r].anchor = Slice(FieldText(doc.body, op[r].field), op[r].region)
      BY <1>2, <2>3 DEF ReadText, TxKeys
    <3>4. doc \in DocumentRows
      BY DEF Inv, ShapeInv
    <3>5. tx'[r].anchor \in Seq(Letters)
      BY <3>2, <3>3, <3>4, FieldTextIs, SliceIs DEF Place
    <3>6. QED BY <1>1, <1>2, <3>1, <3>2, <3>5 DEF Aimed, Holds
  <2>4. QED BY <2>1, <2>2, <2>3
<1>4. ASSUME NEW q \in Requests \ {r} PROVE Aimed(q)'
  BY <1>1 DEF ApprovalInv, AimInv, Aimed, Names, Holds
<1>5. AimInv'
  BY <1>3, <1>4 DEF AimInv
<1>6. TextInv'
  BY <1>1, SameTexts DEF Inv, ShapeInv
<1>7. \A q \in Requests : at'[q] = "looked" => at[q] = "looked" /\ tx'[q] = tx[q]
  BY <1>1
<1>8. QED BY <1>1, <1>5, <1>6, <1>7, SamePromises DEF ApprovalInv

\* A save looks, and promises.
LEMMA LookApproves ==
  ASSUME Inv, ApprovalInv, NEW r \in Requests, SaveLook(r)
  PROVE  ApprovalInv'
<1> DEFINE S == Selected(r)
           x == tx'[r]
<1>1. /\ Go(r, "locked", "looked")
      /\ UNCHANGED <<doc, fields, comment, search, op, approval>>
      /\ \A c \in S : Follows(r, comment[c]) # comment[c] => Follows(r, comment[c]).field \in fields
      /\ tx' = [tx EXCEPT ![r].looked = S,
                          ![r].rows = [c \in S |-> Judged(r, comment[c])],
                          ![r].searched = {c \in S : BySearch(r, comment[c])}]
  BY DEF SaveLook
<1>2. at[r] = "locked" /\ at'[r] = "looked" /\ \A q \in Requests \ {r} : at'[q] = at[q]
  BY <1>1 DEF Go, Inv, ShapeInv
<1>3. \A q \in Requests \ {r} : tx'[q] = tx[q]
  BY <1>1 DEF Inv, ShapeInv
<1>4. Saves(op[r], tx[r], doc) /\ \A q \in Requests \ {r} : ~Holds(q)
  BY <1>2 DEF Inv, HoldInv, Holds
<1>5. S \subseteq There /\ \A c \in There : comment[c].status = "approved" => c \in S
  BY DEF Selected
<1>6. Aimed(r) /\ tx[r].order \subseteq DOMAIN FieldOrder /\ tx[r].doc \in DocumentRows
  BY <1>2, <1>4 DEF ApprovalInv, AimInv, Aimed, Holds, Saves
<1> HIDE DEF S
<1>7. /\ x.doc = tx[r].doc /\ x.order = tx[r].order /\ x.anchor = tx[r].anchor
      /\ x.looked = S /\ x.rows = [c \in S |-> Judged(r, comment[c])]
      /\ x.searched = {c \in S : BySearch(r, comment[c])}
  <2>1. TxKeys \subseteq DOMAIN tx[r]
    BY DEF Inv, ShapeInv
  <2>2. QED BY <1>1, <2>1 DEF Inv, ShapeInv, TxKeys
<1> HIDE DEF x
<1>8. ASSUME NEW c \in S PROVE Promise(x, c)
  <2>1. c \in Comments /\ RowKeys \subseteq DOMAIN comment[c] /\ Anchors(comment[c])
    BY <1>5 DEF There, Inv, ShapeInv, ApprovalInv, TextInv
  <2>2. PICK row : row = comment[c]
    OBVIOUS
  <2>3. Follows(r, row) # row => Follows(r, row).field \in fields
    BY <1>1, <2>2
  <2>4. /\ Anchors(Judged(r, row))
        /\ row.region # <<>> => Judged(r, row).region # <<>>
        /\ Percent = 0 /\ ~BySearch(r, row) /\ Judged(r, row).status = "approved" =>
                row.status = "approved" /\ Anchored(tx[r].doc, Judged(r, row)) = Anchored(doc, row)
    BY <1>6, <2>1, <2>2, <2>3, JudgedApproval
  <2>5. x.rows[c] = Judged(r, row) /\ (c \notin x.searched => ~BySearch(r, row))
    BY <1>7, <2>2
  <2>6. QED BY <1>7, <2>2, <2>4, <2>5 DEF Promise
<1>9. There' = There
  BY <1>1 DEF There
<1>10. PromiseInv'
  <2>1. ASSUME NEW q \in Requests, at'[q] = "looked" PROVE q = r
    BY <1>2, <1>4, <2>1 DEF Holds
  <2>2. \A c \in S : Promise(tx[r], c)'
    BY <1>1, <1>8 DEF Promise, Anchored, x
  <2>3. \A c \in There' : Approved(c)' => c \in S
    BY <1>1, <1>5, <1>9 DEF Approved
  <2>4. tx'[r].looked = S
    BY <1>7 DEF x
  <2>5. QED BY <2>1, <2>2, <2>3, <2>4 DEF PromiseInv
<1>11. TextInv'
  BY <1>1, SameTexts DEF Inv, ShapeInv
<1>12. ApprovalHolds'
  BY <1>1, <1>9 DEF ApprovalInv, ApprovalHolds, Anchored
<1>13. ASSUME NEW q \in Requests PROVE Aimed(q)'
  <2>1. Aimed(q) /\ Names(op[q])'
    BY <1>1 DEF ApprovalInv, AimInv, Aimed, Names
  <2>2. CASE q = r
    BY <1>1, <1>2, <1>6, <1>7, <2>1, <2>2 DEF Aimed, x
  <2>3. CASE q # r
    BY <1>1, <1>2, <1>3, <2>1, <2>3 DEF Aimed, Holds
  <2>4. QED BY <2>2, <2>3
<1>14. QED BY <1>10, <1>11, <1>12, <1>13 DEF ApprovalInv, AimInv

\* A document inserted, archived or brought back.
LEMMA WriteApproves ==
  ASSUME Inv, ApprovalInv, NEW r \in Requests, Insert(r) \/ SetArchived(r)
  PROVE  ApprovalInv'
<1>1. End(r) /\ UNCHANGED <<fields, comment, approval>> /\ ~Holds(r)
  BY DEF Insert, SetArchived, Holds
<1>2. doc' \in DocumentRows /\ doc'.version = doc.version + 1
  BY InsertKeeps, SetArchivedKeeps
<1>3. doc.version \in Nat
  BY DEF Inv, ShapeInv, DocumentRows
<1>4. AimInv'
  BY <1>1, <1>2, <1>3, EndKeepsAims
<1>5. TextInv'
  BY <1>1, <1>2, <1>3, SameTexts
<1>6. \A q \in Requests : ~Holds(q)'
  <2>1. \A q \in Requests \ {r} : ~Holds(q)
    <3>1. CASE Insert(r)
      <4>1. doc.version = 0
        BY <3>1 DEF Insert
      <4>2. ASSUME NEW q \in Requests, Holds(q) PROVE FALSE
        <5>1. op[q].kind = "save" /\ OpTyped(op[q])
          BY <4>2 DEF Inv, HoldInv, Saves, OpInv
        <5>2. QED BY <4>1, <5>1 DEF OpTyped
      <4>3. QED BY <4>2
    <3>2. CASE SetArchived(r)
      BY <3>2 DEF SetArchived, DocFree, Holds
    <3>3. QED BY <3>1, <3>2
  <2>2. QED BY <1>1, <2>1, EndFacts DEF Inv, Holds
<1>7. PromiseInv'
  BY <1>6 DEF PromiseInv, Holds
<1>8. There' = There
  BY <1>1 DEF There
<1>9. ApprovalHolds'
  <2>1. CASE Insert(r)
    <3>1. There = {}
      BY <2>1 DEF Insert, ApprovalInv, TextInv
    <3>2. QED BY <1>8, <3>1 DEF ApprovalHolds
  <2>2. CASE SetArchived(r)
    <3>1. PICK l, n : doc' = [doc EXCEPT !.live = l, !.version = n]
      BY <2>2 DEF SetArchived
    <3>2. doc'.body = doc.body
      BY <3>1 DEF Inv, ShapeInv, DocumentRows
    <3>3. QED BY <1>1, <1>8, <3>2 DEF ApprovalInv, ApprovalHolds, Anchored
  <2>3. QED BY <2>1, <2>2
<1>10. QED BY <1>4, <1>5, <1>7, <1>9 DEF ApprovalInv

\* A save keeps its promises.
LEMMA CommitApproves ==
  ASSUME Inv, ApprovalInv, NEW r \in Requests, SaveCommit(r)
  PROVE  ApprovalInv'
<1> DEFINE x == tx[r]
<1>1. /\ at[r] = "looked" /\ doc' = x.doc /\ End(r) /\ UNCHANGED fields
      /\ comment' = [c \in Comments |-> IF c \in DOMAIN x.rows THEN x.rows[c] ELSE comment[c]]
      /\ approval' = [c \in Comments |-> IF c \in x.searched THEN [approval[c] EXCEPT !.fair = FALSE] ELSE approval[c]]
  BY DEF SaveCommit
<1>2. /\ Saw(x, comment)
      /\ \A c \in x.looked : Promise(x, c)
      /\ \A c \in There : Approved(c) => c \in x.looked
  BY <1>1 DEF Inv, LookInv, ApprovalInv, PromiseInv
<1> HIDE DEF x
<1>3. doc' \in DocumentRows /\ doc'.version = doc.version + 1 /\ doc.version \in Nat
  BY SaveCommitKeeps DEF Inv, ShapeInv, DocumentRows
<1>4. DOMAIN x.rows = x.looked /\ x.looked \subseteq There
  BY <1>2 DEF Saw, There
<1>5. \A c \in x.looked : comment'[c] = x.rows[c] /\ comment'[c].life = "there"
  BY <1>1, <1>2, <1>4 DEF Saw
<1>6. \A c \in Comments \ x.looked : comment'[c] = comment[c]
  BY <1>1, <1>4
<1>7. There' = There
  BY <1>4, <1>5, <1>6 DEF There
<1>8. \A c \in Comments : DOMAIN approval[c] = DOMAIN approval'[c] /\ (approval'[c].fair => approval'[c] = approval[c] /\ c \notin x.searched)
  BY <1>1 DEF ApprovalInv, TextInv
<1>9. TextInv'
  <2>1. \A c \in Comments : Anchors(comment'[c])
    BY <1>2, <1>5, <1>6 DEF Promise, ApprovalInv, TextInv
  <2>2. DOMAIN approval' = Comments /\ \A c \in Comments : {"text", "fair"} \subseteq DOMAIN approval'[c]
    BY <1>1, <1>8 DEF ApprovalInv, TextInv
  <2>3. QED BY <1>3, <2>1, <2>2 DEF TextInv
<1>10. PromiseInv'
  <2>1. \A q \in Requests : ~Holds(q)'
    BY <1>1, EndFacts DEF Inv, HoldInv, Holds
  <2>2. QED BY <2>1 DEF PromiseInv, Holds
<1>11. ApprovalHolds'
  <2> SUFFICES ASSUME Percent = 0, NEW c \in There', comment'[c].status = "approved", approval'[c].fair
               PROVE  Anchored(doc', comment'[c]) = approval'[c].text
    BY DEF ApprovalHolds
  <2>1. c \in Comments /\ c \in There /\ approval'[c] = approval[c] /\ c \notin x.searched
    BY <1>7, <1>8 DEF There
  <2>2. CASE c \in x.looked
    <3>1. comment[c].status = "approved" /\ Anchored(x.doc, x.rows[c]) = Anchored(doc, comment[c])
      BY <1>2, <1>5, <2>1, <2>2 DEF Promise
    <3>2. Anchored(doc, comment[c]) = approval[c].text
      BY <2>1, <3>1 DEF ApprovalInv, ApprovalHolds
    <3>3. QED BY <1>1, <1>5, <2>1, <2>2, <3>1, <3>2
  <2>3. CASE c \notin x.looked
    BY <1>2, <1>6, <2>1, <2>3 DEF Approved
  <2>4. QED BY <2>2, <2>3
<1>12. AimInv'
  <2>1. ASSUME NEW c \in Comments, comment[c].life # "unborn"
        PROVE  /\ comment'[c].life # "unborn"
               /\ comment'[c].life = "there" => comment[c].life = "there" /\ (comment[c].region # <<>> => comment'[c].region # <<>>)
    <3>1. CASE c \in x.looked
      BY <1>2, <1>4, <1>5, <3>1 DEF Promise, There
    <3>2. CASE c \notin x.looked
      BY <1>6, <2>1, <3>2
    <3>3. QED BY <3>1, <3>2
  <2>2. QED BY <1>1, <1>3, <2>1, EndKeepsAims
<1>13. QED BY <1>9, <1>10, <1>11, <1>12 DEF ApprovalInv
\* A write of comments no save has looked at breaks no promise, when it approves
\* nothing under a save's eyes, and nothing but the text that stands there.
LEMMA CommentsApprove ==
  ASSUME Inv, ApprovalInv, NEW r \in Requests, End(r), ~Holds(r), doc' = doc,
         DOMAIN approval' = Comments, \A c \in Comments : {"text", "fair"} \subseteq DOMAIN approval'[c],
         \A c \in Comments :
            /\ c \in There /\ comment'[c] # comment[c] => CommentFree(r, c)
            /\ Anchors(comment'[c])
            /\ comment[c].life # "unborn" =>
                /\ comment'[c].life # "unborn"
                /\ comment'[c].life = "there" => comment[c].life = "there" /\ comment'[c].region = comment[c].region
            /\ comment'[c].life = "there" /\ comment'[c].status = "approved" /\ approval'[c].fair =>
                \/ /\ comment[c].life = "there" /\ Approved(c)
                   /\ approval'[c].text = approval[c].text
                   /\ Anchored(doc, comment'[c]) = Anchored(doc, comment[c])
                \/ /\ \A q \in Requests : at[q] # "looked"
                   /\ approval'[c].text = Anchored(doc, comment'[c]),
         doc.version = 0 => There' = {}
  PROVE  ApprovalInv'
<1>1. \A q \in Requests : at'[q] = "looked" => q # r /\ at[q] = "looked" /\ tx'[q] = tx[q]
  BY EndFacts DEF Inv
<1>2. TextInv'
  BY DEF TextInv
<1>3. AimInv'
  BY EndKeepsAims
<1>4. PromiseInv'
  <2> SUFFICES ASSUME NEW q \in Requests, at'[q] = "looked"
               PROVE  /\ \A c \in tx'[q].looked : Promise(tx[q], c)'
                      /\ \A c \in There' : Approved(c)' => c \in tx'[q].looked
    BY DEF PromiseInv
  <2>1. q # r /\ at[q] = "looked" /\ tx'[q] = tx[q]
    BY <1>1
  <2>2. /\ \A c \in tx[q].looked : Promise(tx[q], c)
        /\ \A c \in There : Approved(c) => c \in tx[q].looked
        /\ tx[q].looked \subseteq There
    BY <2>1 DEF ApprovalInv, PromiseInv, Inv, LookInv, Saw, There
  <2>3. ASSUME NEW c \in tx[q].looked PROVE Promise(tx[q], c)'
    <3>1. ~CommentFree(r, c)
      BY <2>1 DEF CommentFree
    <3>2. comment'[c] = comment[c]
      BY <2>2, <3>1 DEF There
    <3>3. Promise(tx[q], c)
      BY <2>2
    <3>4. QED BY <2>1, <3>2, <3>3 DEF Promise, Anchors, Anchored
  <2>4. ASSUME NEW c \in There', Approved(c)' PROVE c \in tx[q].looked
    <3>1. c \in Comments /\ comment'[c].life = "there" /\ comment'[c].status = "approved" /\ approval'[c].fair
      BY <2>4 DEF There, Approved
    <3>2. comment[c].life = "there" /\ Approved(c)
      BY <2>1, <3>1
    <3>3. QED BY <2>2, <3>1, <3>2 DEF There
  <2>5. QED BY <2>1, <2>3, <2>4
<1>5. ApprovalHolds'
  <2> SUFFICES ASSUME Percent = 0, NEW c \in There', comment'[c].status = "approved", approval'[c].fair
               PROVE  Anchored(doc, comment'[c]) = approval'[c].text
    BY DEF ApprovalHolds, Anchored
  <2>1. c \in Comments /\ comment'[c].life = "there"
    BY DEF There
  <2>2. CASE /\ comment[c].life = "there" /\ Approved(c)
             /\ approval'[c].text = approval[c].text
             /\ Anchored(doc, comment'[c]) = Anchored(doc, comment[c])
    BY <2>1, <2>2 DEF ApprovalInv, ApprovalHolds, Approved, There
  <2>3. CASE approval'[c].text = Anchored(doc, comment'[c])
    BY <2>3
  <2>4. QED BY <2>1, <2>2, <2>3
<1>6. QED BY <1>2, <1>3, <1>4, <1>5 DEF ApprovalInv

\* A new comment is not approved.
LEMMA InsertCommentApproves ==
  ASSUME Inv, ApprovalInv, NEW r \in Requests, InsertComment(r)
  PROVE  ApprovalInv'
<1> DEFINE new == [Unborn EXCEPT !.life = "there", !.review = op[r].kind = "review", !.field = op[r].field,
                                !.region = op[r].region, !.status = IF op[r].kind = "review" THEN "pending" ELSE "none",
                                !.anchor = tx[r].anchor, !.key = op[r].key]
<1>1. at[r] = "read" /\ End(r) /\ UNCHANGED <<doc, fields, approval>>
  BY DEF InsertComment
<1>2. PICK c \in Comments : comment[c].life = "unborn" /\ comment' = [comment EXCEPT ![c] = new]
  BY DEF InsertComment
<1>3. comment'[c] = new /\ \A d \in Comments \ {c} : comment'[d] = comment[d]
  BY <1>2 DEF Inv, ShapeInv
<1>4. Aimed(r) /\ op[r].kind \in {"review", "comment"} /\ doc.version > 0
  BY <1>1 DEF ApprovalInv, AimInv, Aimed
<1>5. /\ op[r].region \in {<<>>} \cup Place /\ (op[r].kind = "review" => op[r].region # <<>>)
      /\ tx[r].anchor \in Seq(Letters)
  BY <1>4 DEF Aimed, Names
<1>6. new.life = "there" /\ new.region = op[r].region /\ new.anchor = tx[r].anchor
  BY DEF Unborn
<1>7. new.review <=> op[r].kind = "review"
  BY Zenon DEF Unborn
<1>8. new.status = IF op[r].kind = "review" THEN "pending" ELSE "none"
  BY DEF Unborn
<1> HIDE DEF new
<1>9. Anchors(new) /\ new.status # "approved"
  BY <1>5, <1>6, <1>7, <1>8 DEF Anchors
<1>10. c \notin There
  BY <1>2 DEF There
<1>11. \A d \in Comments : Anchors(comment[d]) /\ {"text", "fair"} \subseteq DOMAIN approval[d]
  BY DEF ApprovalInv, TextInv
<1>12. ASSUME NEW d \in Comments
       PROVE  /\ d \in There /\ comment'[d] # comment[d] => CommentFree(r, d)
              /\ Anchors(comment'[d])
              /\ comment[d].life # "unborn" =>
                  /\ comment'[d].life # "unborn"
                  /\ comment'[d].life = "there" => comment[d].life = "there" /\ comment'[d].region = comment[d].region
              /\ comment'[d].life = "there" /\ comment'[d].status = "approved" /\ approval'[d].fair =>
                  /\ comment[d].life = "there" /\ Approved(d)
                  /\ approval'[d].text = approval[d].text
                  /\ Anchored(doc, comment'[d]) = Anchored(doc, comment[d])
  <2>1. CASE d = c
    BY <1>2, <1>3, <1>9, <1>10, <2>1
  <2>2. CASE d # c
    BY <1>1, <1>3, <1>11, <2>2 DEF Approved
  <2>3. QED BY <2>1, <2>2
<1>13. DOMAIN approval' = Comments /\ ~Holds(r) /\ doc.version # 0
  BY <1>1, <1>4 DEF ApprovalInv, TextInv, Holds, Inv, ShapeInv, DocumentRows
<1>14. QED BY <1>1, <1>11, <1>12, <1>13, CommentsApprove

\* A decision.
LEMMA DecideApproves ==
  ASSUME Inv, ApprovalInv, NEW r \in Requests, Decide(r)
  PROVE  ApprovalInv'
<1> DEFINE c == op[r].id
           s == op[r].status
<1>1. /\ at[r] = "asked" /\ op[r].kind = "decide" /\ CommentFree(r, c) /\ c \in There /\ End(r) /\ doc' = doc
      /\ approval' = IF s # "approved" THEN approval
                     ELSE [approval EXCEPT ![c] = [text |-> Anchored(doc, comment[c]),
                                                   fair |-> \A q \in Requests : at[q] # "looked"]]
  BY DEF Decide, Reaches
<1>2. PICK b : comment' = [comment EXCEPT ![c].status = s, ![c].stale = b]
  BY DEF Decide
<1>3. c \in Comments /\ comment[c].life = "there"
  BY <1>1 DEF There
<1>4. comment[c].region # <<>>
  BY <1>1, <1>3 DEF ApprovalInv, AimInv, Aimed, Names
<1>5. DOMAIN approval = Comments /\ \A d \in Comments : {"text", "fair"} \subseteq DOMAIN approval[d] /\ Anchors(comment[d])
  BY DEF ApprovalInv, TextInv
<1> HIDE DEF c, s
<1>6. /\ \A d \in Comments \ {c} : comment'[d] = comment[d]
      /\ comment'[c] = [comment[c] EXCEPT !.status = s, !.stale = b]
  BY <1>2, <1>3 DEF Inv, ShapeInv
<1>7. RowKeys \subseteq DOMAIN comment[c]
  BY <1>3 DEF Inv, ShapeInv
<1>8. /\ comment'[c].life = "there" /\ comment'[c].status = s /\ comment'[c].region = comment[c].region
      /\ comment'[c].anchor = comment[c].anchor /\ comment'[c].field = comment[c].field
  BY <1>3, <1>6, <1>7 DEF RowKeys
<1>9. Anchors(comment'[c])
  BY <1>3, <1>4, <1>5, <1>8 DEF Anchors
<1>10. Anchored(doc, comment'[c]) = Anchored(doc, comment[c])
  BY <1>8 DEF Anchored
<1>11. \A d \in Comments \ {c} : approval'[d] = approval[d]
  BY <1>1, <1>5
<1>12. s = "approved" => /\ DOMAIN approval'[c] = {"text", "fair"}
                         /\ approval'[c].text = Anchored(doc, comment[c])
  BY <1>1, <1>3, <1>5
<1>13. s = "approved" /\ approval'[c].fair => \A q \in Requests : at[q] # "looked"
  <2> DEFINE fair == \A q \in Requests : at[q] # "looked"
  <2>1. ASSUME s = "approved" PROVE approval'[c] = [text |-> Anchored(doc, comment[c]), fair |-> fair]
    <3>1. approval' = [approval EXCEPT ![c] = [text |-> Anchored(doc, comment[c]), fair |-> fair]]
      BY <1>1, <2>1, Zenon
    <3>2. PICK new : new = [text |-> Anchored(doc, comment[c]), fair |-> fair] /\ approval' = [approval EXCEPT ![c] = new]
      BY <3>1, Zenon
    <3>3. approval'[c] = new
      BY <1>3, <1>5, <3>2
    <3>4. QED BY <3>2, <3>3, Zenon
  <2> HIDE DEF fair
  <2>2. ASSUME s = "approved", ~fair PROVE ~approval'[c].fair
    <3>1. fair = FALSE
      <4>1. (~fair) => (fair = FALSE)
        BY DEF fair
      <4>2. QED BY <2>2, <4>1, Zenon
    <3>2. approval'[c] = [text |-> Anchored(doc, comment[c]), fair |-> FALSE]
      BY <2>1, <2>2, <3>1, Zenon
    <3>3. QED BY <3>2
  <2>3. QED BY <2>2 DEF fair
<1>14. DOMAIN approval' = Comments
  BY <1>1, <1>5
<1>15. \A d \in Comments : {"text", "fair"} \subseteq DOMAIN approval'[d]
  BY <1>1, <1>3, <1>5, <1>11, <1>12
<1>16. ASSUME NEW d \in Comments
       PROVE  /\ d \in There /\ comment'[d] # comment[d] => CommentFree(r, d)
              /\ Anchors(comment'[d])
              /\ comment[d].life # "unborn" =>
                  /\ comment'[d].life # "unborn"
                  /\ comment'[d].life = "there" => comment[d].life = "there" /\ comment'[d].region = comment[d].region
              /\ comment'[d].life = "there" /\ comment'[d].status = "approved" /\ approval'[d].fair =>
                  \/ /\ comment[d].life = "there" /\ Approved(d)
                     /\ approval'[d].text = approval[d].text
                     /\ Anchored(doc, comment'[d]) = Anchored(doc, comment[d])
                  \/ /\ \A q \in Requests : at[q] # "looked"
                     /\ approval'[d].text = Anchored(doc, comment'[d])
  <2>1. CASE d = c
    BY <1>1, <1>3, <1>8, <1>9, <1>10, <1>12, <1>13, <2>1
  <2>2. CASE d # c
    BY <1>5, <1>6, <1>11, <2>2 DEF Approved
  <2>3. QED BY <2>1, <2>2
<1>17. ~Holds(r) /\ doc.version # 0
  BY <1>1 DEF Holds, ApprovalInv, TextInv
<1>18. QED BY <1>1, <1>14, <1>15, <1>16, <1>17, CommentsApprove

\* A comment edited or deleted.
LEMMA EditApproves ==
  ASSUME Inv, ApprovalInv, NEW r \in Requests, Edit(r) \/ Delete(r)
  PROVE  ApprovalInv'
<1> DEFINE c == op[r].id
<1>1. at[r] = "asked" /\ CommentFree(r, c) /\ c \in There /\ End(r) /\ UNCHANGED <<doc, approval>>
  BY DEF Edit, Delete, Reaches
<1>2. c \in Comments /\ comment[c].life = "there"
  BY <1>1 DEF There
<1>3. \A d \in Comments \ {c} : comment'[d] = comment[d]
  BY <1>2 DEF Edit, Delete, Inv, ShapeInv
<1>4. DOMAIN approval = Comments /\ \A d \in Comments : {"text", "fair"} \subseteq DOMAIN approval[d] /\ Anchors(comment[d])
  BY DEF ApprovalInv, TextInv
<1>5. RowKeys \subseteq DOMAIN comment[c]
  BY <1>2 DEF Inv, ShapeInv
<1>6. /\ comment'[c].life # "unborn" /\ Anchors(comment'[c])
      /\ comment'[c].life = "there" =>
            /\ comment'[c].region = comment[c].region /\ comment'[c].field = comment[c].field
            /\ comment'[c].status = comment[c].status
  <2>1. CASE Edit(r)
    <3>1. PICK n : comment'[c] = [comment[c] EXCEPT !.edits = n]
      BY <2>1, <1>2 DEF Edit, Inv, ShapeInv
    <3> HIDE DEF c
    <3>2. /\ comment'[c].life = "there"
          /\ comment'[c].region = comment[c].region /\ comment'[c].field = comment[c].field
          /\ comment'[c].status = comment[c].status /\ comment'[c].anchor = comment[c].anchor
          /\ comment'[c].review = comment[c].review
      BY <1>2, <1>5, <3>1 DEF RowKeys
    <3>3. Anchors(comment'[c])
      BY <1>2, <1>4, <3>2 DEF Anchors
    <3>4. QED BY <3>2, <3>3
  <2>2. CASE Delete(r)
    <3>1. comment'[c] = [Unborn EXCEPT !.life = "deleted"]
      BY <2>2, <1>2 DEF Delete, Inv, ShapeInv
    <3>2. /\ comment'[c].life = "deleted" /\ comment'[c].region = <<>> /\ comment'[c].anchor = <<>>
          /\ comment'[c].status = "none" /\ comment'[c].review = FALSE
      BY <3>1 DEF Unborn
    <3>3. Anchors(comment'[c])
      BY <3>2, EmptySeq DEF Anchors
    <3>4. QED BY <3>2, <3>3
  <2>3. QED BY <2>1, <2>2
<1> HIDE DEF c
<1>7. ASSUME NEW d \in Comments
      PROVE  /\ d \in There /\ comment'[d] # comment[d] => CommentFree(r, d)
             /\ Anchors(comment'[d])
             /\ comment[d].life # "unborn" =>
                 /\ comment'[d].life # "unborn"
                 /\ comment'[d].life = "there" => comment[d].life = "there" /\ comment'[d].region = comment[d].region
             /\ comment'[d].life = "there" /\ comment'[d].status = "approved" /\ approval'[d].fair =>
                 /\ comment[d].life = "there" /\ Approved(d)
                 /\ approval'[d].text = approval[d].text
                 /\ Anchored(doc, comment'[d]) = Anchored(doc, comment[d])
  <2>1. CASE d = c
    BY <1>1, <1>2, <1>6, <2>1 DEF Approved, Anchored
  <2>2. CASE d # c
    BY <1>1, <1>3, <1>4, <2>2 DEF Approved
  <2>3. QED BY <2>1, <2>2
<1>8. ~Holds(r) /\ doc.version # 0
  BY <1>1 DEF Holds, ApprovalInv, TextInv
<1>9. QED BY <1>1, <1>4, <1>7, <1>8, CommentsApprove

\* A field removed under an approval ends what is promised of it.
LEMMA RemoveFieldApproves ==
  ASSUME Inv, ApprovalInv, NEW r \in Requests, RemoveField(r)
  PROVE  ApprovalInv'
<1> DEFINE f == op[r].field
<1>1. /\ at[r] = "asked" /\ End(r) /\ doc' = doc
      /\ \A c \in There : comment[c].field = f => CommentFree(r, c)
      /\ comment' = [c \in Comments |-> IF comment[c].field = f THEN [comment[c] EXCEPT !.field = ContentKey] ELSE comment[c]]
      /\ approval' = [c \in Comments |-> IF comment[c].field = f THEN [approval[c] EXCEPT !.fair = FALSE] ELSE approval[c]]
  BY DEF RemoveField
<1> HIDE DEF f
<1>2. DOMAIN approval = Comments /\ \A d \in Comments : {"text", "fair"} \subseteq DOMAIN approval[d] /\ Anchors(comment[d])
  BY DEF ApprovalInv, TextInv
<1>3. ASSUME NEW c \in Comments
      PROVE  /\ comment'[c].life = comment[c].life /\ comment'[c].region = comment[c].region
             /\ Anchors(comment'[c]) /\ DOMAIN approval'[c] = DOMAIN approval[c]
             /\ comment'[c] # comment[c] \/ approval'[c].fair # approval[c].fair => comment[c].field = f
             /\ comment[c].field = f => ~approval'[c].fair
             /\ comment[c].field # f => comment'[c] = comment[c] /\ approval'[c] = approval[c]
  <2>1. RowKeys \subseteq DOMAIN comment[c] /\ {"text", "fair"} \subseteq DOMAIN approval[c]
    BY <1>2 DEF Inv, ShapeInv
  <2>2. CASE comment[c].field = f
    <3>1. comment'[c] = [comment[c] EXCEPT !.field = ContentKey] /\ approval'[c] = [approval[c] EXCEPT !.fair = FALSE]
      BY <1>1, <2>2
    <3>2. /\ comment'[c].life = comment[c].life /\ comment'[c].region = comment[c].region
          /\ comment'[c].anchor = comment[c].anchor /\ comment'[c].status = comment[c].status
          /\ comment'[c].review = comment[c].review
      BY <2>1, <3>1 DEF RowKeys
    <3>3. Anchors(comment'[c])
      BY <1>2, <3>2 DEF Anchors
    <3>4. DOMAIN approval'[c] = DOMAIN approval[c] /\ ~approval'[c].fair
      BY <2>1, <3>1
    <3>5. QED BY <2>2, <3>2, <3>3, <3>4
  <2>3. CASE comment[c].field # f
    BY <1>1, <1>2, <2>3
  <2>4. QED BY <2>2, <2>3
<1>4. ASSUME NEW d \in Comments
      PROVE  /\ d \in There /\ comment'[d] # comment[d] => CommentFree(r, d)
             /\ Anchors(comment'[d])
             /\ comment[d].life # "unborn" =>
                 /\ comment'[d].life # "unborn"
                 /\ comment'[d].life = "there" => comment[d].life = "there" /\ comment'[d].region = comment[d].region
             /\ comment'[d].life = "there" /\ comment'[d].status = "approved" /\ approval'[d].fair =>
                 /\ comment[d].life = "there" /\ Approved(d)
                 /\ approval'[d].text = approval[d].text
                 /\ Anchored(doc, comment'[d]) = Anchored(doc, comment[d])
  BY <1>1, <1>3 DEF Approved
<1>5. DOMAIN approval' = Comments /\ \A c \in Comments : {"text", "fair"} \subseteq DOMAIN approval'[c]
  BY <1>1, <1>2, <1>3
<1>6. ~Holds(r) /\ There' = There
  BY <1>1, <1>3 DEF Holds, There
<1>7. doc.version = 0 => There' = {}
  BY <1>6 DEF ApprovalInv, TextInv
<1>8. QED BY <1>1, <1>4, <1>5, <1>6, <1>7, CommentsApprove

\* At the start every approval is of the text that stands there.
LEMMA InitApproval == Init => ApprovalInv
<1> SUFFICES ASSUME Init PROVE ApprovalInv OBVIOUS
<1>1. PICK st \in Starts :
        /\ doc = st.doc
        /\ comment = [c \in Comments |-> IF c \in DOMAIN st.comment THEN st.comment[c] ELSE Unborn]
        /\ approval = [c \in Comments |->
              [text |-> IF c \in DOMAIN st.comment /\ st.comment[c].status = "approved" THEN Anchored(st.doc, st.comment[c]) ELSE <<>>,
               fair |-> TRUE]]
  BY DEF Init
<1>2. \A c \in DOMAIN st.comment :
        /\ st.comment[c].life = "there" /\ st.doc.version > 0
        /\ st.comment[c].anchor \in Seq(Letters) /\ st.comment[c].region \in {<<>>} \cup (Nat \X Nat)
        /\ st.comment[c].review \/ st.comment[c].status # "none" => st.comment[c].region # <<>>
  BY DocumentsAssumption, Zenon DEF DocumentsAssumption
<1>3. at = [r \in Requests |-> "idle"] /\ op = [r \in Requests |-> NoOp] /\ tx = [r \in Requests |-> NoTx]
  BY DEF Init
<1>4. Unborn.life = "unborn" /\ Unborn.region = <<>> /\ Unborn.anchor = <<>> /\ Unborn.status = "none" /\ Unborn.review = FALSE
  BY DEF Unborn
<1>5. Anchors(Unborn)
  BY <1>4, EmptySeq DEF Anchors
<1>6. There = DOMAIN st.comment \cap Comments
  BY <1>1, <1>2, <1>4 DEF There
<1>7. TextInv
  <2>1. \A c \in Comments : Anchors(comment[c])
    BY <1>1, <1>2, <1>5 DEF Anchors, Place
  <2>2. doc.version = 0 => There = {}
    BY <1>1, <1>2, <1>6
  <2>3. DOMAIN approval = Comments /\ \A c \in Comments : {"text", "fair"} \subseteq DOMAIN approval[c]
    BY <1>1
  <2>4. QED BY <2>1, <2>2, <2>3 DEF TextInv
<1>8. AimInv
  <2>1. NoTx.anchor = <<>>
    BY Zenon DEF NoTx
  <2>2. NoOp.kind = "none"
    BY DEF NoOp
  <2>3. QED BY <1>3, <2>1, <2>2, EmptySeq DEF AimInv, Aimed, Names, Holds
<1>9. PromiseInv
  BY <1>3 DEF PromiseInv
<1>10. ApprovalHolds
  BY <1>1, <1>6 DEF ApprovalHolds
<1>11. QED BY <1>7, <1>8, <1>9, <1>10 DEF ApprovalInv

\* Every step keeps it.
LEMMA NextApproval == Inv /\ ApprovalInv /\ [Next]_vars => ApprovalInv'
<1> SUFFICES ASSUME Inv, ApprovalInv, [Next]_vars PROVE ApprovalInv' OBVIOUS
<1>1. CASE UNCHANGED vars
  <2>1. UNCHANGED <<doc, comment, approval, at, op, tx>>
    BY <1>1 DEF vars
  <2>2. TextInv'
    BY <2>1, SameTexts DEF Inv, ShapeInv
  <2>3. PromiseInv' /\ ApprovalHolds'
    BY <2>1, SamePromises
  <2>4. AimInv'
    BY <2>1 DEF ApprovalInv, AimInv, Aimed, Names, Holds
  <2>5. QED BY <2>2, <2>3, <2>4 DEF ApprovalInv
<1>2. CASE Next
  <2>1. PICK r \in Requests : Asks(r) \/ Refusals(r) \/ Writes(r) \/ Goes(r) \/ CommentWrites(r)
    BY <1>2, Steps
  <2>2. CASE Asks(r)
    BY <2>2, AskApproves
  <2>3. CASE Refusals(r)
    BY <2>3, RefusalApproves
  <2>4. CASE Writes(r)
    BY <2>4, WriteApproves, CommitApproves DEF Writes
  <2>5. CASE Goes(r)
    BY <2>5, GoApproves, LookApproves DEF Goes
  <2>6. CASE CommentWrites(r)
    BY <2>6, InsertCommentApproves, DecideApproves, EditApproves, RemoveFieldApproves DEF CommentWrites
  <2>7. QED BY <2>1, <2>2, <2>3, <2>4, <2>5, <2>6
<1>3. QED BY <1>1, <1>2

\* With a threshold of 0 an approved request stays approved of the very text
\* that stands where it is anchored, through any number of saves, conversions
\* with the text, decisions and archivings at once (comment/stale.go; the three
\* exceptions are those of ApprovalHolds).
THEOREM ApprovalsHold == Spec => []ApprovalHolds
<1>1. Init => Inv /\ ApprovalInv
  BY InitInv, InitApproval
<1>2. Inv /\ ApprovalInv /\ [Next]_vars => Inv' /\ ApprovalInv'
  BY NextInv, NextApproval
<1>3. ApprovalInv => ApprovalHolds
  BY DEF ApprovalInv
<1>4. QED BY <1>1, <1>2, <1>3, PTL DEF Spec
===============================================================================
