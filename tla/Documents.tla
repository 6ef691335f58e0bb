------------------------------- MODULE Documents -------------------------------
(***************************************************************************)
(* One document, its comments and review requests, and the search rows of  *)
(* both: internal/document, internal/comment, and the part of              *)
(* internal/aspect and internal/search their transactions go through.      *)
(*                                                                         *)
(* A save locks the document, reads the fields of its aspect type on       *)
(* another connection, writes, and then, in the same transaction, looks at *)
(* the review requests (comment.StaleReviews): those of a document that    *)
(* became an aspect follow the text into its field, and an approval of a   *)
(* text that changed is taken back.  A request for a review reads the      *)
(* document without a lock, in three statements.  The other writes hold    *)
(* one row from their first statement to the commit and are one step.      *)
(*                                                                         *)
(* Left out: who may reach, edit or decide (workspace membership, author,  *)
(* listed reviewers), titles, the scope a document is filed under, the     *)
(* activity log, a second aspect type.  A text is a short sequence.        *)
(***************************************************************************)
EXTENDS Integers, Sequences, FiniteSets

CONSTANTS
    Requests,    \* calls of the API, each of one operation
    Comments,    \* comment ids
    FieldOrder,  \* the fields of the aspect type, in its order
    Contents,    \* what a caller may send: [type, body]
    Regions,     \* ranges <<start, end>> of a text; <<>> is none
    Keys,        \* idempotency keys of comments; NoKey for none
    NoKey,
    Percent,     \* review.stale_threshold_percent
    Starts       \* what there may be at the start: [doc, comment]

Fields == {FieldOrder[i] : i \in DOMAIN FieldOrder}
ContentKey == "content"

\* A body maps the content or fields to texts somebody may send.
Texts == UNION {{b[k] : k \in DOMAIN b} : b \in {x.body : x \in Contents} \cup {s.doc.body : s \in Starts}}
Bodies == UNION {[S -> Texts] : S \in SUBSET (Fields \cup {ContentKey})}
Letters == UNION {{t[i] : i \in DOMAIN t} : t \in Texts}
DocumentRows == [live : BOOLEAN, type : {"normal", "aspect"}, body : Bodies, version : Nat]

ASSUME DocumentsAssumption ==
    /\ ContentKey \notin Fields /\ "" \notin Fields
    /\ FieldOrder \in Seq(Fields) /\ Texts \subseteq Seq(Letters)
    /\ Percent \in 0..100
    /\ <<>> \notin Regions /\ \A g \in Regions : g \in Nat \X Nat
    /\ Contents \subseteq [type : {"normal", "aspect"}, body : Bodies]
    /\ \A s \in Starts :
        /\ s.doc \in DocumentRows /\ (s.doc.live <=> s.doc.version > 0)
        /\ DOMAIN s.comment \subseteq Comments
        /\ \A c \in DOMAIN s.comment :
            /\ {"life", "edits", "review", "field", "region", "status", "stale", "anchor"} \subseteq DOMAIN s.comment[c]
            /\ s.comment[c].life = "there" /\ s.comment[c].edits = 0
            /\ s.doc.version > 0
            /\ s.comment[c].anchor \in Seq(Letters) /\ s.comment[c].region \in {<<>>} \cup (Nat \X Nat)
            /\ s.comment[c].review \/ s.comment[c].status # "none" => s.comment[c].region # <<>>

VARIABLES
    doc,       \* the row: its body maps keys to texts
    fields,    \* the fields the type has
    comment,   \* the rows
    search,    \* the search rows of the document and of the comments
    at, op, tx,
    approval   \* history: the text each request was approved for, and whether a
               \* save was past its look at the requests then (see ApprovalHolds)

vars == <<doc, fields, comment, search, at, op, tx, approval>>

NoOp == [kind |-> "none"]
NoTx == [doc |-> <<>>, order |-> {}, movedTo |-> "", looked |-> {}, rows |-> <<>>, searched |-> {}, anchor |-> <<>>]
Unborn == [life |-> "unborn", review |-> FALSE, field |-> ContentKey, region |-> <<>>, status |-> "none",
         anchor |-> <<>>, stale |-> FALSE, key |-> NoKey, edits |-> 0]

There == {c \in Comments : comment[c].life = "there"}

-----------------------------------------------------------------------------
(* Texts.                                                                  *)

FieldText(body, k) == IF k \in DOMAIN body THEN body[k] ELSE <<>>

\* slice, clamped to the text.
Slice(t, g) == SubSeq(t, g[1] + 1, IF g[2] > Len(t) THEN Len(t) ELSE g[2])

Longest(S) == CHOOSE n \in S : \A m \in S : m <= n
Shorter(a, b) == IF Len(a) < Len(b) THEN Len(a) ELSE Len(b)

CommonPrefix(a, b) == Longest({n \in 0..Shorter(a, b) : \A i \in 1..n : a[i] = b[i]})
CommonSuffix(a, b, p) ==
    Longest({n \in 0..(Shorter(a, b) - p) : \A i \in 0..(n - 1) : a[Len(a) - i] = b[Len(b) - i]})

ChangedRunes(before, after) ==
    LET p == CommonPrefix(before, after)
    IN  (IF Len(before) > Len(after) THEN Len(before) ELSE Len(after)) - p - CommonSuffix(before, after, p)

\* Mutant of IsStale: at least the threshold, of the text as it is now.
IsStale_OfTheNewText(before, after) == ChangedRunes(before, after) * 100 > Percent * Len(after) + 100

IsStale(before, after) == ChangedRunes(before, after) * 100 > Percent * Len(before)

\* The places of a text in another, by where they start.
Found(needle, hay) == {i \in 0..(Len(hay) - Len(needle)) : SubSeq(hay, i + 1, i + Len(needle)) = needle}
Least(S) == CHOOSE n \in S : \A m \in S : n <= m

\* The text a comment is anchored to.
Anchored(d, c) == Slice(FieldText(d.body, c.field), c.region)

-----------------------------------------------------------------------------
(* The search rows.                                                        *)

\* A row per key of the body, or the title's when it has none.
RowsOf(body) == IF DOMAIN body = {} THEN {<<"title", <<>>>>} ELSE {<<k, body[k]>> : k \in DOMAIN body}

ClearDocument(s) == [s EXCEPT !.doc = {}]
IndexDocument(s, d) == [s EXCEPT !.doc = @ \cup RowsOf(d.body)]
ClearComment(s, c) == [s EXCEPT !.comments = {p \in @ : p[1] # c}]
IndexComment(s, c, row) == [s EXCEPT !.comments = @ \cup {<<c, row.edits>>}]

-----------------------------------------------------------------------------
Init ==
    /\ \E s \in Starts :
        /\ doc = s.doc
        /\ comment = [c \in Comments |-> IF c \in DOMAIN s.comment THEN s.comment[c] ELSE Unborn]
        /\ search = [doc |-> IF s.doc.version > 0 THEN RowsOf(s.doc.body) ELSE {},
                     comments |-> {<<c, 0>> : c \in DOMAIN s.comment}]
        /\ approval = [c \in Comments |->
                [text |-> IF c \in DOMAIN s.comment /\ s.comment[c].status = "approved" THEN Anchored(s.doc, s.comment[c]) ELSE <<>>,
                 fair |-> TRUE]]
    /\ fields = Fields
    /\ at = [r \in Requests |-> "idle"]
    /\ op = [r \in Requests |-> NoOp]
    /\ tx = [r \in Requests |-> NoTx]

\* The FieldIDs a statement reads now: the places, in the order of the type, of
\* those that are there.
FieldIDs == {i \in DOMAIN FieldOrder : FieldOrder[i] \in fields}
FirstOf(ids) == FieldOrder[Least(ids)]

\* Mutant of DocFree: the row is read without FOR UPDATE.
DocFree_Unlocked(r) == r \in Requests

\* Who holds the document's row: a save or an archiving, FOR UPDATE, until
\* its commit.  An insert of a comment waits for it too (its foreign key).
DocFree(r) == \A q \in Requests \ {r} : at[q] \notin {"locked", "looked"}

\* The rows of the comments a save has looked at are its own until the commit.
CommentFree(r, c) == \A q \in Requests \ {r} : ~(at[q] = "looked" /\ c \in tx[q].looked)

Go(r, from, to) == at[r] = from /\ at' = [at EXCEPT ![r] = to]

Begin(r, o) == Go(r, "idle", "asked") /\ op' = [op EXCEPT ![r] = o]

\* The transaction ends, and with it what it had read.
End(r) == at' = [at EXCEPT ![r] = "done"] /\ tx' = [tx EXCEPT ![r] = NoTx] /\ op' = [op EXCEPT ![r] = NoOp]

\* An error, a conflict or a replay: nothing was written.
Refuse(r) == End(r) /\ UNCHANGED <<doc, fields, comment, search, approval>>

Rest == UNCHANGED <<doc, fields, comment, search, tx, approval>>

-----------------------------------------------------------------------------
(* What callers send: one definition per handler.  A caller with If-Match  *)
(* sends the version it last saw, and some the one before.                 *)

Known == {0, doc.version} \cup (IF doc.version > 1 THEN {doc.version - 1} ELSE {})

\* create-document, with a key: all the inserts here share it.
AskInsert(r) ==
    /\ doc.version = 0
    /\ \E x \in Contents : Begin(r, [kind |-> "insert", type |-> x.type, body |-> x.body])
    /\ Rest

AskSave(r) ==
    /\ doc.version > 0
    /\ \E x \in Contents, n \in Known : Begin(r, [kind |-> "save", type |-> x.type, body |-> x.body, known |-> n])
    /\ Rest

\* archive-document and unarchive-document.
AskArchive(r) ==
    /\ doc.version > 0
    /\ \E k \in {"archive", "unarchive"}, n \in Known : Begin(r, [kind |-> k, known |-> n])
    /\ Rest

\* A normal document is commented on without a field, an aspect with one.
Targets == IF doc.version = 0 \/ doc.type = "normal" THEN {ContentKey} ELSE Fields

\* create-review-request
AskReview(r) ==
    /\ \E k \in Targets, g \in Regions, i \in Keys \cup {NoKey} :
        Begin(r, [kind |-> "review", field |-> k, region |-> g, key |-> i])
    /\ Rest

\* create-comment, on the document.
AskComment(r) ==
    /\ \E k \in Targets \cup {ContentKey}, g \in Regions \cup {<<>>}, i \in Keys \cup {NoKey} :
        Begin(r, [kind |-> "comment", field |-> k, region |-> g, key |-> i])
    /\ Rest

\* update-review-request
AskDecide(r) ==
    /\ \E c \in There, s \in {"pending", "approved", "changes_requested"} :
        comment[c].review /\ Begin(r, [kind |-> "decide", id |-> c, status |-> s])
    /\ Rest

\* update-comment and delete-comment.
AskEdit(r) ==
    /\ \E c \in There, k \in {"edit", "delete"} : Begin(r, [kind |-> k, id |-> c])
    /\ Rest

\* remove-aspect-field
AskField(r) ==
    /\ \E f \in fields : Begin(r, [kind |-> "removeField", field |-> f])
    /\ Rest

-----------------------------------------------------------------------------
(* Documents                                                               *)

\* refuse: may this write proceed on the row it has locked?
Accepts(o, archiving) ==
    /\ doc.live = archiving
    /\ o.known # 0 => o.known = doc.version

\* checkBody: the body to store, the field the text moved to, and whether
\* there is an error.
Converts(o) == o.kind = "save" /\ doc.type = "normal" /\ o.type = "aspect"

Carried(o) ==
    IF ContentKey \in DOMAIN o.body THEN {o.body[ContentKey]}
    ELSE IF ContentKey \in DOMAIN doc.body THEN {doc.body[ContentKey]} ELSE {}

Moves(o, ids) == Converts(o) /\ ids # {} /\ Carried(o) # {} /\ FirstOf(ids) \notin DOMAIN o.body

Stored(o, ids) ==
    IF ~Converts(o) THEN o.body
    ELSE LET kept == DOMAIN o.body \ {ContentKey}
         IN  [k \in kept \cup (IF Moves(o, ids) THEN {FirstOf(ids)} ELSE {}) |->
                IF k \in kept THEN o.body[k] ELSE CHOOSE t \in Carried(o) : TRUE]

Fits(o, ids) ==
    o.type = "aspect" =>
        /\ Converts(o) => ids # {}
        /\ DOMAIN Stored(o, ids) \subseteq fields

\* insert: the key, the fields, and the row; all inserts carry the one key,
\* and ON CONFLICT lets one of them through.
Insert(r) ==
    /\ at[r] = "asked" /\ op[r].kind = "insert"
    /\ doc.version = 0
    /\ Fits(op[r], FieldIDs)
    /\ doc' = [live |-> TRUE, type |-> op[r].type, body |-> Stored(op[r], FieldIDs), version |-> 1]
    /\ search' = IndexDocument(ClearDocument(search), doc')
    /\ End(r)
    /\ UNCHANGED <<fields, comment, approval>>

InsertReplays(r) == at[r] = "asked" /\ op[r].kind = "insert" /\ doc.version > 0 /\ Refuse(r)

InsertRefused(r) == at[r] = "asked" /\ op[r].kind = "insert" /\ doc.version = 0 /\ ~Fits(op[r], FieldIDs) /\ Refuse(r)

\* update: the lock, the version, the body against the type as it is now.
SaveLock(r) ==
    LET o == op[r]
        ids == FieldIDs
    IN  /\ o.kind = "save"
        /\ DocFree(r)
        /\ Accepts(o, TRUE)
        /\ Fits(o, ids)
        /\ Go(r, "asked", "locked")
        /\ tx' = [tx EXCEPT ![r].doc = [doc EXCEPT !.type = o.type, !.body = Stored(o, ids), !.version = @ + 1],
                            ![r].order = IF Converts(o) THEN ids ELSE {},
                            ![r].movedTo = IF Moves(o, ids) THEN FirstOf(ids) ELSE ""]
        /\ UNCHANGED <<doc, fields, comment, search, op, approval>>

SaveRefused(r) ==
    /\ at[r] = "asked" /\ op[r].kind = "save"
    /\ DocFree(r)
    /\ ~(Accepts(op[r], TRUE) /\ Fits(op[r], FieldIDs))
    /\ Refuse(r)

\* The rows StaleReviews selects: a conversion looks at all that have a
\* region, every save at those approved.
Selected(r) ==
    {c \in There : comment[c].status = "approved" \/ (tx[r].order # {} /\ comment[c].region # <<>>)}

\* reanchor: with the text, or to the first field its own text is found in.
Hits(r, row) ==
    {i \in tx[r].order : Found(row.anchor, FieldText(tx[r].doc.body, FieldOrder[i])) # {}}

Reanchored(r, row) ==
    IF tx[r].movedTo # "" THEN [row EXCEPT !.field = tx[r].movedTo]
    ELSE IF row.anchor = <<>> \/ Hits(r, row) = {} THEN row
    ELSE LET f == FirstOf(Hits(r, row))
             i == Least(Found(row.anchor, FieldText(tx[r].doc.body, f)))
         IN  [row EXCEPT !.field = f, !.region = <<i, i + Len(row.anchor)>>]

\* Mutant of Follows: only the open requests follow the text.
Follows_OnlyPending(r, row) ==
    IF tx[r].order # {} /\ row.field = ContentKey /\ row.region # <<>> /\ row.status = "pending" THEN Reanchored(r, row) ELSE row

Follows(r, row) ==
    IF tx[r].order # {} /\ row.field = ContentKey /\ row.region # <<>> THEN Reanchored(r, row) ELSE row

BySearch(r, row) == tx[r].movedTo = "" /\ Follows(r, row).field # row.field

\* An approval of a text this write changed is taken back; one re-anchored
\* by search is not looked at again.
Judged(r, row) ==
    LET new == Follows(r, row)
        before == Slice(FieldText(doc.body, row.field), new.region)
    IN  IF /\ row.status = "approved" /\ row.region # <<>> /\ ~BySearch(r, row)
           /\ IsStale(before, Anchored(tx[r].doc, new))
        THEN [new EXCEPT !.status = "pending", !.stale = TRUE] ELSE new

\* StaleReviews, in the write's transaction: the rows it selects are locked,
\* re-anchored and judged.  A request approved after this is not seen.
SaveLook(r) ==
    /\ Go(r, "locked", "looked")
    /\ \A c \in Selected(r) : CommentFree(r, c)
    /\ \A c \in Selected(r) : Follows(r, comment[c]) # comment[c] => Follows(r, comment[c]).field \in fields
    /\ tx' = [tx EXCEPT ![r].looked = Selected(r),
                        ![r].rows = [c \in Selected(r) |-> Judged(r, comment[c])],
                        ![r].searched = {c \in Selected(r) : BySearch(r, comment[c])}]
    /\ UNCHANGED <<doc, fields, comment, search, op, approval>>

\* The field the text follows into was removed meanwhile: the foreign key
\* refuses it, and the save rolls back.
SaveFails(r) ==
    /\ at[r] = "locked"
    /\ \E c \in Selected(r) : Follows(r, comment[c]) # comment[c] /\ Follows(r, comment[c]).field \notin fields
    /\ Refuse(r)

SaveCommit(r) ==
    /\ at[r] = "looked"
    /\ doc' = tx[r].doc
    /\ comment' = [c \in Comments |-> IF c \in DOMAIN tx[r].rows THEN tx[r].rows[c] ELSE comment[c]]
    /\ search' = IndexDocument(ClearDocument(search), doc')
    /\ approval' = [c \in Comments |-> IF c \in tx[r].searched THEN [approval[c] EXCEPT !.fair = FALSE] ELSE approval[c]]
    /\ End(r)
    /\ UNCHANGED fields

\* A cancelled request, anywhere between the lock and the commit.
Abort(r) == at[r] \in {"locked", "looked"} /\ Refuse(r)

\* setArchived, one row lock from the first statement to the commit.
SetArchived(r) ==
    LET archive == op[r].kind = "archive"
    IN  /\ at[r] = "asked" /\ op[r].kind \in {"archive", "unarchive"}
        /\ DocFree(r)
        /\ Accepts(op[r], archive)
        /\ doc' = [doc EXCEPT !.live = ~archive, !.version = @ + 1]
        /\ search' = IF archive THEN ClearDocument(search) ELSE IndexDocument(ClearDocument(search), doc')
        /\ End(r)
        /\ UNCHANGED <<fields, comment, approval>>

ArchiveRefused(r) ==
    /\ at[r] = "asked" /\ op[r].kind \in {"archive", "unarchive"}
    /\ DocFree(r)
    /\ ~Accepts(op[r], op[r].kind = "archive")
    /\ Refuse(r)

-----------------------------------------------------------------------------
(* Comments and review requests                                            *)

Creates(r) == op[r].kind \in {"review", "comment"}

Used(k) == k # NoKey /\ \E c \in There : comment[c].key = k

\* The fast path: the key has been used.
Replays(r) == at[r] = "asked" /\ Creates(r) /\ Used(op[r].key) /\ Refuse(r)

\* target and checkField, on the pool: the document is live, and the field
\* is one of its type's; a normal document has none.  A plain comment may
\* go without a field on either.
Aims(r) ==
    /\ doc.version > 0 /\ doc.live
    /\ IF op[r].field = ContentKey THEN op[r].kind = "comment" \/ doc.type = "normal"
       ELSE doc.type = "aspect" /\ op[r].field \in fields

Target(r) ==
    /\ Creates(r) /\ ~Used(op[r].key)
    /\ Aims(r)
    /\ Go(r, "asked", IF op[r].kind = "review" THEN "aimed" ELSE "read")
    /\ UNCHANGED <<doc, fields, comment, search, op, tx, approval>>

NoTarget(r) == at[r] = "asked" /\ Creates(r) /\ ~Used(op[r].key) /\ ~Aims(r) /\ Refuse(r)

\* The field's text, read and not locked; the range must lie inside it.
InRange(r) == op[r].region[2] <= Len(FieldText(doc.body, op[r].field))

ReadText(r) ==
    /\ Go(r, "aimed", "read")
    /\ InRange(r)
    /\ tx' = [tx EXCEPT ![r].anchor = Slice(FieldText(doc.body, op[r].field), op[r].region)]
    /\ UNCHANGED <<doc, fields, comment, search, op, approval>>

RegionPastEnd(r) == at[r] = "aimed" /\ ~InRange(r) /\ Refuse(r)

\* The row, its reviewers, its search row and the commit.  The foreign keys
\* wait for a save that holds the document, and refuse a field that is gone.
InsertComment(r) ==
    /\ at[r] = "read"
    /\ DocFree(r)
    /\ ~Used(op[r].key)
    /\ op[r].field \in fields \cup {ContentKey}
    /\ \E c \in Comments :
        LET row == [Unborn EXCEPT !.life = "there", !.review = op[r].kind = "review", !.field = op[r].field,
                                !.region = op[r].region, !.status = IF op[r].kind = "review" THEN "pending" ELSE "none",
                                !.anchor = tx[r].anchor, !.key = op[r].key]
        IN  /\ comment[c].life = "unborn"
            /\ comment' = [comment EXCEPT ![c] = row]
            /\ search' = IndexComment(search, c, row)
    /\ End(r)
    /\ UNCHANGED <<doc, fields, approval>>

InsertCommentRefused(r) ==
    /\ at[r] = "read"
    /\ DocFree(r)
    /\ Used(op[r].key) \/ op[r].field \notin fields \cup {ContentKey}
    /\ Refuse(r)

\* The comment a request names: there, of a live document, and not locked.
Reaches(r) == op[r].id \in There /\ doc.live

\* SetReviewStatus: the same status again writes nothing; leaving pending
\* clears the reason.
Decide(r) ==
    LET c == op[r].id
        s == op[r].status
    IN  /\ at[r] = "asked" /\ op[r].kind = "decide"
        /\ CommentFree(r, c)
        /\ Reaches(r) /\ comment[c].status # s
        /\ comment' = [comment EXCEPT ![c].status = s, ![c].stale = IF s = "pending" THEN @ ELSE FALSE]
        /\ approval' = IF s # "approved" THEN approval
                       ELSE [approval EXCEPT ![c] = [text |-> Anchored(doc, comment[c]),
                                                     fair |-> \A q \in Requests : at[q] # "looked"]]
        /\ End(r)
        /\ UNCHANGED <<doc, fields, search>>

DecideNothing(r) ==
    /\ at[r] = "asked" /\ op[r].kind = "decide"
    /\ CommentFree(r, op[r].id)
    /\ ~(Reaches(r) /\ comment[op[r].id].status # op[r].status)
    /\ Refuse(r)

\* Mutant of Edit: the old search row is left in place.
Edit_NotCleared(r) ==
    LET c == op[r].id
        row == [comment[c] EXCEPT !.edits = @ + 1]
    IN  /\ at[r] = "asked" /\ op[r].kind = "edit"
        /\ CommentFree(r, c)
        /\ Reaches(r)
        /\ comment' = [comment EXCEPT ![c] = row]
        /\ search' = IndexComment(search, c, row)
        /\ End(r)
        /\ UNCHANGED <<doc, fields, approval>>

\* Update, of a comment's body.
Edit(r) ==
    LET c == op[r].id
        row == [comment[c] EXCEPT !.edits = @ + 1]
    IN  /\ at[r] = "asked" /\ op[r].kind = "edit"
        /\ CommentFree(r, c)
        /\ Reaches(r)
        /\ comment' = [comment EXCEPT ![c] = row]
        /\ search' = IndexComment(ClearComment(search, c), c, row)
        /\ End(r)
        /\ UNCHANGED <<doc, fields, approval>>

Delete(r) ==
    LET c == op[r].id
    IN  /\ at[r] = "asked" /\ op[r].kind = "delete"
        /\ CommentFree(r, c)
        /\ Reaches(r)
        /\ comment' = [comment EXCEPT ![c] = [Unborn EXCEPT !.life = "deleted"]]
        /\ search' = ClearComment(search, c)
        /\ End(r)
        /\ UNCHANGED <<doc, fields, approval>>

NoComment(r) ==
    /\ at[r] = "asked" /\ op[r].kind \in {"edit", "delete"}
    /\ CommentFree(r, op[r].id)
    /\ ~Reaches(r)
    /\ Refuse(r)

\* RemoveField deletes the row of the field; its values stay in the bodies,
\* and the comments on it lose their field (ON DELETE SET NULL), which waits
\* for a save that holds one of them or has just pointed one at the field.
RemoveField(r) ==
    LET f == op[r].field
    IN  /\ at[r] = "asked" /\ op[r].kind = "removeField"
        /\ \A c \in There : comment[c].field = f => CommentFree(r, c)
        /\ \A q \in Requests : at[q] = "looked" =>
            \A c \in tx[q].looked : tx[q].rows[c].field = f => comment[c].field = f
        /\ fields' = fields \ {f}
        /\ comment' = [c \in Comments |-> IF comment[c].field = f THEN [comment[c] EXCEPT !.field = ContentKey] ELSE comment[c]]
        /\ approval' = [c \in Comments |-> IF comment[c].field = f THEN [approval[c] EXCEPT !.fair = FALSE] ELSE approval[c]]
        /\ End(r)
        /\ UNCHANGED <<doc, search>>

\* Removed already.
NoField(r) == at[r] = "asked" /\ op[r].kind = "removeField" /\ op[r].field \notin fields /\ Refuse(r)

Next ==
    \E r \in Requests :
        \/ AskInsert(r) \/ AskSave(r) \/ AskArchive(r) \/ AskReview(r) \/ AskComment(r)
        \/ AskDecide(r) \/ AskEdit(r) \/ AskField(r)
        \/ Insert(r) \/ InsertReplays(r) \/ InsertRefused(r)
        \/ SaveLock(r) \/ SaveRefused(r) \/ SaveLook(r) \/ SaveFails(r) \/ SaveCommit(r) \/ Abort(r)
        \/ SetArchived(r) \/ ArchiveRefused(r)
        \/ Replays(r) \/ Target(r) \/ NoTarget(r) \/ ReadText(r) \/ RegionPastEnd(r)
        \/ InsertComment(r) \/ InsertCommentRefused(r)
        \/ Decide(r) \/ DecideNothing(r) \/ Edit(r) \/ Delete(r) \/ NoComment(r)
        \/ RemoveField(r) \/ NoField(r)

Spec == Init /\ [][Next]_vars
-----------------------------------------------------------------------------
(* The document is a versioned register (Register) to those who write it.  *)

R == INSTANCE Register WITH
        Writers <- Requests,
        Values <- [live : BOOLEAN, type : {"normal", "aspect"}, body : Bodies],
        value <- [live |-> doc.live, type |-> doc.type, body |-> doc.body],
        version <- doc.version,
        phase <- [r \in Requests |-> IF at[r] \in {"idle", "done"} THEN at[r] ELSE "asked"],
        want <- [r \in Requests |-> IF "known" \in DOMAIN op[r] THEN op[r].known ELSE 0]

\* Every write of the document is one put over the version its caller named,
\* and one new version, whatever is read between its lock and its commit
\* (document.go:647 "the version it checks is the version it writes over").
ImplementsRegister == R!RegSpec

-----------------------------------------------------------------------------
(* Properties                                                              *)

Statuses == {"pending", "approved", "changes_requested"}

TypeOK ==
    /\ doc.live \in BOOLEAN /\ doc.type \in {"normal", "aspect"} /\ doc.version \in Nat
    /\ doc.body \in Bodies
    /\ fields \subseteq Fields
    /\ \A c \in Comments :
        /\ comment[c].field \in Fields \cup {ContentKey}
        /\ comment[c].status \in Statuses \cup {"none"}
        /\ comment[c].review <=> comment[c].status # "none"
    /\ \A r \in Requests : at[r] \in {"idle", "asked", "locked", "looked", "aimed", "read", "done"}

\* Search answers with what is stored: the rows are those of the body as it
\* is, none for an archived document, and one of each comment with the text
\* it has now (document.go:296 "the blob and the index move together or not at
\* all").
SearchFollowsDocument ==
    /\ search.doc = IF doc.version > 0 /\ doc.live THEN RowsOf(doc.body) ELSE {}
    /\ search.comments = {<<c, comment[c].edits>> : c \in There}

\* With a threshold of 0 an approved request is approved of the very text
\* that stands where it is anchored: through saves, conversions with the
\* text, archivings and back.  Not so (fair) when the approval came between
\* a save's look and its commit, when a conversion re-anchored it by search
\* (see ReanchoredIsTheSameText), and when the field under it was removed.
ApprovalHolds ==
    Percent = 0 => \A c \in There :
        comment[c].status = "approved" /\ approval[c].fair => Anchored(doc, comment[c]) = approval[c].text

\* A conversion that moves the text takes along every anchor that was there
\* when it looked: none of them is left on the content of an aspect document
\* (docs/review-requests.md:111 "every review request on the document whose
\* field_id is null and which has a region (open or decided, any status)").
AnchorsFollowTheText ==
    [][\A r \in Requests : at[r] = "looked" /\ at'[r] = "done" /\ doc' # doc /\ tx[r].movedTo # "" =>
        \A c \in There : comment[c].region # <<>> /\ comment[c].field = ContentKey =>
            comment'[c].field = tx[r].movedTo]_vars

\* A request re-anchored by search stays approved "as it is the same text"
\* (docs/review-requests.md:121; stale.go:212 "the same text by
\* construction"): where it is anchored after the commit stands the text that
\* stood there before.
ReanchoredIsTheSameText ==
    [][\A r \in Requests : at[r] = "looked" /\ at'[r] = "done" /\ doc' # doc =>
        \A c \in tx[r].searched : comment[c].status = "approved" =>
            Anchored(doc', comment'[c]) = Anchored(doc, comment[c])]_vars
===============================================================================
