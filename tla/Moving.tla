-------------------------------- MODULE Moving --------------------------------
(***************************************************************************)
(* The order of the cards of a board: Move of src/internal/ticket/move.go  *)
(* (a drop beside a neighbour, at a given position or at the end of a      *)
(* column), the writes that change a column beside it (create, archive, an *)
(* update of the status), the frames the handlers publish and a client     *)
(* that sorts by them.                                                     *)
(*                                                                         *)
(* A drop is one transaction of several statements under READ COMMITTED:   *)
(* it locks the card it moves and nothing else, reads the neighbours,      *)
(* perhaps renumbers the column (which locks the rows it writes, one by    *)
(* one), reads again, writes.  Each statement is a step; what it wrote is  *)
(* seen by itself only, until the commit.                                  *)
(*                                                                         *)
(* Left out: who may reach a project, whether a status exists (TeamBoards),*)
(* activity and labels (Tickets).  Cards are numbers, compared as ids.     *)
(***************************************************************************)
EXTENDS Integers, FiniteSets

CONSTANTS
    Requests,   \* calls of the API, each of one operation
    Cards,      \* ticket ids of one project; creates take the next one
    Columns,    \* statuses: a card is in the column of its status
    Step,       \* positionStep, 1024 in the code
    Given,      \* the positions a caller may send
    Starts      \* what the board may hold at the start: functions from cards to [column, pos]

ASSUME MovingAssumption ==
    /\ Cards \subseteq Nat /\ IsFiniteSet(Cards)
    /\ Columns # {}
    /\ Step \in Nat /\ Step >= 2
    /\ Given \subseteq Nat
    /\ \A s \in Starts : DOMAIN s \subseteq Cards /\ \A c \in DOMAIN s : s[c] \in [column : Columns, pos : Int]

VARIABLES
    card,    \* the rows: column, position, version, and whether it is live
    at,      \* where each request stands
    op,      \* its operation
    tx,      \* what its transaction has read and written
    copy     \* a client's copies of the cards

vars == <<card, at, op, tx, copy>>

Rows == [column : Columns, pos : Int, version : Nat, live : BOOLEAN]

NoOp == [kind |-> "none"]
NoTx == [view |-> <<>>, base |-> <<>>, ord |-> <<>>, left |-> {}, wrote |-> <<>>, pos |-> 0, frames |-> <<>>]

\* moveTicketInput and MoveParams: at most one of position, before_id, after_id.
Places == [how : {"end"}] \cup [how : {"at"}, pos : Given] \cup [how : {"before", "after"}, card : Cards]

Operations ==
    [kind : {"move"}, id : Cards, to : Columns, place : Places, known : Nat]
    \cup [kind : {"create", "update"}, id : Cards, to : Columns]
    \cup [kind : {"archive"}, id : Cards]

Stages == {"idle", "asked", "locked", "crowded", "renumbering", "renumbered", "placed", "publishing", "done"}

Exists(c) == card[c].version > 0

Init ==
    /\ \E s \in Starts :
        card = [c \in Cards |->
                  IF c \in DOMAIN s THEN [column |-> s[c].column, pos |-> s[c].pos, version |-> 1, live |-> TRUE]
                  ELSE [column |-> CHOOSE k \in Columns : TRUE, pos |-> 0, version |-> 0, live |-> FALSE]]
    /\ at = [r \in Requests |-> "idle"]
    /\ op = [r \in Requests |-> NoOp]
    /\ tx = [r \in Requests |-> NoTx]
    /\ copy = card

-----------------------------------------------------------------------------
(* What a statement sees and what a transaction holds.                     *)

Open(r) == at[r] \in {"locked", "crowded", "renumbering", "renumbered", "placed"}

\* The rows r has locked: the card it moves, and those it has renumbered.
Holds(r, c) == Open(r) /\ op[r].kind = "move" /\ c \in {op[r].id} \cup DOMAIN tx[r].wrote

Free(r, c) == \A q \in Requests \ {r} : ~Holds(q, c)

\* The rows as r sees them: those committed, and its own writes.
View(r) == [c \in Cards |-> IF c \in DOMAIN tx[r].wrote THEN [card[c] EXCEPT !.pos = tx[r].wrote[c]] ELSE card[c]]

\* ORDER BY position, id.
Precedes(v, c, d) == v[c].pos < v[d].pos \/ (v[c].pos = v[d].pos /\ c < d)

\* The target column without the card that moves.
Others(v, r) == {c \in Cards : v[c].live /\ v[c].column = op[r].to /\ c # op[r].id}

\* n has its neighbour o on the side asked for.
Beyond(v, r, n) == {c \in Others(v, r) : IF op[r].place.how = "before" THEN Precedes(v, c, n) ELSE Precedes(v, n, c)}

Nearest(v, r, n, o) ==
    /\ o \in Beyond(v, r, n)
    /\ \A c \in Beyond(v, r, n) \ {o} : IF op[r].place.how = "before" THEN Precedes(v, c, o) ELSE Precedes(v, o, c)

Go(r, from, to) == at[r] \in from /\ at' = [at EXCEPT ![r] = to]

\* The transaction rolls back and the handler answers with an error.
Refuse(r) ==
    /\ at' = [at EXCEPT ![r] = "done"]
    /\ op' = [op EXCEPT ![r] = NoOp]
    /\ tx' = [tx EXCEPT ![r] = NoTx]
    /\ UNCHANGED <<card, copy>>

-----------------------------------------------------------------------------
(* A caller.  One that sends If-Match has read the card: known is the      *)
(* version it saw, 0 when it sends none.                                   *)
Known == {c \in Cards : Exists(c)}

Asks ==
    UNION {
        {[kind |-> "move", id |-> c, to |-> k, place |-> p, known |-> n] :
            c \in Known, k \in Columns, p \in Places, n \in {0}},
        {[kind |-> "move", id |-> c, to |-> card[c].column, place |-> [how |-> "end"], known |-> card[c].version] :
            c \in Known},
        [kind : {"archive"}, id : Known],
        [kind : {"update"}, id : Known, to : Columns],
        [kind : {"create"}, id : {c \in Cards \ Known : \A d \in Cards : d < c => Exists(d)}, to : Columns]}

\* Bound: one create at a time.
Ask(r) ==
    /\ Go(r, {"idle"}, "asked")
    /\ \E o \in Asks :
        /\ o.kind = "create" => \A q \in Requests : op[q].kind # "create"
        /\ o.kind = "move" /\ o.place.how \in {"before", "after"} => Exists(o.place.card)
        /\ op' = [op EXCEPT ![r] = o]
    /\ UNCHANGED <<card, tx, copy>>

-----------------------------------------------------------------------------
(* The writes beside a move, one row each.                                 *)

\* What every handler does after its commit: publish what was written.
Committed(r, new) ==
    /\ card' = [c \in Cards |-> IF c \in DOMAIN new THEN new[c] ELSE card[c]]
    /\ at' = [at EXCEPT ![r] = "publishing"]
    /\ tx' = [tx EXCEPT ![r] = [NoTx EXCEPT !.frames = new]]
    /\ UNCHANGED <<op, copy>>

Bumped(c) == [card[c] EXCEPT !.version = @ + 1]

\* A created ticket goes to the end of its project, archived tickets and
\* other columns included.
EndOfProject == {c \in Cards : Exists(c) /\ \A d \in Cards : Exists(d) => card[d].pos <= card[c].pos}

Create(r) ==
    /\ at[r] = "asked" /\ op[r].kind = "create"
    /\ \E p \in {card[c].pos : c \in EndOfProject} \cup (IF EndOfProject = {} THEN {0} ELSE {}) :
        LET c == op[r].id
        IN  Committed(r, [d \in {c} |-> [column |-> op[r].to, pos |-> p + Step, version |-> 1, live |-> TRUE]])

Archive(r) ==
    LET c == op[r].id
    IN  /\ at[r] = "asked" /\ op[r].kind = "archive"
        /\ Free(r, c)
        /\ card[c].live
        /\ Committed(r, [d \in {c} |-> [Bumped(d) EXCEPT !.live = FALSE]])

\* Update sets the status and leaves the position alone.
UpdateStatus(r) ==
    LET c == op[r].id
    IN  /\ at[r] = "asked" /\ op[r].kind = "update"
        /\ Free(r, c)
        /\ card[c].live
        /\ Committed(r, [d \in {c} |-> [Bumped(d) EXCEPT !.column = op[r].to]])

NoRow(r) ==
    /\ at[r] = "asked" /\ op[r].kind \in {"archive", "update"}
    /\ Free(r, op[r].id)
    /\ ~card[op[r].id].live
    /\ Refuse(r)

-----------------------------------------------------------------------------
(* Move                                                                    *)

\* The statement that locks the card, FOR UPDATE: scope, liveness and the
\* version are its predicates, evaluated on the row it waited for.
MoveLock(r) ==
    LET c == op[r].id
    IN  /\ op[r].kind = "move"
        /\ Free(r, c)
        /\ card[c].live
        /\ op[r].known # 0 => card[c].version = op[r].known
        /\ Go(r, {"asked"}, "locked")
        /\ UNCHANGED <<card, op, tx, copy>>

MoveNoRow(r) ==
    LET c == op[r].id
    IN  /\ op[r].kind = "move" /\ at[r] = "asked"
        /\ Free(r, c)
        /\ ~ (card[c].live /\ (op[r].known # 0 => card[c].version = op[r].known))
        /\ Refuse(r)

\* place: the position is chosen from what this statement sees.
Choose(r, pos) ==
    /\ Go(r, {"locked", "renumbered"}, "placed")
    /\ tx' = [tx EXCEPT ![r].pos = pos, ![r].view = View(r)]
    /\ UNCHANGED <<card, op, copy>>

PlaceAt(r) ==
    /\ op[r].kind = "move" /\ op[r].place.how = "at"
    /\ Choose(r, op[r].place.pos)

\* coalesce(max(position), 0) + Step, over the live cards of the column.
PlaceAtEnd(r) ==
    /\ op[r].kind = "move" /\ op[r].place.how = "end"
    /\ LET v == View(r)
       IN  \/ /\ Others(v, r) = {}
              /\ Choose(r, Step)
           \/ \E l \in Others(v, r) :
              /\ \A c \in Others(v, r) : v[c].pos <= v[l].pos
              /\ Choose(r, v[l].pos + Step)

Neighbourly(r) == op[r].kind = "move" /\ op[r].place.how \in {"before", "after"}

\* between, no card on the other side: a step away from the neighbour.
PlaceOutside(r) ==
    /\ Neighbourly(r)
    /\ LET v == View(r)
           n == op[r].place.card
       IN  /\ n \in Others(v, r)
           /\ Beyond(v, r, n) = {}
           /\ Choose(r, IF op[r].place.how = "before" THEN v[n].pos - Step ELSE v[n].pos + Step)

\* The lower and the upper of the two positions a card is dropped between.
Low(v, r, n, o)  == IF op[r].place.how = "before" THEN v[o].pos ELSE v[n].pos
High(v, r, n, o) == IF op[r].place.how = "before" THEN v[n].pos ELSE v[o].pos

\* Mutant of Roomy: one number of room is taken for enough.
Roomy_OffByOne(lo, hi) == hi - lo >= 1

Roomy(lo, hi) == hi - lo >= 2

PlaceBetween(r) ==
    /\ Neighbourly(r)
    /\ LET v == View(r)
           n == op[r].place.card
       IN  /\ n \in Others(v, r)
           /\ \E o \in Cards :
                /\ Nearest(v, r, n, o)
                /\ LET lo == Low(v, r, n, o)
                       hi == High(v, r, n, o)
                   IN  Roomy(lo, hi) /\ Choose(r, lo + (hi - lo) \div 2)

\* No whole number between them.
Crowded(r) ==
    /\ Neighbourly(r)
    /\ LET v == View(r)
           n == op[r].place.card
       IN  /\ n \in Others(v, r)
           /\ \E o \in Cards : Nearest(v, r, n, o) /\ ~Roomy(Low(v, r, n, o), High(v, r, n, o))

MakeRoom(r) ==
    /\ Crowded(r)
    /\ Go(r, {"locked"}, "crowded")
    /\ UNCHANGED <<card, op, tx, copy>>

\* The second attempt finds no room either: an error, and a rollback.
NoRoom(r) == at[r] = "renumbered" /\ Crowded(r) /\ Refuse(r)

\* ErrNeighbourNotFound: not live, not in the column, or the card itself.
NeighbourNotFound(r) ==
    /\ at[r] \in {"locked", "renumbered"}
    /\ Neighbourly(r)
    /\ op[r].place.card \notin Others(View(r), r)
    /\ Refuse(r)

\* Mutant of Rank: row_number() OVER (ORDER BY id).
Rank_ById(v, r, c) == Cardinality({d \in Others(v, r) : d <= c})

\* row_number() OVER (ORDER BY position, id).
Rank(v, r, c) == Cardinality({d \in Others(v, r) : d = c \/ Precedes(v, d, c)})

\* renumber begins: its subquery computes every number in one snapshot, and
\* the rows that have theirs already are not touched.
Renumber(r) ==
    /\ Go(r, {"crowded"}, "renumbering")
    /\ LET v == View(r)
           ord == [c \in Others(v, r) |-> Rank(v, r, c) * Step]
       IN  tx' = [tx EXCEPT ![r].base = v, ![r].ord = ord, ![r].left = {c \in Others(v, r) : v[c].pos # ord[c]}]
    /\ UNCHANGED <<card, op, copy>>

\* The UPDATE takes a row.  One it had to wait for is looked at again, for
\* the id and the position: not for the column or for being live.
RenumberRow(r) ==
    /\ at[r] = "renumbering"
    /\ \E c \in tx[r].left :
        /\ Free(r, c)
        /\ tx' = [tx EXCEPT ![r].left = @ \ {c},
                            ![r].wrote = [d \in DOMAIN @ \cup (IF card[c].pos # tx[r].ord[c] THEN {c} ELSE {})
                                            |-> tx[r].ord[d]]]
    /\ UNCHANGED <<card, at, op, copy>>

RenumberEnds(r) ==
    /\ tx[r].left = {}
    /\ Go(r, {"renumbering"}, "renumbered")
    /\ UNCHANGED <<card, op, tx, copy>>

\* Mutant of Written: renumbered cards keep their version.
Written_Unversioned(r) ==
    [c \in {op[r].id} \cup DOMAIN tx[r].wrote |->
        IF c = op[r].id THEN [Bumped(c) EXCEPT !.column = op[r].to, !.pos = tx[r].pos]
        ELSE [card[c] EXCEPT !.pos = tx[r].wrote[c]]]

\* The rows of the transaction: each one a new version.
Written(r) ==
    [c \in {op[r].id} \cup DOMAIN tx[r].wrote |->
        IF c = op[r].id THEN [Bumped(c) EXCEPT !.column = op[r].to, !.pos = tx[r].pos]
        ELSE [Bumped(c) EXCEPT !.pos = tx[r].wrote[c]]]

\* The UPDATE of the card, whose row is locked since MoveLock, and the commit.
Move(r) ==
    /\ at[r] = "placed"
    /\ Committed(r, Written(r))

\* Any failure of an open transaction: a cancelled request, the victim of a
\* deadlock between two renumbers.
Abort(r) == Open(r) /\ Refuse(r)

-----------------------------------------------------------------------------
(* The handler of a move publishes each renumbered card and then the one   *)
(* that was moved; the client takes a frame that is newer than its copy.   *)
Publish(r) ==
    /\ at[r] = "publishing"
    /\ \E c \in DOMAIN tx[r].frames :
        LET f == tx[r].frames
            rest == DOMAIN f \ {c}
        IN  /\ c = op[r].id => rest = {}
            /\ copy' = IF f[c].version > copy[c].version THEN [copy EXCEPT ![c] = f[c]] ELSE copy
            /\ IF rest = {}
               THEN /\ at' = [at EXCEPT ![r] = "done"]
                    /\ op' = [op EXCEPT ![r] = NoOp]
                    /\ tx' = [tx EXCEPT ![r] = NoTx]
               ELSE /\ tx' = [tx EXCEPT ![r].frames = [d \in rest |-> f[d]]]
                    /\ UNCHANGED <<at, op>>
    /\ UNCHANGED card

Next ==
    \E r \in Requests :
        \/ Ask(r) \/ Create(r) \/ Archive(r) \/ UpdateStatus(r) \/ NoRow(r)
        \/ MoveLock(r) \/ MoveNoRow(r)
        \/ PlaceAt(r) \/ PlaceAtEnd(r) \/ PlaceOutside(r) \/ PlaceBetween(r)
        \/ MakeRoom(r) \/ NoRoom(r) \/ NeighbourNotFound(r)
        \/ Renumber(r) \/ RenumberRow(r) \/ RenumberEnds(r)
        \/ Move(r) \/ Abort(r) \/ Publish(r)

Spec == Init /\ [][Next]_vars
-----------------------------------------------------------------------------
(* Properties                                                              *)

TypeOK ==
    /\ card \in [Cards -> Rows]
    /\ at \in [Requests -> Stages]
    /\ op \in [Requests -> Operations \cup {NoOp}]
    /\ copy \in [Cards -> Rows]
    /\ \A r \in Requests :
        /\ tx[r].pos \in Int
        /\ DOMAIN tx[r].wrote \subseteq DOMAIN tx[r].ord /\ DOMAIN tx[r].ord \subseteq Cards

\* The card stands directly beside its neighbour, on the side asked for, in
\* the order every list shows: no third card of the column is between them.
Beside(v, c, k, n, how) ==
    /\ IF how = "before" THEN Precedes(v, c, n) ELSE Precedes(v, n, c)
    /\ \A d \in Cards \ {c, n} :
        v[d].live /\ v[d].column = k =>
            IF how = "before" THEN ~ (Precedes(v, c, d) /\ Precedes(v, d, n))
            ELSE ~ (Precedes(v, n, d) /\ Precedes(v, d, c))

Commits(r) == at[r] = "placed" /\ at'[r] = "publishing"

\* What r saw when it chose the position still holds when it writes.
StillTrue(r) == \A c \in Cards : View(r)[c] = tx[r].view[c]

\* A drop that nobody's commit overtook lands directly beside the neighbour
\* it named, ties of position and a renumbering included (move.go:177 "strictly
\* between it and the card on its other side").
LandsBeside ==
    [][\A r \in Requests :
        Commits(r) /\ StillTrue(r) /\ Neighbourly(r) =>
            Beside(card', op[r].id, op[r].to, op[r].place.card, op[r].place.how)]_vars

\* Renumbering changes numbers and no order: two cards that nobody else has
\* written since the renumbering read them stand, after the commit, as before
\* it (move.go:246 "in their current order").
OrderIsKept ==
    [][\A r \in Requests : Commits(r) /\ tx[r].base # <<>> =>
        \A c, d \in Cards \ {op[r].id} :
            (/\ card[c] = tx[r].base[c] /\ card[d] = tx[r].base[d]
             /\ card[c].live /\ card[d].live /\ card[c].column = card[d].column)
            => (Precedes(card, c, d) <=> Precedes(card', c, d))]_vars

\* When every handler is through, a client that applied the frames holds
\* every card where the database has it, the renumbered ones included
\* (move.go:249: a client with the old position "would otherwise sort the
\* moved ticket wrongly").
BoardConverges == (\A r \in Requests : at[r] \in {"idle", "done"}) => copy = card

\* move.go:246 "spaces the target column's tickets": a renumbering writes no
\* card of another column.
RenumbersItsColumn ==
    [][\A r \in Requests : Commits(r) =>
        \A c \in DOMAIN tx[r].wrote : card[c].column = op[r].to]_vars

\* move.go:178 "At most one renumber is needed: after it the neighbours are
\* 1024 apart".
OneRenumberIsEnough == \A r \in Requests : at[r] = "renumbered" => ~Crowded(r)
===============================================================================
