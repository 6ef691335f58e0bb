----------------------------- MODULE MovingProofs -----------------------------
(***************************************************************************)
(* Proofs about Moving, for any number of requests and columns and any     *)
(* finite set of cards.                                                    *)
(*                                                                         *)
(* Every step is one of three: quiet (a request works on what only it      *)
(* sees), a commit (rows are replaced by rows of greater versions, which   *)
(* the request then has to publish), or the publication of one row.        *)
(***************************************************************************)
EXTENDS Moving, FiniteSetTheorems, TLAPS

-----------------------------------------------------------------------------
(* Types, and what is known of a request at each of its stages.            *)

Views == [Cards -> Rows]
Some(S) == UNION {[D -> S] : D \in SUBSET Cards}

Txs == [view : Views \cup {<<>>}, base : Views \cup {<<>>}, ord : Some(Int), left : SUBSET Cards,
        wrote : Some(Int), pos : Int, frames : Some(Rows)]

TypeInv ==
    /\ card \in Views /\ copy \in Views
    /\ at \in [Requests -> Stages]
    /\ op \in [Requests -> Operations \cup {NoOp}]
    /\ tx \in [Requests -> Txs]

\* w is v or came after it: versions only grow, and one version is one row.
Later(v, w) == \A c \in Cards : v[c].version < w[c].version \/ v[c] = w[c]

\* What a renumbering has read and written: the numbers are those of one
\* snapshot, and a card of the column whose number is not written has it
\* already, is still to be looked at, or was written by another.
Renumbers(r) ==
    LET b == tx[r].base
        o == tx[r].ord
    IN  /\ b \in Views /\ Later(b, card)
        /\ \A c \in Cards : b[c].live => b[c].version > 0
        /\ o = [c \in Others(b, r) |-> Rank(b, r, c) * Step]
        /\ tx[r].left \subseteq Others(b, r)
        /\ DOMAIN tx[r].wrote \subseteq Others(b, r)
        /\ \A c \in DOMAIN tx[r].wrote : tx[r].wrote[c] = o[c]
        /\ \A c \in Others(b, r) :
            \/ c \in tx[r].left \cup DOMAIN tx[r].wrote
            \/ b[c].pos = o[c]
            \/ b[c].version < card[c].version

\* The transaction has written nothing beside the position it chose.
Untouched(r) == /\ tx[r].base = <<>> /\ tx[r].ord = <<>> /\ tx[r].wrote = <<>> /\ tx[r].left = {}

StageInv(r) ==
    /\ at[r] \in {"idle", "done"} => op[r] = NoOp /\ tx[r] = NoTx
    /\ at[r] \notin {"idle", "done"} => op[r] \in Operations
    /\ at[r] \in {"asked", "locked", "crowded"} => tx[r] = NoTx
    /\ Open(r) => op[r].kind = "move" /\ Exists(op[r].id)
    /\ at[r] \in {"renumbering", "renumbered"} => Renumbers(r)
    /\ at[r] = "renumbered" => tx[r].left = {}
    /\ at[r] = "placed" => Untouched(r) \/ (Renumbers(r) /\ tx[r].left = {})
    /\ at[r] = "asked" /\ op[r].kind = "create" => ~Exists(op[r].id)

\* A card that was never created is not live, and one request creates at a time.
BirthInv ==
    /\ \A c \in Cards : card[c].live => Exists(c)
    /\ \A q, r \in Requests : op[q].kind = "create" /\ op[r].kind = "create" => q = r

Core == TypeInv /\ BirthInv /\ \A r \in Requests : StageInv(r)

\* An operation names a card, and a drop the column and the place it aims at.
LEMMA OpOf ==
    ASSUME NEW o \in Operations
    PROVE  /\ o.id \in Cards
           /\ o.kind \in {"move", "create", "update", "archive"}
           /\ o.kind # "archive" => o.to \in Columns
           /\ o.kind = "move" => o.place \in Places
  BY DEF Operations

\* The place of a drop is beside a card, at a position, or at the end.
LEMMA PlaceOf ==
    ASSUME NEW p \in Places
    PROVE  /\ p.how = "at" => p.pos \in Int
           /\ p.how \in {"before", "after"} => p.card \in Cards
<1>1. Given \subseteq Int
  BY MovingAssumption
<1>2. CASE p \in [how : {"end"}]
  BY <1>2
<1>3. CASE p \in [how : {"at"}, pos : Given]
  BY <1>1, <1>3
<1>4. CASE p \in [how : {"before", "after"}, card : Cards]
  BY <1>4
<1> QED
  BY <1>2, <1>3, <1>4 DEF Places

\* What a transaction begins with is of its types.
LEMMA NoneIsMade == <<>> \in Some(Int) /\ <<>> \in Some(Rows) /\ NoTx \in Txs /\ DOMAIN <<>> = {}
<1>1. DOMAIN <<>> = {}
  OBVIOUS
<1>2. <<>> \in [{} -> Int] /\ <<>> \in [{} -> Rows]
  OBVIOUS
<1>3. <<>> \in Some(Int) /\ <<>> \in Some(Rows)
  BY <1>2 DEF Some
<1>4. NoTx \in Txs
  BY <1>3 DEF NoTx, Txs
<1> QED
  BY <1>1, <1>3, <1>4

\* What the transaction sees is a board.
LEMMA ViewIs ==
    ASSUME Core, NEW r \in Requests
    PROVE  /\ View(r) \in Views
           /\ \A c \in Cards : c \in DOMAIN tx[r].wrote => View(r)[c] = [card[c] EXCEPT !.pos = tx[r].wrote[c]]
           /\ \A c \in Cards : c \notin DOMAIN tx[r].wrote => View(r)[c] = card[c]
<1>1. tx[r].wrote \in Some(Int)
  BY DEF Core, TypeInv, Txs
<1>2. PICK D \in SUBSET Cards : tx[r].wrote \in [D -> Int]
  BY <1>1 DEF Some
<1>3. ASSUME NEW c \in Cards, c \in DOMAIN tx[r].wrote PROVE [card[c] EXCEPT !.pos = tx[r].wrote[c]] \in Rows
  BY <1>2, <1>3 DEF Core, TypeInv, Views, Rows
<1>4. View(r) \in Views
  BY <1>3 DEF View, Views, Core, TypeInv
<1> QED
  BY <1>4 DEF View

-----------------------------------------------------------------------------
(* The three kinds of steps.                                               *)

\* A step of r alone, which nobody else can see.
Quiet(r) ==
    /\ card' = card /\ copy' = copy
    /\ at[r] # "publishing" /\ at'[r] # "publishing"
    /\ \A q \in Requests \ {r} : at'[q] = at[q] /\ op'[q] = op[q] /\ tx'[q] = tx[q]

\* A commit: the rows it writes are newer, and all but a created one were there.
Stored(r, new) ==
    /\ Committed(r, new)
    /\ at[r] \in {"asked", "placed"} /\ op[r] \in Operations
    /\ new \in Some(Rows)
    /\ \A c \in DOMAIN new :
        /\ card[c].version < new[c].version
        /\ Exists(c) \/ (op[r].kind = "create" /\ at[r] = "asked" /\ c = op[r].id)

\* A row with its next version.
LEMMA BumpedIs ==
    ASSUME Core, NEW c \in Cards
    PROVE  Bumped(c) \in Rows /\ Bumped(c).version > card[c].version
  BY DEF Core, TypeInv, Views, Rows, Bumped

\* One row, of one card.
LEMMA OneRow ==
    ASSUME NEW c \in Cards, NEW x \in Rows
    PROVE  [d \in {c} |-> x] \in Some(Rows)
<1>1. [d \in {c} |-> x] \in [{c} -> Rows] /\ {c} \in SUBSET Cards
  OBVIOUS
<1> QED
  BY <1>1 DEF Some

\* The actions that commit rows.
Writes(r) == Create(r) \/ Archive(r) \/ UpdateStatus(r) \/ Move(r)

\* Create, archive, update and move commit newer rows of the cards they name.
LEMMA CommitIs ==
    ASSUME Core, NEW r \in Requests, Writes(r)
    PROVE  \E new : Stored(r, new)
<1>1. StageInv(r) /\ BirthInv /\ TypeInv
  BY DEF Core
<1>2. CASE Create(r)
  <2> DEFINE c == op[r].id
  <2>1. at[r] = "asked" /\ op[r] \in Operations /\ op[r].kind = "create" /\ ~Exists(c)
    BY <1>1, <1>2 DEF Create, StageInv
  <2>2. c \in Cards /\ op[r].to \in Columns
    BY <2>1, OpOf
  <2>3. PICK p \in {card[d].pos : d \in EndOfProject} \cup (IF EndOfProject = {} THEN {0} ELSE {}) :
            Committed(r, [d \in {c} |-> [column |-> op[r].to, pos |-> p + Step, version |-> 1, live |-> TRUE]])
    BY <1>2 DEF Create
  <2>4. p \in Int
    BY <1>1 DEF TypeInv, Views, Rows, EndOfProject
  <2> DEFINE x == [column |-> op[r].to, pos |-> p + Step, version |-> 1, live |-> TRUE]
  <2>5. x \in Rows
    BY <2>2, <2>4, MovingAssumption DEF Rows
  <2>6. card[c].version = 0
    BY <2>1, <2>2, <1>1 DEF TypeInv, Views, Rows, Exists
  <2>7. [d \in {c} |-> x] \in Some(Rows)
    BY <2>2, <2>5, OneRow
  <2> QED
    BY <2>1, <2>3, <2>6, <2>7 DEF Stored
<1>3. CASE Archive(r)
  <2> DEFINE c == op[r].id
             x == [Bumped(c) EXCEPT !.live = FALSE]
  <2>1. at[r] = "asked" /\ op[r] \in Operations /\ op[r].kind = "archive" /\ card[c].live
    BY <1>1, <1>3 DEF Archive, StageInv
  <2>2. c \in Cards
    BY <2>1, OpOf
  <2>3. x \in Rows /\ card[c].version < x.version
    BY <2>2, BumpedIs, <1>1 DEF Rows, TypeInv, Views
  <2>4. Committed(r, [d \in {c} |-> x])
    <3>1. [d \in {c} |-> [Bumped(d) EXCEPT !.live = FALSE]] = [d \in {c} |-> x]
      OBVIOUS
    <3> QED
      BY <1>3, <3>1, Zenon DEF Archive
  <2>5. [d \in {c} |-> x] \in Some(Rows)
    BY <2>2, <2>3, OneRow
  <2>6. Exists(c)
    BY <1>1, <2>1, <2>2 DEF BirthInv
  <2> HIDE DEF x
  <2>7. Stored(r, [d \in {c} |-> x])
    BY <2>1, <2>3, <2>4, <2>5, <2>6 DEF Stored
  <2> QED
    BY <2>7
<1>4. CASE UpdateStatus(r)
  <2> DEFINE c == op[r].id
             x == [Bumped(c) EXCEPT !.column = op[r].to]
  <2>1. at[r] = "asked" /\ op[r] \in Operations /\ op[r].kind = "update" /\ card[c].live
    BY <1>1, <1>4 DEF UpdateStatus, StageInv
  <2>2. c \in Cards /\ op[r].to \in Columns
    BY <2>1, OpOf
  <2>3. x \in Rows /\ card[c].version < x.version
    BY <2>2, BumpedIs, <1>1 DEF Rows, TypeInv, Views
  <2>4. Committed(r, [d \in {c} |-> x])
    <3>1. [d \in {c} |-> [Bumped(d) EXCEPT !.column = op[r].to]] = [d \in {c} |-> x]
      OBVIOUS
    <3> QED
      BY <1>4, <3>1, Zenon DEF UpdateStatus
  <2>5. [d \in {c} |-> x] \in Some(Rows)
    BY <2>2, <2>3, OneRow
  <2>6. Exists(c)
    BY <1>1, <2>1, <2>2 DEF BirthInv
  <2> HIDE DEF x
  <2>7. Stored(r, [d \in {c} |-> x])
    BY <2>1, <2>3, <2>4, <2>5, <2>6 DEF Stored
  <2> QED
    BY <2>7
<1>5. CASE Move(r)
  <2> DEFINE c == op[r].id
  <2>1. at[r] = "placed" /\ op[r] \in Operations /\ op[r].kind = "move" /\ Exists(c)
    BY <1>1, <1>5 DEF Move, StageInv, Open
  <2>2. c \in Cards /\ op[r].to \in Columns
    BY <2>1, OpOf
  <2>3. tx[r].pos \in Int /\ tx[r].wrote \in Some(Int)
    BY <1>1 DEF TypeInv, Txs
  <2>4. PICK D \in SUBSET Cards : tx[r].wrote \in [D -> Int]
    BY <2>3 DEF Some
  <2>5. ASSUME NEW d \in D PROVE Exists(d)
    <3>1. Renumbers(r)
      BY <1>1, <2>1, <2>4, <2>5 DEF StageInv, Untouched
    <3>2. d \in Cards /\ d \in Others(tx[r].base, r)
      BY <3>1, <2>4, <2>5 DEF Renumbers
    <3>3. tx[r].base \in Views /\ tx[r].base[d].version > 0
      BY <3>1, <3>2 DEF Renumbers, Others
    <3>4. tx[r].base[d].version < card[d].version \/ tx[r].base[d] = card[d]
      BY <3>1, <3>2 DEF Renumbers, Later
    <3> QED
      BY <3>2, <3>3, <3>4, <1>1 DEF TypeInv, Views, Rows, Exists
  <2>6. Written(r) \in [{c} \cup D -> Rows] /\ \A d \in {c} \cup D : card[d].version < Written(r)[d].version
    <3>1. Written(r) = [d \in {c} \cup D |->
              IF d = c THEN [Bumped(d) EXCEPT !.column = op[r].to, !.pos = tx[r].pos]
              ELSE [Bumped(d) EXCEPT !.pos = tx[r].wrote[d]]]
      BY <2>4 DEF Written
    <3>2. ASSUME NEW d \in {c} \cup D, d # c
          PROVE  /\ [Bumped(d) EXCEPT !.pos = tx[r].wrote[d]] \in Rows
                 /\ card[d].version < [Bumped(d) EXCEPT !.pos = tx[r].wrote[d]].version
      BY <2>4, <3>2, BumpedIs, <1>1 DEF Rows, TypeInv, Views
    <3>3. /\ [Bumped(c) EXCEPT !.column = op[r].to, !.pos = tx[r].pos] \in Rows
          /\ card[c].version < [Bumped(c) EXCEPT !.column = op[r].to, !.pos = tx[r].pos].version
      BY <2>2, <2>3, BumpedIs, <1>1 DEF Rows, TypeInv, Views
    <3> HIDE DEF c
    <3> QED
      BY <3>1, <3>2, <3>3
  <2>7. Written(r) \in Some(Rows) /\ DOMAIN Written(r) = {c} \cup D
    BY <2>2, <2>6 DEF Some
  <2>8. Committed(r, Written(r))
    BY <1>5 DEF Move
  <2> QED
    BY <2>1, <2>5, <2>6, <2>7, <2>8 DEF Stored
<1> QED
  BY <1>2, <1>3, <1>4, <1>5 DEF Writes

-----------------------------------------------------------------------------
(* Types and stages.                                                       *)

\* Versions that only grow, twice.
LEMMA LaterOn ==
    ASSUME NEW u \in Views, NEW v \in Views, NEW w \in Views, Later(u, v), Later(v, w)
    PROVE  Later(u, w)
  BY DEF Views, Rows, Later

\* A renumbering is what it was while others commit.
LEMMA RenumbersKept ==
    ASSUME TypeInv, NEW q \in Requests, Renumbers(q), op'[q] = op[q],
           tx'[q].base = tx[q].base, tx'[q].ord = tx[q].ord, tx'[q].left = tx[q].left, tx'[q].wrote = tx[q].wrote,
           card' \in Views, Later(card, card')
    PROVE  Renumbers(q)'
<1> DEFINE b == tx[q].base
<1>1. Others(b, q)' = Others(b, q)
  BY DEF Others
<1>2. \A c : Rank(b, q, c)' = Rank(b, q, c)
  BY <1>1 DEF Rank, Precedes
<1>3. Later(b, card')
  BY LaterOn DEF Renumbers, TypeInv
<1>4. ASSUME NEW c \in Cards, b[c].version < card[c].version PROVE b[c].version < card'[c].version
  BY <1>4 DEF Renumbers, Later, TypeInv, Views, Rows
<1>5. Others(b, q) \subseteq Cards
  BY DEF Others
<1>6. [c \in Others(b, q) |-> Rank(b, q, c) * Step]' = [c \in Others(b, q) |-> Rank(b, q, c) * Step]
  BY <1>1, <1>2
<1> QED
  BY <1>1, <1>3, <1>4, <1>5, <1>6 DEF Renumbers

\* A request stands as it stood while others commit.
LEMMA StageKept ==
    ASSUME Core, NEW q \in Requests, at'[q] = at[q], op'[q] = op[q], tx'[q] = tx[q],
           card' \in Views, Later(card, card'),
           op[q].kind = "create" /\ at[q] = "asked" => card'[op[q].id] = card[op[q].id]
    PROVE  StageInv(q)'
<1>1. StageInv(q) /\ TypeInv
  BY DEF Core
<1>2. Renumbers(q) => Renumbers(q)'
  BY <1>1, RenumbersKept
<1>3. Untouched(q) => Untouched(q)'
  BY DEF Untouched
<1>4. Open(q)' = Open(q)
  BY DEF Open
<1>5. ASSUME Open(q) PROVE Exists(op[q].id)'
  <2>1. op[q] \in Operations /\ Exists(op[q].id)
    BY <1>1, <1>5 DEF StageInv, Open
  <2>2. op[q].id \in Cards
    BY <2>1, OpOf
  <2> QED
    BY <1>1, <2>1, <2>2 DEF Exists, Later, TypeInv, Views, Rows
<1>6. at[q] = "asked" /\ op[q].kind = "create" => ~Exists(op[q].id)'
  BY <1>1 DEF StageInv, Exists
<1> QED
  BY <1>1, <1>2, <1>3, <1>4, <1>5, <1>6 DEF StageInv

\* After a commit the rows are later ones, and the writer has them to publish.
LEMMA StoredIs ==
    ASSUME Core, NEW r \in Requests, NEW new, Stored(r, new)
    PROVE  /\ card' \in Views /\ Later(card, card') /\ copy' = copy /\ op' = op
           /\ \A c \in Cards : c \in DOMAIN new => card'[c] = new[c]
           /\ \A c \in Cards : c \notin DOMAIN new => card'[c] = card[c]
           /\ DOMAIN new \subseteq Cards
           /\ at'[r] = "publishing" /\ tx'[r] = [NoTx EXCEPT !.frames = new] /\ tx'[r] \in Txs
           /\ \A q \in Requests \ {r} : at'[q] = at[q] /\ tx'[q] = tx[q]
<1>1. TypeInv
  BY DEF Core
<1>2. PICK D \in SUBSET Cards : new \in [D -> Rows]
  BY DEF Stored, Some
<1>3. DOMAIN new = D
  BY <1>2
<1>4. card' = [c \in Cards |-> IF c \in DOMAIN new THEN new[c] ELSE card[c]]
  BY DEF Stored, Committed
<1>5. card' \in Views
  BY <1>1, <1>2, <1>4 DEF Views, TypeInv
<1>6. Later(card, card')
  BY <1>3, <1>4 DEF Later, Stored
<1>7. [NoTx EXCEPT !.frames = new] \in Txs
  BY NoneIsMade DEF Stored, NoTx, Txs
<1>8. copy' = copy /\ op' = op /\ at' = [at EXCEPT ![r] = "publishing"]
      /\ tx' = [tx EXCEPT ![r] = [NoTx EXCEPT !.frames = new]]
  BY DEF Stored, Committed
<1> QED
  BY <1>1, <1>2, <1>3, <1>4, <1>5, <1>6, <1>7, <1>8 DEF TypeInv

\* A commit keeps types and stages.
LEMMA CommitCore ==
    ASSUME Core, NEW r \in Requests, NEW new, Stored(r, new)
    PROVE  Core'
<1>1. TypeInv /\ BirthInv /\ \A q \in Requests : StageInv(q)
  BY DEF Core
<1>2. TypeInv'
  <2>1. at' = [at EXCEPT ![r] = "publishing"] /\ tx' = [tx EXCEPT ![r] = [NoTx EXCEPT !.frames = new]]
    BY DEF Stored, Committed
  <2> QED
    BY <1>1, <2>1, StoredIs DEF TypeInv, Stages
<1>3. BirthInv'
  <2>1. ASSUME NEW c \in Cards, card'[c].live PROVE card'[c].version > 0
    <3>1. card[c] \in Rows /\ card'[c] \in Rows /\ (card[c].version < card'[c].version \/ card'[c] = card[c])
      BY <1>1, StoredIs DEF TypeInv, Views, Later
    <3> QED
      BY <1>1, <2>1, <3>1 DEF BirthInv, Exists, Rows
  <2>2. op' = op
    BY StoredIs
  <2> QED
    BY <1>1, <2>1, <2>2 DEF BirthInv, Exists
<1>4. ASSUME NEW q \in Requests, q # r PROVE StageInv(q)'
  <2>1. ASSUME op[q].kind = "create", at[q] = "asked" PROVE card'[op[q].id] = card[op[q].id]
    <3>1. op[q] \in Operations /\ ~Exists(op[q].id)
      BY <1>1, <2>1 DEF StageInv
    <3>2. op[q].id \in Cards
      BY <3>1, OpOf
    <3>3. op[r].kind # "create"
      BY <1>1, <1>4, <2>1 DEF BirthInv
    <3>4. op[q].id \notin DOMAIN new
      BY <3>1, <3>3 DEF Stored
    <3> QED
      BY <3>2, <3>4, StoredIs
  <2>2. op'[q] = op[q] /\ at'[q] = at[q] /\ tx'[q] = tx[q] /\ card' \in Views /\ Later(card, card')
    BY <1>4, StoredIs
  <2> QED
    BY <2>1, <2>2, StageKept
<1>5. StageInv(r)'
  BY StoredIs DEF StageInv, Open, Stored
<1> QED
  BY <1>2, <1>3, <1>4, <1>5 DEF Core

\* What a quiet step keeps, once it is known of the one that takes it.
LEMMA QuietCore ==
    ASSUME Core, NEW r \in Requests, Quiet(r), TypeInv', StageInv(r)',
           op'[r].kind = "create" => \A q \in Requests \ {r} : op[q].kind # "create"
    PROVE  Core'
<1>1. TypeInv /\ BirthInv /\ \A q \in Requests : StageInv(q)
  BY DEF Core
<1>2. BirthInv'
  BY <1>1 DEF BirthInv, Quiet, Exists
<1>3. ASSUME NEW q \in Requests, q # r PROVE StageInv(q)'
  BY <1>1, <1>3, StageKept DEF Quiet, Later, TypeInv
<1> QED
  BY <1>2, <1>3 DEF Core

\* An operation that is refused, or whose transaction is rolled back.
LEMMA RefuseCore ==
    ASSUME Core, NEW r \in Requests, NoRow(r) \/ MoveNoRow(r) \/ NoRoom(r) \/ NeighbourNotFound(r) \/ Abort(r)
    PROVE  Core' /\ Quiet(r)
<1>1. Refuse(r) /\ at[r] # "publishing"
  BY DEF NoRow, MoveNoRow, NoRoom, NeighbourNotFound, Abort, Open
<1>2. TypeInv /\ TypeInv'
  BY <1>1, NoneIsMade DEF Core, TypeInv, Refuse, Stages
<1>3. at'[r] = "done" /\ op'[r] = NoOp /\ tx'[r] = NoTx /\ Quiet(r)
  BY <1>1, <1>2 DEF Refuse, Quiet, TypeInv
<1>4. StageInv(r)'
  BY <1>3 DEF StageInv, Open
<1> QED
  BY <1>2, <1>3, <1>4, QuietCore DEF NoOp

\* What a caller may ask is an operation, and a create names a card not there.
LEMMA AskCore ==
    ASSUME Core, NEW r \in Requests, Ask(r)
    PROVE  Core' /\ Quiet(r)
<1>1. PICK o \in Asks :
        /\ o.kind = "create" => \A q \in Requests : op[q].kind # "create"
        /\ op' = [op EXCEPT ![r] = o]
  BY Zenon DEF Ask
<1>2. TypeInv /\ StageInv(r)
  BY DEF Core
<1>3. o \in Operations /\ (o.kind = "create" => ~Exists(o.id))
  <2>1. CASE o \in {[kind |-> "move", id |-> c, to |-> k, place |-> p, known |-> n] :
                c \in Known, k \in Columns, p \in Places, n \in {0}}
    BY <2>1 DEF Operations, Known
  <2>2. CASE o \in {[kind |-> "move", id |-> c, to |-> card[c].column, place |-> [how |-> "end"],
                     known |-> card[c].version] : c \in Known}
    <3>1. [how |-> "end"] \in Places
      BY DEF Places
    <3> QED
      BY <1>2, <2>2, <3>1 DEF Operations, TypeInv, Views, Rows, Known
  <2>3. CASE o \in [kind : {"archive"}, id : Known]
    BY <2>3 DEF Operations, Known
  <2>4. CASE o \in [kind : {"update"}, id : Known, to : Columns]
    BY <2>4 DEF Operations, Known
  <2>5. CASE o \in [kind : {"create"}, id : {c \in Cards \ Known : \A d \in Cards : d < c => Exists(d)},
                    to : Columns]
    BY <2>5 DEF Operations, Known
  <2> QED
    BY <2>1, <2>2, <2>3, <2>4, <2>5 DEF Asks
<1>4. at' = [at EXCEPT ![r] = "asked"] /\ at[r] = "idle" /\ UNCHANGED <<card, tx, copy>>
  BY DEF Ask, Go
<1>5. TypeInv'
  BY <1>1, <1>2, <1>3, <1>4 DEF TypeInv, Stages
<1>6. at'[r] = "asked" /\ op'[r] = o /\ tx'[r] = NoTx /\ Quiet(r)
  BY <1>1, <1>2, <1>4 DEF TypeInv, Quiet, StageInv
<1>7. StageInv(r)'
  BY <1>3, <1>4, <1>6 DEF StageInv, Open, Exists
<1> QED
  BY <1>1, <1>5, <1>6, <1>7, QuietCore

\* The steps between the lock and the choice of a position, which change
\* nothing but where the request stands.
LEMMA WaitCore ==
    ASSUME Core, NEW r \in Requests, MoveLock(r) \/ MakeRoom(r) \/ RenumberEnds(r)
    PROVE  Core' /\ Quiet(r)
<1>1. TypeInv /\ StageInv(r) /\ BirthInv
  BY DEF Core
<1>2. TypeInv' /\ UNCHANGED <<card, op, tx, copy>>
  BY <1>1 DEF MoveLock, MakeRoom, RenumberEnds, Go, TypeInv, Stages
<1>3. Quiet(r)
  BY <1>1 DEF MoveLock, MakeRoom, RenumberEnds, Go, TypeInv, Quiet
<1>4. CASE MoveLock(r)
  <2>1. at[r] = "asked" /\ at'[r] = "locked" /\ op[r].kind = "move" /\ card[op[r].id].live
    BY <1>1, <1>4 DEF MoveLock, Go, TypeInv
  <2>2. op[r].id \in Cards
    BY <1>1, <2>1, OpOf DEF StageInv
  <2>3. StageInv(r)'
    BY <1>1, <1>2, <2>1, <2>2 DEF StageInv, Open, BirthInv, Exists
  <2> QED
    BY <1>2, <1>3, <2>1, <2>3, QuietCore
<1>5. CASE MakeRoom(r)
  <2>1. at[r] = "locked" /\ at'[r] = "crowded"
    BY <1>1, <1>5 DEF MakeRoom, Go, TypeInv
  <2>2. StageInv(r)' /\ op'[r].kind = "move"
    BY <1>1, <1>2, <2>1 DEF StageInv, Open, Exists
  <2> QED
    BY <1>2, <1>3, <2>2, QuietCore
<1>6. CASE RenumberEnds(r)
  <2>1. at[r] = "renumbering" /\ at'[r] = "renumbered" /\ tx[r].left = {}
    BY <1>1, <1>6 DEF RenumberEnds, Go, TypeInv
  <2>2. Renumbers(r)'
    BY <1>1, <1>2, <2>1, RenumbersKept DEF StageInv, Later, TypeInv
  <2>3. StageInv(r)' /\ op'[r].kind = "move"
    BY <1>1, <1>2, <2>1, <2>2 DEF StageInv, Open, Exists
  <2> QED
    BY <1>2, <1>3, <2>3, QuietCore
<1> QED
  BY <1>4, <1>5, <1>6

\* A position is chosen.
LEMMA ChooseCore ==
    ASSUME Core, NEW r \in Requests, NEW p \in Int, Choose(r, p)
    PROVE  Core' /\ Quiet(r)
<1>1. TypeInv /\ StageInv(r)
  BY DEF Core
<1>2. at' = [at EXCEPT ![r] = "placed"] /\ at[r] \in {"locked", "renumbered"}
      /\ tx' = [tx EXCEPT ![r].pos = p, ![r].view = View(r)] /\ UNCHANGED <<card, op, copy>>
  BY DEF Choose, Go
<1>3. tx'[r] = [tx[r] EXCEPT !.pos = p, !.view = View(r)] /\ at'[r] = "placed" /\ Quiet(r)
  BY <1>1, <1>2 DEF TypeInv, Quiet
<1>4. tx'[r] \in Txs
  BY <1>1, <1>3, ViewIs DEF TypeInv, Txs
<1>5. TypeInv'
  BY <1>1, <1>2, <1>3, <1>4 DEF TypeInv, Stages
<1>6. tx'[r].base = tx[r].base /\ tx'[r].ord = tx[r].ord /\ tx'[r].left = tx[r].left /\ tx'[r].wrote = tx[r].wrote
  BY <1>1, <1>3 DEF TypeInv, Txs
<1>7. Renumbers(r) => Renumbers(r)'
  BY <1>1, <1>2, <1>6, RenumbersKept DEF Later, TypeInv
<1>8. tx[r] = NoTx => Untouched(r)'
  BY <1>6 DEF Untouched, NoTx
<1>9. StageInv(r)' /\ op'[r].kind = "move"
  BY <1>1, <1>2, <1>3, <1>6, <1>7, <1>8 DEF StageInv, Open, Exists
<1> QED
  BY <1>3, <1>5, <1>9, QuietCore

\* Whichever of the five ways a place is found, it is a whole number.
LEMMA PlaceIs ==
    ASSUME Core, NEW r \in Requests,
           PlaceAt(r) \/ PlaceAtEnd(r) \/ PlaceOutside(r) \/ PlaceBetween(r)
    PROVE  \E p \in Int : Choose(r, p)
<1>1. View(r) \in Views
  BY ViewIs
<1>2. \A c \in Cards : View(r)[c].pos \in Int
  BY <1>1 DEF Views, Rows
<1>3. at[r] \in {"locked", "renumbered"} => op[r] \in Operations /\ op[r].kind = "move" /\ op[r].place \in Places
  BY OpOf DEF Core, StageInv, Open
<1>4. Step \in Int
  BY MovingAssumption
<1>5. CASE PlaceAt(r)
  BY <1>3, <1>5, PlaceOf DEF PlaceAt, Choose, Go
<1>6. CASE PlaceAtEnd(r)
  <2>1. CASE Choose(r, Step)
    BY <2>1, <1>4
  <2>2. CASE \E l \in Others(View(r), r) : Choose(r, View(r)[l].pos + Step)
    <3>1. PICK l \in Others(View(r), r) : Choose(r, View(r)[l].pos + Step)
      BY <2>2
    <3>2. View(r)[l].pos + Step \in Int
      BY <1>2, <1>4 DEF Others
    <3> QED
      BY <3>1, <3>2
  <2> QED
    BY <1>6, <2>1, <2>2 DEF PlaceAtEnd
<1>7. CASE PlaceOutside(r)
  <2> DEFINE n == op[r].place.card
             p == IF op[r].place.how = "before" THEN View(r)[n].pos - Step ELSE View(r)[n].pos + Step
  <2>1. n \in Others(View(r), r) /\ Choose(r, p)
    BY <1>7 DEF PlaceOutside
  <2>2. p \in Int
    BY <2>1, <1>2, <1>4 DEF Others
  <2> QED
    BY <2>1, <2>2
<1>8. CASE PlaceBetween(r)
  <2> DEFINE v == View(r)
             n == op[r].place.card
             p(o) == Low(v, r, n, o) + (High(v, r, n, o) - Low(v, r, n, o)) \div 2
  <2>1. PICK o \in Cards : n \in Others(v, r) /\ Choose(r, p(o))
    BY <1>8 DEF PlaceBetween
  <2>2. Low(v, r, n, o) \in Int /\ High(v, r, n, o) \in Int
    BY <2>1, <1>2 DEF Low, High, Others
  <2>3. \A l, h \in Int : l + (h - l) \div 2 \in Int
    OBVIOUS
  <2>4. p(o) \in Int
    BY <2>2, <2>3
  <2> QED
    BY <2>1, <2>4
<1> QED
  BY <1>5, <1>6, <1>7, <1>8

\* A renumbering reads its one snapshot.
LEMMA RenumberCore ==
    ASSUME Core, NEW r \in Requests, Renumber(r)
    PROVE  Core' /\ Quiet(r)
<1>1. TypeInv /\ StageInv(r) /\ BirthInv
  BY DEF Core
<1>2. at[r] = "crowded" /\ tx[r] = NoTx /\ op[r].kind = "move" /\ op[r] \in Operations /\ Exists(op[r].id)
  BY <1>1 DEF Renumber, Go, StageInv, Open
<1>3. View(r) = card
  BY <1>1, <1>2, NoneIsMade DEF View, NoTx, TypeInv, Views
<1> DEFINE O == Others(card, r)
           num == [c \in O |-> Rank(card, r, c) * Step]
           todo == {c \in O : card[c].pos # num[c]}
<1>4. at' = [at EXCEPT ![r] = "renumbering"] /\ UNCHANGED <<card, op, copy>>
      /\ tx' = [tx EXCEPT ![r].base = card, ![r].ord = num, ![r].left = todo]
  BY <1>3 DEF Renumber, Go
<1>5. O \subseteq Cards /\ todo \subseteq O
  BY DEF Others
<1>6. \A c \in O : Rank(card, r, c) \in Nat
  <2> TAKE c \in O
  <2>1. IsFiniteSet({d \in O : d = c \/ Precedes(card, d, c)})
    BY <1>5, MovingAssumption, FS_Subset
  <2> QED
    BY <2>1, FS_CardinalityType DEF Rank
<1>7. num \in [O -> Int]
  BY <1>6, MovingAssumption
<1> HIDE DEF num, todo, O
<1>8. num \in Some(Int) /\ todo \in SUBSET Cards
  BY <1>5, <1>7 DEF Some
<1>9. tx'[r] = [tx[r] EXCEPT !.base = card, !.ord = num, !.left = todo] /\ at'[r] = "renumbering" /\ Quiet(r)
  BY <1>1, <1>2, <1>4 DEF TypeInv, Quiet
<1>10. tx'[r] \in Txs
  BY <1>1, <1>8, <1>9 DEF TypeInv, Txs
<1>11. TypeInv'
  BY <1>1, <1>4, <1>9, <1>10 DEF TypeInv, Stages
<1>12. tx'[r].base = card /\ tx'[r].ord = num /\ tx'[r].left = todo /\ tx'[r].wrote = <<>>
  BY <1>1, <1>2, <1>9 DEF TypeInv, Txs, NoTx
<1>13. Renumbers(r)'
  <2>1. Others(card, r)' = O
    BY <1>4 DEF O, Others
  <2>2. \A c : Rank(card, r, c)' = Rank(card, r, c)
    BY <1>4, <2>1 DEF Rank, Precedes, O
  <2>3. num = [c \in O |-> Rank(card, r, c) * Step]
    BY DEF num
  <2>4. \A c \in O : c \in todo \/ card[c].pos = num[c]
    BY DEF todo
  <2>5. \A c \in Cards : card[c].live => card[c].version > 0
    BY <1>1 DEF BirthInv, Exists
  <2>6. Others(tx[r].base, r)' = O
    BY <1>4, <1>12, <2>1 DEF Others
  <2>7. [c \in Others(tx[r].base, r) |-> Rank(tx[r].base, r, c) * Step]' = num
    <3>1. \A c : Rank(tx[r].base, r, c)' = Rank(card, r, c)
      BY <1>4, <1>12, <2>2 DEF Rank, Precedes, Others
    <3> QED
      BY <2>3, <2>6, <3>1
  <2>8. card \in Views /\ Later(card, card)' /\ card' = card
    BY <1>1, <1>4 DEF Later, TypeInv
  <2> QED
    BY <1>5, <1>12, <2>4, <2>5, <2>6, <2>7, <2>8, NoneIsMade DEF Renumbers, Later
<1>14. StageInv(r)' /\ op'[r].kind = "move"
  BY <1>2, <1>4, <1>9, <1>13 DEF StageInv, Open, Exists
<1> QED
  BY <1>9, <1>11, <1>14, QuietCore

\* A renumbering takes a row.
LEMMA RowCore ==
    ASSUME Core, NEW r \in Requests, RenumberRow(r)
    PROVE  Core' /\ Quiet(r)
<1>1. TypeInv /\ StageInv(r)
  BY DEF Core
<1>2. at[r] = "renumbering" /\ UNCHANGED <<card, at, op, copy>>
  BY DEF RenumberRow
<1>3. Renumbers(r) /\ op[r].kind = "move" /\ op[r] \in Operations /\ Exists(op[r].id)
  BY <1>1, <1>2 DEF StageInv, Open
<1> DEFINE b == tx[r].base
           o == tx[r].ord
           W(c) == DOMAIN tx[r].wrote \cup (IF card[c].pos # o[c] THEN {c} ELSE {})
           w(c) == [d \in W(c) |-> o[d]]
<1>4. PICK c \in tx[r].left :
          tx' = [tx EXCEPT ![r].left = @ \ {c}, ![r].wrote = [d \in W(c) |-> o[d]]]
  BY DEF RenumberRow
<1>5. tx'[r] = [tx[r] EXCEPT !.left = @ \ {c}, !.wrote = w(c)] /\ Quiet(r)
  BY <1>1, <1>2, <1>4 DEF TypeInv, Quiet
<1>6. /\ c \in Others(b, r) /\ Others(b, r) \subseteq Cards /\ W(c) \subseteq Others(b, r)
      /\ b \in Views /\ Later(b, card)
      /\ o = [d \in Others(b, r) |-> Rank(b, r, d) * Step] /\ o \in Some(Int)
  BY <1>1, <1>3, <1>4 DEF Renumbers, Others, TypeInv, Txs
<1>7. w(c) \in [W(c) -> Int]
  <2>1. PICK D \in SUBSET Cards : o \in [D -> Int]
    BY <1>6 DEF Some
  <2>2. DOMAIN o = Others(b, r)
    BY <1>6
  <2> QED
    BY <1>6, <2>1, <2>2
<1> DEFINE Wc == W(c)
           wc == w(c)
<1>8. wc \in Some(Int) /\ DOMAIN wc = Wc
  BY <1>6, <1>7 DEF Some
<1>9. tx'[r] \in Txs /\ tx'[r].base = b /\ tx'[r].ord = o /\ tx'[r].left = tx[r].left \ {c} /\ tx'[r].wrote = wc
  <2> DEFINE rest == tx[r].left \ {c}
  <2> HIDE DEF wc
  <2>1. tx'[r] = [tx[r] EXCEPT !.left = rest, !.wrote = wc]
    BY <1>1, <1>5 DEF wc, TypeInv, Txs
  <2>2. rest \in SUBSET Cards /\ wc \in Some(Int)
    BY <1>1, <1>8 DEF TypeInv, Txs
  <2> HIDE DEF rest
  <2>3. tx'[r] \in Txs /\ tx'[r].base = b /\ tx'[r].ord = o /\ tx'[r].left = rest /\ tx'[r].wrote = wc
    BY <1>1, <2>1, <2>2 DEF TypeInv, Txs
  <2> QED
    BY <2>3 DEF rest
<1>10. TypeInv'
  BY <1>1, <1>2, <1>4, <1>9 DEF TypeInv
<1>11. Renumbers(r)'
  <2>1. Others(b, r)' = Others(b, r)
    BY <1>2, <1>9 DEF Others
  <2>2. \A d : Rank(b, r, d)' = Rank(b, r, d)
    BY <1>2, <1>9, <2>1 DEF Rank, Precedes
  <2>3. \A d \in Wc : wc[d] = o[d]
    OBVIOUS
  <2>4. \A d \in Others(b, r) : d \in (tx[r].left \ {c}) \cup Wc \/ b[d].pos = o[d] \/ b[d].version < card[d].version
    <3> TAKE d \in Others(b, r)
    <3>1. CASE d # c
      BY <1>3, <3>1 DEF Renumbers
    <3>2. CASE d = c
      BY <1>6, <3>2 DEF Later
    <3> QED
      BY <3>1, <3>2
  <2> HIDE DEF Wc, wc
  <2>5. Wc \subseteq Others(b, r)
    BY <1>6 DEF Wc
  <2> QED
    BY <1>2, <1>3, <1>6, <1>8, <1>9, <2>1, <2>2, <2>3, <2>4, <2>5 DEF Renumbers
<1>12. StageInv(r)' /\ op'[r].kind = "move"
  BY <1>2, <1>3, <1>11 DEF StageInv, Open, Exists
<1> QED
  BY <1>5, <1>10, <1>12, QuietCore

\* What is left to publish is some of what was committed.
LEMMA PublishCore ==
    ASSUME Core, NEW r \in Requests, Publish(r)
    PROVE  Core'
<1>1. TypeInv /\ BirthInv /\ \A q \in Requests : StageInv(q)
  BY DEF Core
<1> DEFINE f == tx[r].frames
<1>2. PICK c \in DOMAIN f :
          LET rest == DOMAIN f \ {c}
          IN  /\ copy' = IF f[c].version > copy[c].version THEN [copy EXCEPT ![c] = f[c]] ELSE copy
              /\ IF rest = {}
                 THEN /\ at' = [at EXCEPT ![r] = "done"]
                      /\ op' = [op EXCEPT ![r] = NoOp]
                      /\ tx' = [tx EXCEPT ![r] = NoTx]
                 ELSE /\ tx' = [tx EXCEPT ![r].frames = [d \in rest |-> f[d]]]
                      /\ UNCHANGED <<at, op>>
  BY DEF Publish
<1> DEFINE rest == DOMAIN f \ {c}
           less == [d \in rest |-> f[d]]
<1>3. at[r] = "publishing" /\ card' = card
  BY DEF Publish
<1>4. f \in Some(Rows)
  BY <1>1 DEF TypeInv, Txs
<1>5. PICK D \in SUBSET Cards : f \in [D -> Rows]
  BY <1>4 DEF Some
<1>6. less \in [rest -> Rows] /\ rest \in SUBSET Cards /\ c \in Cards /\ f[c] \in Rows
  BY <1>5
<1>7. less \in Some(Rows)
  BY <1>6 DEF Some
<1> HIDE DEF f, rest, less
<1>8. copy' \in Views
  BY <1>1, <1>2, <1>6 DEF TypeInv, Views, f
<1>9. ASSUME NEW q \in Requests, q # r PROVE StageInv(q)'
  <2>1. at'[q] = at[q] /\ op'[q] = op[q] /\ tx'[q] = tx[q]
    BY <1>1, <1>2, <1>9 DEF TypeInv
  <2> QED
    BY <1>1, <1>3, <2>1, StageKept DEF Later, TypeInv
<1>10. CASE rest = {}
  <2>1. at' = [at EXCEPT ![r] = "done"] /\ op' = [op EXCEPT ![r] = NoOp] /\ tx' = [tx EXCEPT ![r] = NoTx]
    BY <1>2, <1>10 DEF rest
  <2>2. TypeInv' /\ StageInv(r)' /\ BirthInv'
    BY <1>1, <1>3, <1>8, <2>1, NoneIsMade DEF TypeInv, Stages, StageInv, Open, BirthInv, Exists, NoOp
  <2> QED
    BY <1>9, <2>2 DEF Core
<1>11. CASE rest # {}
  <2>1. at' = at /\ op' = op /\ tx' = [tx EXCEPT ![r].frames = less]
    BY <1>2, <1>11 DEF rest, less
  <2>2. [tx[r] EXCEPT !.frames = less] \in Txs
    BY <1>1, <1>7 DEF TypeInv, Txs
  <2>3. TypeInv' /\ StageInv(r)' /\ BirthInv'
    BY <1>1, <1>3, <1>8, <2>1, <2>2 DEF TypeInv, Stages, StageInv, Open, BirthInv, Exists
  <2> QED
    BY <1>9, <2>3 DEF Core
<1> QED
  BY <1>10, <1>11

\* Every step is quiet, a commit or a publication.
LEMMA NextIs ==
    ASSUME Core, Next
    PROVE  \E r \in Requests : (Quiet(r) /\ Core') \/ Writes(r) \/ Publish(r)
<1>1. PICK r \in Requests :
        \/ Ask(r) \/ Create(r) \/ Archive(r) \/ UpdateStatus(r) \/ NoRow(r)
        \/ MoveLock(r) \/ MoveNoRow(r)
        \/ PlaceAt(r) \/ PlaceAtEnd(r) \/ PlaceOutside(r) \/ PlaceBetween(r)
        \/ MakeRoom(r) \/ NoRoom(r) \/ NeighbourNotFound(r)
        \/ Renumber(r) \/ RenumberRow(r) \/ RenumberEnds(r)
        \/ Move(r) \/ Abort(r) \/ Publish(r)
  BY DEF Next
<1>2. CASE Ask(r)
  BY <1>2, AskCore
<1>3. CASE Create(r) \/ Archive(r) \/ UpdateStatus(r) \/ Move(r)
  BY <1>3 DEF Writes
<1>4. CASE NoRow(r) \/ MoveNoRow(r) \/ NoRoom(r) \/ NeighbourNotFound(r) \/ Abort(r)
  BY <1>4, RefuseCore
<1>5. CASE MoveLock(r) \/ MakeRoom(r) \/ RenumberEnds(r)
  BY <1>5, WaitCore
<1>6. CASE PlaceAt(r) \/ PlaceAtEnd(r) \/ PlaceOutside(r) \/ PlaceBetween(r)
  <2>1. PICK p \in Int : Choose(r, p)
    BY <1>6, PlaceIs
  <2> QED
    BY <2>1, ChooseCore
<1>7. CASE Renumber(r)
  BY <1>7, RenumberCore
<1>8. CASE RenumberRow(r)
  BY <1>8, RowCore
<1> QED
  BY <1>1, <1>2, <1>3, <1>4, <1>5, <1>6, <1>7, <1>8

\* All of them keep types and stages.
LEMMA CoreStep == Core /\ [Next]_vars => Core'
<1> SUFFICES ASSUME Core, [Next]_vars PROVE Core'
  OBVIOUS
<1>1. CASE Next
  BY <1>1, NextIs, CommitIs, CommitCore, PublishCore
<1>2. CASE UNCHANGED vars
  <2>1. ASSUME NEW q \in Requests PROVE StageInv(q)'
    BY <1>2, <2>1, StageKept DEF Core, TypeInv, Later, vars
  <2> QED
    BY <1>2, <2>1 DEF Core, TypeInv, BirthInv, Exists, vars
<1> QED
  BY <1>1, <1>2

\* So does every start.
LEMMA CoreInit == Init => Core
<1> SUFFICES ASSUME Init PROVE Core
  OBVIOUS
<1>1. PICK s \in Starts :
        card = [c \in Cards |->
                  IF c \in DOMAIN s THEN [column |-> s[c].column, pos |-> s[c].pos, version |-> 1, live |-> TRUE]
                  ELSE [column |-> CHOOSE k \in Columns : TRUE, pos |-> 0, version |-> 0, live |-> FALSE]]
  BY DEF Init
<1>2. (CHOOSE k \in Columns : TRUE) \in Columns
  BY MovingAssumption
<1>3. \A c \in DOMAIN s : s[c].column \in Columns /\ s[c].pos \in Int
  BY MovingAssumption
<1>4. ASSUME NEW c \in Cards PROVE card[c] \in Rows /\ (card[c].live => Exists(c))
  <2>1. CASE c \in DOMAIN s
    BY <1>1, <1>3, <2>1 DEF Rows, Exists
  <2>2. CASE c \notin DOMAIN s
    BY <1>1, <1>2, <2>2 DEF Rows, Exists
  <2> QED
    BY <2>1, <2>2
<1>5. card \in Views
  BY <1>1, <1>4 DEF Views
<1>6. /\ at = [r \in Requests |-> "idle"] /\ op = [r \in Requests |-> NoOp]
      /\ tx = [r \in Requests |-> NoTx] /\ copy = card
  BY DEF Init
<1>7. TypeInv
  BY <1>5, <1>6, NoneIsMade DEF TypeInv, Stages
<1>8. BirthInv /\ \A r \in Requests : StageInv(r)
  BY <1>4, <1>6 DEF BirthInv, StageInv, Open, NoOp
<1> QED
  BY <1>7, <1>8 DEF Core

-----------------------------------------------------------------------------
(* A client has the board.                                                 *)

\* What a client holds, or is about to be sent, is a row the card has had.
Had(x, c) == x.version < card[c].version \/ x = card[c]

\* The client holds rows the cards have had; so do the frames to come; and the
\* row of each card is the client's or is in one of those frames.
CopyInv == \A c \in Cards : Had(copy[c], c)
FramesInv ==
    \A r \in Requests : at[r] = "publishing" => \A c \in DOMAIN tx[r].frames : Had(tx[r].frames[c], c)
LatestInv ==
    \A c \in Cards :
        \/ copy[c] = card[c]
        \/ \E r \in Requests :
            at[r] = "publishing" /\ c \in DOMAIN tx[r].frames /\ tx[r].frames[c] = card[c]

BoardInv == CopyInv /\ FramesInv /\ LatestInv

\* Frames are rows of cards.
LEMMA FramesAre ==
    ASSUME TypeInv, NEW r \in Requests
    PROVE  DOMAIN tx[r].frames \subseteq Cards /\ \A c \in DOMAIN tx[r].frames : tx[r].frames[c] \in Rows
<1>1. tx[r].frames \in Some(Rows)
  BY DEF TypeInv, Txs
<1> QED
  BY <1>1 DEF Some

\* A commit is in the frames of the one that commits.
LEMMA BoardCommit ==
    ASSUME Core, BoardInv, NEW r \in Requests, NEW new, Stored(r, new)
    PROVE  BoardInv'
<1>0. /\ card' \in Views /\ Later(card, card') /\ copy' = copy /\ op' = op
      /\ \A c \in Cards : c \in DOMAIN new => card'[c] = new[c]
      /\ \A c \in Cards : c \notin DOMAIN new => card'[c] = card[c]
      /\ DOMAIN new \subseteq Cards
      /\ at'[r] = "publishing" /\ tx'[r] = [NoTx EXCEPT !.frames = new] /\ tx'[r] \in Txs
      /\ \A q \in Requests \ {r} : at'[q] = at[q] /\ tx'[q] = tx[q]
  BY StoredIs
<1>1. TypeInv /\ \A c \in Cards : card[c] \in Rows /\ card'[c] \in Rows /\ copy[c] \in Rows
  BY <1>0 DEF Core, TypeInv, Views
<1>2. ASSUME NEW c \in Cards, NEW x \in Rows, Had(x, c) PROVE Had(x, c)'
  BY <1>0, <1>1, <1>2 DEF Had, Later, Rows
<1>3. CopyInv'
  BY <1>0, <1>1, <1>2 DEF BoardInv, CopyInv, Had
<1>4. tx'[r].frames = new
  BY <1>0 DEF NoTx
<1>5. FramesInv'
  <2> SUFFICES ASSUME NEW q \in Requests, at'[q] = "publishing", NEW c \in DOMAIN tx'[q].frames
               PROVE  Had(tx[q].frames[c], c)'
    BY DEF FramesInv
  <2>1. CASE q = r
    BY <1>1, <1>4, <2>1, <1>0 DEF Had
  <2>2. CASE q # r
    <3>1. at'[q] = at[q] /\ tx'[q] = tx[q]
      BY <2>2, <1>0
    <3>2. c \in Cards /\ tx[q].frames[c] \in Rows /\ Had(tx[q].frames[c], c)
      BY <1>1, <3>1, FramesAre DEF BoardInv, FramesInv
    <3> QED
      BY <1>2, <3>1, <3>2 DEF Had
  <2> QED
    BY <2>1, <2>2
<1>6. LatestInv'
  <2> SUFFICES ASSUME NEW c \in Cards
               PROVE  \/ copy'[c] = card'[c]
                      \/ \E q \in Requests :
                            at'[q] = "publishing" /\ c \in DOMAIN tx'[q].frames /\ tx'[q].frames[c] = card'[c]
    BY DEF LatestInv
  <2>1. CASE c \in DOMAIN new
    BY <1>4, <2>1, <1>0
  <2>2. CASE c \notin DOMAIN new
    <3>1. card'[c] = card[c] /\ copy'[c] = copy[c]
      BY <2>2, <1>0
    <3>2. CASE copy[c] = card[c]
      BY <3>1, <3>2
    <3>3. CASE copy[c] # card[c]
      <4>1. PICK q \in Requests : at[q] = "publishing" /\ c \in DOMAIN tx[q].frames /\ tx[q].frames[c] = card[c]
        BY <3>3 DEF BoardInv, LatestInv
      <4>2. q # r
        BY <4>1 DEF Stored
      <4> QED
        BY <3>1, <4>1, <4>2, <1>0
    <3> QED
      BY <3>2, <3>3
  <2> QED
    BY <2>1, <2>2
<1> QED
  BY <1>3, <1>5, <1>6 DEF BoardInv

\* A frame that is published is older than the client's row, or is taken.
LEMMA BoardPublish ==
    ASSUME Core, BoardInv, NEW r \in Requests, Publish(r)
    PROVE  BoardInv'
<1>1. TypeInv /\ card' = card /\ at[r] = "publishing"
  BY DEF Core, Publish
<1> DEFINE f == tx[r].frames
<1>2. PICK c \in DOMAIN f :
        /\ copy' = IF f[c].version > copy[c].version THEN [copy EXCEPT ![c] = f[c]] ELSE copy
        /\ IF DOMAIN f \ {c} = {}
           THEN /\ at' = [at EXCEPT ![r] = "done"]
                /\ tx' = [tx EXCEPT ![r] = NoTx]
           ELSE /\ tx' = [tx EXCEPT ![r].frames = [d \in DOMAIN f \ {c} |-> f[d]]]
                /\ UNCHANGED at
  BY DEF Publish
<1>3. c \in Cards /\ f[c] \in Rows /\ Had(f[c], c) /\ card[c] \in Rows /\ copy[c] \in Rows
  BY <1>1, <1>2, FramesAre DEF BoardInv, FramesInv, TypeInv, Views
<1> HIDE DEF f
<1>4. \A d \in Cards : d # c => copy'[d] = copy[d]
  BY <1>1, <1>2, <1>3 DEF TypeInv, Views
<1>5. (copy'[c] = f[c] /\ copy[c].version < f[c].version) \/ (copy'[c] = copy[c] /\ f[c].version <= copy[c].version)
  BY <1>1, <1>2, <1>3 DEF TypeInv, Views, Rows
<1>6. CopyInv'
  BY <1>1, <1>3, <1>4, <1>5 DEF BoardInv, CopyInv, Had
<1>7. \A q \in Requests \ {r} : at'[q] = at[q] /\ tx'[q] = tx[q]
  BY <1>1, <1>2 DEF TypeInv
<1>8. at'[r] = "publishing" =>
        DOMAIN tx'[r].frames = DOMAIN f \ {c} /\ \A d \in DOMAIN f \ {c} : tx'[r].frames[d] = f[d]
  <2>1. CASE DOMAIN f \ {c} = {}
    BY <1>1, <1>2, <2>1 DEF TypeInv
  <2>2. CASE DOMAIN f \ {c} # {}
    BY <1>1, <1>2, <2>2 DEF TypeInv, Txs
  <2> QED
    BY <2>1, <2>2
<1>9. DOMAIN f \ {c} # {} => at'[r] = "publishing"
  BY <1>1, <1>2
<1>10. FramesInv'
  <2> SUFFICES ASSUME NEW q \in Requests, at'[q] = "publishing", NEW d \in DOMAIN tx'[q].frames
               PROVE  Had(tx[q].frames[d], d)'
    BY DEF FramesInv
  <2>1. CASE q = r
    BY <1>1, <1>8, <2>1 DEF BoardInv, FramesInv, Had, f
  <2>2. CASE q # r
    BY <1>1, <1>7, <2>2 DEF BoardInv, FramesInv, Had
  <2> QED
    BY <2>1, <2>2
<1>11. LatestInv'
  <2> SUFFICES ASSUME NEW d \in Cards, copy'[d] # card'[d]
               PROVE  \E q \in Requests :
                        at'[q] = "publishing" /\ d \in DOMAIN tx'[q].frames /\ tx'[q].frames[d] = card'[d]
    BY DEF LatestInv
  <2>1. copy[d] # card[d] \/ d = c
    BY <1>1, <1>4
  <2>2. copy[d] # card[d]
    BY <1>1, <1>3, <1>5, <2>1 DEF BoardInv, CopyInv, Had, Rows
  <2>3. PICK q \in Requests : at[q] = "publishing" /\ d \in DOMAIN tx[q].frames /\ tx[q].frames[d] = card[d]
    BY <2>2 DEF BoardInv, LatestInv
  <2>4. CASE q # r
    BY <1>1, <1>7, <2>3, <2>4
  <2>5. CASE q = r
    <3>1. d # c
      BY <1>1, <1>3, <1>5, <2>2, <2>3, <2>5 DEF BoardInv, CopyInv, Had, Rows, f
    <3> QED
      BY <1>1, <1>8, <1>9, <2>3, <2>5, <3>1 DEF f
  <2> QED
    BY <2>4, <2>5
<1> QED
  BY <1>6, <1>10, <1>11 DEF BoardInv

\* A quiet step concerns no row, no frame and no client.
LEMMA BoardQuiet ==
    ASSUME BoardInv, NEW r \in Requests, Quiet(r)
    PROVE  BoardInv'
<1>1. CopyInv'
  BY DEF BoardInv, CopyInv, Had, Quiet
<1>2. FramesInv'
  BY DEF BoardInv, FramesInv, Had, Quiet
<1>3. LatestInv'
  BY DEF BoardInv, LatestInv, Quiet
<1> QED
  BY <1>1, <1>2, <1>3 DEF BoardInv

\* Every step keeps what is known of the client.
LEMMA BoardStep == Core /\ BoardInv /\ [Next]_vars => BoardInv'
<1> SUFFICES ASSUME Core, BoardInv, [Next]_vars PROVE BoardInv'
  OBVIOUS
<1>1. CASE Next
  BY <1>1, NextIs, BoardQuiet, CommitIs, BoardCommit, BoardPublish
<1>2. CASE UNCHANGED vars
  BY <1>2 DEF BoardInv, CopyInv, FramesInv, LatestInv, Had, vars
<1> QED
  BY <1>1, <1>2

\* When all handlers are through, a client that applied the frames has every
\* card where the database has it, those a renumbering moved included.
THEOREM ClientHasTheBoard == Spec => []BoardConverges
<1>1. Init => Core /\ BoardInv
  <2> SUFFICES ASSUME Init PROVE BoardInv
    BY CoreInit
  <2> QED
    BY DEF Init, BoardInv, CopyInv, FramesInv, LatestInv, Had
<1>2. Core /\ BoardInv /\ [Next]_vars => (Core /\ BoardInv)'
  BY CoreStep, BoardStep
<1>3. Core /\ BoardInv => BoardConverges
  <2> SUFFICES ASSUME Core, BoardInv, \A r \in Requests : at[r] \in {"idle", "done"} PROVE copy = card
    BY DEF BoardConverges
  <2>1. \A c \in Cards : copy[c] = card[c]
    BY DEF BoardInv, LatestInv
  <2> QED
    BY <2>1 DEF Core, TypeInv, Views
<1> QED
  BY <1>1, <1>2, <1>3, PTL DEF Spec

-----------------------------------------------------------------------------
(* A drop lands beside its neighbour.                                      *)

\* The commit of a drop is the only step from a chosen place to publishing.
LEMMA OnlyMove ==
    ASSUME Core, Next, NEW r \in Requests, Commits(r)
    PROVE  Move(r)
<1>1. at[r] = "placed" /\ at'[r] = "publishing" /\ at \in [Requests -> Stages]
  BY DEF Commits, Core, TypeInv
<1>2. PICK q \in Requests : (Quiet(q) /\ Core') \/ Writes(q) \/ Publish(q)
  BY NextIs
<1>3. CASE Quiet(q)
  BY <1>1, <1>3 DEF Quiet
<1>4. CASE Publish(q)
  BY <1>1, <1>4 DEF Publish
<1>5. CASE Writes(q)
  <2>1. PICK new : Stored(q, new)
    BY <1>5, CommitIs
  <2>2. q = r
    BY <1>1, <2>1, StoredIs
  <2> QED
    BY <1>1, <1>5, <2>2 DEF Writes, Create, Archive, UpdateStatus
<1> QED
  BY <1>2, <1>3, <1>4, <1>5

\* What a drop commits is what its transaction saw, and the card where it was put.
LEMMA MoveIs ==
    ASSUME Core, NEW r \in Requests, Move(r)
    PROVE  /\ op[r].id \in Cards
           /\ card'[op[r].id].pos = tx[r].pos
           /\ \A c \in Cards \ {op[r].id} :
                /\ card'[c].live = View(r)[c].live
                /\ card'[c].column = View(r)[c].column
                /\ card'[c].pos = View(r)[c].pos
<1> DEFINE i == op[r].id
           W == DOMAIN tx[r].wrote
<1>1. at[r] = "placed" /\ op[r] \in Operations /\ TypeInv
  BY DEF Move, Core, StageInv
<1>2. i \in Cards /\ op[r].to \in Columns
  <2>1. op[r].kind = "move"
    BY <1>1 DEF Core, StageInv, Open
  <2> QED
    BY <1>1, <2>1, OpOf
<1>3. card' = [c \in Cards |-> IF c \in DOMAIN Written(r) THEN Written(r)[c] ELSE card[c]]
  BY DEF Move, Committed
<1>4. DOMAIN Written(r) = {i} \cup W
  BY DEF Written
<1>5. card'[i].pos = tx[r].pos
  <2>1. card'[i] = [Bumped(i) EXCEPT !.column = op[r].to, !.pos = tx[r].pos]
    BY <1>2, <1>3, <1>4 DEF Written
  <2>2. Bumped(i) \in Rows
    BY <1>2, BumpedIs
  <2> QED
    BY <2>1, <2>2 DEF Rows
<1>6. ASSUME NEW c \in Cards \ {i}
      PROVE  card'[c].live = View(r)[c].live /\ card'[c].column = View(r)[c].column /\ card'[c].pos = View(r)[c].pos
  <2>1. CASE c \in W
    <3>1. card'[c] = [Bumped(c) EXCEPT !.pos = tx[r].wrote[c]]
      BY <1>3, <1>4, <1>6, <2>1 DEF Written
    <3>2. View(r)[c] = [card[c] EXCEPT !.pos = tx[r].wrote[c]]
      BY <2>1, <1>6, ViewIs
    <3>3. Bumped(c) = [card[c] EXCEPT !.version = @ + 1] /\ card[c] \in Rows /\ Bumped(c) \in Rows
      BY <1>1, <1>6, BumpedIs DEF Bumped, TypeInv, Views
    <3>4. Bumped(c).live = card[c].live /\ Bumped(c).column = card[c].column
      BY <3>3 DEF Rows
    <3> QED
      BY <3>1, <3>2, <3>3, <3>4 DEF Rows
  <2>2. CASE c \notin W
    <3>1. card'[c] = card[c] /\ View(r)[c] = card[c]
      BY <1>3, <1>4, <1>6, <2>2, ViewIs
    <3> QED
      BY <3>1
  <2> QED
    BY <2>1, <2>2
<1> QED
  BY <1>2, <1>5, <1>6

\* On the board v, the position p is on the side of the neighbour that r asks
\* for, and every other card of the column is on the other side or beyond p.
Aims(v, r, p) ==
    LET n == op[r].place.card
    IN  /\ v \in Views /\ p \in Int
        /\ n \in Others(v, r)
        /\ IF op[r].place.how = "before"
           THEN p < v[n].pos /\ \A d \in Others(v, r) \ {n} : Precedes(v, n, d) \/ v[d].pos < p
           ELSE v[n].pos < p /\ \A d \in Others(v, r) \ {n} : Precedes(v, d, n) \/ p < v[d].pos

PlacedInv == \A r \in Requests : at[r] = "placed" /\ Neighbourly(r) => Aims(tx[r].view, r, tx[r].pos)

\* Half way between two numbers with room between them is strictly between.
LEMMA HalfWay ==
    ASSUME NEW lo \in Int, NEW hi \in Int, Roomy(lo, hi)
    PROVE  lo < lo + (hi - lo) \div 2 /\ lo + (hi - lo) \div 2 < hi /\ lo + (hi - lo) \div 2 \in Int
  BY DEF Roomy

\* (position, id) orders all cards.
LEMMA Ordered ==
    ASSUME NEW v \in Views, NEW c \in Cards, NEW d \in Cards, c # d
    PROVE  /\ Precedes(v, c, d) \/ Precedes(v, d, c)
           /\ ~(Precedes(v, c, d) /\ Precedes(v, d, c))
           /\ v[c].pos \in Int /\ v[d].pos \in Int
<1>1. c \in Nat /\ d \in Nat
  BY MovingAssumption
<1>2. v[c].pos \in Int /\ v[d].pos \in Int
  BY DEF Views, Rows
<1> QED
  BY <1>1, <1>2 DEF Precedes

\* Outside or between, the place chosen beside a neighbour is aimed right.
LEMMA ChosenAims ==
    ASSUME Core, NEW r \in Requests, Neighbourly(r), PlaceOutside(r) \/ PlaceBetween(r)
    PROVE  \E p \in Int : Choose(r, p) /\ Aims(View(r), r, p)
<1> DEFINE v == View(r)
           n == op[r].place.card
<1>1. v \in Views /\ Step \in Nat /\ Step >= 2
  BY ViewIs, MovingAssumption
<1>2. \A c \in Cards : v[c].pos \in Int
  BY <1>1 DEF Views, Rows
<1>3. n \in Others(v, r) /\ Others(v, r) \subseteq Cards
  BY DEF PlaceOutside, PlaceBetween, Others
<1> HIDE DEF v
<1>4. CASE PlaceOutside(r)
  <2> DEFINE p == IF op[r].place.how = "before" THEN v[n].pos - Step ELSE v[n].pos + Step
  <2>1. Choose(r, p) /\ Beyond(v, r, n) = {}
    BY <1>4 DEF PlaceOutside, v
  <2>2. p \in Int
    BY <1>1, <1>2, <1>3
  <2>3. \A d \in Others(v, r) : IF op[r].place.how = "before" THEN ~Precedes(v, d, n) ELSE ~Precedes(v, n, d)
    BY <2>1 DEF Beyond
  <2>4. Aims(v, r, p)
    BY <1>1, <1>2, <1>3, <2>2, <2>3, Ordered DEF Aims
  <2> QED
    BY <2>1, <2>2, <2>4 DEF v
<1>5. CASE PlaceBetween(r)
  <2>1. PICK o \in Cards :
          /\ Nearest(v, r, n, o)
          /\ Roomy(Low(v, r, n, o), High(v, r, n, o))
          /\ Choose(r, Low(v, r, n, o) + (High(v, r, n, o) - Low(v, r, n, o)) \div 2)
    BY <1>5 DEF PlaceBetween, v
  <2> DEFINE lo == Low(v, r, n, o)
             hi == High(v, r, n, o)
             p == lo + (hi - lo) \div 2
  <2>2. lo \in Int /\ hi \in Int
    BY <1>2, <1>3 DEF Low, High
  <2>3. lo < p /\ p < hi /\ p \in Int
    BY <2>1, <2>2, HalfWay
  <2> HIDE DEF p
  <2>4. ASSUME op[r].place.how = "before" PROVE Aims(v, r, p)
    <3>1. lo = v[o].pos /\ hi = v[n].pos
      BY <2>4 DEF Low, High
    <3>2. ASSUME NEW d \in Others(v, r) \ {n}, ~Precedes(v, n, d) PROVE v[d].pos < p
      <4>1. d \in Beyond(v, r, n)
        BY <1>1, <1>3, <2>4, <3>2, Ordered DEF Beyond
      <4>2. d = o \/ Precedes(v, d, o)
        BY <2>1, <2>4, <4>1 DEF Nearest
      <4>3. d \in Cards
        BY <1>3, <3>2
      <4> QED
        BY <1>2, <2>2, <2>3, <3>1, <4>2, <4>3 DEF Precedes
    <3> QED
      BY <1>1, <1>3, <2>3, <2>4, <3>1, <3>2 DEF Aims
  <2>5. ASSUME op[r].place.how # "before" PROVE Aims(v, r, p)
    <3>1. hi = v[o].pos /\ lo = v[n].pos
      BY <2>5 DEF Low, High
    <3>2. ASSUME NEW d \in Others(v, r) \ {n}, ~Precedes(v, d, n) PROVE p < v[d].pos
      <4>1. d \in Beyond(v, r, n)
        BY <1>1, <1>3, <2>5, <3>2, Ordered DEF Beyond
      <4>2. d = o \/ Precedes(v, o, d)
        BY <2>1, <2>5, <4>1 DEF Nearest
      <4>3. d \in Cards
        BY <1>3, <3>2
      <4> QED
        BY <1>2, <2>2, <2>3, <3>1, <4>2, <4>3 DEF Precedes
    <3> QED
      BY <1>1, <1>3, <2>3, <2>5, <3>1, <3>2 DEF Aims
  <2> QED
    BY <2>1, <2>3, <2>4, <2>5 DEF v, p
<1> QED
  BY <1>4, <1>5

\* A place that was chosen stays aimed as it was when it was chosen.
LEMMA PlacedStep ==
    ASSUME Core, PlacedInv, Next
    PROVE  PlacedInv'
<1>1. TypeInv
  BY DEF Core
<1>2. SUFFICES ASSUME NEW r \in Requests, at'[r] = "placed", Neighbourly(r)'
               PROVE  Aims(tx[r].view, r, tx[r].pos)'
  BY DEF PlacedInv
<1>3. ASSUME at[r] = "placed", op'[r] = op[r], tx'[r] = tx[r] PROVE Aims(tx[r].view, r, tx[r].pos)'
  <2>1. Neighbourly(r)
    BY <1>2, <1>3 DEF Neighbourly
  <2>2. Aims(tx[r].view, r, tx[r].pos)
    BY <1>3, <2>1 DEF PlacedInv
  <2>3. Others(tx[r].view, r)' = Others(tx[r].view, r)
    BY <1>3 DEF Others
  <2> QED
    BY <1>3, <2>2, <2>3 DEF Aims, Precedes
<1>4. PICK q \in Requests :
        \/ Ask(q) \/ Create(q) \/ Archive(q) \/ UpdateStatus(q) \/ NoRow(q)
        \/ MoveLock(q) \/ MoveNoRow(q)
        \/ PlaceAt(q) \/ PlaceAtEnd(q) \/ PlaceOutside(q) \/ PlaceBetween(q)
        \/ MakeRoom(q) \/ NoRoom(q) \/ NeighbourNotFound(q)
        \/ Renumber(q) \/ RenumberRow(q) \/ RenumberEnds(q)
        \/ Move(q) \/ Abort(q) \/ Publish(q)
  BY DEF Next
<1>5. CASE Ask(q)
  BY <1>1, <1>2, <1>3, <1>5, AskCore DEF Quiet, Ask, Go, TypeInv
<1>6. CASE Writes(q)
  <2>1. PICK new : Stored(q, new)
    BY <1>6, CommitIs
  <2>2. at'[q] = "publishing" /\ op' = op /\ \A p \in Requests \ {q} : at'[p] = at[p] /\ tx'[p] = tx[p]
    BY <2>1, StoredIs
  <2> QED
    BY <1>2, <1>3, <2>2
<1>7. CASE NoRow(q) \/ MoveNoRow(q) \/ NoRoom(q) \/ NeighbourNotFound(q) \/ Abort(q)
  <2>1. Quiet(q) /\ Refuse(q)
    BY <1>7, RefuseCore DEF NoRow, MoveNoRow, NoRoom, NeighbourNotFound, Abort
  <2> QED
    BY <1>1, <1>2, <1>3, <2>1 DEF Quiet, Refuse, TypeInv
<1>8. CASE MoveLock(q) \/ MakeRoom(q) \/ RenumberEnds(q)
  <2>1. Quiet(q)
    BY <1>8, WaitCore
  <2>2. at'[q] # "placed"
    BY <1>1, <1>8 DEF MoveLock, MakeRoom, RenumberEnds, Go, TypeInv
  <2> QED
    BY <1>2, <1>3, <2>1, <2>2 DEF Quiet
<1>9. CASE Renumber(q) \/ RenumberRow(q)
  <2>1. Quiet(q)
    BY <1>9, RenumberCore, RowCore
  <2>2. at'[q] # "placed"
    BY <1>1, <1>9 DEF Renumber, RenumberRow, Go, TypeInv
  <2> QED
    BY <1>2, <1>3, <2>1, <2>2 DEF Quiet
<1>10. CASE Publish(q)
  <2>1. at[q] = "publishing" /\ at'[q] \in {"done", "publishing"}
        /\ \A p \in Requests \ {q} : at'[p] = at[p] /\ tx'[p] = tx[p] /\ op'[p] = op[p]
    BY <1>1, <1>10 DEF Publish, TypeInv
  <2> QED
    BY <1>2, <1>3, <2>1
<1>11. CASE PlaceAt(q) \/ PlaceAtEnd(q) \/ PlaceOutside(q) \/ PlaceBetween(q)
  <2>1. PICK p0 \in Int : Choose(q, p0)
    BY <1>11, PlaceIs
  <2>2. Quiet(q) /\ op' = op
    BY <2>1, ChooseCore DEF Choose
  <2>3. CASE q # r
    BY <1>2, <1>3, <2>2, <2>3 DEF Quiet
  <2>4. CASE q = r
    <3>1. Neighbourly(r)
      BY <1>2, <2>2 DEF Neighbourly
    <3>2. PlaceOutside(r) \/ PlaceBetween(r)
      BY <1>11, <2>4, <3>1 DEF PlaceAt, PlaceAtEnd, Neighbourly
    <3>3. PICK p \in Int : Choose(r, p) /\ Aims(View(r), r, p)
      BY <3>1, <3>2, ChosenAims
    <3> DEFINE v == View(r)
    <3>4. v \in Views
      BY ViewIs
    <3>5. tx'[r] = [tx[r] EXCEPT !.pos = p, !.view = v]
      BY <1>1, <3>3 DEF Choose, TypeInv
    <3> HIDE DEF v
    <3>6. tx'[r].pos = p /\ tx'[r].view = v
      BY <1>1, <3>5 DEF TypeInv, Txs
    <3>7. Others(tx[r].view, r)' = Others(v, r)
      BY <2>2, <3>6 DEF Others
    <3>8. Aims(v, r, p)
      BY <3>3 DEF v
    <3> QED
      BY <2>2, <3>6, <3>7, <3>8 DEF Aims, Precedes
  <2> QED
    BY <2>3, <2>4
<1> QED
  BY <1>4, <1>5, <1>6, <1>7, <1>8, <1>9, <1>10, <1>11 DEF Writes

\* What is aimed right lands right, if the transaction still sees what it saw.
LEMMA AimedLands ==
    ASSUME Core, PlacedInv, Next, NEW r \in Requests, Commits(r), StillTrue(r), Neighbourly(r)
    PROVE  Beside(card', op[r].id, op[r].to, op[r].place.card, op[r].place.how)
<1> DEFINE i == op[r].id
           n == op[r].place.card
           v == tx[r].view
           p == tx[r].pos
           w == card'
<1>1. Move(r) /\ at[r] = "placed" /\ TypeInv
  BY OnlyMove DEF Commits, Core
<1>2. Aims(v, r, p)
  BY <1>1 DEF PlacedInv
<1>3. /\ i \in Cards /\ w[i].pos = p
      /\ \A c \in Cards \ {i} : w[c].live = v[c].live /\ w[c].column = v[c].column /\ w[c].pos = v[c].pos
  BY <1>1, MoveIs DEF StillTrue
<1>4. n \in Cards \ {i} /\ v \in Views /\ p \in Int
  BY <1>2 DEF Aims, Others
<1>5. \A d \in Cards \ {i, n} : w[d].live /\ w[d].column = op[r].to => d \in Others(v, r) \ {n}
  BY <1>3 DEF Others
<1>6. \A c \in Cards : v[c].pos \in Int /\ c \in Nat
  BY <1>4, MovingAssumption DEF Views, Rows
<1> HIDE DEF v, p, w, n, i
<1>7. CASE op[r].place.how = "before"
  <2>1. p < v[n].pos /\ \A d \in Others(v, r) \ {n} : Precedes(v, n, d) \/ v[d].pos < p
    BY <1>2, <1>7 DEF Aims, n, i
  <2>2. Precedes(w, i, n)
    BY <1>3, <1>4, <2>1 DEF Precedes
  <2>3. ASSUME NEW d \in Cards \ {i, n}, w[d].live, w[d].column = op[r].to
        PROVE  ~ (Precedes(w, i, d) /\ Precedes(w, d, n))
    <3>1. Precedes(v, n, d) \/ v[d].pos < p
      BY <1>5, <2>1, <2>3
    <3> QED
      BY <1>3, <1>4, <1>6, <2>3, <3>1 DEF Precedes
  <2> QED
    BY <1>7, <2>2, <2>3 DEF Beside, i, n, w
<1>8. CASE op[r].place.how # "before"
  <2>1. v[n].pos < p /\ \A d \in Others(v, r) \ {n} : Precedes(v, d, n) \/ p < v[d].pos
    BY <1>2, <1>8 DEF Aims, n, i
  <2>2. Precedes(w, n, i)
    BY <1>3, <1>4, <2>1 DEF Precedes
  <2>3. ASSUME NEW d \in Cards \ {i, n}, w[d].live, w[d].column = op[r].to
        PROVE  ~ (Precedes(w, n, d) /\ Precedes(w, d, i))
    <3>1. Precedes(v, d, n) \/ p < v[d].pos
      BY <1>5, <2>1, <2>3
    <3> QED
      BY <1>3, <1>4, <1>6, <2>3, <3>1 DEF Precedes
  <2> QED
    BY <1>8, <2>2, <2>3 DEF Beside, i, n, w
<1> QED
  BY <1>7, <1>8

\* A drop that nobody's commit overtook lands directly beside the neighbour it
\* names, ties of position and a renumbering included.
THEOREM DropsLandBeside == Spec => LandsBeside
<1>1. Init => Core /\ PlacedInv
  <2> SUFFICES ASSUME Init PROVE PlacedInv
    BY CoreInit
  <2> QED
    BY DEF Init, PlacedInv
<1>2. Core /\ PlacedInv /\ [Next]_vars => (Core /\ PlacedInv)'
  <2> SUFFICES ASSUME Core, PlacedInv, [Next]_vars PROVE PlacedInv'
    BY CoreStep
  <2>1. CASE UNCHANGED vars
    BY <2>1 DEF PlacedInv, Aims, Others, Precedes, Neighbourly, vars
  <2> QED
    BY <2>1, PlacedStep
<1>3. Core /\ PlacedInv /\ [Next]_vars =>
        [\A r \in Requests :
            Commits(r) /\ StillTrue(r) /\ Neighbourly(r) =>
                Beside(card', op[r].id, op[r].to, op[r].place.card, op[r].place.how)]_vars
  BY AimedLands
<1> QED
  BY <1>1, <1>2, <1>3, PTL DEF Spec, LandsBeside

-----------------------------------------------------------------------------
(* A renumbering keeps the order.                                          *)

\* Of two cards of the column, the one that stands first has the smaller rank.
LEMMA RankKeepsOrder ==
    ASSUME NEW v \in Views, NEW r \in Requests, NEW c \in Others(v, r), NEW d \in Others(v, r), Precedes(v, c, d)
    PROVE  Rank(v, r, c) \in Nat /\ Rank(v, r, d) \in Nat /\ Rank(v, r, c) < Rank(v, r, d)
<1> DEFINE C == {e \in Others(v, r) : e = c \/ Precedes(v, e, c)}
           D == {e \in Others(v, r) : e = d \/ Precedes(v, e, d)}
<1>1. Others(v, r) \subseteq Cards
  BY DEF Others
<1>2. \A e \in Cards : e \in Nat /\ v[e].pos \in Int
  BY MovingAssumption DEF Views, Rows
<1>3. C \subseteq D
  BY <1>1, <1>2 DEF Precedes
<1>4. d \in D /\ d \notin C
  BY <1>1, <1>2 DEF Precedes
<1>5. IsFiniteSet(D)
  BY <1>1, MovingAssumption, FS_Subset
<1>6. Cardinality(C) < Cardinality(D) /\ Cardinality(C) \in Nat /\ Cardinality(D) \in Nat
  <2> HIDE DEF C, D
  <2>1. IsFiniteSet(C)
    BY <1>3, <1>5, FS_Subset
  <2>2. Cardinality(C) <= Cardinality(D) /\ (Cardinality(C) = Cardinality(D) => C = D)
    BY <1>3, <1>5, FS_Subset
  <2>3. Cardinality(C) \in Nat /\ Cardinality(D) \in Nat
    BY <1>5, <2>1, FS_CardinalityType
  <2> QED
    BY <1>4, <2>2, <2>3
<1> QED
  BY <1>6 DEF Rank

\* So it has the smaller number.
LEMMA NumbersKeepOrder ==
    ASSUME NEW v \in Views, NEW r \in Requests, NEW c \in Others(v, r), NEW d \in Others(v, r), Precedes(v, c, d)
    PROVE  Rank(v, r, c) * Step < Rank(v, r, d) * Step
<1>1. \A a, b, s \in Nat : a < b /\ s >= 2 => a * s < b * s
  <2> TAKE a, b, s \in Nat
  <2>1. b * s = a * s + (b - a) * s
    OBVIOUS
  <2>2. b - a >= 1 /\ s >= 2 => (b - a) * s >= 1
    OBVIOUS
  <2> QED
    BY <2>1, <2>2
<1> QED
  BY <1>1, RankKeepsOrder, MovingAssumption

\* Renumbering changes numbers and no order: two cards that nobody else has
\* written since the renumbering read them stand after the commit as before it.
LEMMA CommitKeepsOrder ==
    ASSUME Core, Next, NEW r \in Requests, Commits(r), tx[r].base # <<>>,
           NEW c \in Cards \ {op[r].id}, NEW d \in Cards \ {op[r].id},
           card[c] = tx[r].base[c], card[d] = tx[r].base[d],
           card[c].live, card[d].live, card[c].column = card[d].column
    PROVE  Precedes(card, c, d) <=> Precedes(card', c, d)
<1> DEFINE b == tx[r].base
<1>1. Move(r) /\ at[r] = "placed" /\ TypeInv
  BY OnlyMove DEF Commits, Core
<1>2. Renumbers(r) /\ tx[r].left = {}
  BY <1>1 DEF Core, StageInv, Untouched
<1>3. b \in Views /\ card \in Views
  BY <1>1, <1>2 DEF Renumbers, TypeInv
<1>4. c \in Others(b, r) <=> d \in Others(b, r)
  BY DEF Others
<1>5. card'[c].pos = View(r)[c].pos /\ card'[d].pos = View(r)[d].pos
  BY <1>1, MoveIs
<1>6. ASSUME NEW e \in Cards, card[e] = b[e], e \in Others(b, r) PROVE View(r)[e].pos = Rank(b, r, e) * Step
  <2>1. tx[r].ord[e] = Rank(b, r, e) * Step
    BY <1>2, <1>6 DEF Renumbers
  <2>2. CASE e \in DOMAIN tx[r].wrote
    <3>1. View(r)[e] = [card[e] EXCEPT !.pos = tx[r].wrote[e]]
      BY <2>2, ViewIs
    <3>2. tx[r].wrote[e] = tx[r].ord[e] /\ card[e] \in Rows
      BY <1>2, <1>3, <2>2 DEF Renumbers, Views
    <3> QED
      BY <2>1, <3>1, <3>2 DEF Rows
  <2>3. CASE e \notin DOMAIN tx[r].wrote
    <3>1. View(r)[e] = card[e]
      BY <2>3, ViewIs
    <3>2. b[e].pos = tx[r].ord[e] \/ b[e].version < card[e].version
      BY <1>2, <1>6, <2>3 DEF Renumbers
    <3>3. card[e].version \in Nat
      BY <1>3 DEF Views, Rows
    <3> QED
      BY <1>6, <2>1, <3>1, <3>2, <3>3
  <2> QED
    BY <2>2, <2>3
<1>7. CASE c \in Others(b, r)
  <2>1. card'[c].pos = Rank(b, r, c) * Step /\ card'[d].pos = Rank(b, r, d) * Step
    BY <1>4, <1>5, <1>6, <1>7
  <2>2. CASE c = d
    <3>1. card'[c].pos \in Int /\ card[c].pos \in Int /\ c \in Nat
      BY <1>3, <1>5, ViewIs, MovingAssumption DEF Views, Rows
    <3> QED
      BY <2>2, <3>1 DEF Precedes
  <2>3. CASE Precedes(b, c, d)
    BY <1>3, <1>4, <1>7, <2>1, <2>3, NumbersKeepOrder DEF Precedes
  <2>4. CASE c # d /\ ~Precedes(b, c, d)
    <3>1. Precedes(b, d, c)
      BY <1>3, <2>4, Ordered
    <3>2. Rank(b, r, d) * Step < Rank(b, r, c) * Step
      BY <1>3, <1>4, <1>7, <3>1, NumbersKeepOrder
    <3>3. Rank(b, r, d) \in Nat /\ Rank(b, r, c) \in Nat /\ Step \in Nat
      BY <1>3, <1>4, <1>7, <3>1, RankKeepsOrder, MovingAssumption
    <3>4. Rank(b, r, d) * Step \in Int /\ Rank(b, r, c) * Step \in Int
      BY <3>3
    <3> QED
      BY <2>1, <2>4, <3>2, <3>4 DEF Precedes
  <2> QED
    BY <2>2, <2>3, <2>4
<1>8. CASE c \notin Others(b, r)
  <2>1. c \notin DOMAIN tx[r].wrote /\ d \notin DOMAIN tx[r].wrote
    BY <1>2, <1>4, <1>8 DEF Renumbers
  <2>2. View(r)[c] = card[c] /\ View(r)[d] = card[d]
    BY <2>1, ViewIs
  <2> QED
    BY <1>5, <2>2 DEF Precedes
<1> QED
  BY <1>7, <1>8

\* A renumbering of any number of cards leaves them in the order they had.
THEOREM RenumberingKeepsOrder == Spec => OrderIsKept
<1>1. Core /\ [Next]_vars =>
        [\A r \in Requests : Commits(r) /\ tx[r].base # <<>> =>
            \A c, d \in Cards \ {op[r].id} :
                (/\ card[c] = tx[r].base[c] /\ card[d] = tx[r].base[d]
                 /\ card[c].live /\ card[d].live /\ card[c].column = card[d].column)
                => (Precedes(card, c, d) <=> Precedes(card', c, d))]_vars
  BY CommitKeepsOrder
<1> QED
  BY <1>1, CoreInit, CoreStep, PTL DEF Spec, OrderIsKept
=============================================================================
