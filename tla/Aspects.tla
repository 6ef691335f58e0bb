--------------------------------- MODULE Aspects ---------------------------------
(***************************************************************************)
(* Aspect types and their fields (internal/aspect, internal/api/aspect.go),*)
(* served by the same pool of requests as the rest of what a team plans    *)
(* with (module Planning, which this module extends).                      *)
(*                                                                         *)
(* A type's fields are ordered by (position, id).  Positions are a hint:   *)
(* nothing makes them unique, an append takes the largest plus one as its  *)
(* statement saw it, and a reorder rewrites those of the whole set.        *)
(*                                                                         *)
(* A name is the sequence of the numbers in its suffixes: <<>> is "Class", *)
(* <<2>> "Class (2)", <<2, 2>> "Class (2) (2)".  Field ids are numbers,    *)
(* since they break ties.  Left out: labels, bodies of documents (module   *)
(* Documents), the lists, and the length limits of a file.                 *)
(***************************************************************************)
EXTENDS Planning, SequencesExt

CONSTANTS
    Types,       \* ids of aspect types
    Fields,      \* ids of fields
    Files,       \* what is imported: [readable, name, positions]
    Types0, Fields0, Uses0   \* where the model starts

TypeNames == Seq(Nat)

ASSUME AspectsAssumption ==
    /\ Fields \subseteq Nat /\ Types \subseteq Nat \ {0} /\ IsFiniteSet(Fields) /\ IsFiniteSet(Types)
    /\ Fields0 \in [Fields -> [of : Types \cup {0, -1}, position : Nat]]
    /\ Types0 \in [Types -> [is : {"unborn", "there", "gone"}, name : TypeNames]]
    /\ \A f \in Files : f.name \in TypeNames

VARIABLES
    type,      \* [is, name]
    field,     \* [of, position]; NoField before the id is used, Removed after
    uses,      \* documents of each type
    stood,     \* per type the last order that was set, and the fields it was set for
    imported   \* the types that imports made and nobody renamed since

aspects == <<type, field, uses, stood, imported>>
vars == <<planning, aspects, at, op, tx>>

NoField == [of |-> 0, position |-> 0]
Removed == [of |-> -1, position |-> 0]

Init ==
    /\ PlanningInit
    /\ type = Types0 /\ field = Fields0 /\ uses = Uses0
    /\ stood = [y \in Types |-> [order |-> <<>>, of |-> {}]]
    /\ imported = {}

FieldsOf(y) == {f \in Fields : field[f].of = y}

\* ORDER BY position, id.
Before(f, g) ==
    \/ field[f].position < field[g].position
    \/ field[f].position = field[g].position /\ f < g

fields(y) == SetToSortSeq(FieldsOf(y), Before)

Is(y) == type[y].is = "there"

RefuseAspect(r) == Refuse(r) /\ UNCHANGED aspects

\* The rows a reorder has written and not committed.
Reordering(y) == {q \in Requests : at[q] = "reordered" /\ op[q].type = y}

-----------------------------------------------------------------------------
(* Types                                                                   *)

AsksAspect(r, ops) == Asks(r, ops) /\ UNCHANGED aspects

Typed == {<<>>, <<2>>}   \* names people type
KnownTypes == {y \in Types : type[y].is # "unborn"}
NewTypes == {y \in Types : /\ type[y].is = "unborn"
                         /\ \A q \in Requests : op[q].kind \in {"create-type", "import"} => op[q].type # y}
FreeFields == {f \in Fields : field[f] = NoField}
HasField(f) == field[f].of \in Types

CreateTypeRequests == [kind : {"create-type"}, type : NewTypes, name : Typed]
RenameTypeRequests == [kind : {"rename-type"}, type : KnownTypes, name : Typed]
DeleteTypeRequests == [kind : {"delete-type"}, type : KnownTypes]
DocumentRequests == [kind : {"document"}, type : KnownTypes]

AskType(r) ==
    AsksAspect(r, CreateTypeRequests \cup RenameTypeRequests \cup DeleteTypeRequests \cup DocumentRequests)

CreateType(r) ==
    /\ Asked(r, "create-type") /\ Reaches(r)
    /\ type' = [type EXCEPT ![op[r].type] = [is |-> "there", name |-> op[r].name]]
    /\ End(r)
    /\ UNCHANGED <<planning, field, uses, stood, imported>>

RenameType(r) ==
    /\ Asked(r, "rename-type") /\ Reaches(r) /\ Is(op[r].type)
    /\ type' = [type EXCEPT ![op[r].type].name = op[r].name]
    /\ imported' = imported \ {op[r].type}
    /\ End(r)
    /\ UNCHANGED <<planning, field, uses, stood>>

\* A document of the type: its foreign key refuses a type that is gone.
UseType(r) ==
    /\ Asked(r, "document") /\ Reaches(r) /\ Is(op[r].type)
    /\ uses' = [uses EXCEPT ![op[r].type] = @ + 1]
    /\ End(r)
    /\ UNCHANGED <<planning, type, field, stood, imported>>

\* The handler counts the documents first, for the number in its answer.
CountUses(r) ==
    /\ Asked(r, "delete-type") /\ Reaches(r) /\ Is(op[r].type) /\ uses[op[r].type] = 0
    /\ Go(r, "asked", "counted")
    /\ UNCHANGED <<planning, aspects, op, tx>>

\* The fields go with the type, once a reorder of them has committed.
DeleteType(r) ==
    /\ at[r] = "counted"
    /\ Is(op[r].type) /\ uses[op[r].type] = 0 /\ Reordering(op[r].type) = {}
    /\ type' = [type EXCEPT ![op[r].type].is = "gone"]
    /\ field' = [f \in Fields |-> IF field[f].of = op[r].type
                                  THEN Removed ELSE field[f]]
    /\ imported' = imported \ {op[r].type}
    /\ End(r)
    /\ UNCHANGED <<planning, uses, stood>>

TypeRefused(r) ==
    /\ \/ Asked(r, "create-type") /\ ~Reaches(r)
       \/ at[r] = "asked" /\ op[r].kind \in {"rename-type", "document"}
          /\ (~Reaches(r) \/ ~Is(op[r].type))
       \/ Asked(r, "delete-type") /\ (~Reaches(r) \/ ~Is(op[r].type) \/ uses[op[r].type] > 0)
       \/ at[r] = "counted" /\ (~Is(op[r].type) \/ uses[op[r].type] > 0)
    /\ RefuseAspect(r)

-----------------------------------------------------------------------------
(* Fields                                                                  *)

\* Lists of the fields, as long as it takes or one short, with and without
\* repetitions.
Orders(y) ==
    LET n == Cardinality(FieldsOf(y)) IN
    [1 .. n -> FieldsOf(y)] \cup [1 .. n - 1 -> FieldsOf(y)]

AddFieldRequests == [kind : {"add-field"}, type : KnownTypes]
RemoveFieldRequests == [kind : {"remove-field"}, field : {f \in Fields : field[f] # NoField}]
ReorderRequests == UNION {[kind : {"reorder"}, type : {y}, order : Orders(y)] : y \in KnownTypes}

AskField(r) == AsksAspect(r, AddFieldRequests \cup RemoveFieldRequests \cup ReorderRequests)

NextPosition(y) ==
    1 + FoldSet(LAMBDA f, m : IF field[f].position > m THEN field[f].position ELSE m, 0, FieldsOf(y))

\* One statement, which reads the largest position in its snapshot; another
\* append may read the same one before this one commits.
CountPositions(r) ==
    /\ Asked(r, "add-field") /\ Reaches(r) /\ Is(op[r].type)
    /\ op' = [op EXCEPT ![r] = Extended(@, [position |-> NextPosition(op[r].type)])]
    /\ Go(r, "asked", "placed")
    /\ UNCHANGED <<planning, aspects, tx>>

AddField(r) ==
    /\ at[r] = "placed" /\ Is(op[r].type)
    /\ \E f \in FreeFields : field' = [field EXCEPT ![f] = [of |-> op[r].type, position |-> op[r].position]]
    /\ End(r)
    /\ UNCHANGED <<planning, type, uses, stood, imported>>

\* The values stay in the documents' bodies.
RemoveField(r) ==
    /\ Asked(r, "remove-field") /\ Reaches(r)
    /\ HasField(op[r].field) /\ Reordering(field[op[r].field].of) = {}
    /\ field' = [field EXCEPT ![op[r].field] = Removed]
    /\ End(r)
    /\ UNCHANGED <<planning, type, uses, stood, imported>>

\* Mutant of sameSet: a field listed twice is accepted.
sameSet_Repeats(current, ids) ==
    Cardinality(current) = Len(ids) /\ \A n \in 1 .. Len(ids) : ids[n] \in current

sameSet(current, ids) ==
    Cardinality(current) = Len(ids) /\ {ids[n] : n \in 1 .. Len(ids)} = current

\* The set is checked against a plain read, and may change before the update.
CheckOrder(r) ==
    /\ Asked(r, "reorder") /\ Reaches(r) /\ Is(op[r].type)
    /\ sameSet(FieldsOf(op[r].type), op[r].order)
    /\ op' = [op EXCEPT ![r] = Extended(@, [of |-> FieldsOf(op[r].type)])]
    /\ Go(r, "asked", "checked")
    /\ UNCHANGED <<planning, aspects, tx>>

\* One UPDATE takes the rows that are still there, behind another reorder.
WriteOrder(r) ==
    /\ at[r] = "checked" /\ Reordering(op[r].type) = {}
    /\ Go(r, "checked", "reordered")
    /\ UNCHANGED <<planning, aspects, op, tx>>

\* WITH ORDINALITY: a field's new position is its place in the list.
Place(order, f) == CHOOSE n \in 1 .. Len(order) : order[n] = f

CommitOrder(r) ==
    /\ at[r] = "reordered"
    /\ field' = [f \in Fields |-> IF field[f].of = op[r].type /\ \E n \in DOMAIN op[r].order : op[r].order[n] = f
                                  THEN [field[f] EXCEPT !.position = Place(op[r].order, f)]
                                  ELSE field[f]]
    /\ stood' = [stood EXCEPT ![op[r].type] = [order |-> op[r].order, of |-> op[r].of]]
    /\ End(r)
    /\ UNCHANGED <<planning, type, uses, imported>>

FieldRefused(r) ==
    /\ \/ Asked(r, "add-field") /\ (~Reaches(r) \/ ~Is(op[r].type))
       \/ at[r] = "placed" /\ ~Is(op[r].type)
       \/ Asked(r, "remove-field") /\ (~Reaches(r) \/ ~HasField(op[r].field))
       \/ Asked(r, "reorder")
          /\ (~Reaches(r) \/ ~Is(op[r].type) \/ ~sameSet(FieldsOf(op[r].type), op[r].order))
    /\ RefuseAspect(r)

-----------------------------------------------------------------------------
(* Import                                                                  *)

\* A file, or what an export of a type there answers.
Export(y) == [readable |-> TRUE, name |-> type[y].name,
              positions |-> [n \in 1 .. Cardinality(FieldsOf(y)) |-> field[fields(y)[n]].position]]

ImportRequests ==
    [kind : {"import"}, type : NewTypes, file : Files \cup {Export(y) : y \in {x \in Types : Is(x)}}]

AskImport(r) == AsksAspect(r, ImportRequests)

\* Mutant of Importing: no lock is taken.
Importing_Unlocked == {}

Importing == {q \in Requests : at[q] \in {"alone", "named"}}

\* Validate, the caller's reach, then the team's advisory lock.
LockImports(r) ==
    /\ Asked(r, "import") /\ Reaches(r) /\ op[r].file.readable
    /\ Importing = {}
    /\ Go(r, "asked", "alone")
    /\ UNCHANGED <<planning, aspects, op, tx>>

teamTypeNames == {type[y].name : y \in {x \in Types : Is(x)}}

\* The name, or the first free one of "name (2)", "name (3)", ...
uniqueName(name, taken) ==
    IF name \notin taken THEN name
    ELSE Append(name, CHOOSE n \in 2 .. Cardinality(taken) + 2 :
                         /\ Append(name, n) \notin taken
                         /\ \A m \in 2 .. n - 1 : Append(name, m) \in taken)

ReadNames(r) ==
    /\ at[r] = "alone"
    /\ op' = [op EXCEPT ![r] = Extended(@, [name |-> uniqueName(op[r].file.name, teamTypeNames)])]
    /\ Go(r, "alone", "named")
    /\ UNCHANGED <<planning, aspects, tx>>

\* The file's fields get fresh ids and the positions 1..n, in their order;
\* as no two are alike, it does not matter here which ids.
Fresh(n) == {g \in [1 .. n -> FreeFields] : \A i, j \in 1 .. n : i < j => g[i] < g[j]}

Import(r) ==
    /\ at[r] = "named"
    /\ type' = [type EXCEPT ![op[r].type] = [is |-> "there", name |-> op[r].name]]
    /\ Fresh(Len(op[r].file.positions)) # {}
    /\ LET new == CHOOSE g \in Fresh(Len(op[r].file.positions)) : TRUE IN
        field' = [f \in Fields |-> IF \E n \in DOMAIN new : new[n] = f
                                   THEN [of |-> op[r].type, position |-> Place(new, f)] ELSE field[f]]
    /\ imported' = imported \cup {op[r].type}
    /\ End(r)
    /\ UNCHANGED <<planning, uses, stood>>

ImportRefused(r) ==
    /\ Asked(r, "import") /\ (~op[r].file.readable \/ ~Reaches(r))
    /\ RefuseAspect(r)

-----------------------------------------------------------------------------
(* The whole pool                                                          *)

PlanningStep(r) ==
    \/ AskPlan(r) \/ AskPoint(r) \/ AskSetting(r)
    \/ CreateEpic(r) \/ CreateSprint(r) \/ CreateMilestone(r) \/ CreateLabel(r) \/ CreateRefused(r)
    \/ UpdateEpic(r) \/ UpdateSprint(r) \/ UpdateMilestone(r) \/ UpdateLabel(r) \/ UpdateRefused(r)
    \/ DeleteEpic(r) \/ DeleteSprint(r) \/ DeleteMilestone(r) \/ DeleteLabel(r)
    \/ LockToDelete(r) \/ DeleteRefused(r)
    \/ Point(r) \/ PointRefused(r) \/ CommitPoint(r)
    \/ Leave(r) \/ LeaveRefused(r) \/ Bump(r) \/ Deadlock(r)
    \/ Set(r) \/ Unset(r) \/ SettingRefused(r) \/ Publish(r)

AspectStep(r) ==
    \/ AskType(r) \/ AskField(r) \/ AskImport(r)
    \/ CreateType(r) \/ RenameType(r) \/ UseType(r) \/ CountUses(r) \/ DeleteType(r) \/ TypeRefused(r)
    \/ CountPositions(r) \/ AddField(r) \/ RemoveField(r)
    \/ CheckOrder(r) \/ WriteOrder(r) \/ CommitOrder(r) \/ FieldRefused(r)
    \/ LockImports(r) \/ ReadNames(r) \/ Import(r) \/ ImportRefused(r)

Next ==
    \/ \E r \in Requests : PlanningStep(r) /\ UNCHANGED aspects
    \/ \E r \in Requests : AspectStep(r)
    \/ (Receive \/ Relist) /\ UNCHANGED aspects

Spec == Init /\ [][Next]_vars

-----------------------------------------------------------------------------
(* Properties                                                              *)

\* internal/api/aspect.go, reorder: "the result is exactly what was sent - a
\* partial list is rejected".  The fields an order was set for stand in that
\* order until another is set, whatever is added, removed or reordered beside it:
\* those the type still has are those of the list, and the read, by position
\* and then id, has the earlier one first.
ReorderStands ==
    \A y \in Types :
        LET order == stood[y].order IN
        /\ \A f \in FieldsOf(y) : f \in stood[y].of <=> \E n \in DOMAIN order : order[n] = f
        /\ \A m, n \in DOMAIN order :
            m < n /\ {order[m], order[n]} \subseteq FieldsOf(y) => Before(order[m], order[n])

\* internal/aspect/portable.go: "a per-team advisory lock around the name
\* choice, so two imports of the same file racing cannot both take (2)".
ImportsDiffer ==
    \A y, z \in imported : type[y].name = type[z].name => y = z

=============================================================================
