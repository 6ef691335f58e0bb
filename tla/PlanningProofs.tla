----------------------------- MODULE PlanningProofs -----------------------------
(***************************************************************************)
(* Theorems about Planning and Aspects, for any number of requests,        *)
(* callers, resources, tickets, aspect types and setting keys: what        *)
(* readers of the settings see, the names that imports choose, and what a  *)
(* client of frames without versions ends with.                            *)
(***************************************************************************)
EXTENDS Aspects, FiniteSetTheorems, TLAPS

-----------------------------------------------------------------------------
(* Operations are records, which some steps extend.                        *)

\* What an operation has when members are added to it.
LEMMA ExtendedIs ==
  ASSUME NEW o, NEW m
  PROVE  /\ DOMAIN Extended(o, m) = DOMAIN o \cup DOMAIN m
         /\ \A x \in DOMAIN o : Extended(o, m)[x] = o[x]
         /\ \A x \in DOMAIN m \ DOMAIN o : Extended(o, m)[x] = m[x]
  BY DEF Extended

-----------------------------------------------------------------------------
(* The two halves of the pool.                                             *)

\* A step of an aspect type leaves the plan, and is none of the stages a
\* write of the plan goes through.
LEMMA AspectsLeavePlan ==
  ASSUME NEW r \in Requests, AspectStep(r)
  PROVE  UNCHANGED planning
<1>1. CASE AskType(r) \/ AskField(r) \/ AskImport(r)
  BY <1>1 DEF AskType, AskField, AskImport, AsksAspect, Asks
<1>2. CASE CreateType(r) \/ RenameType(r) \/ UseType(r) \/ CountUses(r) \/ DeleteType(r)
  BY <1>2 DEF CreateType, RenameType, UseType, CountUses, DeleteType
<1>3. CASE CountPositions(r) \/ AddField(r) \/ RemoveField(r) \/ CheckOrder(r) \/ WriteOrder(r) \/ CommitOrder(r)
  BY <1>3 DEF CountPositions, AddField, RemoveField, CheckOrder, WriteOrder, CommitOrder
<1>4. CASE LockImports(r) \/ ReadNames(r) \/ Import(r)
  BY <1>4 DEF LockImports, ReadNames, Import
<1>5. CASE TypeRefused(r) \/ FieldRefused(r) \/ ImportRefused(r)
  BY <1>5 DEF TypeRefused, FieldRefused, ImportRefused, RefuseAspect, Refuse
<1> QED
  BY <1>1, <1>2, <1>3, <1>4, <1>5 DEF AspectStep

-----------------------------------------------------------------------------
(* Settings                                                                *)

\* A row of a registered key is at the level its key may be set at.
SettingInv ==
    /\ DOMAIN setting = Scopes
    /\ \A s \in Scopes : DOMAIN setting[s] = DOMAIN Registry \cup Stray
    /\ \A s \in Scopes, k \in DOMAIN Registry : setting[s][k] # Absent => Registry[k] = s

\* Nothing is set at the start but what was left over.
LEMMA SettingInit == Init => SettingInv
<1> SUFFICES ASSUME Init
             PROVE  SettingInv
  OBVIOUS
<1>1. setting = [s \in Scopes |-> [k \in DOMAIN Registry \cup Stray |->
                    IF s = "team" /\ k \in Stray THEN "left over" ELSE Absent]]
  BY DEF Init, PlanningInit
<1>2. \A k \in DOMAIN Registry : k \notin Stray
  BY PlanningAssumption
<1> QED
  BY <1>1, <1>2 DEF SettingInv

\* A value is set only at the level its key is registered for.
LEMMA SettingStep == SettingInv /\ [Next]_vars => SettingInv'
<1> SUFFICES ASSUME SettingInv, [Next]_vars
             PROVE  SettingInv'
  OBVIOUS
<1>1. ASSUME NEW r \in Requests, Set(r)
      PROVE  SettingInv'
  BY <1>1 DEF Set, Check, SettingInv
<1>2. ASSUME NEW r \in Requests, Unset(r)
      PROVE  SettingInv'
  BY <1>2 DEF Unset, SettingInv
<1>3. ASSUME UNCHANGED setting
      PROVE  SettingInv'
  BY <1>3 DEF SettingInv
<1>4. ASSUME NEW r \in Requests, PlanningStep(r), ~Set(r), ~Unset(r)
      PROVE  UNCHANGED setting
  <2>1. CASE \/ AskPlan(r) \/ AskPoint(r) \/ AskSetting(r)
    BY <2>1 DEF AskPlan, AskPoint, AskSetting, Asks, planning
  <2>2. CASE \/ CreateEpic(r) \/ CreateSprint(r) \/ CreateMilestone(r) \/ CreateLabel(r)
    BY <2>2 DEF CreateEpic, CreateSprint, CreateMilestone, CreateLabel, Insert, Wrote
  <2>3. CASE \/ UpdateEpic(r) \/ UpdateSprint(r) \/ UpdateMilestone(r) \/ UpdateLabel(r)
    BY <2>3 DEF UpdateEpic, UpdateSprint, UpdateMilestone, UpdateLabel, Rewrite, Wrote
  <2>4. CASE \/ DeleteEpic(r) \/ DeleteSprint(r) \/ DeleteMilestone(r) \/ DeleteLabel(r)
    BY <2>4 DEF DeleteEpic, DeleteSprint, DeleteMilestone, DeleteLabel, Erase, Wrote
  <2>5. CASE \/ CreateRefused(r) \/ UpdateRefused(r) \/ DeleteRefused(r) \/ PointRefused(r) \/ LeaveRefused(r)
             \/ SettingRefused(r) \/ Deadlock(r)
    BY <2>5 DEF CreateRefused, UpdateRefused, DeleteRefused, PointRefused, LeaveRefused, SettingRefused, Deadlock,
                Refuse, planning
  <2>6. CASE LockToDelete(r) \/ Point(r) \/ Leave(r) \/ Bump(r) \/ CommitPoint(r) \/ Publish(r)
    BY <2>6 DEF LockToDelete, Point, Leave, Bump, CommitPoint, Publish, planning
  <2> QED
    BY <1>4, <2>1, <2>2, <2>3, <2>4, <2>5, <2>6 DEF PlanningStep
<1>5. ASSUME NEW r \in Requests, AspectStep(r)
      PROVE  UNCHANGED setting
  BY <1>5, AspectsLeavePlan DEF planning
<1>6. ASSUME Receive \/ Relist
      PROVE  UNCHANGED setting
  BY <1>6 DEF Receive, Relist
<1>7. CASE UNCHANGED vars
  BY <1>7, <1>3 DEF vars, planning
<1> QED
  BY <1>1, <1>2, <1>3, <1>4, <1>5, <1>6, <1>7 DEF Next

\* Every reader of the settings answers the same rows, and no row is out of
\* everyone's sight, whatever older programs left.
THEOREM ReadersAgree == Spec => []SettingsAgree
<1>1. SettingInv => SettingsAgree
  BY DEF SettingInv, SettingsAgree, Listed, Gettable, Lookup, Unregistered
<1> QED
  BY <1>1, SettingInit, SettingStep, PTL DEF Spec

-----------------------------------------------------------------------------
(* Imports: what is known of the types and of those who make or name one.  *)

Naming == {"create-type", "rename-type", "import"}

Makes(r) == op[r].kind \in {"create-type", "import"}

\* What an import made and nobody renamed is there; types have names.
TypesInv ==
    /\ type \in [Types -> [is : {"unborn", "there", "gone"}, name : TypeNames]]
    /\ imported \subseteq Types
    /\ \A y \in imported : type[y].is = "there"

\* The members of an operation that names a type, and its stages.
OpsInv ==
    /\ DOMAIN op = Requests /\ DOMAIN at = Requests
    /\ \A r \in Requests :
        /\ "kind" \in DOMAIN op[r]
        /\ op[r].kind \in Naming => op[r].type \in Types
        /\ op[r].kind \in {"create-type", "rename-type"} => op[r].name \in TypeNames
        /\ op[r].kind = "import" => op[r].file.name \in TypeNames
        /\ op[r].kind = "import" /\ at[r] \in {"asked", "alone"} =>
            DOMAIN op[r] = {"kind", "type", "file", "by"}
        /\ at[r] \in {"alone", "named"} => op[r].kind = "import"
        /\ at[r] = "named" => op[r].name \in TypeNames

\* A type that is being made is new, and is made by one request.
MakesInv ==
    \A r \in Requests : Makes(r) =>
        /\ op[r].type \notin imported
        /\ \A q \in Requests \ {r} : Makes(q) => op[q].type # op[r].type

\* One import at a time has the lock, and the name it chose stays free of
\* those that imports gave.
LockInv == \A q, r \in Importing : q = r
NamedInv == \A r \in Requests : at[r] = "named" => \A y \in imported : type[y].name # op[r].name

ImportInv == TypesInv /\ OpsInv /\ MakesInv /\ LockInv /\ NamedInv /\ ImportsDiffer

\* A step of r that names no type, takes no lock and leaves the types.
Aside(r) ==
    /\ UNCHANGED <<type, imported>>
    /\ DOMAIN op' = Requests /\ DOMAIN at' = Requests
    /\ \A q \in Requests \ {r} : at'[q] = at[q] /\ op'[q] = op[q]
    /\ at'[r] \notin {"alone", "named"}
    /\ "kind" \in DOMAIN op'[r]
    /\ op'[r].kind \in Naming => op'[r] = op[r] /\ at'[r] # "asked"

\* A step beside the types keeps all that is said of imports.
LEMMA AsideKeeps ==
  ASSUME ImportInv, NEW r \in Requests, Aside(r)
  PROVE  ImportInv'
<1> USE DEF ImportInv, Aside
<1>1. TypesInv'
  BY DEF TypesInv
<1>2. OpsInv'
  BY DEF OpsInv, Naming
<1>3. MakesInv'
  BY DEF MakesInv, Makes, Naming
<1>4. LockInv'
  BY DEF LockInv, Importing
<1>5. NamedInv'
  BY DEF NamedInv
<1>6. ImportsDiffer'
  BY DEF ImportsDiffer
<1> QED
  BY <1>1, <1>2, <1>3, <1>4, <1>5, <1>6

\* The end of a request, with or without an answer.
LEMMA EndIs ==
  ASSUME OpsInv, NEW r \in Requests, End(r)
  PROVE  /\ OpsInv'
         /\ at'[r] = "done" /\ op'[r].kind = "none"
         /\ \A q \in Requests \ {r} : at'[q] = at[q] /\ op'[q] = op[q]
<1>1. /\ at'[r] = "done" /\ op'[r] = NoOp
      /\ \A q \in Requests \ {r} : at'[q] = at[q] /\ op'[q] = op[q]
      /\ DOMAIN op' = Requests /\ DOMAIN at' = Requests
  BY DEF End, OpsInv
<1>2. op'[r].kind = "none" /\ "kind" \in DOMAIN op'[r]
  BY <1>1 DEF NoOp
<1> QED
  BY <1>1, <1>2 DEF OpsInv, Naming

\* A request that ends names no type.
LEMMA EndAside ==
  ASSUME OpsInv, NEW r \in Requests, End(r), UNCHANGED <<type, imported>>
  PROVE  Aside(r)
  BY EndIs DEF Aside, OpsInv, Naming

\* What is asked for is one of the operations, with its caller.
LEMMA AskIs ==
  ASSUME OpsInv, NEW r \in Requests, NEW ops, Asks(r, ops)
  PROVE  /\ at'[r] = "asked" /\ DOMAIN at' = Requests /\ DOMAIN op' = Requests
         /\ \A q \in Requests \ {r} : at'[q] = at[q] /\ op'[q] = op[q]
         /\ \E o \in ops : /\ DOMAIN op'[r] = DOMAIN o \cup {"by"}
                           /\ \A x \in DOMAIN o : op'[r][x] = o[x]
<1>1. PICK o \in ops, a \in Callers : op' = [op EXCEPT ![r] = Extended(o, [by |-> a])]
  BY DEF Asks
<1>2. op'[r] = Extended(o, [by |-> a]) /\ DOMAIN op' = Requests /\ \A q \in Requests \ {r} : op'[q] = op[q]
  BY <1>1 DEF OpsInv
<1>3. DOMAIN op'[r] = DOMAIN o \cup {"by"} /\ \A x \in DOMAIN o : op'[r][x] = o[x]
  <2> DEFINE m == [by |-> a]
  <2>1. DOMAIN m = {"by"}
    OBVIOUS
  <2> HIDE DEF m
  <2>2. DOMAIN Extended(o, m) = DOMAIN o \cup DOMAIN m /\ \A x \in DOMAIN o : Extended(o, m)[x] = o[x]
    BY ExtendedIs
  <2>3. op'[r] = Extended(o, m)
    BY <1>2 DEF m
  <2> QED
    BY <2>1, <2>2, <2>3
<1> QED
  BY <1>2, <1>3 DEF Asks, Go, OpsInv

\* No operation on the plan names a type.
LEMMA AskPlanAside ==
  ASSUME OpsInv, NEW r \in Requests, AskPlan(r) \/ AskPoint(r) \/ AskSetting(r), UNCHANGED <<type, imported>>
  PROVE  Aside(r)
<1> DEFINE ks == {"create", "update", "delete", "point", "join", "leave", "set", "unset"}
<1>1. PICK ops : Asks(r, ops) /\ \A o \in ops : "kind" \in DOMAIN o /\ o.kind \in ks
  <2>1. CASE AskPlan(r)
    <3> DEFINE ops == EpicRequests \cup SprintRequests \cup MilestoneRequests \cup LabelRequests
    <3>1. \A k, from, till : \A o \in Writes(k, from, till) : "kind" \in DOMAIN o /\ o.kind \in ks
      BY DEF Writes
    <3>2. \A o \in ops : "kind" \in DOMAIN o /\ o.kind \in ks
      BY <3>1 DEF EpicRequests, SprintRequests, MilestoneRequests, LabelRequests
    <3>3. Asks(r, ops)
      BY <2>1 DEF AskPlan
    <3> HIDE DEF ops, ks
    <3> QED
      BY <3>2, <3>3
  <2>2. CASE AskPoint(r)
    <3> DEFINE ops == References \cup AddRequests \cup RemoveRequests
    <3>1. \A o \in References : "kind" \in DOMAIN o /\ o.kind \in ks
      BY DEF References
    <3>2. \A o \in ops : "kind" \in DOMAIN o /\ o.kind \in ks
      BY <3>1 DEF AddRequests, RemoveRequests
    <3>3. Asks(r, ops)
      BY <2>2 DEF AskPoint
    <3> HIDE DEF ops, ks
    <3> QED
      BY <3>2, <3>3
  <2>3. CASE AskSetting(r)
    <3> DEFINE ops == [kind : {"set"}, on : Scopes, key : DOMAIN Registry \cup Stray, value : {"fits", "does not"}]
                      \cup [kind : {"unset"}, on : Scopes, key : DOMAIN Registry \cup Stray]
    <3>2. \A o \in ops : "kind" \in DOMAIN o /\ o.kind \in ks
      OBVIOUS
    <3>3. Asks(r, ops)
      BY <2>3 DEF AskSetting
    <3> HIDE DEF ops, ks
    <3> QED
      BY <3>2, <3>3
  <2> QED
    BY <2>1, <2>2, <2>3
<1>2. PICK o \in ops : /\ DOMAIN op'[r] = DOMAIN o \cup {"by"}
                      /\ \A x \in DOMAIN o : op'[r][x] = o[x]
  BY <1>1, AskIs
<1>3. "kind" \in DOMAIN op'[r] /\ op'[r].kind \notin Naming
  BY <1>1, <1>2 DEF Naming
<1> QED
  BY <1>1, <1>3, AskIs DEF Aside

\* Nor does any other step of the plan.
LEMMA PlanAside ==
  ASSUME OpsInv, NEW r \in Requests, PlanningStep(r), UNCHANGED aspects
  PROVE  Aside(r)
<1>1. UNCHANGED <<type, imported>>
  BY DEF aspects
<1>2. CASE AskPlan(r) \/ AskPoint(r) \/ AskSetting(r)
  BY <1>1, <1>2, AskPlanAside
<1>3. CASE \/ End(r)
           \/ op' = op /\ \E to \in {"locked", "leaving", "pointed", "written"} : at' = [at EXCEPT ![r] = to]
  <2>1. CASE End(r)
    BY <1>1, <2>1, EndAside
  <2>2. CASE op' = op /\ \E to \in {"locked", "leaving", "pointed", "written"} : at' = [at EXCEPT ![r] = to]
    BY <1>1, <2>2 DEF Aside, OpsInv
  <2> QED
    BY <1>3, <2>1, <2>2
<1>4. ASSUME ~(AskPlan(r) \/ AskPoint(r) \/ AskSetting(r))
      PROVE  \/ End(r)
             \/ op' = op /\ \E to \in {"locked", "leaving", "pointed", "written"} : at' = [at EXCEPT ![r] = to]
  <2>1. CASE \/ CreateEpic(r) \/ CreateSprint(r) \/ CreateMilestone(r) \/ CreateLabel(r)
    BY <2>1 DEF CreateEpic, CreateSprint, CreateMilestone, CreateLabel, Insert, Wrote
  <2>2. CASE \/ UpdateEpic(r) \/ UpdateSprint(r) \/ UpdateMilestone(r) \/ UpdateLabel(r)
    BY <2>2 DEF UpdateEpic, UpdateSprint, UpdateMilestone, UpdateLabel, Rewrite, Wrote
  <2>3. CASE \/ DeleteEpic(r) \/ DeleteSprint(r) \/ DeleteMilestone(r) \/ DeleteLabel(r)
    BY <2>3 DEF DeleteEpic, DeleteSprint, DeleteMilestone, DeleteLabel, Erase, Wrote
  <2>4. CASE \/ CreateRefused(r) \/ UpdateRefused(r) \/ DeleteRefused(r) \/ PointRefused(r) \/ LeaveRefused(r)
             \/ SettingRefused(r) \/ Deadlock(r)
    BY <2>4 DEF CreateRefused, UpdateRefused, DeleteRefused, PointRefused, LeaveRefused, SettingRefused, Deadlock,
                Refuse
  <2>5. CASE Set(r) \/ Unset(r) \/ Publish(r)
    BY <2>5 DEF Set, Unset, Publish
  <2>6. CASE LockToDelete(r)
    BY <2>6 DEF LockToDelete, Go
  <2>7. CASE Point(r) \/ Leave(r) \/ Bump(r)
    BY <2>7 DEF Point, Leave, Bump, Go
  <2>8. CASE CommitPoint(r)
    BY <2>8 DEF CommitPoint, Go
  <2> QED
    BY <1>4, <2>1, <2>2, <2>3, <2>4, <2>5, <2>6, <2>7, <2>8 DEF PlanningStep
<1> QED
  BY <1>2, <1>3, <1>4

-----------------------------------------------------------------------------
(* The name an import chooses.                                             *)

\* A nonempty set of naturals has a least member.
LEMMA LeastNumber ==
  ASSUME NEW S, S \subseteq Nat, S # {}
  PROVE  \E m \in S : \A u \in S : m <= u
<1> DEFINE Less == {ss \in Nat \X Nat : ss[1] < ss[2]}
<1>1. IsWellFoundedOn(Less, Nat)
  BY NatLessThanWellFounded DEF OpToRel
<1>2. \A u, n \in Nat : u < n => <<u, n>> \in Less
  OBVIOUS
<1> HIDE DEF Less
<1>3. PICK m \in S : \A u \in S : ~(<<u, m>> \in Less)
  BY <1>1, WFMin
<1>4. \A u \in S : u \in Nat /\ m \in Nat /\ ~(u < m)
  BY <1>2, <1>3
<1> QED
  BY <1>4

\* Among one more numbers than there are names, one makes a free name.
LEMMA SomeNumberIsFree ==
  ASSUME NEW S, IsFiniteSet(S), NEW name \in TypeNames
  PROVE  \E n \in 2 .. Cardinality(S) + 2 :
            /\ Append(name, n) \notin S
            /\ \A m \in 2 .. n - 1 : Append(name, m) \in S
<1> DEFINE D == 2 .. Cardinality(S) + 2
           free == {n \in D : Append(name, n) \notin S}
<1>1. Cardinality(S) \in Nat
  BY FS_CardinalityType
<1>2. free # {}
  <2> SUFFICES ASSUME \A n \in D : Append(name, n) \in S
               PROVE  FALSE
    OBVIOUS
  <2> DEFINE f == [n \in D |-> Append(name, n)]
  <2>1. \A m, n \in D : Append(name, m) = Append(name, n) => m = n
    BY <1>1 DEF TypeNames
  <2>2. f \in Injection(D, S)
    BY <2>1 DEF Injection, IsInjective
  <2>3. Cardinality(D) <= Cardinality(S)
    BY <2>2, FS_Injection
  <2>4. Cardinality(D) = Cardinality(S) + 1
    BY <1>1, FS_Interval
  <2> HIDE DEF D
  <2> QED
    BY <1>1, <2>3, <2>4
<1>3. PICK n \in free : \A u \in free : n <= u
  <2>1. free \subseteq Nat
    BY <1>1
  <2> HIDE DEF free
  <2> QED
    BY <1>2, <2>1, LeastNumber
<1>4. \A m \in 2 .. n - 1 : Append(name, m) \in S
  BY <1>1, <1>3
<1> QED
  BY <1>3, <1>4

\* The name chosen for an import is a name, and nobody has it.
LEMMA UniqueIsFree ==
  ASSUME NEW S, IsFiniteSet(S), NEW name \in TypeNames
  PROVE  uniqueName(name, S) \in TypeNames /\ uniqueName(name, S) \notin S
<1> DEFINE OK(n) == /\ Append(name, n) \notin S
                    /\ \A m \in 2 .. n - 1 : Append(name, m) \in S
           D == 2 .. Cardinality(S) + 2
           k == CHOOSE n \in D : OK(n)
<1>1. CASE name \notin S
  BY <1>1 DEF uniqueName
<1>2. CASE name \in S
  <2>1. uniqueName(name, S) = Append(name, k)
    BY <1>2 DEF uniqueName
  <2>2. \E n \in D : OK(n)
    BY SomeNumberIsFree
  <2>3. Cardinality(S) \in Nat
    BY FS_CardinalityType
  <2>4. k \in D /\ OK(k)
    BY <2>2
  <2>5. k \in Nat
    BY <2>3, <2>4
  <2> HIDE DEF k
  <2> QED
    BY <2>1, <2>4, <2>5 DEF TypeNames
<1> QED
  BY <1>1, <1>2

\* The names of the team's types are finitely many.
LEMMA NamesAreFinite ==
  ASSUME TypesInv
  PROVE  IsFiniteSet(teamTypeNames)
<1> DEFINE T == {x \in Types : Is(x)}
           f == [y \in T |-> type[y].name]
<1>1. IsFiniteSet(T)
  BY AspectsAssumption, FS_Subset
<1>2. f \in Surjection(T, teamTypeNames)
  BY DEF Surjection, teamTypeNames
<1> HIDE DEF T, f
<1> QED
  BY <1>1, <1>2, FS_Surjection

-----------------------------------------------------------------------------
(* Two imports never share a name.                                         *)

\* What is asked of types, with what it names.
LEMMA AskTypeKeeps ==
  ASSUME ImportInv, NEW r \in Requests, AskType(r)
  PROVE  ImportInv'
<1> DEFINE ops == CreateTypeRequests \cup RenameTypeRequests \cup DeleteTypeRequests \cup DocumentRequests
<1>1. Asks(r, ops) /\ UNCHANGED <<type, imported>> /\ OpsInv
  BY DEF AskType, AsksAspect, aspects, ImportInv
<1> HIDE DEF ops
<1>2. PICK o \in ops : DOMAIN op'[r] = DOMAIN o \cup {"by"} /\ \A x \in DOMAIN o : op'[r][x] = o[x]
  BY <1>1, AskIs
<1>3. /\ at'[r] = "asked" /\ DOMAIN at' = Requests /\ DOMAIN op' = Requests
      /\ \A q \in Requests \ {r} : at'[q] = at[q] /\ op'[q] = op[q]
  BY <1>1, AskIs
<1>4. CASE o \in DeleteTypeRequests \cup DocumentRequests
  <2>1. "kind" \in DOMAIN op'[r] /\ op'[r].kind \notin Naming
    BY <1>2, <1>4 DEF DeleteTypeRequests, DocumentRequests, Naming
  <2> QED
    BY <1>1, <1>3, <2>1, AsideKeeps DEF Aside
<1>5. CASE o \in CreateTypeRequests \cup RenameTypeRequests
  <2>1. /\ "kind" \in DOMAIN op'[r] /\ op'[r].kind = o.kind /\ op'[r].type = o.type /\ op'[r].name = o.name
        /\ op'[r].kind \in {"create-type", "rename-type"} /\ op'[r].type \in Types /\ op'[r].name \in Typed
        /\ op'[r].kind = "create-type" => op'[r].type \in NewTypes
    BY <1>2, <1>5 DEF CreateTypeRequests, RenameTypeRequests, NewTypes, KnownTypes
  <2>2. Typed \subseteq TypeNames
    BY DEF Typed, TypeNames
  <2>3. OpsInv'
    BY <1>1, <1>3, <2>1, <2>2 DEF OpsInv, Naming
  <2>4. MakesInv'
    BY <1>1, <1>3, <2>1 DEF ImportInv, MakesInv, Makes, NewTypes, TypesInv
  <2>5. LockInv' /\ NamedInv'
    BY <1>1, <1>3 DEF ImportInv, LockInv, Importing, NamedInv
  <2> QED
    BY <1>1, <2>3, <2>4, <2>5 DEF ImportInv, TypesInv, ImportsDiffer
<1> QED
  BY <1>2, <1>4, <1>5 DEF ops

\* A file's name, or an exported type's, is a name.
LEMMA AskImportKeeps ==
  ASSUME ImportInv, NEW r \in Requests, AskImport(r)
  PROVE  ImportInv'
<1>1. Asks(r, ImportRequests) /\ UNCHANGED <<type, imported>> /\ OpsInv
  BY DEF AskImport, AsksAspect, aspects, ImportInv
<1>2. PICK o \in ImportRequests : DOMAIN op'[r] = DOMAIN o \cup {"by"} /\ \A x \in DOMAIN o : op'[r][x] = o[x]
  BY <1>1, AskIs
<1>3. /\ at'[r] = "asked" /\ DOMAIN at' = Requests /\ DOMAIN op' = Requests
      /\ \A q \in Requests \ {r} : at'[q] = at[q] /\ op'[q] = op[q]
  BY <1>1, AskIs
<1>4. o.file.name \in TypeNames
  <2>1. CASE o.file \in Files
    BY <2>1, AspectsAssumption
  <2>2. ASSUME NEW y \in Types, o.file = Export(y)
        PROVE  o.file.name \in TypeNames
    BY <2>2 DEF Export, ImportInv, TypesInv
  <2> QED
    BY <2>1, <2>2 DEF ImportRequests
<1>5. /\ DOMAIN op'[r] = {"kind", "type", "file", "by"}
      /\ op'[r].kind = "import" /\ op'[r].type = o.type /\ op'[r].file = o.file /\ o.type \in NewTypes
  BY <1>2 DEF ImportRequests
<1>6. OpsInv'
  BY <1>1, <1>3, <1>4, <1>5 DEF OpsInv, Naming, NewTypes
<1>7. MakesInv'
  BY <1>1, <1>3, <1>5 DEF ImportInv, MakesInv, Makes, NewTypes, TypesInv
<1>8. LockInv' /\ NamedInv'
  BY <1>1, <1>3 DEF ImportInv, LockInv, Importing, NamedInv
<1> QED
  BY <1>1, <1>6, <1>7, <1>8 DEF ImportInv, TypesInv, ImportsDiffer

\* A type that is created was in no import's hands; one that is renamed or
\* deleted is in them no longer.
LEMMA WriteTypeKeeps ==
  ASSUME ImportInv, NEW r \in Requests, CreateType(r) \/ RenameType(r) \/ DeleteType(r)
  PROVE  ImportInv'
<1> DEFINE y == op[r].type
<1>1. End(r) /\ OpsInv
  BY DEF CreateType, RenameType, DeleteType, ImportInv
<1>2. /\ OpsInv' /\ at'[r] = "done" /\ op'[r].kind = "none"
      /\ \A q \in Requests \ {r} : at'[q] = at[q] /\ op'[q] = op[q]
  BY <1>1, EndIs
<1>3. /\ y \notin imported' /\ imported' \subseteq imported
      /\ TypesInv'
      /\ \A z \in imported' : type'[z] = type[z]
  <2>1. CASE CreateType(r)
    <3>1. y \notin imported /\ y \in Types /\ op[r].name \in TypeNames
      BY <2>1 DEF CreateType, Asked, ImportInv, MakesInv, Makes, OpsInv, Naming
    <3> QED
      BY <2>1, <3>1 DEF CreateType, ImportInv, TypesInv
  <2>2. CASE RenameType(r)
    <3>1. y \in Types /\ op[r].name \in TypeNames
      BY <2>2 DEF RenameType, Asked, ImportInv, OpsInv, Naming
    <3> QED
      BY <2>2, <3>1 DEF RenameType, ImportInv, TypesInv
  <2>3. CASE DeleteType(r)
    BY <2>3 DEF DeleteType, ImportInv, TypesInv
  <2> QED
    BY <2>1, <2>2, <2>3
<1>4. MakesInv'
  BY <1>2, <1>3 DEF ImportInv, MakesInv, Makes
<1>5. LockInv' /\ NamedInv'
  BY <1>2, <1>3 DEF ImportInv, LockInv, Importing, NamedInv
<1>6. ImportsDiffer'
  BY <1>3 DEF ImportInv, ImportsDiffer
<1> QED
  BY <1>2, <1>3, <1>4, <1>5, <1>6 DEF ImportInv

\* The lock is taken when nobody has it.
LEMMA LockImportsKeeps ==
  ASSUME ImportInv, NEW r \in Requests, LockImports(r)
  PROVE  ImportInv'
<1>1. /\ UNCHANGED <<type, imported, op>> /\ Importing = {} /\ at[r] = "asked" /\ op[r].kind = "import"
      /\ at' = [at EXCEPT ![r] = "alone"] /\ DOMAIN at = Requests
  BY DEF LockImports, Asked, Go, aspects, ImportInv, OpsInv
<1>2. OpsInv' /\ MakesInv' /\ TypesInv' /\ ImportsDiffer'
  BY <1>1 DEF ImportInv, OpsInv, MakesInv, Makes, TypesInv, ImportsDiffer
<1>3. LockInv' /\ NamedInv'
  BY <1>1 DEF ImportInv, LockInv, Importing, NamedInv
<1> QED
  BY <1>2, <1>3 DEF ImportInv

\* The chosen name is none of those there, so none of an import's.
LEMMA ReadNamesKeeps ==
  ASSUME ImportInv, NEW r \in Requests, ReadNames(r)
  PROVE  ImportInv'
<1> DEFINE u == uniqueName(op[r].file.name, teamTypeNames)
           m == [name |-> u]
<1>1. /\ UNCHANGED <<type, imported>> /\ at[r] = "alone"
      /\ op' = [op EXCEPT ![r] = Extended(op[r], m)]
      /\ at' = [at EXCEPT ![r] = "named"] /\ DOMAIN at = Requests /\ DOMAIN op = Requests
  BY DEF ReadNames, Go, aspects, ImportInv, OpsInv
<1>2. op[r].kind = "import" /\ DOMAIN op[r] = {"kind", "type", "file", "by"} /\ op[r].file.name \in TypeNames
  BY <1>1 DEF ImportInv, OpsInv
<1>3. u \in TypeNames /\ u \notin teamTypeNames
  BY <1>2, NamesAreFinite, UniqueIsFree DEF ImportInv
<1>4. \A y \in imported : type[y].name # u
  BY <1>3 DEF teamTypeNames, Is, ImportInv, TypesInv
<1>5. DOMAIN m = {"name"} /\ m.name = u
  OBVIOUS
<1> HIDE DEF m, u
<1>6. /\ DOMAIN op'[r] = {"kind", "type", "file", "by", "name"} /\ op'[r].name = u
      /\ op'[r].kind = op[r].kind /\ op'[r].type = op[r].type /\ op'[r].file = op[r].file
      /\ \A q \in Requests \ {r} : op'[q] = op[q] /\ at'[q] = at[q]
      /\ at'[r] = "named" /\ DOMAIN at' = Requests /\ DOMAIN op' = Requests
  <2> DEFINE o == op[r]
  <2>1. op'[r] = Extended(o, m) /\ DOMAIN o = {"kind", "type", "file", "by"}
    BY <1>1, <1>2
  <2> HIDE DEF o
  <2>2. /\ DOMAIN Extended(o, m) = DOMAIN o \cup DOMAIN m
        /\ \A x \in DOMAIN o : Extended(o, m)[x] = o[x]
        /\ \A x \in DOMAIN m \ DOMAIN o : Extended(o, m)[x] = m[x]
    BY ExtendedIs
  <2>3. DOMAIN op'[r] = {"kind", "type", "file", "by", "name"} /\ op'[r].name = u
    BY <1>5, <2>1, <2>2
  <2>4. op'[r].kind = o.kind /\ op'[r].type = o.type /\ op'[r].file = o.file
    BY <2>1, <2>2
  <2> QED
    BY <1>1, <2>3, <2>4 DEF o
<1>7. OpsInv'
  BY <1>2, <1>3, <1>6 DEF ImportInv, OpsInv, Naming
<1>8. MakesInv'
  BY <1>1, <1>6 DEF ImportInv, MakesInv, Makes
<1>9. LockInv' /\ NamedInv'
  BY <1>1, <1>4, <1>6 DEF ImportInv, LockInv, Importing, NamedInv
<1> QED
  BY <1>1, <1>7, <1>8, <1>9 DEF ImportInv, TypesInv, ImportsDiffer

\* The type gets the name that was chosen, which the lock has kept free.
LEMMA ImportKeeps ==
  ASSUME ImportInv, NEW r \in Requests, Import(r)
  PROVE  ImportInv'
<1> DEFINE y == op[r].type
<1>1. /\ End(r) /\ OpsInv /\ at[r] = "named" /\ imported' = imported \cup {y}
      /\ type' = [type EXCEPT ![y] = [is |-> "there", name |-> op[r].name]]
  BY DEF Import, ImportInv
<1>2. /\ OpsInv' /\ at'[r] = "done" /\ op'[r].kind = "none"
      /\ \A q \in Requests \ {r} : at'[q] = at[q] /\ op'[q] = op[q]
  BY <1>1, EndIs
<1>3. y \in Types /\ y \notin imported /\ op[r].name \in TypeNames /\ Makes(r)
      /\ \A z \in imported : type[z].name # op[r].name
  BY <1>1 DEF ImportInv, OpsInv, MakesInv, Makes, NamedInv, Naming
<1>4. TypesInv' /\ type'[y].name = op[r].name /\ \A z \in imported : type'[z] = type[z]
  BY <1>1, <1>3 DEF ImportInv, TypesInv
<1>5. MakesInv'
  BY <1>1, <1>2, <1>3 DEF ImportInv, MakesInv, Makes
<1>6. LockInv' /\ NamedInv'
  BY <1>1, <1>2 DEF ImportInv, LockInv, Importing, NamedInv
<1>7. ImportsDiffer'
  BY <1>1, <1>3, <1>4 DEF ImportInv, ImportsDiffer
<1> QED
  BY <1>2, <1>4, <1>5, <1>6, <1>7 DEF ImportInv

\* The other steps of the aspect types name none.
LEMMA AspectAside ==
  ASSUME OpsInv, NEW r \in Requests,
         \/ AskField(r) \/ UseType(r) \/ CountUses(r) \/ TypeRefused(r)
         \/ CountPositions(r) \/ AddField(r) \/ RemoveField(r)
         \/ CheckOrder(r) \/ WriteOrder(r) \/ CommitOrder(r) \/ FieldRefused(r) \/ ImportRefused(r)
  PROVE  Aside(r)
<1>1. CASE AskField(r)
  <2> DEFINE ops == AddFieldRequests \cup RemoveFieldRequests \cup ReorderRequests
  <2>1. Asks(r, ops) /\ UNCHANGED <<type, imported>>
    BY <1>1 DEF AskField, AsksAspect, aspects
  <2>2. \A o \in ops : "kind" \in DOMAIN o /\ o.kind \notin Naming
    BY DEF AddFieldRequests, RemoveFieldRequests, ReorderRequests, Naming
  <2> HIDE DEF ops
  <2>3. PICK o \in ops : DOMAIN op'[r] = DOMAIN o \cup {"by"} /\ \A x \in DOMAIN o : op'[r][x] = o[x]
    BY <2>1, AskIs
  <2>4. "kind" \in DOMAIN op'[r] /\ op'[r].kind \notin Naming
    BY <2>2, <2>3
  <2> QED
    BY <2>1, <2>4, AskIs DEF Aside
<1>2. CASE UseType(r) \/ AddField(r) \/ RemoveField(r) \/ CommitOrder(r)
  BY <1>2, EndAside DEF UseType, AddField, RemoveField, CommitOrder
<1>3. CASE TypeRefused(r) \/ FieldRefused(r) \/ ImportRefused(r)
  BY <1>3, EndAside DEF TypeRefused, FieldRefused, ImportRefused, RefuseAspect, Refuse, aspects
<1>4. CASE CountUses(r) \/ WriteOrder(r)
  BY <1>4 DEF CountUses, WriteOrder, Go, aspects, Aside, OpsInv
<1>5. ASSUME CountPositions(r) \/ CheckOrder(r)
      PROVE  Aside(r)
  <2>1. /\ UNCHANGED <<type, imported>> /\ op[r].kind \in {"add-field", "reorder"}
        /\ \E to \in {"placed", "checked"} : at' = [at EXCEPT ![r] = to]
        /\ \E m : op' = [op EXCEPT ![r] = Extended(op[r], m)]
    BY <1>5 DEF CountPositions, CheckOrder, Asked, Go, aspects
  <2>2. /\ DOMAIN op' = Requests /\ DOMAIN at' = Requests /\ at'[r] \notin {"alone", "named"}
        /\ \A q \in Requests \ {r} : at'[q] = at[q] /\ op'[q] = op[q]
    BY <2>1 DEF OpsInv
  <2>3. "kind" \in DOMAIN op[r]
    BY DEF OpsInv
  <2>4. PICK m : op'[r] = Extended(op[r], m)
    BY <2>1 DEF OpsInv
  <2>5. "kind" \in DOMAIN op'[r] /\ op'[r].kind = op[r].kind
    <3> DEFINE o == op[r]
    <3>1. "kind" \in DOMAIN o /\ op'[r] = Extended(o, m)
      BY <2>3, <2>4
    <3> HIDE DEF o
    <3>2. DOMAIN Extended(o, m) = DOMAIN o \cup DOMAIN m /\ \A x \in DOMAIN o : Extended(o, m)[x] = o[x]
      BY ExtendedIs
    <3>3. "kind" \in DOMAIN op'[r] /\ op'[r].kind = o.kind
      BY <3>1, <3>2
    <3> QED
      BY <3>3 DEF o
  <2> QED
    BY <2>1, <2>2, <2>5 DEF Aside, Naming
<1> QED
  BY <1>1, <1>2, <1>3, <1>4, <1>5

\* No import has run yet.
LEMMA ImportInit == Init => ImportInv
<1> SUFFICES ASSUME Init
             PROVE  ImportInv
  OBVIOUS
<1>1. /\ type = Types0 /\ imported = {}
      /\ at = [r \in Requests |-> "idle"] /\ op = [r \in Requests |-> NoOp]
  BY DEF Init, PlanningInit
<1>2. TypesInv
  BY <1>1, AspectsAssumption DEF TypesInv
<1>3. OpsInv
  BY <1>1 DEF OpsInv, NoOp, Naming
<1> QED
  BY <1>1, <1>2, <1>3 DEF ImportInv, MakesInv, Makes, NoOp, LockInv, Importing, NamedInv, ImportsDiffer

\* Every step keeps what is said of imports.
LEMMA ImportStep == ImportInv /\ [Next]_vars => ImportInv'
<1> SUFFICES ASSUME ImportInv, [Next]_vars
             PROVE  ImportInv'
  OBVIOUS
<1>1. ASSUME NEW r \in Requests, PlanningStep(r), UNCHANGED aspects
      PROVE  ImportInv'
  BY <1>1, PlanAside, AsideKeeps DEF ImportInv
<1>2. ASSUME NEW r \in Requests, AspectStep(r)
      PROVE  ImportInv'
  BY <1>2, AskTypeKeeps, AskImportKeeps, WriteTypeKeeps, LockImportsKeeps, ReadNamesKeeps, ImportKeeps,
     AspectAside, AsideKeeps DEF AspectStep, ImportInv
<1>3. CASE UNCHANGED <<type, imported, at, op>>
  BY <1>3 DEF ImportInv, TypesInv, OpsInv, MakesInv, Makes, LockInv, Importing, NamedInv, ImportsDiffer
<1>4. ASSUME (Receive \/ Relist) /\ UNCHANGED aspects
      PROVE  UNCHANGED <<type, imported, at, op>>
  BY <1>4 DEF Receive, Relist, aspects
<1>5. CASE UNCHANGED vars
  BY <1>3, <1>5 DEF vars, aspects
<1> QED
  BY <1>1, <1>2, <1>3, <1>4, <1>5 DEF Next

\* Of the types that imports made, and nobody renamed, no two have one name,
\* however many imports of one file race.
THEOREM ImportsNeverClash == Spec => []ImportsDiffer
<1>1. ImportInv => ImportsDiffer
  BY DEF ImportInv
<1> QED
  BY <1>1, ImportInit, ImportStep, PTL DEF Spec

-----------------------------------------------------------------------------
(* The client: what is known of the operations under way.                  *)

PlanKinds == {"create", "update", "delete", "point", "join", "leave"}

\* An operation names resources and tickets.
OpOK(o) ==
    /\ o.kind \in {"create", "update", "delete"} => o.id \in Ids
    /\ o.kind = "create" =>
        o.name \in Titles /\ o.from \in Days \cup {NoDay} /\ o.till \in Days \cup {NoDay}
    /\ o.kind = "update" =>
        o.name \in Titles \cup {NoTitle} /\ o.from \in Days \cup {NoDay, Keep} /\ o.till \in Days \cup {NoDay, Keep}
    /\ o.kind \in {"point", "join", "leave"} => o.card \in Cards
    /\ o.kind = "point" => o.to \subseteq Ids
    /\ o.kind \in {"join", "leave"} => o.sprint \in OfKind(Ids, "sprint")

\* Frames of resources, and of tickets.
RowFrames == [type : {"created", "updated", "deleted"}, id : Ids, row : Resources, nth : Nat]
CardFrames == [type : {"ticket"}, id : Cards, version : Nat, points : SUBSET Ids]
Frames == RowFrames \cup CardFrames

Txs == [new : SUBSET Ids, left : SUBSET Ids, labels : SUBSET Ids, behind : SUBSET Ids, frame : Seq(Frames)]

PlanTypes ==
    /\ row \in [Ids -> Resources] /\ points \in [Cards -> SUBSET Ids] /\ version \in [Cards -> Nat]
    /\ writes \in [Ids -> Nat] /\ told \in [Ids -> Nat] /\ crossed \subseteq Ids
    /\ behind \in [Cards -> SUBSET Ids]
    /\ held \in [Ids -> Resources] /\ seen \in [Cards -> [version : Nat, points : SUBSET Ids]]
    /\ feed \in Seq(Frames)
    /\ DOMAIN at = Requests /\ DOMAIN op = Requests /\ DOMAIN tx = Requests
    /\ \A r \in Requests :
        /\ OpOK(op[r])
        /\ tx[r] \in Txs
        /\ at[r] = "written" => Len(tx[r].frame) = 1
        /\ at[r] = "pointed" => op[r].kind \in {"point", "join", "leave"} /\ Len(tx[r].frame) = 1
        /\ at[r] = "leaving" => op[r].kind = "leave"

\* A resource that is being created is new, and is created by one request;
\* one that is being deleted is not new.
CreateInv ==
    \A r \in Requests :
        /\ op[r].kind = "create" =>
            /\ at[r] = "asked" => row[op[r].id].is = "unborn"
            /\ \A q \in Requests \ {r} : op[q].kind = "create" => op[q].id # op[r].id
        /\ at[r] = "locked" => op[r].kind = "delete" /\ row[op[r].id].is # "unborn"

\* A leave that waits adds nothing, and began with labels there were.
Leaves(x) == x.new = {} /\ Body(x.left) = {} /\ \A i \in x.labels : row[i].is # "unborn"

\* Tickets name what is there, and so they will once a write of one commits;
\* who deletes a resource waits for that.
NamesInv ==
    /\ \A t \in Cards : \A i \in points[t] : row[i].is = "there"
    /\ \A q \in Requests : at[q] = "pointed" => \A i \in tx[q].new : row[i].is = "there" /\ DeletesNow(i) = {}
    /\ \A q \in Requests : at[q] = "leaving" => Leaves(tx[q])

-----------------------------------------------------------------------------
(* The client: what the frames tell.                                       *)

\* What a client holds of the resource once it has applied the frame.
Effect(f) == IF f.type = "deleted" THEN [f.row EXCEPT !.is = "gone"] ELSE f.row

Agrees(h, x) == h.is = x.is /\ (x.is = "there" => h = x)

\* The frame of the last write of a resource tells its row.
RowTold(f) ==
    /\ f.nth <= writes[f.id] /\ row[f.id].is # "unborn"
    /\ f.type = "deleted" => row[f.id].is = "gone"
    /\ f.type # "deleted" => f.row.is = "there"
    /\ f.nth = writes[f.id] => Agrees(Effect(f), row[f.id])

\* s has all the ticket names, and beyond that only what is gone, but for what
\* is there and old.
Covers(s, names, old) ==
    /\ Body(names) \subseteq s \cup old
    /\ \A i \in s \ Body(names) : row[i].is = "gone" \/ (row[i].is = "there" /\ i \in old)

CardTold(f) ==
    /\ f.version <= version[f.id]
    /\ f.version = version[f.id] => Covers(f.points, points[f.id], behind[f.id])

Told(f) == IF f.type = "ticket" THEN CardTold(f) ELSE RowTold(f)

Pending(r) == tx[r].frame[1]

FramesInv ==
    /\ \A n \in DOMAIN feed : Told(feed[n])
    /\ \A r \in Requests : at[r] = "written" => Told(Pending(r))

\* The names of the ticket once q commits.
Coming(q) == (points[op[q].card] \ tx[q].left) \cup tx[q].new

\* A ticket is written by one transaction at a time, which has its frame ready.
PointedInv ==
    \A q \in Requests : at[q] = "pointed" =>
        /\ Pending(q).type = "ticket" /\ Pending(q).id = op[q].card
        /\ Pending(q).version = version[op[q].card] + 1
        /\ Covers(Pending(q).points, Coming(q), tx[q].behind)
        /\ \A r \in Requests \ {q} : at[r] = "pointed" => op[r].card # op[q].card

-----------------------------------------------------------------------------
(* The client: what it will hold.                                          *)

About(n, i) == feed[n].type # "ticket" /\ feed[n].id = i

\* What the client holds of i, or will hold, is right unless i was crossed.
Fits(h, i) ==
    /\ i \notin crossed => Agrees(h, row[i])
    /\ h.is = "unborn" => row[i].is = "unborn"

\* The client will hold of i what the last frame about it tells.
LastFits(i) ==
    /\ (\A n \in DOMAIN feed : ~About(n, i)) => Fits(held[i], i)
    /\ \A n \in DOMAIN feed :
        About(n, i) /\ (\A m \in DOMAIN feed : m > n => ~About(m, i)) => Fits(Effect(feed[n]), i)

HeldInv ==
    \A i \in Ids :
        /\ told[i] <= writes[i]
        /\ held[i].is # "unborn" => row[i].is # "unborn"
        /\ told[i] = writes[i] => LastFits(i)
        /\ told[i] # writes[i] =>
            \E r \in Requests : /\ at[r] = "written" /\ Pending(r).type # "ticket"
                                /\ Pending(r).id = i /\ Pending(r).nth = writes[i]

\* The frame of i's deletion is still to be published, or comes after the n-th.
DeleteComes(i, n) ==
    /\ row[i].is = "gone"
    /\ \/ told[i] # writes[i]
       \/ \E m \in DOMAIN feed : m > n /\ feed[m].type = "deleted" /\ feed[m].id = i

\* There, and announced as it was before a wait.
Old(t, i) == i \in behind[t] /\ row[i].is = "there"

\* What s names beyond the ticket will be dropped, unless it was crossed or is old.
Settles(s, t, n) == \A i \in s \ Body(points[t]) : i \in crossed \/ DeleteComes(i, n) \/ Old(t, i)

CardOf(f, t) == f.type = "ticket" /\ f.id = t /\ f.version = version[t]

SeenInv ==
    \A t \in Cards :
        /\ seen[t].version <= version[t]
        /\ seen[t].version = version[t] => Body(points[t]) \subseteq seen[t].points \cup behind[t] /\ Settles(seen[t].points, t, 0)
        /\ \A n \in DOMAIN feed : CardOf(feed[n], t) => Settles(feed[n].points, t, n)
        /\ \/ seen[t].version = version[t]
           \/ \E n \in DOMAIN feed : CardOf(feed[n], t)
           \/ \E r \in Requests : at[r] = "written" /\ CardOf(Pending(r), t)

Base == PlanTypes /\ CreateInv /\ NamesInv
PlanInv == Base /\ FramesInv /\ PointedInv /\ HeldInv /\ SeenInv

-----------------------------------------------------------------------------
(* The start                                                               *)

\* What a transaction begins with.
LEMMA NoTxIs == NoTx \in Txs
<1>1. <<>> \in Seq(Frames)
  OBVIOUS
<1> QED
  BY <1>1 DEF NoTx, Txs

\* The client starts with what is stored.
LEMMA PlanStarts == Init => PlanInv
<1> SUFFICES ASSUME Init
             PROVE  PlanInv
  OBVIOUS
<1>1. /\ row \in [Ids -> Resources] /\ points \in [Cards -> SUBSET Ids]
      /\ \A t \in Cards : \A i \in points[t] : row[i].is = "there"
      /\ version = [t \in Cards |-> 1] /\ feed = <<>> /\ crossed = {} /\ held = row
      /\ behind = [t \in Cards |-> {}]
      /\ seen = [t \in Cards |-> [version |-> 1, points |-> Body(points[t])]]
      /\ writes = [i \in Ids |-> 0] /\ told = [i \in Ids |-> 0]
      /\ at = [r \in Requests |-> "idle"] /\ op = [r \in Requests |-> NoOp] /\ tx = [r \in Requests |-> NoTx]
  BY PlanningAssumption DEF Init, PlanningInit
<1>2. PlanTypes
  <2>1. \A t \in Cards : Body(points[t]) \subseteq Ids
    BY <1>1 DEF Body
  <2>2. seen \in [Cards -> [version : Nat, points : SUBSET Ids]]
    BY <1>1, <2>1
  <2>3. OpOK(NoOp)
    BY DEF OpOK, NoOp
  <2> QED
    BY <1>1, <2>2, <2>3, NoTxIs DEF PlanTypes
<1>3. CreateInv /\ NamesInv
  BY <1>1 DEF CreateInv, NamesInv, NoOp
<1>4. FramesInv /\ PointedInv
  BY <1>1 DEF FramesInv, PointedInv
<1>5. HeldInv
  BY <1>1 DEF HeldInv, LastFits, Fits, Agrees
<1>6. SeenInv
  BY <1>1 DEF SeenInv, Settles, Old
<1> QED
  BY <1>2, <1>3, <1>4, <1>5, <1>6 DEF PlanInv, Base

-----------------------------------------------------------------------------
(* Steps that neither write the plan nor publish.                          *)

\* What r stands at, asks or reads, of which nothing is seen elsewhere.
Elsewhere(r) ==
    /\ UNCHANGED <<row, points, version, writes, feed, told, crossed, behind, held, seen>>
    /\ DOMAIN at' = Requests /\ DOMAIN op' = Requests /\ DOMAIN tx' = Requests
    /\ \A q \in Requests \ {r} : at'[q] = at[q] /\ op'[q] = op[q] /\ tx'[q] = tx[q]
    /\ at[r] \notin {"written", "pointed"} /\ at'[r] \notin {"written", "pointed"}
    /\ tx'[r] \in Txs
    /\ at'[r] = "leaving" => op'[r].kind = "leave" /\ Leaves(tx'[r])
    /\ \/ op'[r].kind \notin PlanKinds /\ at'[r] # "locked"
       \/ op'[r] = op[r] /\ at'[r] \notin {"asked", "locked"}
       \/ /\ op'[r] = op[r] /\ at'[r] = "locked" /\ op[r].kind = "delete"
          /\ row[op[r].id].is # "unborn"
          /\ \A q \in Requests : at[q] = "pointed" => op[r].id \notin tx[q].new
       \/ /\ at'[r] = "asked" /\ OpOK(op'[r])
          /\ op'[r].kind = "create" =>
                /\ row[op'[r].id].is = "unborn"
                /\ \A q \in Requests \ {r} : op[q].kind = "create" => op[q].id # op'[r].id

\* What tickets name stays where no row is written and nobody begins a write.
LEMMA NamesStay ==
  ASSUME NamesInv, UNCHANGED <<row, points>>,
         \A q \in Requests : /\ at'[q] \in {"pointed", "leaving"} => at'[q] = at[q] /\ tx'[q] = tx[q]
                             /\ at'[q] = "locked" => at[q] = "locked" /\ op'[q] = op[q]
  PROVE  NamesInv'
<1>1. \A i : DeletesNow(i)' \subseteq DeletesNow(i)
  BY DEF DeletesNow
<1>2. ASSUME NEW q \in Requests, at'[q] = "pointed"
      PROVE  \A i \in tx'[q].new : row'[i].is = "there" /\ DeletesNow(i)' = {}
  <2>1. at[q] = "pointed" /\ tx'[q] = tx[q]
    BY <1>2
  <2>2. \A i \in tx[q].new : row[i].is = "there" /\ DeletesNow(i) = {}
    BY <2>1 DEF NamesInv
  <2> QED
    BY <1>1, <2>1, <2>2
<1>3. ASSUME NEW q \in Requests, at'[q] = "leaving"
      PROVE  Leaves(tx[q])'
  <2>1. at[q] = "leaving" /\ tx'[q] = tx[q]
    BY <1>3
  <2> QED
    BY <2>1 DEF NamesInv, Leaves
<1>4. \A t \in Cards : \A i \in points'[t] : row'[i].is = "there"
  BY DEF NamesInv
<1> QED
  BY <1>2, <1>3, <1>4 DEF NamesInv

\* Such a step keeps the invariant.
LEMMA ElsewhereKeeps ==
  ASSUME PlanInv, NEW r \in Requests, Elsewhere(r)
  PROVE  PlanInv'
<1> USE DEF PlanInv, Base
<1>1. UNCHANGED <<row, points, version, writes, feed, told, crossed, behind, held, seen>>
  BY DEF Elsewhere
<1>2. /\ \A q \in Requests \ {r} : at'[q] = at[q] /\ op'[q] = op[q] /\ tx'[q] = tx[q]
      /\ at[r] \notin {"written", "pointed"} /\ at'[r] \notin {"written", "pointed"}
      /\ DOMAIN at' = Requests /\ DOMAIN op' = Requests /\ DOMAIN tx' = Requests
  BY DEF Elsewhere
<1>3. PlanTypes'
  <2>1. OpOK(op'[r])
    BY DEF Elsewhere, OpOK, PlanKinds, PlanTypes
  <2>2. tx'[r] \in Txs
    BY DEF Elsewhere
  <2>3. \A q \in Requests : OpOK(op'[q]) /\ tx'[q] \in Txs
    BY <1>2, <2>1, <2>2 DEF PlanTypes
  <2>4. at'[r] = "leaving" => op'[r].kind = "leave"
    BY DEF Elsewhere
  <2> QED
    BY <1>1, <1>2, <2>3, <2>4 DEF PlanTypes
<1>4. CreateInv'
  BY <1>1, <1>2 DEF Elsewhere, CreateInv, PlanKinds
<1>5. NamesInv'
  BY <1>1, <1>2 DEF Elsewhere, NamesInv, Leaves, DeletesNow
<1>6. FramesInv'
  BY <1>1, <1>2 DEF FramesInv, Told, CardTold, RowTold, Covers, Pending
<1>7. PointedInv'
  <2> SUFFICES ASSUME NEW q \in Requests, at'[q] = "pointed"
               PROVE  /\ Pending(q)'.type = "ticket" /\ Pending(q)'.id = op'[q].card
                      /\ Pending(q)'.version = version'[op'[q].card] + 1
                      /\ Covers(Pending(q).points, Coming(q), tx[q].behind)'
                      /\ \A p \in Requests \ {q} : at'[p] = "pointed" => op'[p].card # op'[q].card
    BY DEF PointedInv
  <2>1. at[q] = "pointed" /\ q # r /\ UNCHANGED <<at[q], op[q], tx[q], points, version, row>>
    BY <1>1, <1>2
  <2>2. Pending(q)' = Pending(q) /\ Coming(q)' = Coming(q)
    BY <2>1 DEF Pending, Coming
  <2>3. Covers(Pending(q).points, Coming(q), tx[q].behind)'
    BY <2>1, <2>2 DEF PointedInv, Covers
  <2> QED
    BY <1>2, <2>1, <2>2, <2>3 DEF PointedInv
<1>8. HeldInv'
  BY <1>1, <1>2 DEF HeldInv, LastFits, Fits, About, Pending
<1>9. SeenInv'
  BY <1>1, <1>2 DEF SeenInv, Settles, Old, DeleteComes, CardOf, Pending
<1> QED
  BY <1>3, <1>4, <1>5, <1>6, <1>7, <1>8, <1>9

\* Nothing that a client or a frame tells of changes.
LEMMA EndElsewhere ==
  ASSUME PlanTypes, NEW r \in Requests, End(r), at[r] \notin {"written", "pointed"},
         UNCHANGED <<row, points, version, writes, feed, told, crossed, behind, held, seen>>
  PROVE  Elsewhere(r)
<1>1. /\ at'[r] = "done" /\ op'[r] = NoOp /\ tx'[r] = NoTx
      /\ DOMAIN at' = Requests /\ DOMAIN op' = Requests /\ DOMAIN tx' = Requests
      /\ \A q \in Requests \ {r} : at'[q] = at[q] /\ op'[q] = op[q] /\ tx'[q] = tx[q]
  BY DEF End, PlanTypes
<1>2. op'[r].kind \notin PlanKinds
  BY <1>1 DEF NoOp, PlanKinds
<1> HIDE DEF NoOp, NoTx
<1> QED
  BY <1>1, <1>2, NoTxIs DEF Elsewhere

\* A step between two stages that are nobody else's business.
LEMMA GoElsewhere ==
  ASSUME PlanTypes, NEW r \in Requests, NEW from \in {"asked", "alone", "checked"},
         NEW to \in {"counted", "placed", "checked", "reordered", "alone", "named"},
         Go(r, from, to), UNCHANGED <<planning, tx>>,
         \/ op' = op
         \/ DOMAIN op' = Requests /\ op'[r].kind \notin PlanKinds /\ \A q \in Requests \ {r} : op'[q] = op[q]
  PROVE  Elsewhere(r)
  BY DEF Go, planning, PlanTypes, Elsewhere

\* The kind of an operation stays when members are added.
LEMMA KindStays ==
  ASSUME OpsInv, NEW r \in Requests, NEW m, op' = [op EXCEPT ![r] = Extended(op[r], m)]
  PROVE  DOMAIN op' = Requests /\ op'[r].kind = op[r].kind /\ \A q \in Requests \ {r} : op'[q] = op[q]
<1> DEFINE o == op[r]
<1>1. /\ "kind" \in DOMAIN o /\ op'[r] = Extended(o, m) /\ DOMAIN op' = Requests
      /\ \A q \in Requests \ {r} : op'[q] = op[q]
  BY DEF OpsInv
<1> HIDE DEF o
<1>2. \A x \in DOMAIN o : Extended(o, m)[x] = o[x]
  BY ExtendedIs
<1>3. op'[r].kind = o.kind
  BY <1>1, <1>2
<1> QED
  BY <1>1, <1>3 DEF o

\* What is asked, as far as the plan is concerned.
LEMMA AskElsewhere ==
  ASSUME PlanTypes, OpsInv, NEW r \in Requests, NEW ops, Asks(r, ops),
         op'[r].kind \notin PlanKinds \/
            /\ OpOK(op'[r])
            /\ op'[r].kind = "create" =>
                /\ row[op'[r].id].is = "unborn"
                /\ \A q \in Requests \ {r} : op[q].kind = "create" => op[q].id # op'[r].id
  PROVE  Elsewhere(r)
<1>1. UNCHANGED <<planning, tx>> /\ at[r] = "idle"
  BY DEF Asks, Go
<1>2. /\ at'[r] = "asked" /\ DOMAIN at' = Requests /\ DOMAIN op' = Requests
      /\ \A q \in Requests \ {r} : at'[q] = at[q] /\ op'[q] = op[q]
  BY AskIs
<1> QED
  BY <1>1, <1>2 DEF planning, PlanTypes, Elsewhere

\* The aspect types are no part of the plan.
LEMMA AspectsElsewhere ==
  ASSUME PlanTypes, OpsInv, NEW r \in Requests, AspectStep(r)
  PROVE  Elsewhere(r)
<1>0. UNCHANGED planning
  BY AspectsLeavePlan
<1>1. CASE AskType(r)
  <2> DEFINE ops == CreateTypeRequests \cup RenameTypeRequests \cup DeleteTypeRequests \cup DocumentRequests
  <2>1. Asks(r, ops)
    BY <1>1 DEF AskType, AsksAspect
  <2>2. \A o \in ops : "kind" \in DOMAIN o /\ o.kind \notin PlanKinds
    BY DEF CreateTypeRequests, RenameTypeRequests, DeleteTypeRequests, DocumentRequests, PlanKinds
  <2> HIDE DEF ops
  <2>3. op'[r].kind \notin PlanKinds
    BY <2>1, <2>2, AskIs
  <2> QED
    BY <2>1, <2>3, AskElsewhere
<1>2. CASE AskField(r)
  <2> DEFINE ops == AddFieldRequests \cup RemoveFieldRequests \cup ReorderRequests
  <2>1. Asks(r, ops)
    BY <1>2 DEF AskField, AsksAspect
  <2>2. \A o \in ops : "kind" \in DOMAIN o /\ o.kind \notin PlanKinds
    BY DEF AddFieldRequests, RemoveFieldRequests, ReorderRequests, PlanKinds
  <2> HIDE DEF ops
  <2>3. op'[r].kind \notin PlanKinds
    BY <2>1, <2>2, AskIs
  <2> QED
    BY <2>1, <2>3, AskElsewhere
<1>3. CASE AskImport(r)
  <2>1. Asks(r, ImportRequests)
    BY <1>3 DEF AskImport, AsksAspect
  <2>2. \A o \in ImportRequests : "kind" \in DOMAIN o /\ o.kind \notin PlanKinds
    BY DEF ImportRequests, PlanKinds
  <2>3. op'[r].kind \notin PlanKinds
    BY <2>1, <2>2, AskIs
  <2> QED
    BY <2>1, <2>3, AskElsewhere
<1>4. ASSUME \/ CreateType(r) \/ RenameType(r) \/ UseType(r) \/ DeleteType(r) \/ AddField(r) \/ RemoveField(r)
             \/ CommitOrder(r) \/ Import(r) \/ TypeRefused(r) \/ FieldRefused(r) \/ ImportRefused(r)
      PROVE  Elsewhere(r)
  <2>1. End(r)
    BY <1>4 DEF CreateType, RenameType, UseType, DeleteType, AddField, RemoveField, CommitOrder, Import,
                TypeRefused, FieldRefused, ImportRefused, RefuseAspect, Refuse
  <2>2. at[r] \in {"asked", "counted", "placed", "reordered", "named"}
    BY <1>4 DEF CreateType, RenameType, UseType, DeleteType, AddField, RemoveField, CommitOrder, Import,
                TypeRefused, FieldRefused, ImportRefused, Asked
  <2> QED
    BY <1>0, <2>1, <2>2, EndElsewhere DEF planning
<1>5. CASE CountUses(r) \/ WriteOrder(r) \/ LockImports(r)
  BY <1>0, <1>5, GoElsewhere DEF CountUses, WriteOrder, LockImports
<1>6. CASE CountPositions(r)
  <2>1. op[r].kind = "add-field" /\ Go(r, "asked", "placed") /\ UNCHANGED <<planning, tx>>
    BY <1>0, <1>6 DEF CountPositions, Asked
  <2>2. \E m : op' = [op EXCEPT ![r] = Extended(op[r], m)]
    BY <1>6 DEF CountPositions
  <2>3. DOMAIN op' = Requests /\ op'[r].kind \notin PlanKinds /\ \A q \in Requests \ {r} : op'[q] = op[q]
    BY <2>1, <2>2, KindStays DEF PlanKinds
  <2> QED
    BY <2>1, <2>3, GoElsewhere
<1>7. CASE CheckOrder(r)
  <2>1. op[r].kind = "reorder" /\ Go(r, "asked", "checked") /\ UNCHANGED <<planning, tx>>
    BY <1>0, <1>7 DEF CheckOrder, Asked
  <2>2. \E m : op' = [op EXCEPT ![r] = Extended(op[r], m)]
    BY <1>7 DEF CheckOrder
  <2>3. DOMAIN op' = Requests /\ op'[r].kind \notin PlanKinds /\ \A q \in Requests \ {r} : op'[q] = op[q]
    BY <2>1, <2>2, KindStays DEF PlanKinds
  <2> QED
    BY <2>1, <2>3, GoElsewhere
<1>8. CASE ReadNames(r)
  <2>1. op[r].kind = "import" /\ Go(r, "alone", "named") /\ UNCHANGED <<planning, tx>>
    BY <1>0, <1>8 DEF ReadNames, Go, OpsInv
  <2>2. \E m : op' = [op EXCEPT ![r] = Extended(op[r], m)]
    BY <1>8 DEF ReadNames
  <2>3. DOMAIN op' = Requests /\ op'[r].kind \notin PlanKinds /\ \A q \in Requests \ {r} : op'[q] = op[q]
    BY <2>1, <2>2, KindStays DEF PlanKinds
  <2> QED
    BY <2>1, <2>3, GoElsewhere
<1> QED
  BY <1>1, <1>2, <1>3, <1>4, <1>5, <1>6, <1>7, <1>8 DEF AspectStep

\* v has the members of o.
Copies(v, o) == \A x \in DOMAIN o : v[x] = o[x]

\* What is asked of a resource: one that is there or was, or a new one.
LEMMA WritesAre ==
  ASSUME NEW k, NEW from, from \subseteq Days \cup {NoDay}, NEW till, till \subseteq Days \cup {NoDay},
         NEW o \in Writes(k, from, till), NEW v, Copies(v, o)
  PROVE  /\ OpOK(v)
         /\ v.kind = "create" =>
                /\ row[v.id].is = "unborn"
                /\ \A q \in Requests : op[q].kind = "create" => op[q].id # v.id
<1> USE DEF Copies
<1>1. CASE o \in [kind : {"create"}, id : New(k), name : Titles, from : from, till : till]
  <2>1. /\ v.kind = "create" /\ v.id \in New(k) /\ v.name \in Titles /\ v.from \in from /\ v.till \in till
    BY <1>1
  <2> QED
    BY <2>1 DEF OpOK, New, OfKind
<1>2. CASE o \in [kind : {"update"}, id : Known(k), name : Titles \cup {NoTitle},
                  from : Patches(from), till : Patches(till)]
  <2>1. /\ v.kind = "update" /\ v.id \in Known(k) /\ v.name \in Titles \cup {NoTitle}
        /\ v.from \in Patches(from) /\ v.till \in Patches(till)
    BY <1>2
  <2> QED
    BY <2>1 DEF OpOK, Known, OfKind, Patches
<1>3. CASE o \in [kind : {"delete"}, id : Known(k)]
  <2>1. v.kind = "delete" /\ v.id \in Known(k)
    BY <1>3
  <2> QED
    BY <2>1 DEF OpOK, Known, OfKind
<1> QED
  BY <1>1, <1>2, <1>3 DEF Writes

\* A create, an update or a delete that is asked.
LEMMA AskPlanElsewhere ==
  ASSUME PlanTypes, OpsInv, NEW r \in Requests, AskPlan(r)
  PROVE  Elsewhere(r)
<1> DEFINE ops == EpicRequests \cup SprintRequests \cup MilestoneRequests \cup LabelRequests
           D == Days \cup {NoDay}
<1>1. Asks(r, ops)
  BY DEF AskPlan
<1>2. \A o \in ops : \E k, from, till : from \subseteq D /\ till \subseteq D /\ o \in Writes(k, from, till)
  <2> SUFFICES ASSUME NEW o \in ops
               PROVE  \E k, from, till : from \subseteq D /\ till \subseteq D /\ o \in Writes(k, from, till)
    OBVIOUS
  <2>1. {NoDay} \subseteq D /\ D \subseteq D
    OBVIOUS
  <2>2. \/ o \in Writes("epic", {NoDay}, {NoDay}) \/ o \in Writes("sprint", D, D)
        \/ o \in Writes("milestone", D, {NoDay}) \/ o \in Writes("label", {NoDay}, {NoDay})
    BY DEF EpicRequests, SprintRequests, MilestoneRequests, LabelRequests
  <2> HIDE DEF D
  <2> QED
    BY <2>1, <2>2, Zenon
<1> HIDE DEF ops
<1>3. PICK o \in ops : \A x \in DOMAIN o : op'[r][x] = o[x]
  BY <1>1, AskIs
<1>4. PICK k, from, till : from \subseteq D /\ till \subseteq D /\ o \in Writes(k, from, till)
  BY <1>2
<1>5. /\ OpOK(op'[r])
      /\ op'[r].kind = "create" =>
            /\ row[op'[r].id].is = "unborn"
            /\ \A q \in Requests : op[q].kind = "create" => op[q].id # op'[r].id
  <2> DEFINE v == op'[r]
  <2>1. /\ from \subseteq Days \cup {NoDay} /\ till \subseteq Days \cup {NoDay}
        /\ o \in Writes(k, from, till) /\ Copies(v, o)
    BY <1>3, <1>4 DEF Copies
  <2> HIDE DEF v
  <2>2. /\ OpOK(v)
        /\ v.kind = "create" =>
                /\ row[v.id].is = "unborn"
                /\ \A q \in Requests : op[q].kind = "create" => op[q].id # v.id
    BY <2>1, WritesAre
  <2> QED
    BY <2>2 DEF v
<1> QED
  BY <1>1, <1>5, AskElsewhere

\* A ticket write or a setting that is asked.
LEMMA AskPointElsewhere ==
  ASSUME PlanTypes, OpsInv, NEW r \in Requests, AskPoint(r) \/ AskSetting(r)
  PROVE  Elsewhere(r)
<1>1. CASE AskPoint(r)
  <2> DEFINE ops == References \cup AddRequests \cup RemoveRequests
  <2>1. Asks(r, ops)
    BY <1>1 DEF AskPoint
  <2>2. PICK o \in ops : \A x \in DOMAIN o : op'[r][x] = o[x]
    <3> HIDE DEF ops
    <3> QED
      BY <2>1, AskIs
  <2>3. op'[r].kind # "create" /\ OpOK(op'[r])
    <3>1. CASE o \in References
      <4>1. op'[r].kind = "point" /\ op'[r].card \in Cards /\ op'[r].to \subseteq Ids
        BY <2>2, <3>1 DEF References, Known, OfKind
      <4> QED
        BY <4>1 DEF OpOK
    <3>2. CASE o \in AddRequests \cup RemoveRequests
      <4>1. op'[r].kind \in {"join", "leave"} /\ op'[r].card \in Cards /\ op'[r].sprint \in OfKind(Ids, "sprint")
        BY <2>2, <3>2 DEF AddRequests, RemoveRequests, Known, OfKind
      <4> QED
        BY <4>1 DEF OpOK
    <3> QED
      BY <3>1, <3>2
  <2> HIDE DEF ops
  <2> QED
    BY <2>1, <2>3, AskElsewhere
<1>2. CASE AskSetting(r)
  <2> DEFINE ops == [kind : {"set"}, on : Scopes, key : DOMAIN Registry \cup Stray, value : {"fits", "does not"}]
                    \cup [kind : {"unset"}, on : Scopes, key : DOMAIN Registry \cup Stray]
  <2>1. Asks(r, ops)
    BY <1>2 DEF AskSetting
  <2>2. \A o \in ops : "kind" \in DOMAIN o /\ o.kind \notin PlanKinds
    BY DEF PlanKinds
  <2> HIDE DEF ops
  <2>3. op'[r].kind \notin PlanKinds
    BY <2>1, <2>2, AskIs
  <2> QED
    BY <2>1, <2>3, AskElsewhere
<1> QED
  BY <1>1, <1>2

\* Refusals, settings, and the lock a delete begins with.
LEMMA AsideElsewhere ==
  ASSUME PlanTypes, NEW r \in Requests,
         \/ CreateRefused(r) \/ UpdateRefused(r) \/ DeleteRefused(r) \/ PointRefused(r) \/ LeaveRefused(r)
         \/ SettingRefused(r) \/ Deadlock(r) \/ Set(r) \/ Unset(r) \/ LockToDelete(r)
  PROVE  Elsewhere(r)
<1>1. CASE \/ CreateRefused(r) \/ UpdateRefused(r) \/ DeleteRefused(r) \/ PointRefused(r) \/ LeaveRefused(r)
           \/ SettingRefused(r) \/ Deadlock(r)
  <2>1. End(r) /\ UNCHANGED planning /\ at[r] \in {"asked", "leaving"}
    BY <1>1 DEF CreateRefused, UpdateRefused, DeleteRefused, PointRefused, LeaveRefused, SettingRefused, Deadlock,
                InEachOthersWay, Refuse, Asked, AsksToPoint
  <2> QED
    BY <2>1, EndElsewhere DEF planning
<1>2. CASE Set(r) \/ Unset(r)
  <2>1. End(r) /\ UNCHANGED <<stored, client, sent>> /\ at[r] = "asked"
    BY <1>2 DEF Set, Unset, Asked
  <2> QED
    BY <2>1, EndElsewhere DEF stored, client, sent
<1>3. CASE LockToDelete(r)
  <2>1. /\ at[r] = "asked" /\ op[r].kind = "delete" /\ row[op[r].id].is = "there"
        /\ \A q \in Requests : at[q] = "pointed" => op[r].id \notin tx[q].new
        /\ at' = [at EXCEPT ![r] = "locked"] /\ UNCHANGED <<planning, op, tx>>
    BY <1>3 DEF LockToDelete, Asked, Go
  <2> QED
    BY <2>1 DEF planning, PlanTypes, Elsewhere
<1> QED
  BY <1>1, <1>2, <1>3

\* A leave has deleted a membership, and knows the labels there are.
LEMMA LeaveElsewhere ==
  ASSUME Base, NEW r \in Requests, Leave(r)
  PROVE  Elsewhere(r)
<1> DEFINE c == op[r].card
           s == op[r].sprint
           L == OfKind(points[c], "label")
           x == [NoTx EXCEPT !.left = {s}, !.labels = L]
<1>1. /\ UNCHANGED <<row, points, version, writes, feed, told, crossed, behind, held, seen, op>>
      /\ at[r] = "asked" /\ at' = [at EXCEPT ![r] = "leaving"] /\ tx' = [tx EXCEPT ![r] = x]
      /\ op[r].kind = "leave" /\ DOMAIN at = Requests /\ DOMAIN op = Requests /\ DOMAIN tx = Requests
  BY DEF Leave, AsksToLeave, Asked, Go, planning, Base, PlanTypes
<1>2. c \in Cards /\ s \in OfKind(Ids, "sprint") /\ points[c] \subseteq Ids
  BY <1>1 DEF Base, PlanTypes, OpOK
<1>3. L \subseteq Ids /\ \A i \in L : row[i].is = "there"
  BY <1>2 DEF Base, NamesInv, OfKind
<1>4. s \in Ids /\ Body({s}) = {}
  BY <1>2 DEF Body, OfKind
<1> HIDE DEF c, s, L
<1>5. x.new = {} /\ x.left = {s} /\ x.labels = L /\ x \in Txs
  BY <1>3, <1>4, NoTxIs DEF Txs, NoTx
<1> HIDE DEF x
<1>6. Leaves(x)
  BY <1>3, <1>4, <1>5 DEF Leaves
<1> QED
  BY <1>1, <1>5, <1>6 DEF Elsewhere

-----------------------------------------------------------------------------
(* A resource is written.                                                  *)

\* The commit of the row x of i, with the frame that will tell it.
RowWrite(r, i, x, f) ==
    /\ i \in Ids /\ x \in Resources /\ f \in RowFrames
    /\ at[r] \notin {"written", "pointed"} /\ at' = [at EXCEPT ![r] = "written"]
    /\ tx' = [tx EXCEPT ![r].frame = <<f>>]
    /\ UNCHANGED <<op, version, feed, told, crossed, behind, held, seen>>
    /\ writes' = [writes EXCEPT ![i] = @ + 1] /\ row' = [row EXCEPT ![i] = x]
    /\ points' = IF x.is = "gone" THEN [t \in Cards |-> points[t] \ {i}] ELSE points
    /\ f.id = i /\ f.nth = writes[i] + 1 /\ Agrees(Effect(f), x)
    /\ f.type = "deleted" <=> x.is = "gone"
    /\ f.type # "deleted" => f.row.is = "there"
    /\ x.is \in {"there", "gone"} /\ (row[i].is = "gone" => x.is = "gone")
    /\ x.is = "gone" => \A q \in Requests : at[q] = "pointed" => i \notin tx[q].new
    /\ row[i].is = "unborn" => op[r].kind = "create" /\ op[r].id = i

\* What a ticket's frame covers it still covers when a resource is gone.
LEMMA CoversOn ==
  ASSUME PlanTypes, NEW s, NEW a, NEW b, NEW old, Covers(s, a, old), b \subseteq a,
         \A i \in a \ b : row'[i].is = "gone",
         \A i \in s : /\ row[i].is = "gone" => row'[i].is = "gone"
                      /\ row[i].is = "there" => row'[i].is \in {"there", "gone"}
  PROVE  Covers(s, b, old)'
  BY DEF Covers, Body, OfKind

\* What such a commit leaves of the types and of who is at what.
LEMMA RowWriteTypes ==
  ASSUME Base, NEW r \in Requests, NEW i, NEW x, NEW f, RowWrite(r, i, x, f)
  PROVE  /\ Base'
         /\ \A q \in Requests \ {r} : at'[q] = at[q] /\ op'[q] = op[q] /\ tx'[q] = tx[q]
         /\ at'[r] = "written" /\ Pending(r)' = f
         /\ \A j \in Ids \ {i} : row'[j] = row[j] /\ writes'[j] = writes[j]
         /\ row'[i] = x /\ writes'[i] = writes[i] + 1
         /\ \A t \in Cards : points'[t] = IF x.is = "gone" THEN points[t] \ {i} ELSE points[t]
<1> USE DEF Base
<1>1. /\ \A q \in Requests \ {r} : at'[q] = at[q] /\ op'[q] = op[q] /\ tx'[q] = tx[q]
      /\ at'[r] = "written" /\ DOMAIN at' = Requests /\ DOMAIN op' = Requests /\ DOMAIN tx' = Requests
      /\ op'[r] = op[r]
  BY DEF RowWrite, PlanTypes
<1>2. tx'[r] = [tx[r] EXCEPT !.frame = <<f>>]
  BY DEF RowWrite, PlanTypes
<1>3. tx'[r].frame = <<f>> /\ tx'[r] \in Txs
  <2>1. <<f>> \in Seq(Frames)
    BY DEF RowWrite, Frames
  <2>2. tx[r] \in Txs
    BY DEF PlanTypes
  <2> HIDE DEF Base
  <2> QED
    BY <1>2, <2>1, <2>2 DEF Txs
<1>4. /\ \A j \in Ids \ {i} : row'[j] = row[j] /\ writes'[j] = writes[j]
      /\ row'[i] = x /\ writes'[i] = writes[i] + 1
      /\ \A t \in Cards : points'[t] = IF x.is = "gone" THEN points[t] \ {i} ELSE points[t]
  BY DEF RowWrite, PlanTypes
<1>5. PlanTypes'
  <2>1. row' \in [Ids -> Resources] /\ writes' \in [Ids -> Nat]
    BY DEF RowWrite, PlanTypes
  <2>2. points' \in [Cards -> SUBSET Ids]
    BY DEF RowWrite, PlanTypes
  <2>3. UNCHANGED <<version, told, crossed, behind, held, seen, feed, op>>
    BY DEF RowWrite
  <2>4. Len(tx'[r].frame) = 1
    BY <1>3
  <2>5. \A q \in Requests : /\ OpOK(op'[q])
                            /\ tx'[q] \in Txs
                            /\ at'[q] = "written" => Len(tx'[q].frame) = 1
                            /\ at'[q] = "pointed" => op'[q].kind \in {"point", "join", "leave"} /\ Len(tx'[q].frame) = 1
                            /\ at'[q] = "leaving" => op'[q].kind = "leave"
    BY <1>1, <1>3, <2>3, <2>4 DEF PlanTypes
  <2> QED
    BY <1>1, <2>1, <2>2, <2>3, <2>5 DEF PlanTypes
<1>6. CreateInv'
  <2> SUFFICES ASSUME NEW q \in Requests
               PROVE  /\ op[q].kind = "create" =>
                            /\ at'[q] = "asked" => row'[op[q].id].is = "unborn"
                            /\ \A p \in Requests \ {q} : op[p].kind = "create" => op[p].id # op[q].id
                      /\ at'[q] = "locked" => op[q].kind = "delete" /\ row'[op[q].id].is # "unborn"
    BY DEF CreateInv, RowWrite
  <2>1. op[q].kind \in {"create", "delete"} => op[q].id \in Ids
    BY DEF PlanTypes, OpOK
  <2>2. x.is # "unborn" /\ (row[i].is = "unborn" => op[r].kind = "create" /\ op[r].id = i)
    BY DEF RowWrite
  <2> QED
    BY <1>1, <1>4, <2>1, <2>2 DEF CreateInv
<1>7. NamesInv'
  <2>1. \A t \in Cards : \A j \in points'[t] : row'[j].is = "there"
    BY <1>4 DEF NamesInv, Leaves, RowWrite, PlanTypes
  <2>2. ASSUME NEW q \in Requests, at'[q] = "pointed", NEW j \in tx'[q].new
        PROVE  row'[j].is = "there" /\ DeletesNow(j)' = {}
    <3>1. q # r /\ at[q] = "pointed" /\ j \in tx[q].new
      BY <1>1, <2>2
    <3>2. row[j].is = "there" /\ DeletesNow(j) = {} /\ j \in Ids
      BY <3>1 DEF NamesInv, PlanTypes, Txs
    <3>3. row'[j].is = "there"
      BY <1>4, <3>1, <3>2 DEF RowWrite
    <3>4. DeletesNow(j)' = {}
      BY <1>1, <3>2 DEF DeletesNow
    <3> QED
      BY <3>3, <3>4
  <2>3. ASSUME NEW q \in Requests, at'[q] = "leaving"
        PROVE  Leaves(tx[q])'
    <3>1. q # r /\ Leaves(tx[q]) /\ tx'[q] = tx[q] /\ tx[q].labels \subseteq Ids
      BY <1>1, <2>3 DEF NamesInv, PlanTypes, Txs
    <3>2. \A j \in Ids : row[j].is # "unborn" => row'[j].is # "unborn"
      BY <1>4 DEF RowWrite
    <3> QED
      BY <3>1, <3>2 DEF Leaves, Body, OfKind
  <2> QED
    BY <2>1, <2>2, <2>3 DEF NamesInv
<1>8. Pending(r)' = f
  BY <1>3 DEF Pending
<1> QED
  BY <1>1, <1>4, <1>5, <1>6, <1>7, <1>8

\* The frames queued still tell the truth of what is stored, and the frame of
\* this commit is still to come.
LEMMA RowWriteKeeps ==
  ASSUME PlanInv, NEW r \in Requests, NEW i, NEW x, NEW f, RowWrite(r, i, x, f)
  PROVE  PlanInv'
<1>1. /\ Base'
      /\ \A q \in Requests \ {r} : at'[q] = at[q] /\ op'[q] = op[q] /\ tx'[q] = tx[q]
      /\ at'[r] = "written" /\ Pending(r)' = f
      /\ \A j \in Ids \ {i} : row'[j] = row[j] /\ writes'[j] = writes[j]
      /\ row'[i] = x /\ writes'[i] = writes[i] + 1
      /\ \A t \in Cards : points'[t] = IF x.is = "gone" THEN points[t] \ {i} ELSE points[t]
  BY RowWriteTypes DEF PlanInv
<1>2. /\ UNCHANGED <<version, feed, told, crossed, behind, held, seen, op>> /\ at[r] \notin {"written", "pointed"}
      /\ i \in Ids /\ f \in RowFrames
      /\ f.id = i /\ f.nth = writes[i] + 1 /\ Agrees(Effect(f), x)
      /\ (f.type = "deleted" <=> x.is = "gone") /\ (f.type # "deleted" => f.row.is = "there")
      /\ x.is \in {"there", "gone"} /\ (row[i].is = "gone" => x.is = "gone")
      /\ x.is = "gone" => \A q \in Requests : at[q] = "pointed" => i \notin tx[q].new
  BY DEF RowWrite
<1>3. PlanTypes
  BY DEF PlanInv, Base
<1>4. \A j \in Ids : /\ row[j].is = "gone" => row'[j].is = "gone"
                     /\ row[j].is = "there" => row'[j].is \in {"there", "gone"}
  BY <1>1, <1>2
<1>5. /\ \A t \in Cards : points'[t] \subseteq points[t] /\ points[t] \subseteq Ids
      /\ \A t \in Cards : \A j \in points[t] \ points'[t] : j = i /\ x.is = "gone"
  BY <1>1, <1>3 DEF PlanTypes
<1>6. ASSUME NEW g \in Frames, Told(g)
      PROVE  Told(g)'
  <2>1. CASE g.type = "ticket"
    <3>1. g.id \in Cards /\ g.points \subseteq Ids
      BY <2>1 DEF Frames, RowFrames, CardFrames
    <3>2. g.version = version[g.id] => Covers(g.points, points[g.id], behind[g.id])'
      BY <1>1, <1>2, <1>3, <1>4, <1>5, <1>6, <2>1, <3>1, CoversOn DEF Told, CardTold
    <3> QED
      BY <1>2, <1>6, <2>1, <3>2 DEF Told, CardTold
  <2>2. CASE g.type # "ticket"
    <3>1. g \in RowFrames /\ g.id \in Ids /\ g.nth \in Nat
      BY <2>2 DEF Frames, RowFrames, CardFrames
    <3>2. writes[i] \in Nat
      BY <1>2, <1>3 DEF PlanTypes
    <3> QED
      BY <1>1, <1>2, <1>4, <1>6, <2>2, <3>1, <3>2 DEF Told, RowTold
  <2> QED
    BY <2>1, <2>2
<1>7. FramesInv'
  <2>1. \A n \in DOMAIN feed' : Told(feed[n])'
    <3> SUFFICES ASSUME NEW n \in DOMAIN feed
                 PROVE  Told(feed[n])'
      BY <1>2
    <3>1. feed[n] \in Frames /\ Told(feed[n])
      BY <1>3 DEF PlanTypes, PlanInv, FramesInv
    <3> DEFINE g == feed[n]
    <3>2. g' = g
      BY <1>2
    <3> QED
      BY <1>6, <3>1, <3>2 DEF Told, CardTold, RowTold, Covers
  <2>2. ASSUME NEW q \in Requests, at'[q] = "written"
        PROVE  Told(Pending(q))'
    <3>1. CASE q = r
      <4>1. RowTold(f)'
        BY <1>1, <1>2 DEF RowTold, RowFrames
      <4>2. f.type # "ticket"
        BY <1>2 DEF RowFrames
      <4> QED
        BY <1>1, <3>1, <4>1, <4>2 DEF Told, RowTold
    <3>2. CASE q # r
      <4>1. at[q] = "written" /\ Pending(q)' = Pending(q)
        BY <1>1, <2>2, <3>2 DEF Pending
      <4>2. Pending(q) \in Frames /\ Told(Pending(q))
        BY <1>3, <4>1 DEF PlanTypes, Txs, PlanInv, FramesInv, Pending
      <4> QED
        BY <1>6, <4>1, <4>2 DEF Told, CardTold, RowTold, Covers
    <3> QED
      BY <3>1, <3>2
  <2> QED
    BY <2>1, <2>2 DEF FramesInv
<1>8. PointedInv'
  <2> SUFFICES ASSUME NEW q \in Requests, at'[q] = "pointed"
               PROVE  /\ Pending(q)'.type = "ticket" /\ Pending(q)'.id = op'[q].card
                      /\ Pending(q)'.version = version'[op'[q].card] + 1
                      /\ Covers(Pending(q).points, Coming(q), tx[q].behind)'
                      /\ \A p \in Requests \ {q} : at'[p] = "pointed" => op'[p].card # op'[q].card
    BY DEF PointedInv
  <2>1. at[q] = "pointed" /\ q # r /\ op'[q] = op[q] /\ tx'[q] = tx[q] /\ Pending(q)' = Pending(q)
    BY <1>1 DEF Pending
  <2>2. Covers(Pending(q).points, Coming(q), tx[q].behind)
    BY <2>1 DEF PlanInv, PointedInv
  <2>3. op[q].card \in Cards /\ Pending(q).points \subseteq Ids
    <3>1. Pending(q) \in Frames /\ Pending(q).type = "ticket"
      BY <1>3, <2>1 DEF PlanTypes, Txs, PlanInv, PointedInv, Pending
    <3> QED
      BY <1>3, <2>1, <3>1 DEF PlanTypes, OpOK, Frames, RowFrames, CardFrames
  <2>4. Coming(q)' \subseteq Coming(q)
    BY <1>5, <2>1, <2>3 DEF Coming
  <2>5. \A j \in Coming(q) \ Coming(q)' : row'[j].is = "gone"
    BY <1>1, <1>5, <2>1, <2>3 DEF Coming
  <2>6. Covers(Pending(q).points, Coming(q), tx[q].behind)'
    <3>1. PICK s : s = Pending(q).points
      OBVIOUS
    <3>2. PICK b : b = Coming(q)'
      OBVIOUS
    <3>3. PICK old : old = tx[q].behind
      OBVIOUS
    <3>4. /\ Covers(s, Coming(q), old) /\ b \subseteq Coming(q) /\ \A j \in Coming(q) \ b : row'[j].is = "gone"
          /\ \A j \in s : /\ row[j].is = "gone" => row'[j].is = "gone"
                          /\ row[j].is = "there" => row'[j].is \in {"there", "gone"}
      BY <1>4, <2>2, <2>3, <2>4, <2>5, <3>1, <3>2, <3>3
    <3>5. Covers(s, b, old)'
      BY <1>3, <3>4, CoversOn
    <3> QED
      BY <2>1, <3>1, <3>2, <3>3, <3>5 DEF Covers, Body, OfKind
  <2> QED
    BY <1>1, <1>2, <2>1, <2>6 DEF PlanInv, PointedInv
<1>9. HeldInv'
  <2> SUFFICES ASSUME NEW j \in Ids
               PROVE  /\ told[j] <= writes'[j]
                      /\ held[j].is # "unborn" => row'[j].is # "unborn"
                      /\ told[j] = writes'[j] => LastFits(j)'
                      /\ told[j] # writes'[j] =>
                            \E q \in Requests : /\ at'[q] = "written" /\ Pending(q)'.type # "ticket"
                                                /\ Pending(q)'.id = j /\ Pending(q)'.nth = writes'[j]
    BY <1>2 DEF HeldInv
  <2>1. CASE j = i
    <3>1. told[j] <= writes[j] /\ told[j] \in Nat /\ writes[j] \in Nat
      BY <1>3 DEF PlanInv, HeldInv, PlanTypes
    <3>2. f.type # "ticket"
      BY <1>2 DEF RowFrames
    <3> QED
      BY <1>1, <1>2, <2>1, <3>1, <3>2
  <2>2. CASE j # i
    <3>1. row'[j] = row[j] /\ writes'[j] = writes[j]
      BY <1>1, <2>2
    <3>2. LastFits(j) => LastFits(j)'
      BY <1>2, <3>1 DEF LastFits, Fits, About
    <3>3. ASSUME told[j] # writes[j]
          PROVE  \E q \in Requests : /\ at'[q] = "written" /\ Pending(q)'.type # "ticket"
                                     /\ Pending(q)'.id = j /\ Pending(q)'.nth = writes'[j]
      <4>1. PICK q \in Requests : /\ at[q] = "written" /\ Pending(q).type # "ticket"
                                  /\ Pending(q).id = j /\ Pending(q).nth = writes[j]
        BY <3>3 DEF PlanInv, HeldInv
      <4>2. at'[q] = "written" /\ Pending(q)' = Pending(q)
        BY <1>1, <1>2, <4>1 DEF Pending
      <4> QED
        BY <3>1, <4>1, <4>2
    <3> QED
      BY <3>1, <3>2, <3>3 DEF PlanInv, HeldInv
  <2> QED
    BY <2>1, <2>2
<1>10. SeenInv'
  <2>1. ASSUME NEW s, s \subseteq Ids, NEW t \in Cards, NEW n, Settles(s, t, n)
        PROVE  Settles(s, t, n)'
    <3> SUFFICES ASSUME NEW j \in s, j \notin Body(points'[t])
                 PROVE  j \in crossed \/ DeleteComes(j, n)' \/ Old(t, j)'
      BY <1>2 DEF Settles, Old, Body, OfKind
    <3>1. told[i] <= writes[i] /\ told[i] \in Nat /\ writes[i] \in Nat
      BY <1>2, <1>3 DEF PlanInv, HeldInv, PlanTypes
    <3>2. CASE j \in Body(points[t])
      <4>1. j = i /\ x.is = "gone"
        BY <1>5, <3>2 DEF Body, OfKind
      <4> QED
        BY <1>1, <1>2, <3>1, <4>1 DEF DeleteComes
    <3>3. CASE j \notin Body(points[t])
      <4>1. j \in crossed \/ DeleteComes(j, n) \/ Old(t, j)
        BY <2>1, <3>3 DEF Settles, Old
      <4> QED
        BY <1>1, <1>2, <1>4, <2>1, <3>1, <4>1 DEF DeleteComes, Old
    <3> QED
      BY <3>2, <3>3
  <2> SUFFICES ASSUME NEW t \in Cards
               PROVE  /\ seen[t].version <= version[t]
                      /\ seen[t].version = version[t] =>
                            Body(points'[t]) \subseteq seen[t].points \cup behind'[t] /\ Settles(seen[t].points, t, 0)'
                      /\ \A n \in DOMAIN feed : CardOf(feed[n], t) => Settles(feed[n].points, t, n)'
                      /\ \/ seen[t].version = version[t]
                         \/ \E n \in DOMAIN feed : CardOf(feed[n], t)
                         \/ \E q \in Requests : at'[q] = "written" /\ CardOf(Pending(q), t)'
    BY <1>2 DEF SeenInv, CardOf, Body, Settles, Old, DeleteComes
  <2>2. Body(points'[t]) \subseteq Body(points[t]) /\ seen[t].points \subseteq Ids
    BY <1>3, <1>5 DEF Body, OfKind, PlanTypes
  <2>3. \A n \in DOMAIN feed : CardOf(feed[n], t) => Settles(feed[n].points, t, n)'
    <3> SUFFICES ASSUME NEW n \in DOMAIN feed, CardOf(feed[n], t)
                 PROVE  Settles(feed[n].points, t, n)'
      OBVIOUS
    <3>1. PICK s : s = feed[n].points
      OBVIOUS
    <3>2. s \subseteq Ids
      <4>1. feed[n] \in Frames
        BY <1>3 DEF PlanTypes
      <4> QED
        BY <3>1, <4>1 DEF CardOf, Frames, RowFrames, CardFrames
    <3>3. Settles(s, t, n)
      BY <3>1 DEF PlanInv, SeenInv
    <3>4. Settles(s, t, n)'
      BY <2>1, <3>2, <3>3
    <3> QED
      BY <1>2, <3>1, <3>4 DEF Settles
  <2>4. ASSUME NEW q \in Requests, at[q] = "written", CardOf(Pending(q), t)
        PROVE  at'[q] = "written" /\ CardOf(Pending(q), t)'
    BY <1>1, <1>2, <2>4 DEF Pending, CardOf
  <2>5. seen[t].version = version[t] => Settles(seen[t].points, t, 0)'
    <3> SUFFICES ASSUME seen[t].version = version[t]
                 PROVE  Settles(seen[t].points, t, 0)'
      OBVIOUS
    <3>1. PICK s : s = seen[t].points
      OBVIOUS
    <3>2. s \subseteq Ids /\ Settles(s, t, 0)
      BY <2>2, <3>1 DEF PlanInv, SeenInv
    <3>3. Settles(s, t, 0)'
      BY <2>1, <3>2
    <3> QED
      BY <1>2, <3>1, <3>3 DEF Settles
  <2> QED
    BY <1>2, <2>2, <2>3, <2>4, <2>5 DEF PlanInv, SeenInv
<1> QED
  BY <1>1, <1>7, <1>8, <1>9, <1>10 DEF PlanInv

\* Creates, updates and deletes are such commits.
LEMMA InsertIs ==
  ASSUME Base, NEW r \in Requests, NEW k, Insert(r, k)
  PROVE  \E i, x, f : RowWrite(r, i, x, f)
<1> DEFINE i == op[r].id
           x == Created(r)
           f == ResourceFrame("created", i, x)
<1>1. /\ at[r] = "asked" /\ op[r].kind = "create" /\ i \in Ids
      /\ op[r].name \in Titles /\ op[r].from \in Days \cup {NoDay} /\ op[r].till \in Days \cup {NoDay}
      /\ row[i].is = "unborn"
  BY DEF Insert, Asked, Base, CreateInv, PlanTypes, OpOK
<1>2. x \in Resources /\ x.is = "there"
  BY <1>1 DEF Created, Resources
<1>3. f \in RowFrames /\ f.id = i /\ f.nth = writes[i] + 1 /\ f.type = "created" /\ f.row = x
  <2>1. writes[i] + 1 \in Nat
    BY <1>1 DEF Base, PlanTypes
  <2> HIDE DEF x, i
  <2> QED
    BY <1>1, <1>2, <2>1 DEF ResourceFrame, RowFrames
<1>4. Agrees(Effect(f), x)
  BY <1>3 DEF Agrees, Effect
<1>5. /\ at' = [at EXCEPT ![r] = "written"] /\ tx' = [tx EXCEPT ![r].frame = <<f>>]
      /\ writes' = [writes EXCEPT ![i] = @ + 1] /\ row' = [row EXCEPT ![i] = x]
      /\ UNCHANGED <<op, version, points, feed, told, crossed, behind, held, seen>>
  BY DEF Insert, Wrote, client, sent
<1>6. RowWrite(r, i, x, f)
  <2> HIDE DEF i, x, f
  <2> QED
    BY <1>1, <1>2, <1>3, <1>4, <1>5 DEF RowWrite, i
<1> QED
  BY <1>6

\* An update writes the row it found there.
LEMMA RewriteIs ==
  ASSUME Base, NEW r \in Requests, NEW k, Rewrite(r, k)
  PROVE  \E i, x, f : RowWrite(r, i, x, f)
<1> DEFINE i == op[r].id
           x == Patched(r)
           f == ResourceFrame("updated", i, x)
<1>1. /\ at[r] = "asked" /\ op[r].kind = "update" /\ i \in Ids
      /\ op[r].name \in Titles \cup {NoTitle} /\ op[r].from \in Days \cup {NoDay, Keep} /\ op[r].till \in Days \cup {NoDay, Keep}
      /\ row[i].is = "there" /\ row[i] \in Resources
  BY DEF Rewrite, Asked, Base, PlanTypes, OpOK
<1>2. x \in Resources /\ x.is = "there"
  BY <1>1 DEF Patched, Resources
<1>3. f \in RowFrames /\ f.id = i /\ f.nth = writes[i] + 1 /\ f.type = "updated" /\ f.row = x
  <2>1. writes[i] + 1 \in Nat
    BY <1>1 DEF Base, PlanTypes
  <2> HIDE DEF x, i
  <2> QED
    BY <1>1, <1>2, <2>1 DEF ResourceFrame, RowFrames
<1>4. Agrees(Effect(f), x)
  BY <1>3 DEF Agrees, Effect
<1>5. /\ at' = [at EXCEPT ![r] = "written"] /\ tx' = [tx EXCEPT ![r].frame = <<f>>]
      /\ writes' = [writes EXCEPT ![i] = @ + 1] /\ row' = [row EXCEPT ![i] = x]
      /\ UNCHANGED <<op, version, points, feed, told, crossed, behind, held, seen>>
  BY DEF Rewrite, Wrote, Written, client, sent
<1>6. RowWrite(r, i, x, f)
  <2> HIDE DEF x, f
  <2> QED
    BY <1>1, <1>2, <1>3, <1>4, <1>5 DEF RowWrite
<1> QED
  BY <1>6

\* A delete leaves a row that is gone.
LEMMA EraseIs ==
  ASSUME Base, NEW r \in Requests, NEW k, Erase(r, k)
  PROVE  \E i, x, f : RowWrite(r, i, x, f)
<1> DEFINE i == op[r].id
           x == [row[i] EXCEPT !.is = "gone"]
           f == ResourceFrame("deleted", i, row[i])
<1>1. /\ at[r] = "locked" /\ i \in Ids /\ row[i].is # "unborn" /\ row[i] \in Resources
  BY DEF Erase, Base, CreateInv, PlanTypes, OpOK
<1>2. x \in Resources /\ x.is = "gone"
  BY <1>1 DEF Resources
<1>3. f \in RowFrames /\ f.id = i /\ f.nth = writes[i] + 1 /\ f.type = "deleted" /\ Effect(f) = x
  <2>1. writes[i] + 1 \in Nat
    BY <1>1 DEF Base, PlanTypes
  <2> HIDE DEF i
  <2>2. f \in RowFrames /\ f.id = i /\ f.nth = writes[i] + 1 /\ f.type = "deleted" /\ f.row = row[i]
    BY <1>1, <2>1 DEF ResourceFrame, RowFrames
  <2> HIDE DEF f
  <2> QED
    BY <2>2 DEF Effect
<1>4. Agrees(Effect(f), x)
  BY <1>2, <1>3 DEF Agrees
<1>5. /\ at' = [at EXCEPT ![r] = "written"] /\ tx' = [tx EXCEPT ![r].frame = <<f>>]
      /\ writes' = [writes EXCEPT ![i] = @ + 1] /\ row' = [row EXCEPT ![i] = x]
      /\ points' = [t \in Cards |-> points[t] \ {i}]
      /\ UNCHANGED <<op, version, feed, told, crossed, behind, held, seen>>
  <2>1. /\ Wrote(r, i, f) /\ points' = [t \in Cards |-> points[t] \ {i}] /\ UNCHANGED version
        /\ row' = [row EXCEPT ![i].is = "gone"]
    BY DEF Erase
  <2>2. row' = [row EXCEPT ![i] = x]
    BY <2>1
  <2> HIDE DEF i, x, f
  <2> QED
    BY <2>1, <2>2 DEF Wrote, client, sent
<1>6. \A q \in Requests : at[q] = "pointed" => i \notin tx[q].new
  BY <1>1 DEF Base, NamesInv, DeletesNow
<1>7. RowWrite(r, i, x, f)
  <2> HIDE DEF x, f
  <2> QED
    BY <1>1, <1>2, <1>3, <1>4, <1>5, <1>6 DEF RowWrite
<1> QED
  BY <1>7

-----------------------------------------------------------------------------
(* A ticket is pointed at a resource.                                      *)

\* What r is about to commit to the ticket c, with the frame that will tell it.
Ready(r, c, x, f) ==
    /\ x \in Txs /\ x.frame = <<f>>
    /\ f \in CardFrames /\ f.type = "ticket" /\ f.id = c /\ f.version = version[c] + 1
    /\ Covers(f.points, (points[c] \ x.left) \cup x.new, x.behind)
    /\ \A i \in x.new : row[i].is = "there" /\ DeletesNow(i) = {}

\* The frame is made before the commit, of what the ticket will name then.
LEMMA ReadyKeeps ==
  ASSUME PlanInv, NEW r \in Requests, NEW x, NEW f, Ready(r, op[r].card, x, f),
         op[r].kind \in {"point", "join", "leave"}, CardFree(op[r].card),
         at[r] \in {"asked", "leaving"}, at' = [at EXCEPT ![r] = "pointed"], tx' = [tx EXCEPT ![r] = x],
         UNCHANGED <<row, points, version, writes, feed, told, crossed, behind, held, seen, op>>
  PROVE  PlanInv'
<1> DEFINE c == op[r].card
<1>0. PlanTypes
  BY DEF PlanInv, Base
<1>1. /\ UNCHANGED <<row, points, version, writes, feed, told, crossed, behind, held, seen, op>>
      /\ at[r] \in {"asked", "leaving"} /\ op[r].kind \in {"point", "join", "leave"} /\ CardFree(c)
      /\ Ready(r, c, x, f)
  OBVIOUS
<1> HIDE DEF c
<1>2. /\ at'[r] = "pointed" /\ tx'[r] = x /\ Pending(r)' = f /\ x \in Txs /\ c = op[r].card
      /\ \A q \in Requests \ {r} : at'[q] = at[q] /\ op'[q] = op[q] /\ tx'[q] = tx[q] /\ Pending(q)' = Pending(q)
      /\ DOMAIN at' = Requests /\ DOMAIN op' = Requests /\ DOMAIN tx' = Requests
  BY <1>0, <1>1 DEF PlanTypes, Pending, Ready, c
<1>3. PlanTypes'
  <2>1. Len(tx'[r].frame) = 1
    <3>1. Len(<<f>>) = 1
      OBVIOUS
    <3>2. tx'[r] = x /\ x.frame = <<f>>
      BY <1>2 DEF Ready
    <3> QED
      BY <3>1, <3>2, Zenon
  <2>2. \A q \in Requests : /\ OpOK(op'[q])
                            /\ tx'[q] \in Txs
                            /\ at'[q] = "written" => Len(tx'[q].frame) = 1
                            /\ at'[q] = "pointed" => op'[q].kind \in {"point", "join", "leave"} /\ Len(tx'[q].frame) = 1
                            /\ at'[q] = "leaving" => op'[q].kind = "leave"
    BY <1>0, <1>1, <1>2, <2>1 DEF PlanTypes
  <2> QED
    BY <1>0, <1>1, <1>2, <2>2 DEF PlanTypes
<1>4. CreateInv'
  BY <1>1, <1>2 DEF PlanInv, Base, CreateInv
<1>5. NamesInv'
  <2>1. \A i : DeletesNow(i)' \subseteq DeletesNow(i)
    BY <1>1, <1>2 DEF DeletesNow
  <2>2. \A q \in Requests : at'[q] = "pointed" => \A i \in tx'[q].new : row'[i].is = "there" /\ DeletesNow(i) = {}
    BY <1>1, <1>2 DEF PlanInv, Base, NamesInv, Ready
  <2>3. \A q \in Requests : at'[q] = "leaving" => Leaves(tx[q])'
    BY <1>1, <1>2 DEF PlanInv, Base, NamesInv, Leaves
  <2>4. \A t \in Cards : \A i \in points'[t] : row'[i].is = "there"
    BY <1>1 DEF PlanInv, Base, NamesInv
  <2>5. \A q \in Requests : at'[q] = "pointed" => \A i \in tx'[q].new : row'[i].is = "there" /\ DeletesNow(i)' = {}
    BY <2>1, <2>2
  <2> QED
    BY <2>3, <2>4, <2>5 DEF NamesInv
<1>6. FramesInv'
  BY <1>1, <1>2 DEF PlanInv, FramesInv, Told, CardTold, RowTold, Covers
<1>7. PointedInv'
  <2> SUFFICES ASSUME NEW q \in Requests, at'[q] = "pointed"
               PROVE  /\ Pending(q)'.type = "ticket" /\ Pending(q)'.id = op'[q].card
                      /\ Pending(q)'.version = version'[op'[q].card] + 1
                      /\ Covers(Pending(q).points, Coming(q), tx[q].behind)'
                      /\ \A p \in Requests \ {q} : at'[p] = "pointed" => op'[p].card # op'[q].card
    BY DEF PointedInv
  <2>1. \A p \in Requests \ {r} : at[p] = "pointed" => op[p].card # c
    BY <1>1 DEF CardFree
  <2>2. CASE q = r
    <3>1. Coming(r)' = (points[c] \ x.left) \cup x.new
      BY <1>1, <1>2 DEF Coming
    <3>2. Covers(f.points, (points[c] \ x.left) \cup x.new, x.behind)
      BY <1>1 DEF Ready
    <3>3. PICK a : a = (points[c] \ x.left) \cup x.new
      OBVIOUS
    <3>4. Covers(f.points, a, x.behind) /\ Coming(r)' = a
      BY <3>1, <3>2, <3>3
    <3>5. Covers(Pending(r).points, Coming(r), tx[r].behind)'
      BY <1>1, <1>2, <3>4 DEF Covers, Body, OfKind
    <3> QED
      BY <1>1, <1>2, <2>1, <2>2, <3>5 DEF Ready
  <2>3. CASE q # r
    <3>1. Coming(q)' = Coming(q) /\ at[q] = "pointed" /\ Pending(q)' = Pending(q)
      BY <1>1, <1>2, <2>3 DEF Coming
    <3>2. Covers(Pending(q).points, Coming(q), tx[q].behind)'
      BY <1>1, <3>1 DEF PlanInv, PointedInv, Covers
    <3> QED
      BY <1>1, <1>2, <2>1, <2>3, <3>1, <3>2 DEF PlanInv, PointedInv
  <2> QED
    BY <2>2, <2>3
<1>8. HeldInv'
  BY <1>1, <1>2 DEF PlanInv, HeldInv, LastFits, Fits, About
<1>9. SeenInv'
  BY <1>1, <1>2 DEF PlanInv, SeenInv, Settles, Old, DeleteComes, CardOf
<1> QED
  BY <1>3, <1>4, <1>5, <1>6, <1>7, <1>8, <1>9 DEF PlanInv, Base

\* What the request names must be there, and the body is read under the lock.
LEMMA PointKeeps ==
  ASSUME PlanInv, NEW r \in Requests, Point(r)
  PROVE  PlanInv'
<1> DEFINE c == op[r].card
           f == CardFrame(c, Pointed(r))
           x == [NoTx EXCEPT !.new = Names(r), !.left = points[c] \ Pointed(r), !.frame = <<f>>]
<1>0. PlanTypes
  BY DEF PlanInv, Base
<1>1. /\ UNCHANGED <<row, points, version, writes, feed, told, crossed, behind, held, seen, op>>
      /\ at[r] = "asked" /\ at' = [at EXCEPT ![r] = "pointed"] /\ tx' = [tx EXCEPT ![r] = x]
      /\ op[r].kind \in {"point", "join"} /\ CardFree(c)
      /\ \A i \in Names(r) : row[i].is = "there" /\ DeletesNow(i) = {}
  BY DEF Point, AsksToPoint, Go, planning
<1>2. c \in Cards /\ points[c] \subseteq Ids /\ Pointed(r) \subseteq Ids
  <2>1. c \in Cards /\ points[c] \subseteq Ids
    BY <1>0, <1>1 DEF PlanTypes, OpOK
  <2>2. IF op[r].kind = "point" THEN op[r].to \subseteq Ids ELSE op[r].sprint \in Ids
    BY <1>0, <1>1 DEF PlanTypes, OpOK, OfKind
  <2> QED
    BY <2>1, <2>2 DEF Pointed
<1>3. /\ f \in CardFrames /\ f.type = "ticket" /\ f.id = c /\ f.version = version[c] + 1
      /\ f.points = Body(Pointed(r))
  <2>1. version[c] + 1 \in Nat /\ Body(Pointed(r)) \subseteq Ids
    BY <1>0, <1>2 DEF PlanTypes, Body
  <2> HIDE DEF c
  <2> QED
    BY <1>2, <2>1 DEF CardFrame, CardFrames
<1> HIDE DEF f
<1>4. /\ x.new = Names(r) /\ x.left = points[c] \ Pointed(r) /\ x.behind = {} /\ x.frame = <<f>>
      /\ x \in Txs
  <2> DEFINE N == Names(r)
             L == points[c] \ Pointed(r)
             g == <<f>>
  <2>1. N \subseteq Ids /\ L \subseteq Ids /\ g \in Seq(Frames)
    BY <1>2, <1>3 DEF Names, Frames
  <2>2. x = [NoTx EXCEPT !.new = N, !.left = L, !.frame = g]
    OBVIOUS
  <2> HIDE DEF N, L, g, x
  <2>3. x.new = N /\ x.left = L /\ x.behind = {} /\ x.frame = g /\ x \in Txs
    BY <2>1, <2>2 DEF NoTx, Txs
  <2> QED
    BY <2>3 DEF N, L, g
<1> HIDE DEF x
<1>5. Covers(f.points, (points[c] \ x.left) \cup x.new, x.behind)
  <2>1. (points[c] \ x.left) \cup x.new = Pointed(r)
    BY <1>4 DEF Names
  <2> QED
    BY <1>3, <2>1 DEF Covers
<1>6. Ready(r, c, x, f)
  BY <1>1, <1>3, <1>4, <1>5 DEF Ready
<1> QED
  BY <1>1, <1>6, ReadyKeeps

\* A leave answers with the ticket as it is and with the labels as they were:
\* those that are not so any more are gone, or the client is told late of them.
LEMMA BumpKeeps ==
  ASSUME PlanInv, NEW r \in Requests, Bump(r)
  PROVE  PlanInv'
<1> DEFINE c == op[r].card
           now == points[c]
           labels == OfKind(now, "label")
           old == tx[r].labels
           s == (now \ labels) \cup old
           b == {i \in (old \ labels) \cup (labels \ old) : row[i].is = "there"}
           f == CardFrame(c, s)
           x == [tx[r] EXCEPT !.frame = <<f>>, !.behind = b]
<1>0. PlanTypes
  BY DEF PlanInv, Base
<1>1. /\ UNCHANGED <<row, points, version, writes, feed, told, crossed, behind, held, seen, op>>
      /\ at[r] = "leaving" /\ at' = [at EXCEPT ![r] = "pointed"]
      /\ tx' = [tx EXCEPT ![r].frame = <<f>>, ![r].behind = b] /\ CardFree(c)
  BY DEF Bump, Go, planning
<1>2. tx' = [tx EXCEPT ![r] = x]
  <2>1. tx' = [tx EXCEPT ![r].frame = <<f>>, ![r].behind = b]
    BY <1>1
  <2>2. DOMAIN tx = Requests
    BY <1>0 DEF PlanTypes
  <2> HIDE DEF f, b
  <2> QED
    BY <2>1, <2>2
<1>3. op[r].kind = "leave" /\ c \in Cards /\ now \subseteq Ids /\ old \subseteq Ids /\ tx[r] \in Txs
  BY <1>0, <1>1 DEF PlanTypes, OpOK, Txs
<1>4. tx[r].new = {} /\ Body(tx[r].left) = {} /\ \A i \in old : row[i].is # "unborn"
  BY <1>1 DEF PlanInv, Base, NamesInv, Leaves
<1>5. \A i \in now : row[i].is = "there"
  BY <1>3 DEF PlanInv, Base, NamesInv
<1>6. \A i \in Ids : row[i].is \in {"unborn", "there", "gone"}
  BY <1>0 DEF PlanTypes, Resources
<1>7. b \subseteq Ids /\ s \subseteq Ids /\ version[c] \in Nat
  BY <1>0, <1>3 DEF PlanTypes, OfKind
<1>8. Body(now) \subseteq Body(s) \cup b
  BY <1>5 DEF Body, OfKind
<1>9. \A i \in Body(s) \ Body(now) : row[i].is = "gone" \/ (row[i].is = "there" /\ i \in b)
  BY <1>3, <1>4, <1>6 DEF Body, OfKind
<1> HIDE DEF c, now, old, s, b
<1>10. f \in CardFrames /\ f.type = "ticket" /\ f.id = c /\ f.version = version[c] + 1 /\ f.points = Body(s)
  <2>1. version[c] + 1 \in Nat /\ Body(s) \subseteq Ids
    BY <1>7 DEF Body
  <2> QED
    BY <1>3, <2>1 DEF CardFrame, CardFrames
<1> HIDE DEF f
<1>11. x.new = tx[r].new /\ x.left = tx[r].left /\ x.behind = b /\ x.frame = <<f>> /\ x \in Txs
  <2>1. <<f>> \in Seq(Frames)
    BY <1>10 DEF Frames
  <2> QED
    BY <1>3, <1>7, <2>1 DEF Txs
<1> HIDE DEF x
<1>12. Body((now \ x.left) \cup x.new) = Body(now)
  BY <1>4, <1>11 DEF Body, OfKind
<1>13. Ready(r, c, x, f)
  <2>1. Covers(f.points, (now \ x.left) \cup x.new, x.behind)
    BY <1>8, <1>9, <1>10, <1>11, <1>12 DEF Covers
  <2> QED
    BY <1>4, <1>10, <1>11, <2>1 DEF Ready, now
<1> QED
  BY <1>1, <1>2, <1>3, <1>13, ReadyKeeps DEF c

\* The ticket names what its frame says, and the version says which is later.
LEMMA CommitPointKeeps ==
  ASSUME PlanInv, NEW r \in Requests, CommitPoint(r)
  PROVE  PlanInv'
<1> DEFINE c == op[r].card
<1>0. PlanTypes
  BY DEF PlanInv, Base
<1>1. /\ UNCHANGED <<row, writes, feed, told, crossed, held, seen, op, tx>>
      /\ at[r] = "pointed" /\ at' = [at EXCEPT ![r] = "written"]
      /\ points' = [points EXCEPT ![c] = Coming(r)] /\ version' = [version EXCEPT ![c] = @ + 1]
      /\ behind' = [behind EXCEPT ![c] = tx[r].behind]
  BY DEF CommitPoint, Go, client, sent, Coming
<1>2. /\ c \in Cards /\ Coming(r) \subseteq Ids /\ version[c] \in Nat /\ tx[r].behind \subseteq Ids
      /\ op[r].kind \in {"point", "join", "leave"} /\ Len(tx[r].frame) = 1
  BY <1>0, <1>1 DEF PlanTypes, OpOK, Coming, Txs
<1>3. /\ at'[r] = "written" /\ DOMAIN at' = Requests
      /\ \A q \in Requests \ {r} : at'[q] = at[q]
      /\ \A q \in Requests : Pending(q)' = Pending(q)
      /\ points'[c] = Coming(r) /\ version'[c] = version[c] + 1 /\ behind'[c] = tx[r].behind
      /\ \A t \in Cards \ {c} : points'[t] = points[t] /\ version'[t] = version[t] /\ behind'[t] = behind[t]
  BY <1>0, <1>1, <1>2 DEF PlanTypes, Pending
<1>4. PlanTypes'
  <2>1. points' \in [Cards -> SUBSET Ids] /\ version' \in [Cards -> Nat] /\ behind' \in [Cards -> SUBSET Ids]
    BY <1>0, <1>1, <1>2 DEF PlanTypes
  <2> QED
    BY <1>0, <1>1, <1>2, <1>3, <2>1 DEF PlanTypes
<1>5. CreateInv'
  BY <1>1, <1>3 DEF PlanInv, Base, CreateInv
<1>6. NamesInv'
  <2>1. \A i \in Coming(r) : row[i].is = "there"
    BY <1>1, <1>2 DEF PlanInv, Base, NamesInv, Coming
  <2>2. \A t \in Cards : \A i \in points'[t] : row[i].is = "there"
    BY <1>3, <2>1 DEF PlanInv, Base, NamesInv
  <2> QED
    BY <1>1, <1>3, <2>2 DEF PlanInv, Base, NamesInv, Leaves, DeletesNow
<1>7. /\ Pending(r).type = "ticket" /\ Pending(r).id = c /\ Pending(r).version = version[c] + 1
      /\ Covers(Pending(r).points, Coming(r), tx[r].behind)
      /\ \A q \in Requests \ {r} : at[q] = "pointed" => op[q].card # c
  BY <1>1 DEF PlanInv, PointedInv
<1>8. \A g \in Frames : Told(g) => Told(g)' /\ (g.type = "ticket" => g.version <= version[g.id])
  <2> SUFFICES ASSUME NEW g \in Frames, Told(g)
               PROVE  Told(g)' /\ (g.type = "ticket" => g.version <= version[g.id])
    BY <1>1, <1>3 DEF Told, RowTold, CardTold, Covers
  <2>1. CASE g.type = "ticket"
    <3>1. g.id \in Cards /\ g.version \in Nat
      BY <2>1 DEF Frames, RowFrames, CardFrames
    <3> QED
      BY <1>1, <1>2, <1>3, <2>1, <3>1 DEF Told, CardTold, Covers
  <2>2. CASE g.type # "ticket"
    BY <1>1, <2>2 DEF Told, RowTold
  <2> QED
    BY <2>1, <2>2
<1>9. /\ \A n \in DOMAIN feed : feed[n] \in Frames /\ Told(feed[n])
      /\ \A q \in Requests : at[q] = "written" => Pending(q) \in Frames /\ Told(Pending(q))
  BY <1>0 DEF PlanInv, FramesInv, PlanTypes, Txs, Pending
<1>10. FramesInv'
  <2>1. CardTold(Pending(r))'
    BY <1>1, <1>2, <1>3, <1>7 DEF CardTold, Covers
  <2>2. \A n \in DOMAIN feed : Told(feed[n])'
    BY <1>1, <1>8, <1>9 DEF Told, CardTold, RowTold, Covers
  <2>3. \A q \in Requests : at'[q] = "written" => Told(Pending(q))'
    BY <1>3, <1>7, <1>8, <1>9, <2>1 DEF Told, CardTold, RowTold, Covers
  <2> QED
    BY <1>1, <2>2, <2>3 DEF FramesInv
<1>11. PointedInv'
  <2> SUFFICES ASSUME NEW q \in Requests, at'[q] = "pointed"
               PROVE  /\ Pending(q).type = "ticket" /\ Pending(q).id = op[q].card
                      /\ Pending(q).version = version'[op[q].card] + 1
                      /\ Covers(Pending(q).points, Coming(q), tx[q].behind)'
                      /\ \A p \in Requests \ {q} : at'[p] = "pointed" => op[p].card # op[q].card
    BY <1>1, <1>3 DEF PointedInv
  <2>1. q # r /\ at[q] = "pointed" /\ op[q].card \in Cards \ {c}
    BY <1>0, <1>3, <1>7 DEF PlanTypes, OpOK
  <2>2. Coming(q)' = Coming(q) /\ Pending(q)' = Pending(q)
    BY <1>1, <1>3, <2>1 DEF Coming
  <2>3. Covers(Pending(q).points, Coming(q), tx[q].behind)'
    BY <1>1, <2>1, <2>2 DEF PlanInv, PointedInv, Covers
  <2> QED
    BY <1>3, <2>1, <2>3 DEF PlanInv, PointedInv
<1>12. HeldInv'
  BY <1>1, <1>3 DEF PlanInv, HeldInv, LastFits, Fits, About
<1>13. SeenInv'
  <2> SUFFICES ASSUME NEW t \in Cards
               PROVE  /\ seen[t].version <= version'[t]
                      /\ seen[t].version = version'[t] =>
                            Body(points'[t]) \subseteq seen[t].points \cup behind'[t] /\ Settles(seen[t].points, t, 0)'
                      /\ \A n \in DOMAIN feed : CardOf(feed[n], t)' => Settles(feed[n].points, t, n)'
                      /\ \/ seen[t].version = version'[t]
                         \/ \E n \in DOMAIN feed : CardOf(feed[n], t)'
                         \/ \E q \in Requests : at'[q] = "written" /\ CardOf(Pending(q), t)'
    BY <1>1 DEF SeenInv, CardOf, Body, Settles, Old, DeleteComes
  <2>1. CASE t = c
    <3>1. seen[t].version <= version[t] /\ seen[t].version \in Nat
      BY <1>0, <2>1 DEF PlanInv, SeenInv, PlanTypes
    <3>2. \A n \in DOMAIN feed : ~CardOf(feed[n], t)'
      <4> SUFFICES ASSUME NEW n \in DOMAIN feed, CardOf(feed[n], t)'
                   PROVE  FALSE
        OBVIOUS
      <4>1. feed[n].type = "ticket" /\ feed[n].id = c /\ feed[n].version = version[c] + 1
        BY <1>1, <1>3, <2>1 DEF CardOf
      <4>2. feed[n].version <= version[c]
        BY <1>8, <1>9, <4>1
      <4> QED
        BY <1>2, <4>1, <4>2
    <3>3. at'[r] = "written" /\ CardOf(Pending(r), t)'
      BY <1>3, <1>7, <2>1 DEF CardOf
    <3> QED
      BY <1>2, <1>3, <2>1, <3>1, <3>2, <3>3
  <2>2. CASE t # c
    <3>1. points'[t] = points[t] /\ version'[t] = version[t] /\ behind'[t] = behind[t]
      BY <1>3, <2>2
    <3>2. \A n \in DOMAIN feed : CardOf(feed[n], t)' <=> CardOf(feed[n], t)
      BY <1>1, <3>1 DEF CardOf
    <3>3. \A n \in DOMAIN feed : Settles(feed[n].points, t, n) => Settles(feed[n].points, t, n)'
      BY <1>1, <3>1 DEF Settles, Old, DeleteComes, Body, OfKind
    <3>4. Settles(seen[t].points, t, 0) => Settles(seen[t].points, t, 0)'
      BY <1>1, <3>1 DEF Settles, Old, DeleteComes, Body, OfKind
    <3>5. \A q \in Requests : at[q] = "written" /\ CardOf(Pending(q), t) => at'[q] = "written" /\ CardOf(Pending(q), t)'
      BY <1>1, <1>3, <3>1 DEF CardOf
    <3> QED
      BY <3>1, <3>2, <3>3, <3>4, <3>5 DEF PlanInv, SeenInv
  <2> QED
    BY <2>1, <2>2
<1> QED
  BY <1>4, <1>5, <1>6, <1>10, <1>11, <1>12, <1>13 DEF PlanInv, Base

-----------------------------------------------------------------------------
(* A frame is published.                                                   *)

\* The frame goes last in the queue, and its request is through.
LEMMA PublishIs ==
  ASSUME PlanInv, NEW r \in Requests, Publish(r)
  PROVE  /\ UNCHANGED <<row, points, version, writes, behind, held, seen>>
         /\ at[r] = "written" /\ Pending(r) \in Frames /\ Told(Pending(r))
         /\ told' = IF Pending(r).type # "ticket" /\ Pending(r).nth > told[Pending(r).id]
                    THEN [told EXCEPT ![Pending(r).id] = Pending(r).nth] ELSE told
         /\ crossed' = crossed \cup Overtaken(Pending(r))
         /\ DOMAIN feed = 1..Len(feed) /\ DOMAIN feed' = 1..(Len(feed) + 1) /\ Len(feed) \in Nat
         /\ feed' \in Seq(Frames) /\ feed'[Len(feed) + 1] = Pending(r)
         /\ \A n \in DOMAIN feed : feed'[n] = feed[n]
         /\ at'[r] = "done" /\ op'[r] = NoOp /\ tx'[r] = NoTx
         /\ DOMAIN at' = Requests /\ DOMAIN op' = Requests /\ DOMAIN tx' = Requests
         /\ \A q \in Requests \ {r} : at'[q] = at[q] /\ op'[q] = op[q] /\ tx'[q] = tx[q] /\ Pending(q)' = Pending(q)
<1> DEFINE f == Pending(r)
<1>0. PlanTypes
  BY DEF PlanInv, Base
<1>1. /\ UNCHANGED <<row, points, version, writes, behind, held, seen>> /\ at[r] = "written" /\ End(r)
      /\ feed' = Append(feed, f)
      /\ told' = IF f.type # "ticket" /\ f.nth > told[f.id] THEN [told EXCEPT ![f.id] = f.nth] ELSE told
      /\ crossed' = crossed \cup Overtaken(f)
  BY DEF Publish, Pending, stored, client
<1>2. f \in Frames /\ Told(f)
  <2>1. tx[r].frame \in Seq(Frames) /\ Len(tx[r].frame) = 1
    BY <1>0, <1>1 DEF PlanTypes, Txs
  <2> QED
    BY <1>1, <2>1 DEF PlanInv, FramesInv, Pending
<1>3. /\ at'[r] = "done" /\ op'[r] = NoOp /\ tx'[r] = NoTx
      /\ DOMAIN at' = Requests /\ DOMAIN op' = Requests /\ DOMAIN tx' = Requests
      /\ \A q \in Requests \ {r} : at'[q] = at[q] /\ op'[q] = op[q] /\ tx'[q] = tx[q] /\ Pending(q)' = Pending(q)
  BY <1>0, <1>1 DEF End, PlanTypes, Pending
<1>4. feed \in Seq(Frames)
  BY <1>0 DEF PlanTypes
<1> HIDE DEF f
<1>5. /\ DOMAIN feed = 1..Len(feed) /\ DOMAIN feed' = 1..(Len(feed) + 1) /\ Len(feed) \in Nat
      /\ feed' \in Seq(Frames) /\ feed'[Len(feed) + 1] = f
      /\ \A n \in DOMAIN feed : feed'[n] = feed[n]
  BY <1>1, <1>2, <1>4
<1> QED
  BY <1>1, <1>2, <1>3, <1>5 DEF f

\* What the last frame about a resource tells is right, or the resource is crossed.
LEMMA PublishRowKeeps ==
  ASSUME PlanInv, NEW r \in Requests, Publish(r)
  PROVE  HeldInv'
<1>0. PlanTypes
  BY DEF PlanInv, Base
<1>6. PICK f : f = Pending(r)
  OBVIOUS
<1>7. PICK N : N = Len(feed) + 1
  OBVIOUS
<1>1. /\ UNCHANGED <<row, points, version, writes, behind, held, seen>>
      /\ at[r] = "written" /\ f \in Frames /\ Told(f)
      /\ told' = IF f.type # "ticket" /\ f.nth > told[f.id] THEN [told EXCEPT ![f.id] = f.nth] ELSE told
      /\ crossed' = crossed \cup Overtaken(f)
      /\ DOMAIN feed = 1..Len(feed) /\ DOMAIN feed' = 1..N /\ Len(feed) \in Nat
      /\ feed'[N] = f
      /\ \A n \in DOMAIN feed : feed'[n] = feed[n]
      /\ \A q \in Requests \ {r} : at'[q] = at[q] /\ Pending(q)' = Pending(q)
  BY <1>6, <1>7, PublishIs
<1> SUFFICES ASSUME NEW i \in Ids
             PROVE  /\ told'[i] <= writes[i]
                    /\ held[i].is # "unborn" => row[i].is # "unborn"
                    /\ told'[i] = writes[i] => LastFits(i)'
                    /\ told'[i] # writes[i] =>
                        \E q \in Requests : /\ at'[q] = "written" /\ Pending(q)'.type # "ticket"
                                            /\ Pending(q)'.id = i /\ Pending(q)'.nth = writes[i]
  BY <1>1 DEF HeldInv
<1>2. /\ told[i] <= writes[i] /\ told[i] \in Nat /\ writes[i] \in Nat /\ DOMAIN told = Ids
      /\ held[i].is # "unborn" => row[i].is # "unborn"
      /\ told[i] = writes[i] => LastFits(i)
  BY <1>0 DEF PlanInv, HeldInv, PlanTypes
<1>3. ASSUME told[i] # writes[i]
      PROVE  \E q \in Requests : /\ at[q] = "written" /\ Pending(q).type # "ticket"
                                 /\ Pending(q).id = i /\ Pending(q).nth = writes[i]
  BY <1>3 DEF PlanInv, HeldInv
<1>4. ASSUME f.type # "ticket", f.id = i
      PROVE  /\ told'[i] <= writes[i]
             /\ told'[i] = writes[i] => LastFits(i)'
             /\ told'[i] # writes[i] =>
                    \E q \in Requests : /\ at'[q] = "written" /\ Pending(q)'.type # "ticket"
                                        /\ Pending(q)'.id = i /\ Pending(q)'.nth = writes[i]
  <2>1. f \in RowFrames /\ RowTold(f) /\ f.nth \in Nat
    BY <1>1, <1>4 DEF Frames, CardFrames, RowFrames, Told
  <2>2. f.nth <= writes[i] /\ told'[i] = IF f.nth > told[i] THEN f.nth ELSE told[i]
    BY <1>1, <1>2, <1>4, <2>1 DEF RowTold
  <2>3. f.nth < told[i] => i \in crossed'
    BY <1>1, <1>4 DEF Overtaken
  <2>4. f.nth = writes[i] => Agrees(Effect(f), row[i])
    BY <1>4, <2>1 DEF RowTold
  <2>5. Effect(f).is # "unborn"
    BY <2>1 DEF RowTold, Effect, RowFrames, Resources
  <2>6. told'[i] = writes[i] => LastFits(i)'
    <3> SUFFICES ASSUME told'[i] = writes[i]
                 PROVE  LastFits(i)'
      OBVIOUS
    <3>1. i \notin crossed' => Agrees(Effect(f), row[i])
      BY <1>2, <2>1, <2>2, <2>3, <2>4
    <3>2. Fits(Effect(f), i)'
      BY <1>1, <2>5, <3>1 DEF Fits, Agrees, Effect
    <3>3. N \in DOMAIN feed' /\ About(N, i)' /\ feed'[N] = f
      BY <1>1, <1>4, <1>7 DEF About
    <3>4. \A n \in DOMAIN feed' : n # N => N > n
      BY <1>1, <1>7
    <3>5. Fits(Effect(feed[N]), i)'
      BY <3>2, <3>3 DEF Fits, Effect, Agrees
    <3> QED
      BY <3>3, <3>4, <3>5 DEF LastFits
  <2>7. ASSUME told'[i] # writes[i]
        PROVE  \E q \in Requests : /\ at'[q] = "written" /\ Pending(q)'.type # "ticket"
                                   /\ Pending(q)'.id = i /\ Pending(q)'.nth = writes[i]
    <3>1. told[i] # writes[i]
      BY <1>2, <2>1, <2>2, <2>7
    <3>2. PICK q \in Requests : /\ at[q] = "written" /\ Pending(q).type # "ticket"
                                /\ Pending(q).id = i /\ Pending(q).nth = writes[i]
      BY <1>3, <3>1
    <3>3. q # r
      BY <1>2, <1>6, <2>2, <2>7, <3>1, <3>2
    <3> QED
      BY <1>1, <3>2, <3>3
  <2> QED
    BY <1>2, <2>1, <2>2, <2>6, <2>7
<1>5. ASSUME f.type = "ticket" \/ f.id # i
      PROVE  /\ told'[i] = told[i]
             /\ LastFits(i) => LastFits(i)'
             /\ told[i] # writes[i] =>
                    \E q \in Requests : /\ at'[q] = "written" /\ Pending(q)'.type # "ticket"
                                        /\ Pending(q)'.id = i /\ Pending(q)'.nth = writes[i]
  <2>1. told'[i] = told[i]
    BY <1>1, <1>2, <1>5
  <2>2. ASSUME LastFits(i)
        PROVE  LastFits(i)'
    <3>1. \A n \in DOMAIN feed' : About(n, i)' => n \in DOMAIN feed
      <4>1. ~About(N, i)'
        BY <1>1, <1>5 DEF About
      <4>2. \A n \in DOMAIN feed' : n = N \/ n \in DOMAIN feed
        BY <1>1, <1>7
      <4> QED
        BY <4>1, <4>2
    <3>2. \A n \in DOMAIN feed : About(n, i)' <=> About(n, i)
      BY <1>1 DEF About
    <3>3. DOMAIN feed \subseteq DOMAIN feed'
      BY <1>1, <1>7
    <3>5. (\A n \in DOMAIN feed' : ~About(n, i)') => Fits(held[i], i)'
      <4> SUFFICES ASSUME \A n \in DOMAIN feed' : ~About(n, i)'
                   PROVE  Fits(held[i], i)'
        OBVIOUS
      <4>1. Fits(held[i], i)
        BY <2>2, <3>2, <3>3 DEF LastFits
      <4> QED
        BY <1>1, <4>1 DEF Fits, Agrees
    <3>6. ASSUME NEW n \in DOMAIN feed', About(n, i)', \A m \in DOMAIN feed' : m > n => ~About(m, i)'
          PROVE  Fits(Effect(feed[n]), i)'
      <4>1. n \in DOMAIN feed /\ feed'[n] = feed[n]
        BY <1>1, <3>1, <3>6
      <4>2. Fits(Effect(feed[n]), i)
        BY <2>2, <3>2, <3>3, <3>6, <4>1 DEF LastFits
      <4> QED
        BY <1>1, <4>1, <4>2 DEF Fits, Agrees, Effect
    <3> QED
      BY <3>5, <3>6 DEF LastFits
  <2>3. ASSUME told[i] # writes[i]
        PROVE  \E q \in Requests : /\ at'[q] = "written" /\ Pending(q)'.type # "ticket"
                                   /\ Pending(q)'.id = i /\ Pending(q)'.nth = writes[i]
    <3>1. PICK q \in Requests : /\ at[q] = "written" /\ Pending(q).type # "ticket"
                                /\ Pending(q).id = i /\ Pending(q).nth = writes[i]
      BY <1>3, <2>3
    <3>2. q # r
      BY <1>5, <1>6, <3>1
    <3> QED
      BY <1>1, <3>1, <3>2
  <2> QED
    BY <2>1, <2>2, <2>3
<1> QED
  BY <1>2, <1>4, <1>5

\* A ticket's frame names nothing gone whose deletion does not come after it,
\* or is already told: then the resource is crossed.
LEMMA PublishCardKeeps ==
  ASSUME PlanInv, NEW r \in Requests, Publish(r)
  PROVE  SeenInv'
<1>0. PlanTypes
  BY DEF PlanInv, Base
<1>1. PICK f : f = Pending(r)
  OBVIOUS
<1>2. PICK N : N = Len(feed) + 1
  OBVIOUS
<1>3. /\ UNCHANGED <<row, points, version, writes, behind, held, seen>>
      /\ at[r] = "written" /\ f \in Frames /\ Told(f)
      /\ told' = IF f.type # "ticket" /\ f.nth > told[f.id] THEN [told EXCEPT ![f.id] = f.nth] ELSE told
      /\ crossed' = crossed \cup Overtaken(f)
      /\ DOMAIN feed = 1..Len(feed) /\ DOMAIN feed' = 1..N /\ Len(feed) \in Nat
      /\ feed'[N] = f
      /\ \A n \in DOMAIN feed : feed'[n] = feed[n]
      /\ \A q \in Requests \ {r} : at'[q] = at[q] /\ Pending(q)' = Pending(q)
  BY <1>1, <1>2, PublishIs
<1>4. /\ DOMAIN feed \subseteq DOMAIN feed' /\ N \in DOMAIN feed'
      /\ \A n \in DOMAIN feed : N > n
      /\ \A n \in DOMAIN feed' : n \in DOMAIN feed \/ n = N
      /\ N > 0
  BY <1>2, <1>3
<1>5. ASSUME NEW i \in Ids, NEW n, N > n, DeleteComes(i, n)
      PROVE  DeleteComes(i, n)'
  <2>1. row'[i].is = "gone" /\ row[i].is = "gone" /\ writes'[i] = writes[i]
    BY <1>3, <1>5 DEF DeleteComes
  <2>2. CASE told'[i] # writes[i]
    BY <2>1, <2>2 DEF DeleteComes
  <2>3. CASE told'[i] = writes[i] /\ told[i] # writes[i]
    <3>1. f.type # "ticket" /\ f.id = i /\ f.nth = writes[i]
      BY <1>0, <1>3, <2>3 DEF PlanTypes
    <3>2. RowTold(f)
      BY <1>3, <3>1 DEF Told
    <3>3. f.type = "deleted"
      BY <2>1, <3>1, <3>2 DEF RowTold, Agrees, Effect
    <3>4. feed'[N].type = "deleted" /\ feed'[N].id = i
      BY <1>3, <3>1, <3>3
    <3> QED
      BY <1>4, <1>5, <2>1, <3>4 DEF DeleteComes
  <2>4. CASE told[i] = writes[i]
    <3>1. PICK m \in DOMAIN feed : m > n /\ feed[m].type = "deleted" /\ feed[m].id = i
      BY <1>5, <2>4 DEF DeleteComes
    <3>2. m \in DOMAIN feed' /\ feed'[m] = feed[m]
      BY <1>3, <1>4
    <3> QED
      BY <2>1, <3>1, <3>2 DEF DeleteComes
  <2> QED
    BY <2>2, <2>3, <2>4
<1>6. ASSUME NEW s, s \subseteq Ids, NEW t \in Cards, NEW n, N > n, Settles(s, t, n)
      PROVE  Settles(s, t, n)'
  <2> SUFFICES ASSUME NEW i \in s, i \notin Body(points[t])
               PROVE  i \in crossed' \/ DeleteComes(i, n)' \/ Old(t, i)'
    BY <1>3 DEF Settles, Old, Body, OfKind
  <2> QED
    BY <1>3, <1>5, <1>6 DEF Settles, Old
<1>7. ASSUME NEW t \in Cards, CardOf(f, t)
      PROVE  Settles(f.points, t, N)'
  <2>1. f \in CardFrames /\ f.type = "ticket" /\ CardTold(f) /\ f.points \subseteq Ids
    BY <1>3, <1>7 DEF CardOf, Told, Frames, RowFrames, CardFrames
  <2>2. Covers(f.points, points[t], behind[t])
    BY <1>7, <2>1 DEF CardOf, CardTold
  <2> SUFFICES ASSUME NEW i \in f.points, i \notin Body(points[t])
               PROVE  i \in crossed' \/ DeleteComes(i, N)' \/ Old(t, i)'
    BY <1>3 DEF Settles, Old, Body, OfKind
  <2>3. row[i].is = "gone" \/ Old(t, i)
    BY <2>2 DEF Covers, Old
  <2>4. CASE row[i].is = "gone" /\ told[i] = writes[i]
    BY <1>3, <2>1, <2>4 DEF Overtaken, DeleteTold
  <2>5. CASE row[i].is = "gone" /\ told[i] # writes[i]
    BY <1>3, <2>1, <2>5 DEF DeleteComes
  <2>6. CASE Old(t, i)
    BY <1>3, <2>6 DEF Old
  <2> QED
    BY <2>3, <2>4, <2>5, <2>6
<1> SUFFICES ASSUME NEW t \in Cards
             PROVE  /\ seen[t].version <= version[t]
                    /\ seen[t].version = version[t] =>
                        Body(points[t]) \subseteq seen[t].points \cup behind[t] /\ Settles(seen[t].points, t, 0)'
                    /\ \A n \in DOMAIN feed' : CardOf(feed[n], t)' => Settles(feed[n].points, t, n)'
                    /\ \/ seen[t].version = version[t]
                       \/ \E n \in DOMAIN feed' : CardOf(feed[n], t)'
                       \/ \E q \in Requests : at'[q] = "written" /\ CardOf(Pending(q), t)'
  BY <1>3 DEF SeenInv, CardOf, Body, OfKind, Settles, Old, DeleteComes
<1>8. /\ seen[t].version <= version[t]
      /\ seen[t].version = version[t] => Body(points[t]) \subseteq seen[t].points \cup behind[t] /\ Settles(seen[t].points, t, 0)
      /\ \A n \in DOMAIN feed : CardOf(feed[n], t) => Settles(feed[n].points, t, n)
      /\ \/ seen[t].version = version[t]
         \/ \E n \in DOMAIN feed : CardOf(feed[n], t)
         \/ \E q \in Requests : at[q] = "written" /\ CardOf(Pending(q), t)
  BY DEF PlanInv, SeenInv
<1>9. Settles(seen[t].points, t, 0) => Settles(seen[t].points, t, 0)'
  <2>1. PICK s : s = seen[t].points
    OBVIOUS
  <2>2. s \subseteq Ids /\ seen'[t].points = s
    BY <1>0, <1>3, <2>1 DEF PlanTypes
  <2> QED
    BY <1>4, <1>6, <2>1, <2>2 DEF Settles
<1>10. \A n \in DOMAIN feed' : CardOf(feed[n], t)' => Settles(feed[n].points, t, n)'
  <2> SUFFICES ASSUME NEW n \in DOMAIN feed', CardOf(feed[n], t)'
               PROVE  Settles(feed[n].points, t, n)'
    OBVIOUS
  <2>1. CASE n \in DOMAIN feed
    <3>1. PICK g : g = feed[n]
      OBVIOUS
    <3>2. g \in Frames /\ feed'[n] = g /\ CardOf(g, t)
      BY <1>0, <1>3, <2>1, <3>1 DEF PlanTypes, CardOf
    <3>3. g.points \subseteq Ids /\ Settles(g.points, t, n)
      BY <1>8, <2>1, <3>1, <3>2 DEF CardOf, Frames, RowFrames, CardFrames
    <3>4. Settles(g.points, t, n)'
      BY <1>4, <1>6, <2>1, <3>3
    <3> QED
      BY <3>2, <3>4 DEF Settles, Old, DeleteComes
  <2>2. CASE n = N
    <3>1. feed'[n] = f /\ CardOf(f, t)
      BY <1>3, <2>2 DEF CardOf
    <3>2. Settles(f.points, t, n)'
      BY <1>7, <2>2, <3>1
    <3> QED
      BY <3>1, <3>2 DEF Settles, Old, DeleteComes
  <2> QED
    BY <1>4, <2>1, <2>2
<1>11. ASSUME seen[t].version # version[t]
       PROVE  \/ \E n \in DOMAIN feed' : CardOf(feed[n], t)'
              \/ \E q \in Requests : at'[q] = "written" /\ CardOf(Pending(q), t)'
  <2>1. ASSUME NEW n \in DOMAIN feed, CardOf(feed[n], t)
        PROVE  n \in DOMAIN feed' /\ CardOf(feed[n], t)'
    BY <1>3, <1>4, <2>1 DEF CardOf
  <2>2. ASSUME CardOf(f, t)
        PROVE  N \in DOMAIN feed' /\ CardOf(feed[N], t)'
    BY <1>3, <1>4, <2>2 DEF CardOf
  <2>3. ASSUME NEW q \in Requests, q # r, at[q] = "written", CardOf(Pending(q), t)
        PROVE  at'[q] = "written" /\ CardOf(Pending(q), t)'
    BY <1>3, <2>3 DEF CardOf
  <2> QED
    BY <1>1, <1>8, <1>11, <2>1, <2>2, <2>3
<1> QED
  BY <1>8, <1>9, <1>10, <1>11

\* A frame that is published keeps the invariant.
LEMMA PublishKeeps ==
  ASSUME PlanInv, NEW r \in Requests, Publish(r)
  PROVE  PlanInv'
<1>0. PlanTypes
  BY DEF PlanInv, Base
<1>1. PICK f : f = Pending(r)
  OBVIOUS
<1>2. /\ UNCHANGED <<row, points, version, writes, behind, held, seen>>
      /\ at[r] = "written" /\ f \in Frames /\ Told(f)
      /\ told' = IF f.type # "ticket" /\ f.nth > told[f.id] THEN [told EXCEPT ![f.id] = f.nth] ELSE told
      /\ crossed' = crossed \cup Overtaken(f)
      /\ DOMAIN feed = 1..Len(feed) /\ DOMAIN feed' = 1..(Len(feed) + 1) /\ Len(feed) \in Nat
      /\ feed' \in Seq(Frames) /\ feed'[Len(feed) + 1] = f
      /\ \A n \in DOMAIN feed : feed'[n] = feed[n]
      /\ at'[r] = "done" /\ op'[r] = NoOp /\ tx'[r] = NoTx
      /\ DOMAIN at' = Requests /\ DOMAIN op' = Requests /\ DOMAIN tx' = Requests
      /\ \A q \in Requests \ {r} : at'[q] = at[q] /\ op'[q] = op[q] /\ tx'[q] = tx[q] /\ Pending(q)' = Pending(q)
  BY <1>1, PublishIs
<1>3. PlanTypes'
  <2>1. told' \in [Ids -> Nat]
    <3>1. f.type # "ticket" => f.nth \in Nat /\ f.id \in Ids
      BY <1>2 DEF Frames, RowFrames, CardFrames
    <3> QED
      BY <1>0, <1>2, <3>1 DEF PlanTypes
  <2>2. crossed' \subseteq Ids
    <3>1. f.type = "ticket" => f.points \subseteq Ids
      BY <1>2 DEF Frames, RowFrames, CardFrames
    <3>2. f.type # "ticket" => f.id \in Ids
      BY <1>2 DEF Frames, RowFrames, CardFrames
    <3> QED
      BY <1>0, <1>2, <3>1, <3>2 DEF PlanTypes, Overtaken
  <2>3. OpOK(NoOp)
    BY DEF OpOK, NoOp
  <2>4. \A q \in Requests : /\ OpOK(op'[q])
                            /\ tx'[q] \in Txs
                            /\ at'[q] = "written" => Len(tx'[q].frame) = 1
                            /\ at'[q] = "pointed" => op'[q].kind \in {"point", "join", "leave"} /\ Len(tx'[q].frame) = 1
                            /\ at'[q] = "leaving" => op'[q].kind = "leave"
    BY <1>0, <1>2, <2>3, NoTxIs DEF PlanTypes
  <2> QED
    BY <1>0, <1>2, <2>1, <2>2, <2>4 DEF PlanTypes
<1>4. CreateInv'
  BY <1>2 DEF PlanInv, Base, CreateInv, NoOp
<1>5. NamesInv'
  BY <1>2, NamesStay DEF PlanInv, Base
<1>6. FramesInv'
  <2>1. \A g : Told(g) => Told(g)'
    BY <1>2 DEF Told, CardTold, RowTold, Covers, Body, OfKind
  <2>2. \A n \in DOMAIN feed' : n \in DOMAIN feed \/ n = Len(feed) + 1
    BY <1>2
  <2>3. \A n \in DOMAIN feed' : Told(feed'[n])
    BY <1>2, <2>2 DEF PlanInv, FramesInv
  <2>4. \A n \in DOMAIN feed' : Told(feed[n])'
    BY <1>2, <2>3 DEF Told, CardTold, RowTold, Covers, Body, OfKind
  <2>5. \A q \in Requests : at'[q] = "written" => Told(Pending(q))
    BY <1>2 DEF PlanInv, FramesInv
  <2>6. \A q \in Requests : at'[q] = "written" => Told(Pending(q))'
    BY <1>2, <2>5 DEF Told, CardTold, RowTold, Covers, Body, OfKind
  <2> QED
    BY <2>4, <2>6 DEF FramesInv
<1>7. PointedInv'
  <2> SUFFICES ASSUME NEW q \in Requests, at'[q] = "pointed"
               PROVE  /\ Pending(q)'.type = "ticket" /\ Pending(q)'.id = op'[q].card
                      /\ Pending(q)'.version = version'[op'[q].card] + 1
                      /\ Covers(Pending(q).points, Coming(q), tx[q].behind)'
                      /\ \A p \in Requests \ {q} : at'[p] = "pointed" => op'[p].card # op'[q].card
    BY DEF PointedInv
  <2>1. at[q] = "pointed" /\ q # r /\ UNCHANGED <<at[q], op[q], tx[q], points, version, row>>
    BY <1>2
  <2>2. Pending(q)' = Pending(q) /\ Coming(q)' = Coming(q)
    BY <2>1 DEF Pending, Coming
  <2>3. Covers(Pending(q).points, Coming(q), tx[q].behind)'
    BY <2>1, <2>2 DEF PlanInv, PointedInv, Covers
  <2> QED
    BY <1>2, <2>1, <2>2, <2>3 DEF PlanInv, PointedInv
<1> QED
  BY <1>3, <1>4, <1>5, <1>6, <1>7, PublishRowKeeps, PublishCardKeeps DEF PlanInv, Base

-----------------------------------------------------------------------------
(* The client takes the first frame of the queue.                          *)

\* The frames behind the first move up by one.
LEMMA ReceiveIs ==
  ASSUME PlanInv, Receive
  PROVE  /\ UNCHANGED <<row, points, version, writes, told, crossed, behind, at, op, tx>>
         /\ Len(feed) \in Nat /\ DOMAIN feed = 1..Len(feed) /\ DOMAIN feed' = 1..(Len(feed) - 1)
         /\ feed' \in Seq(Frames) /\ \A n \in DOMAIN feed' : feed'[n] = feed[n + 1]
         /\ 1 \in DOMAIN feed /\ feed[1] \in Frames /\ Told(feed[1])
         /\ IF feed[1].type = "ticket" THEN ApplyCard(feed[1]) ELSE ApplyResource(feed[1])
<1>1. /\ UNCHANGED <<row, points, version, writes, told, crossed, behind, at, op, tx>>
      /\ feed # <<>> /\ feed' = Tail(feed)
      /\ IF feed[1].type = "ticket" THEN ApplyCard(feed[1]) ELSE ApplyResource(feed[1])
  BY DEF Receive, stored
<1>2. feed \in Seq(Frames)
  BY DEF PlanInv, Base, PlanTypes
<1>3. /\ Len(feed) \in Nat /\ DOMAIN feed = 1..Len(feed) /\ DOMAIN feed' = 1..(Len(feed) - 1)
      /\ feed' \in Seq(Frames) /\ \A n \in DOMAIN feed' : feed'[n] = feed[n + 1]
      /\ 1 \in DOMAIN feed /\ feed[1] \in Frames
  BY <1>1, <1>2
<1>4. Told(feed[1])
  BY <1>3 DEF PlanInv, FramesInv
<1> QED
  BY <1>1, <1>3, <1>4

\* What the client holds is what the frame it took tells.
LEMMA ReceiveRowKeeps ==
  ASSUME PlanInv, Receive
  PROVE  HeldInv' /\ held' \in [Ids -> Resources]
<1>0. PlanTypes
  BY DEF PlanInv, Base
<1>1. PICK f : f = feed[1]
  OBVIOUS
<1>2. /\ UNCHANGED <<row, points, version, writes, told, crossed, behind, at, op, tx>>
      /\ Len(feed) \in Nat /\ DOMAIN feed = 1..Len(feed) /\ DOMAIN feed' = 1..(Len(feed) - 1)
      /\ \A n \in DOMAIN feed' : feed'[n] = feed[n + 1]
      /\ 1 \in DOMAIN feed /\ f \in Frames /\ Told(f)
      /\ IF f.type = "ticket" THEN ApplyCard(f) ELSE ApplyResource(f)
  BY <1>1, ReceiveIs
<1>3. f.type = "ticket" => held' = held
  BY <1>2 DEF ApplyCard
<1>4. f.type # "ticket" =>
        /\ f \in RowFrames /\ f.id \in Ids /\ f.row \in Resources /\ RowTold(f) /\ held' = [held EXCEPT ![f.id] = Effect(f)]
  BY <1>2 DEF Frames, RowFrames, CardFrames, Told, ApplyResource, Effect
<1>5. f.type # "ticket" => Effect(f) \in Resources
  <2> SUFFICES ASSUME f.type # "ticket"
               PROVE  Effect(f) \in Resources
    OBVIOUS
  <2>1. f.row \in Resources
    BY <1>4
  <2>2. PICK x : x = f.row
    OBVIOUS
  <2>3. [x EXCEPT !.is = "gone"] \in Resources
    BY <2>1, <2>2 DEF Resources
  <2> QED
    BY <2>1, <2>2, <2>3 DEF Effect
<1>6. held' \in [Ids -> Resources]
  BY <1>0, <1>3, <1>4, <1>5 DEF PlanTypes
<1>7. \A n \in DOMAIN feed : n = 1 \/ (n - 1 \in DOMAIN feed' /\ feed'[n - 1] = feed[n])
  BY <1>2
<1>8. \A n \in DOMAIN feed' : n + 1 \in DOMAIN feed /\ feed'[n] = feed[n + 1]
  BY <1>2
<1>9. HeldInv'
  <2> SUFFICES ASSUME NEW i \in Ids
               PROVE  /\ told[i] <= writes[i]
                      /\ held'[i].is # "unborn" => row[i].is # "unborn"
                      /\ told[i] = writes[i] => LastFits(i)'
                      /\ told[i] # writes[i] =>
                          \E q \in Requests : /\ at'[q] = "written" /\ Pending(q)'.type # "ticket"
                                              /\ Pending(q)'.id = i /\ Pending(q)'.nth = writes[i]
    BY <1>2 DEF HeldInv
  <2>1. /\ told[i] <= writes[i]
        /\ held[i].is # "unborn" => row[i].is # "unborn"
        /\ told[i] = writes[i] => LastFits(i)
        /\ told[i] # writes[i] =>
            \E q \in Requests : /\ at[q] = "written" /\ Pending(q).type # "ticket"
                                /\ Pending(q).id = i /\ Pending(q).nth = writes[i]
    BY DEF PlanInv, HeldInv
  <2>2. held'[i].is # "unborn" => row[i].is # "unborn"
    BY <1>0, <1>3, <1>4, <2>1 DEF PlanTypes, RowTold
  <2>3. told[i] # writes[i] =>
            \E q \in Requests : /\ at'[q] = "written" /\ Pending(q)'.type # "ticket"
                                /\ Pending(q)'.id = i /\ Pending(q)'.nth = writes[i]
    BY <1>2, <2>1 DEF Pending
  <2>4. ASSUME LastFits(i)
        PROVE  LastFits(i)'
    <3>1. ASSUME \A n \in DOMAIN feed' : ~About(n, i)'
          PROVE  Fits(held[i], i)'
      <4>1. \A m \in DOMAIN feed : m > 1 => ~About(m, i)
        BY <1>2, <1>7, <3>1 DEF About
      <4>2. CASE About(1, i)
        <5>1. Fits(Effect(f), i)
          BY <1>1, <1>2, <2>4, <4>1, <4>2 DEF LastFits
        <5>2. held'[i] = Effect(f)
          BY <1>0, <1>1, <1>4, <4>2 DEF About, PlanTypes
        <5> QED
          BY <1>2, <5>1, <5>2 DEF Fits, Agrees
      <4>3. CASE ~About(1, i)
        <5>1. Fits(held[i], i)
          BY <1>2, <2>4, <4>1, <4>3 DEF LastFits
        <5>2. held'[i] = held[i]
          BY <1>0, <1>1, <1>3, <1>4, <4>3 DEF About, PlanTypes
        <5> QED
          BY <1>2, <5>1, <5>2 DEF Fits, Agrees
      <4> QED
        BY <4>2, <4>3
    <3>2. ASSUME NEW n \in DOMAIN feed', About(n, i)', \A m \in DOMAIN feed' : m > n => ~About(m, i)'
          PROVE  Fits(Effect(feed[n]), i)'
      <4>1. n + 1 \in DOMAIN feed /\ feed'[n] = feed[n + 1] /\ About(n + 1, i)
        BY <1>8, <3>2 DEF About
      <4>2. ASSUME NEW m \in DOMAIN feed, m > n + 1
            PROVE  ~About(m, i)
        <5>1. m - 1 \in DOMAIN feed' /\ feed'[m - 1] = feed[m] /\ m - 1 > n
          BY <1>2, <1>7, <4>2
        <5> QED
          BY <3>2, <5>1 DEF About
      <4>3. Fits(Effect(feed[n + 1]), i)
        BY <2>4, <4>1, <4>2 DEF LastFits
      <4> QED
        BY <1>2, <4>1, <4>3 DEF Fits, Agrees, Effect
    <3> QED
      BY <3>1, <3>2 DEF LastFits
  <2> QED
    BY <2>1, <2>2, <2>3, <2>4
<1> QED
  BY <1>6, <1>9

\* What the client drops from its tickets was gone, and what is still to be
\* dropped comes in one of the frames behind.
LEMMA ReceiveCardKeeps ==
  ASSUME PlanInv, Receive
  PROVE  SeenInv' /\ seen' \in [Cards -> [version : Nat, points : SUBSET Ids]]
<1>0. PlanTypes
  BY DEF PlanInv, Base
<1>1. PICK f : f = feed[1]
  OBVIOUS
<1>2. /\ UNCHANGED <<row, points, version, writes, told, crossed, behind, at, op, tx>>
      /\ Len(feed) \in Nat /\ DOMAIN feed = 1..Len(feed) /\ DOMAIN feed' = 1..(Len(feed) - 1)
      /\ \A n \in DOMAIN feed' : feed'[n] = feed[n + 1]
      /\ 1 \in DOMAIN feed /\ f \in Frames /\ Told(f)
      /\ IF f.type = "ticket" THEN ApplyCard(f) ELSE ApplyResource(f)
  BY <1>1, ReceiveIs
<1>3. \A n \in DOMAIN feed : n = 1 \/ (n - 1 \in DOMAIN feed' /\ feed'[n - 1] = feed[n])
  BY <1>2
<1>4. \A n \in DOMAIN feed' : n + 1 \in DOMAIN feed /\ feed'[n] = feed[n + 1] /\ n \in Nat
  BY <1>2
<1>5. f.type = "ticket" => f \in CardFrames /\ f.id \in Cards /\ f.version \in Nat /\ f.points \subseteq Ids /\ CardTold(f)
  BY <1>2 DEF Frames, RowFrames, CardFrames, Told
<1>6. f.type # "ticket" => f \in RowFrames /\ f.id \in Ids /\ RowTold(f)
  BY <1>2 DEF Frames, RowFrames, CardFrames, Told
<1>7. ASSUME NEW i \in Ids, NEW n \in Nat, DeleteComes(i, n + 1)
      PROVE  DeleteComes(i, n)'
  <2>1. row'[i].is = "gone" /\ told'[i] = told[i] /\ writes'[i] = writes[i]
    BY <1>2, <1>7 DEF DeleteComes
  <2>2. ASSUME NEW m \in DOMAIN feed, m > n + 1, feed[m].type = "deleted", feed[m].id = i
        PROVE  DeleteComes(i, n)'
    <3>1. m - 1 \in DOMAIN feed' /\ feed'[m - 1] = feed[m] /\ m - 1 > n
      BY <1>2, <1>3, <2>2
    <3> QED
      BY <2>1, <2>2, <3>1 DEF DeleteComes
  <2> QED
    BY <1>7, <2>1, <2>2 DEF DeleteComes
<1>8. ASSUME NEW s, s \subseteq Ids, NEW t \in Cards, NEW n \in Nat, Settles(s, t, n + 1)
      PROVE  Settles(s, t, n)'
  <2> SUFFICES ASSUME NEW i \in s, i \notin Body(points[t])
               PROVE  i \in crossed \/ DeleteComes(i, n)' \/ Old(t, i)'
    BY <1>2 DEF Settles, Old, Body, OfKind
  <2> QED
    BY <1>2, <1>7, <1>8 DEF Settles, Old
<1>9. ASSUME NEW i \in Ids, DeleteComes(i, 0), f.type = "deleted" => f.id # i
      PROVE  DeleteComes(i, 0)'
  <2>1. row'[i].is = "gone" /\ told'[i] = told[i] /\ writes'[i] = writes[i]
    BY <1>2, <1>9 DEF DeleteComes
  <2>2. ASSUME NEW m \in DOMAIN feed, m > 0, feed[m].type = "deleted", feed[m].id = i
        PROVE  DeleteComes(i, 0)'
    <3>1. m - 1 \in DOMAIN feed' /\ feed'[m - 1] = feed[m] /\ m - 1 > 0
      BY <1>1, <1>2, <1>3, <1>9, <2>2
    <3> QED
      BY <2>1, <2>2, <3>1 DEF DeleteComes
  <2> QED
    BY <1>9, <2>1, <2>2 DEF DeleteComes
<1>10. ASSUME NEW t \in Cards
       PROVE  /\ seen'[t] \in [version : Nat, points : SUBSET Ids]
              /\ \/ /\ f.type = "ticket" /\ f.id = t /\ f.version > seen[t].version
                    /\ seen'[t].version = f.version /\ seen'[t].points = f.points
                 \/ /\ f.type = "deleted" /\ seen'[t].version = seen[t].version
                    /\ seen'[t].points = seen[t].points \ {f.id}
                 \/ /\ f.type # "deleted" /\ seen'[t] = seen[t]
                    /\ ~(f.type = "ticket" /\ f.id = t /\ f.version > seen[t].version)
  <2>1. PICK x : x = seen[t]
    OBVIOUS
  <2>2. x \in [version : Nat, points : SUBSET Ids]
    BY <1>0, <2>1 DEF PlanTypes
  <2>3. CASE f.type = "ticket" /\ f.id = t /\ f.version > x.version
    <3>1. seen'[t] = [version |-> f.version, points |-> f.points]
      BY <1>0, <1>2, <2>1, <2>3 DEF ApplyCard, PlanTypes
    <3> QED
      BY <1>5, <2>1, <2>3, <3>1
  <2>4. CASE f.type = "ticket" /\ ~(f.id = t /\ f.version > x.version)
    <3>1. seen'[t] = x
      BY <1>0, <1>2, <2>1, <2>4 DEF ApplyCard, PlanTypes
    <3> QED
      BY <2>1, <2>2, <2>4, <3>1
  <2>5. CASE f.type = "deleted"
    <3>1. seen'[t] = [x EXCEPT !.points = @ \ {f.id}]
      BY <1>2, <2>1, <2>5 DEF ApplyResource, Dropped
    <3> QED
      BY <2>1, <2>2, <2>5, <3>1
  <2>6. CASE f.type \notin {"ticket", "deleted"}
    <3>1. seen'[t] = x
      BY <1>2, <2>1, <2>6 DEF ApplyResource
    <3> QED
      BY <2>1, <2>2, <2>6, <3>1
  <2> QED
    BY <2>3, <2>4, <2>5, <2>6
<1>11. seen' \in [Cards -> [version : Nat, points : SUBSET Ids]]
  <2>1. seen' = [t \in Cards |-> seen'[t]]
    BY <1>0, <1>2 DEF PlanTypes, ApplyCard, ApplyResource
  <2> QED
    BY <1>10, <2>1
<1>12. SeenInv'
  <2> SUFFICES ASSUME NEW t \in Cards
               PROVE  /\ seen'[t].version <= version[t]
                      /\ seen'[t].version = version[t] =>
                          Body(points[t]) \subseteq seen'[t].points \cup behind[t] /\ Settles(seen[t].points, t, 0)'
                      /\ \A n \in DOMAIN feed' : CardOf(feed[n], t)' => Settles(feed[n].points, t, n)'
                      /\ \/ seen'[t].version = version[t]
                         \/ \E n \in DOMAIN feed' : CardOf(feed[n], t)'
                         \/ \E q \in Requests : at'[q] = "written" /\ CardOf(Pending(q), t)'
    BY <1>2 DEF SeenInv, CardOf, Body, OfKind, Settles, Old, DeleteComes
  <2>1. /\ seen[t].version <= version[t]
        /\ seen[t].version = version[t] => Body(points[t]) \subseteq seen[t].points \cup behind[t] /\ Settles(seen[t].points, t, 0)
        /\ \A n \in DOMAIN feed : CardOf(feed[n], t) => Settles(feed[n].points, t, n)
        /\ \/ seen[t].version = version[t]
           \/ \E n \in DOMAIN feed : CardOf(feed[n], t)
           \/ \E q \in Requests : at[q] = "written" /\ CardOf(Pending(q), t)
    BY DEF PlanInv, SeenInv
  <2>2. seen[t].version \in Nat /\ version[t] \in Nat /\ seen[t].points \subseteq Ids
    BY <1>0 DEF PlanTypes
  <2>3. \A n \in DOMAIN feed' : CardOf(feed[n], t)' => Settles(feed[n].points, t, n)'
    <3> SUFFICES ASSUME NEW n \in DOMAIN feed', CardOf(feed[n], t)'
                 PROVE  Settles(feed[n].points, t, n)'
      OBVIOUS
    <3>1. PICK g : g = feed'[n]
      OBVIOUS
    <3>2. g = feed[n + 1] /\ n + 1 \in DOMAIN feed /\ n \in Nat /\ CardOf(g, t)
      BY <1>2, <1>4, <3>1 DEF CardOf
    <3>3. g \in Frames
      BY <1>0, <3>2 DEF PlanTypes
    <3>4. g.points \subseteq Ids /\ Settles(g.points, t, n + 1)
      BY <2>1, <3>2, <3>3 DEF CardOf, Frames, RowFrames, CardFrames
    <3>5. Settles(g.points, t, n)'
      BY <1>8, <3>2, <3>4
    <3> QED
      BY <3>1, <3>5 DEF Settles, Old, DeleteComes
  <2>4. ASSUME seen'[t].version # version[t]
        PROVE  \/ \E n \in DOMAIN feed' : CardOf(feed[n], t)'
               \/ \E q \in Requests : at'[q] = "written" /\ CardOf(Pending(q), t)'
    <3>1. seen[t].version # version[t]
      BY <1>5, <1>10, <2>1, <2>2, <2>4 DEF CardTold
    <3>2. ASSUME NEW n \in DOMAIN feed, CardOf(feed[n], t)
          PROVE  \E m \in DOMAIN feed' : CardOf(feed[m], t)'
      <4>1. CASE n = 1
        <5>1. f.type = "ticket" /\ f.id = t /\ f.version = version[t]
          BY <1>1, <3>2, <4>1 DEF CardOf
        <5>2. f.version > seen[t].version
          BY <2>1, <2>2, <3>1, <5>1
        <5>3. seen'[t].version = f.version
          BY <1>10, <5>1, <5>2
        <5> QED
          BY <2>4, <5>1, <5>3
      <4>2. CASE n # 1
        <5>1. n - 1 \in DOMAIN feed' /\ feed'[n - 1] = feed[n]
          BY <1>3, <3>2, <4>2
        <5> QED
          BY <1>2, <3>2, <5>1 DEF CardOf
      <4> QED
        BY <4>1, <4>2
    <3>3. ASSUME NEW q \in Requests, at[q] = "written", CardOf(Pending(q), t)
          PROVE  at'[q] = "written" /\ CardOf(Pending(q), t)'
      BY <1>2, <3>3 DEF CardOf, Pending
    <3> QED
      BY <2>1, <3>1, <3>2, <3>3
  <2>5. CASE f.type = "ticket" /\ f.id = t /\ f.version > seen[t].version
    <3>1. seen'[t].version = f.version /\ seen'[t].points = f.points /\ f.version <= version[t]
      BY <1>5, <1>10, <2>5 DEF CardTold
    <3>2. ASSUME f.version = version[t]
          PROVE  Body(points[t]) \subseteq f.points \cup behind[t] /\ Settles(f.points, t, 0)'
      <4>1. Covers(f.points, points[t], behind[t]) /\ CardOf(f, t)
        BY <1>5, <2>5, <3>2 DEF CardTold, CardOf
      <4>2. Settles(f.points, t, 1)
        BY <1>1, <1>2, <2>1, <4>1
      <4>3. Settles(f.points, t, 0)'
        BY <1>5, <1>8, <2>5, <4>2
      <4> QED
        BY <4>1, <4>3 DEF Covers
    <3>3. Settles(f.points, t, 0)' => Settles(seen[t].points, t, 0)'
      BY <3>1 DEF Settles, Old, DeleteComes
    <3> QED
      BY <2>3, <2>4, <3>1, <3>2, <3>3
  <2>6. CASE ~(f.type = "ticket" /\ f.id = t /\ f.version > seen[t].version)
    <3>1. seen'[t].version = seen[t].version
      BY <1>10, <2>6
    <3>2. seen'[t].points = IF f.type = "deleted" THEN seen[t].points \ {f.id} ELSE seen[t].points
      BY <1>10, <2>6
    <3>3. ASSUME f.type = "deleted"
          PROVE  f.id \notin points[t]
      <4>1. row[f.id].is = "gone"
        BY <1>6, <3>3 DEF RowTold
      <4> QED
        BY <4>1 DEF PlanInv, Base, NamesInv
    <3>4. ASSUME seen[t].version = version[t]
          PROVE  Body(points[t]) \subseteq seen'[t].points \cup behind[t] /\ Settles(seen[t].points, t, 0)'
      <4>1. Body(points[t]) \subseteq seen[t].points \cup behind[t] /\ Settles(seen[t].points, t, 0)
        BY <2>1, <3>4
      <4>2. Body(points[t]) \subseteq seen'[t].points \cup behind[t]
        BY <3>2, <3>3, <4>1 DEF Body
      <4>3. ASSUME NEW i \in seen'[t].points, i \notin Body(points[t])
            PROVE  i \in crossed \/ DeleteComes(i, 0)' \/ Old(t, i)'
        BY <1>2, <1>9, <2>2, <3>2, <4>1, <4>3 DEF Settles, Old
      <4> QED
        BY <1>2, <4>2, <4>3 DEF Settles, Old, Body, OfKind
    <3> QED
      BY <2>1, <2>3, <2>4, <3>1, <3>4
  <2> QED
    BY <2>5, <2>6
<1> QED
  BY <1>11, <1>12

\* The rest of the invariant says nothing of what the client holds.
LEMMA ReceiveKeeps ==
  ASSUME PlanInv, Receive
  PROVE  PlanInv'
<1>1. /\ UNCHANGED <<row, points, version, writes, told, crossed, behind, at, op, tx>>
      /\ Len(feed) \in Nat /\ DOMAIN feed = 1..Len(feed) /\ DOMAIN feed' = 1..(Len(feed) - 1)
      /\ feed' \in Seq(Frames) /\ \A n \in DOMAIN feed' : feed'[n] = feed[n + 1]
  BY ReceiveIs
<1>2. PlanTypes'
  BY <1>1, ReceiveRowKeeps, ReceiveCardKeeps DEF PlanInv, Base, PlanTypes
<1>3. CreateInv' /\ NamesInv'
  <2>1. CreateInv'
    BY <1>1 DEF PlanInv, Base, CreateInv
  <2>2. NamesInv'
    BY <1>1, NamesStay DEF PlanInv, Base
  <2> QED
    BY <2>1, <2>2
<1>4. FramesInv'
  <2>1. ASSUME NEW n \in DOMAIN feed'
        PROVE  Told(feed[n])'
    <3>1. n + 1 \in DOMAIN feed /\ feed'[n] = feed[n + 1]
      BY <1>1
    <3>2. Told(feed[n + 1])
      BY <3>1 DEF PlanInv, FramesInv
    <3> QED
      BY <1>1, <3>1, <3>2 DEF Told, CardTold, RowTold, Covers
  <2>2. \A q \in Requests : at'[q] = "written" => Told(Pending(q))'
    BY <1>1 DEF PlanInv, FramesInv, Told, CardTold, RowTold, Covers, Pending
  <2> QED
    BY <2>1, <2>2 DEF FramesInv
<1>5. PointedInv'
  BY <1>1 DEF PlanInv, PointedInv, Pending, Covers, Coming
<1> QED
  BY <1>2, <1>3, <1>4, <1>5, ReceiveRowKeeps, ReceiveCardKeeps DEF PlanInv, Base

-----------------------------------------------------------------------------
(* The client reads everything again.                                      *)

\* What is read again is what is stored; frames still queued are applied to it.
LEMMA RelistKeeps ==
  ASSUME PlanInv, Relist
  PROVE  PlanInv'
<1>0. PlanTypes
  BY DEF PlanInv, Base
<1>1. /\ UNCHANGED <<row, points, version, writes, feed, told, at, op, tx>>
      /\ seen' = [t \in Cards |-> [version |-> version[t], points |-> Body(points[t])]]
      /\ crossed' = IF Delivered THEN {} ELSE crossed
      /\ behind' = IF Delivered THEN [t \in Cards |-> {}] ELSE behind
  BY DEF Relist, stored
<1>2. held' = [i \in Ids |-> IF row[i].is = "there" THEN row[i]
                             ELSE IF held[i].is = "there" THEN [held[i] EXCEPT !.is = "gone"] ELSE held[i]]
  <2>1. \A i \in Ids : i \in ListEpics \cup ListSprints \cup ListMilestones \cup ListLabels <=> row[i].is = "there"
    BY PlanningAssumption DEF ListEpics, ListSprints, ListMilestones, ListLabels, OfKind, Kinds
  <2>2. held' = [i \in Ids |-> IF i \in ListEpics \cup ListSprints \cup ListMilestones \cup ListLabels THEN row[i]
                               ELSE IF held[i].is = "there" THEN [held[i] EXCEPT !.is = "gone"] ELSE held[i]]
    BY DEF Relist
  <2> HIDE DEF ListEpics, ListSprints, ListMilestones, ListLabels
  <2> QED
    BY <2>1, <2>2
<1>3. /\ \/ feed = <<>> /\ \A q \in Requests : at[q] \notin {"written", "pointed"}
         \/ crossed' = crossed /\ behind' = behind
      /\ crossed' \subseteq crossed /\ behind' \in [Cards -> SUBSET Ids]
  BY <1>0, <1>1 DEF Delivered, PlanTypes
<1>4. ASSUME NEW i \in Ids
      PROVE  /\ held'[i] \in Resources
             /\ row[i].is = "there" => held'[i] = row[i]
             /\ row[i].is # "there" => held'[i].is = IF held[i].is = "there" THEN "gone" ELSE held[i].is
  <2>1. PICK x : x = held[i]
    OBVIOUS
  <2>2. x \in Resources /\ row[i] \in Resources
    BY <1>0, <2>1 DEF PlanTypes
  <2>3. [x EXCEPT !.is = "gone"] \in Resources /\ [x EXCEPT !.is = "gone"].is = "gone"
    BY <2>2 DEF Resources
  <2>4. held'[i] = IF row[i].is = "there" THEN row[i] ELSE IF x.is = "there" THEN [x EXCEPT !.is = "gone"] ELSE x
    BY <1>2, <2>1
  <2> QED
    BY <2>1, <2>2, <2>3, <2>4
<1>5. \A t \in Cards : seen'[t].version = version[t] /\ seen'[t].points = Body(points[t])
  BY <1>1
<1>6. PlanTypes'
  <2>1. held' \in [Ids -> Resources]
    BY <1>2, <1>4
  <2>2. \A t \in Cards : Body(points[t]) \subseteq Ids
    BY <1>0 DEF PlanTypes, Body
  <2>3. seen' \in [Cards -> [version : Nat, points : SUBSET Ids]]
    BY <1>0, <1>1, <2>2 DEF PlanTypes
  <2>4. crossed' \subseteq Ids
    BY <1>0, <1>3 DEF PlanTypes
  <2> QED
    BY <1>0, <1>1, <1>3, <2>1, <2>3, <2>4 DEF PlanTypes
<1>7. CreateInv' /\ NamesInv'
  <2>1. CreateInv'
    BY <1>1 DEF PlanInv, Base, CreateInv
  <2>2. NamesInv'
    BY <1>1, NamesStay DEF PlanInv, Base
  <2> QED
    BY <2>1, <2>2
<1>8. FramesInv' /\ PointedInv'
  <2>1. FramesInv'
    <3>1. CASE feed = <<>> /\ \A q \in Requests : at[q] \notin {"written", "pointed"}
      BY <1>1, <3>1 DEF FramesInv
    <3>2. CASE behind' = behind
      BY <1>1, <3>2 DEF PlanInv, FramesInv, Told, CardTold, RowTold, Covers, Pending
    <3> QED
      BY <1>3, <3>1, <3>2
  <2>2. PointedInv'
    BY <1>1 DEF PlanInv, PointedInv, Covers, Pending, Coming
  <2> QED
    BY <2>1, <2>2
<1>9. HeldInv'
  <2> SUFFICES ASSUME NEW i \in Ids
               PROVE  /\ told[i] <= writes[i]
                      /\ held'[i].is # "unborn" => row[i].is # "unborn"
                      /\ told[i] = writes[i] => LastFits(i)'
                      /\ told[i] # writes[i] =>
                          \E q \in Requests : /\ at'[q] = "written" /\ Pending(q)'.type # "ticket"
                                              /\ Pending(q)'.id = i /\ Pending(q)'.nth = writes[i]
    BY <1>1 DEF HeldInv
  <2>1. /\ told[i] <= writes[i]
        /\ held[i].is # "unborn" => row[i].is # "unborn"
        /\ told[i] = writes[i] => LastFits(i)
        /\ told[i] # writes[i] =>
            \E q \in Requests : /\ at[q] = "written" /\ Pending(q).type # "ticket"
                                /\ Pending(q).id = i /\ Pending(q).nth = writes[i]
    BY DEF PlanInv, HeldInv
  <2>2. row[i] \in Resources /\ held[i] \in Resources
    BY <1>0 DEF PlanTypes
  <2>3. held'[i].is # "unborn" => row[i].is # "unborn"
    BY <1>4, <2>1
  <2>4. told[i] # writes[i] =>
            \E q \in Requests : /\ at'[q] = "written" /\ Pending(q)'.type # "ticket"
                                /\ Pending(q)'.id = i /\ Pending(q)'.nth = writes[i]
    BY <1>1, <2>1 DEF Pending
  <2>5. ASSUME LastFits(i)
        PROVE  LastFits(i)'
    <3>1. ASSUME \A n \in DOMAIN feed : ~About(n, i)
          PROVE  Fits(held[i], i)'
      <4>1. held[i].is = "unborn" => row[i].is = "unborn"
        BY <2>5, <3>1 DEF LastFits, Fits
      <4>2. row[i].is \in {"unborn", "there", "gone"} /\ held[i].is \in {"unborn", "there", "gone"}
        BY <2>2 DEF Resources
      <4>3. held'[i].is = row[i].is /\ (row[i].is = "there" => held'[i] = row[i])
        BY <1>4, <2>1, <4>1, <4>2
      <4> QED
        BY <1>1, <4>3 DEF Fits, Agrees
    <3>2. ASSUME NEW n \in DOMAIN feed, Fits(Effect(feed[n]), i)
          PROVE  Fits(Effect(feed[n]), i)'
      <4>1. crossed' = crossed
        BY <1>3, <3>2
      <4> QED
        BY <1>1, <3>2, <4>1 DEF Fits, Agrees, Effect
    <3>3. \A n \in DOMAIN feed : About(n, i)' <=> About(n, i)
      BY <1>1 DEF About
    <3>4. DOMAIN feed' = DOMAIN feed
      BY <1>1
    <3>5. (\A n \in DOMAIN feed' : ~About(n, i)') => Fits(held[i], i)'
      BY <3>1, <3>3, <3>4
    <3>6. ASSUME NEW n \in DOMAIN feed', About(n, i)', \A m \in DOMAIN feed' : m > n => ~About(m, i)'
          PROVE  Fits(Effect(feed[n]), i)'
      <4>1. Fits(Effect(feed[n]), i)
        BY <2>5, <3>3, <3>4, <3>6 DEF LastFits
      <4> QED
        BY <3>2, <3>4, <4>1
    <3> QED
      BY <3>5, <3>6 DEF LastFits
  <2> QED
    BY <2>1, <2>3, <2>4, <2>5
<1>10. SeenInv'
  <2> SUFFICES ASSUME NEW t \in Cards
               PROVE  /\ Settles(seen[t].points, t, 0)'
                      /\ \A n \in DOMAIN feed : CardOf(feed[n], t) => Settles(feed[n].points, t, n)'
    BY <1>0, <1>1, <1>5 DEF SeenInv, CardOf, Body, OfKind, Settles, Old, DeleteComes, PlanTypes
  <2>1. Settles(seen[t].points, t, 0)'
    BY <1>1, <1>5 DEF Settles, Old, Body, OfKind
  <2>2. ASSUME NEW n \in DOMAIN feed, CardOf(feed[n], t)
        PROVE  Settles(feed[n].points, t, n)'
    <3>1. Settles(feed[n].points, t, n)
      BY <2>2 DEF PlanInv, SeenInv
    <3>2. crossed' = crossed /\ behind' = behind
      BY <1>3, <2>2
    <3> QED
      BY <1>1, <3>1, <3>2 DEF Settles, Old, DeleteComes, Body, OfKind
  <2> QED
    BY <2>1, <2>2
<1> QED
  BY <1>6, <1>7, <1>8, <1>9, <1>10 DEF PlanInv, Base

-----------------------------------------------------------------------------
(* The client follows.                                                     *)

\* Every step keeps the invariant.
LEMMA PlanStep == PlanInv /\ OpsInv /\ [Next]_vars => PlanInv'
<1> SUFFICES ASSUME PlanInv, OpsInv, [Next]_vars
             PROVE  PlanInv'
  OBVIOUS
<1>0. Base /\ PlanTypes
  BY DEF PlanInv, Base
<1>1. ASSUME NEW r \in Requests, PlanningStep(r)
      PROVE  PlanInv'
  <2>1. CASE AskPlan(r) \/ AskPoint(r) \/ AskSetting(r)
    BY <1>0, <2>1, AskPlanElsewhere, AskPointElsewhere, ElsewhereKeeps
  <2>2. CASE \/ CreateRefused(r) \/ UpdateRefused(r) \/ DeleteRefused(r) \/ PointRefused(r) \/ LeaveRefused(r)
             \/ SettingRefused(r) \/ Deadlock(r) \/ Set(r) \/ Unset(r) \/ LockToDelete(r) \/ Leave(r)
    BY <1>0, <2>2, AsideElsewhere, LeaveElsewhere, ElsewhereKeeps
  <2>3. ASSUME NEW k, Insert(r, k) \/ Rewrite(r, k) \/ Erase(r, k)
        PROVE  PlanInv'
    BY <1>0, <2>3, InsertIs, RewriteIs, EraseIs, RowWriteKeeps
  <2>4. CASE CreateEpic(r) \/ CreateSprint(r) \/ CreateMilestone(r) \/ CreateLabel(r)
    BY <2>3, <2>4 DEF CreateEpic, CreateSprint, CreateMilestone, CreateLabel
  <2>5. CASE UpdateEpic(r) \/ UpdateSprint(r) \/ UpdateMilestone(r) \/ UpdateLabel(r)
    BY <2>3, <2>5 DEF UpdateEpic, UpdateSprint, UpdateMilestone, UpdateLabel
  <2>6. CASE DeleteEpic(r) \/ DeleteSprint(r) \/ DeleteMilestone(r) \/ DeleteLabel(r)
    BY <2>3, <2>6 DEF DeleteEpic, DeleteSprint, DeleteMilestone, DeleteLabel
  <2>7. CASE Point(r) \/ Bump(r) \/ CommitPoint(r) \/ Publish(r)
    BY <2>7, PointKeeps, BumpKeeps, CommitPointKeeps, PublishKeeps
  <2> QED
    BY <1>1, <2>1, <2>2, <2>4, <2>5, <2>6, <2>7 DEF PlanningStep
<1>2. ASSUME NEW r \in Requests, AspectStep(r)
      PROVE  PlanInv'
  BY <1>0, <1>2, AspectsElsewhere, ElsewhereKeeps
<1>3. CASE Receive \/ Relist
  BY <1>3, ReceiveKeeps, RelistKeeps
<1>4. CASE UNCHANGED vars
  <2>1. UNCHANGED <<row, points, version, writes, feed, told, crossed, behind, held, seen, at, op, tx>>
    BY <1>4 DEF vars, planning
  <2>2. Base'
    <3>1. PlanTypes' /\ CreateInv'
      BY <1>0, <2>1 DEF Base, PlanTypes, CreateInv
    <3> QED
      BY <1>0, <2>1, <3>1, NamesStay DEF Base
  <2>3. FramesInv' /\ PointedInv'
    <3>1. FramesInv'
      BY <2>1 DEF PlanInv, FramesInv, Told, CardTold, RowTold, Covers, Pending
    <3>2. PointedInv'
      BY <2>1 DEF PlanInv, PointedInv, Covers, Pending, Coming
    <3> QED
      BY <3>1, <3>2
  <2>4. HeldInv'
    BY <2>1 DEF PlanInv, HeldInv, LastFits, Fits, About, Pending
  <2>5. SeenInv'
    BY <2>1 DEF PlanInv, SeenInv, Settles, Old, DeleteComes, CardOf, Pending
  <2> QED
    BY <2>2, <2>3, <2>4, <2>5 DEF PlanInv
<1> QED
  BY <1>1, <1>2, <1>3, <1>4 DEF Next

\* When nothing is on its way, what was to come has come.
LEMMA NothingIsLeft ==
  ASSUME PlanInv
  PROVE  ClientFollowsPlan
<1> SUFFICES ASSUME Delivered
             PROVE  /\ \A i \in Ids \ crossed : held[i].is = row[i].is /\ (row[i].is = "there" => held[i] = row[i])
                    /\ \A t \in Cards :
                        /\ seen[t].points \ (crossed \cup behind[t]) = Body(points[t]) \ (crossed \cup behind[t])
                        /\ \A i \in seen[t].points \ crossed : row[i].is = "there"
  BY DEF ClientFollowsPlan
<1>1. DOMAIN feed = {} /\ \A r \in Requests : at[r] # "written"
  BY DEF Delivered
<1>2. \A i \in Ids : told[i] = writes[i]
  BY <1>1 DEF PlanInv, HeldInv
<1>3. ASSUME NEW i \in Ids, i \notin crossed
      PROVE  held[i].is = row[i].is /\ (row[i].is = "there" => held[i] = row[i])
  <2>1. Fits(held[i], i)
    BY <1>1, <1>2 DEF PlanInv, HeldInv, LastFits
  <2> QED
    BY <1>3, <2>1 DEF Fits, Agrees
<1>4. ASSUME NEW t \in Cards
      PROVE  /\ seen[t].points \ (crossed \cup behind[t]) = Body(points[t]) \ (crossed \cup behind[t])
             /\ \A i \in seen[t].points \ crossed : row[i].is = "there"
  <2>1. seen[t].version = version[t]
    BY <1>1 DEF PlanInv, SeenInv
  <2>2. Body(points[t]) \subseteq seen[t].points \cup behind[t] /\ Settles(seen[t].points, t, 0) /\ seen[t].points \subseteq Ids
    BY <2>1 DEF PlanInv, SeenInv, Base, PlanTypes
  <2>3. \A i \in seen[t].points \ Body(points[t]) : i \in crossed \/ Old(t, i)
    BY <1>1, <1>2, <2>2 DEF Settles, DeleteComes
  <2>4. \A i \in Body(points[t]) : row[i].is = "there"
    BY DEF PlanInv, Base, NamesInv, Body
  <2> QED
    BY <2>2, <2>3, <2>4 DEF Old
<1> QED
  BY <1>3, <1>4

\* A client that has been sent every frame holds the plan as it is stored, but
\* for what a frame of older data was published about and for the labels that
\* changed while a leave waited for their ticket; beyond the former, none of its
\* tickets names what is gone.  So it is whatever the order in which the writes
\* were committed and published.
THEOREM ClientHasThePlan == Spec => []ClientFollowsPlan
<1>1. Init => PlanInv /\ ImportInv
  BY PlanStarts, ImportInit
<1>2. PlanInv /\ ImportInv /\ [Next]_vars => PlanInv' /\ ImportInv'
  BY PlanStep, ImportStep DEF ImportInv
<1>3. PlanInv => ClientFollowsPlan
  BY NothingIsLeft
<1> QED
  BY <1>1, <1>2, <1>3, PTL DEF Spec

-----------------------------------------------------------------------------
(* Orders: what is known of the fields and of the reorders under way.      *)

Stages == {"checked", "reordered"}

\* The list has each of the fields once.
Lists(order, s) ==
    /\ order \in Seq(Fields) /\ {order[n] : n \in DOMAIN order} = s
    /\ \A m, n \in DOMAIN order : order[m] = order[n] => m = n

FieldInv ==
    /\ DOMAIN field = Fields
    /\ \A f \in Fields : DOMAIN field[f] = {"of", "position"}

\* The fields an order was set for exist or existed, and those the type still has
\* are at their places in the list.
StoodInv ==
    \A y \in Types :
        /\ Lists(stood[y].order, stood[y].of)
        /\ \A f \in stood[y].of : field[f] # NoField
        /\ \A n \in DOMAIN stood[y].order :
            field[stood[y].order[n]].of = y => field[stood[y].order[n]].position = n

\* A reorder names a type and a list; once it is checked, the list has the
\* fields of the type at that moment, each of them once.
ReordersInv ==
    \A r \in Requests :
        /\ op[r].kind = "reorder" =>
            /\ op[r].type \in Types /\ op[r].order \in Seq(Fields)
            /\ at[r] = "asked" => DOMAIN op[r] = {"kind", "type", "order", "by"}
        /\ at[r] \in Stages =>
            /\ op[r].kind = "reorder" /\ Lists(op[r].order, op[r].of)
            /\ \A f \in op[r].of : field[f] # NoField

OrderInv == FieldInv /\ DOMAIN stood = Types /\ StoodInv /\ ReordersInv

\* A step that sets no order: fields stay, are used for the first time, or are removed.
Orderly(r) ==
    /\ UNCHANGED stood
    /\ DOMAIN field' = Fields
    /\ \A f \in Fields : \/ field'[f] \in {field[f], Removed}
                         \/ field[f] = NoField /\ DOMAIN field'[f] = {"of", "position"}
    /\ DOMAIN at' = Requests /\ DOMAIN op' = Requests
    /\ \A q \in Requests \ {r} : at'[q] = at[q] /\ op'[q] = op[q]
    /\ at'[r] \notin Stages
    /\ op'[r].kind = "reorder" => op'[r] = op[r] /\ at'[r] # "asked"

\* A function on a range of integers from 1 is a sequence.
LEMMA SeqIs ==
  ASSUME NEW k \in Int, NEW S, NEW f \in [1 .. k -> S]
  PROVE  f \in Seq(S)
<1>1. CASE k \in Nat
  BY <1>1
<1>2. CASE k < 0
  <2>1. 1 .. k = 1 .. 0
    BY <1>2
  <2>2. f \in [1 .. 0 -> S]
    BY <2>1
  <2> QED
    BY <2>2
<1> QED
  BY <1>1, <1>2

\* Such a step leaves every order that was set or is under way.
LEMMA OrderlyKeeps ==
  ASSUME OrderInv, NEW r \in Requests, Orderly(r)
  PROVE  OrderInv'
<1>1. /\ UNCHANGED stood /\ DOMAIN field' = Fields
      /\ \A f \in Fields : \/ field'[f] \in {field[f], Removed}
                           \/ field[f] = NoField /\ DOMAIN field'[f] = {"of", "position"}
      /\ \A q \in Requests \ {r} : at'[q] = at[q] /\ op'[q] = op[q]
      /\ at'[r] \notin Stages
      /\ op'[r].kind = "reorder" => op'[r] = op[r] /\ at'[r] # "asked"
  BY DEF Orderly
<1>2. Removed # NoField /\ DOMAIN Removed = {"of", "position"} /\ Removed.of \notin Types
  BY AspectsAssumption DEF Removed, NoField
<1> HIDE DEF Removed, NoField
<1>3. FieldInv'
  BY <1>1, <1>2 DEF OrderInv, FieldInv
<1>4. \A f \in Fields : field[f] # NoField =>
          /\ field'[f] # NoField
          /\ \A y \in Types : field'[f].of = y => field'[f] = field[f]
  BY <1>1, <1>2
<1>5. StoodInv'
  <2> SUFFICES ASSUME NEW y \in Types
               PROVE  /\ Lists(stood[y].order, stood[y].of)
                      /\ \A f \in stood[y].of : field'[f] # NoField
                      /\ \A n \in DOMAIN stood[y].order :
                          field'[stood[y].order[n]].of = y => field'[stood[y].order[n]].position = n
    BY <1>1 DEF StoodInv, Lists
  <2>1. /\ Lists(stood[y].order, stood[y].of)
        /\ \A f \in stood[y].of : field[f] # NoField
        /\ \A n \in DOMAIN stood[y].order :
            field[stood[y].order[n]].of = y => field[stood[y].order[n]].position = n
    BY DEF OrderInv, StoodInv
  <2>2. \A n \in DOMAIN stood[y].order : stood[y].order[n] \in Fields /\ stood[y].order[n] \in stood[y].of
    BY <2>1 DEF Lists
  <2>3. stood[y].of \subseteq Fields
    BY <2>1 DEF Lists
  <2> QED
    BY <1>4, <2>1, <2>2, <2>3
<1>6. ReordersInv'
  <2> SUFFICES ASSUME NEW q \in Requests
               PROVE  /\ op'[q].kind = "reorder" =>
                          /\ op'[q].type \in Types /\ op'[q].order \in Seq(Fields)
                          /\ at'[q] = "asked" => DOMAIN op'[q] = {"kind", "type", "order", "by"}
                      /\ at'[q] \in Stages =>
                          /\ op'[q].kind = "reorder" /\ Lists(op'[q].order, op'[q].of)
                          /\ \A f \in op'[q].of : field'[f] # NoField
    BY DEF ReordersInv, Lists
  <2>1. at[q] \in Stages => op[q].of \subseteq Fields
    BY DEF OrderInv, ReordersInv, Lists
  <2> QED
    BY <1>1, <1>4, <2>1 DEF OrderInv, ReordersInv
<1> QED
  BY <1>1, <1>3, <1>5, <1>6 DEF OrderInv

\* A list as long as the set, with every member of the set, repeats none.
LEMMA SameSetLists ==
  ASSUME NEW s, s \subseteq Fields, NEW order \in Seq(Fields), sameSet(s, order)
  PROVE  Lists(order, s)
<1>1. Len(order) \in Nat /\ DOMAIN order = 1 .. Len(order)
  OBVIOUS
<1>2. Cardinality(s) = Len(order) /\ {order[n] : n \in 1 .. Len(order)} = s
  BY DEF sameSet
<1>3. order \in Surjection(1 .. Len(order), s)
  BY <1>1, <1>2 DEF Surjection
<1>4. IsFiniteSet(1 .. Len(order)) /\ Cardinality(1 .. Len(order)) = Len(order)
  BY <1>1, FS_Interval
<1>5. order \in Injection(1 .. Len(order), s)
  BY <1>2, <1>3, <1>4, FS_Surjection
<1> QED
  BY <1>1, <1>2, <1>5 DEF Lists, Injection, IsInjective

-----------------------------------------------------------------------------
(* Orders: the steps that set none.                                        *)

\* A request that ends, and removes fields or uses new ones.
LEMMA EndOrderly ==
  ASSUME OrderInv, OpsInv, NEW r \in Requests, End(r), UNCHANGED stood, DOMAIN field' = Fields,
         \A f \in Fields : \/ field'[f] \in {field[f], Removed}
                           \/ field[f] = NoField /\ DOMAIN field'[f] = {"of", "position"}
  PROVE  Orderly(r)
<1>1. /\ at'[r] = "done" /\ op'[r].kind = "none" /\ DOMAIN at' = Requests /\ DOMAIN op' = Requests
      /\ \A q \in Requests \ {r} : at'[q] = at[q] /\ op'[q] = op[q]
  BY EndIs DEF End, OpsInv
<1> HIDE DEF Removed, NoField
<1> QED
  BY <1>1 DEF Orderly, Stages

\* What is asked for, when no kind of it is a reorder.
LEMMA AskOrderly ==
  ASSUME OrderInv, OpsInv, NEW r \in Requests, NEW ops, Asks(r, ops), UNCHANGED <<field, stood>>,
         \A o \in ops : "kind" \in DOMAIN o /\ o.kind # "reorder"
  PROVE  Orderly(r)
<1>1. PICK o \in ops : DOMAIN op'[r] = DOMAIN o \cup {"by"} /\ \A x \in DOMAIN o : op'[r][x] = o[x]
  BY AskIs
<1>2. op'[r].kind # "reorder"
  BY <1>1
<1>3. /\ at'[r] = "asked" /\ DOMAIN at' = Requests /\ DOMAIN op' = Requests
      /\ \A q \in Requests \ {r} : at'[q] = at[q] /\ op'[q] = op[q]
  BY AskIs
<1> QED
  BY <1>2, <1>3 DEF Orderly, OrderInv, FieldInv, Stages

\* A stage that is no stage of a reorder.
LEMMA StageOrderly ==
  ASSUME OrderInv, OpsInv, NEW r \in Requests, NEW to, to \notin Stages \cup {"asked"},
         at' = [at EXCEPT ![r] = to], UNCHANGED <<field, stood>>,
         \/ op' = op
         \/ DOMAIN op' = Requests /\ op'[r].kind # "reorder" /\ \A q \in Requests \ {r} : op'[q] = op[q]
  PROVE  Orderly(r)
  BY DEF Orderly, OrderInv, FieldInv, OpsInv

\* The plan and the settings have nothing to do with orders.
LEMMA PlanOrderly ==
  ASSUME OrderInv, OpsInv, NEW r \in Requests, PlanningStep(r), UNCHANGED aspects
  PROVE  Orderly(r)
<1>1. UNCHANGED <<field, stood>>
  BY DEF aspects
<1>2. CASE AskPlan(r)
  <2> DEFINE ops == EpicRequests \cup SprintRequests \cup MilestoneRequests \cup LabelRequests
  <2>1. Asks(r, ops)
    BY <1>2 DEF AskPlan
  <2>2. \A o \in ops : "kind" \in DOMAIN o /\ o.kind # "reorder"
    BY DEF EpicRequests, SprintRequests, MilestoneRequests, LabelRequests, Writes
  <2> HIDE DEF ops
  <2> QED
    BY <1>1, <2>1, <2>2, AskOrderly
<1>3. CASE AskPoint(r)
  <2> DEFINE ops == References \cup AddRequests \cup RemoveRequests
  <2>1. Asks(r, ops)
    BY <1>3 DEF AskPoint
  <2>2. \A o \in ops : "kind" \in DOMAIN o /\ o.kind # "reorder"
    BY DEF References, AddRequests, RemoveRequests
  <2> HIDE DEF ops
  <2> QED
    BY <1>1, <2>1, <2>2, AskOrderly
<1>4. CASE AskSetting(r)
  <2> DEFINE ops == [kind : {"set"}, on : Scopes, key : DOMAIN Registry \cup Stray, value : {"fits", "does not"}]
                    \cup [kind : {"unset"}, on : Scopes, key : DOMAIN Registry \cup Stray]
  <2>1. Asks(r, ops)
    BY <1>4 DEF AskSetting
  <2>2. \A o \in ops : "kind" \in DOMAIN o /\ o.kind # "reorder"
    OBVIOUS
  <2> HIDE DEF ops
  <2> QED
    BY <1>1, <2>1, <2>2, AskOrderly
<1>5. CASE \/ End(r)
           \/ op' = op /\ \E to \in {"locked", "leaving", "pointed", "written"} : at' = [at EXCEPT ![r] = to]
  <2>1. CASE End(r)
    <3>1. DOMAIN field' = Fields /\ \A f \in Fields : field'[f] = field[f]
      BY <1>1 DEF OrderInv, FieldInv
    <3> QED
      BY <1>1, <2>1, <3>1, EndOrderly
  <2>2. CASE op' = op /\ \E to \in {"locked", "leaving", "pointed", "written"} : at' = [at EXCEPT ![r] = to]
    BY <1>1, <2>2, StageOrderly DEF Stages
  <2> QED
    BY <1>5, <2>1, <2>2
<1>6. CASE \/ CreateEpic(r) \/ CreateSprint(r) \/ CreateMilestone(r) \/ CreateLabel(r)
           \/ UpdateEpic(r) \/ UpdateSprint(r) \/ UpdateMilestone(r) \/ UpdateLabel(r)
           \/ DeleteEpic(r) \/ DeleteSprint(r) \/ DeleteMilestone(r) \/ DeleteLabel(r)
  <2>1. op' = op /\ at' = [at EXCEPT ![r] = "written"]
    BY <1>6 DEF CreateEpic, CreateSprint, CreateMilestone, CreateLabel, UpdateEpic, UpdateSprint, UpdateMilestone,
                UpdateLabel, DeleteEpic, DeleteSprint, DeleteMilestone, DeleteLabel, Insert, Rewrite, Erase, Wrote
  <2> QED
    BY <1>5, <2>1
<1>7. CASE LockToDelete(r) \/ Point(r) \/ Leave(r) \/ Bump(r) \/ CommitPoint(r)
  BY <1>5, <1>7 DEF LockToDelete, Point, Leave, Bump, CommitPoint, Go
<1>8. CASE \/ CreateRefused(r) \/ UpdateRefused(r) \/ DeleteRefused(r) \/ PointRefused(r) \/ LeaveRefused(r)
           \/ Deadlock(r) \/ Set(r) \/ Unset(r) \/ SettingRefused(r) \/ Publish(r)
  BY <1>5, <1>8 DEF CreateRefused, UpdateRefused, DeleteRefused, PointRefused, LeaveRefused, Deadlock, Set, Unset,
                    SettingRefused, Publish, Refuse
<1> QED
  BY <1>2, <1>3, <1>4, <1>6, <1>7, <1>8 DEF PlanningStep

\* Nor have types and imports; a field is used once, and is not used again
\* when it is removed.
LEMMA TypesOrderly ==
  ASSUME OrderInv, OpsInv, NEW r \in Requests,
         \/ AskType(r) \/ AskImport(r)
         \/ CreateType(r) \/ RenameType(r) \/ UseType(r) \/ CountUses(r) \/ DeleteType(r) \/ TypeRefused(r)
         \/ CountPositions(r) \/ AddField(r) \/ RemoveField(r) \/ FieldRefused(r)
         \/ LockImports(r) \/ ReadNames(r) \/ Import(r) \/ ImportRefused(r)
  PROVE  Orderly(r)
<1>0. DOMAIN field = Fields
  BY DEF OrderInv, FieldInv
<1>1. CASE AskType(r)
  <2> DEFINE ops == CreateTypeRequests \cup RenameTypeRequests \cup DeleteTypeRequests \cup DocumentRequests
  <2>1. Asks(r, ops) /\ UNCHANGED <<field, stood>>
    BY <1>1 DEF AskType, AsksAspect, aspects
  <2>2. \A o \in ops : "kind" \in DOMAIN o /\ o.kind # "reorder"
    BY DEF CreateTypeRequests, RenameTypeRequests, DeleteTypeRequests, DocumentRequests
  <2> HIDE DEF ops
  <2> QED
    BY <2>1, <2>2, AskOrderly
<1>2. CASE AskImport(r)
  <2>1. Asks(r, ImportRequests) /\ UNCHANGED <<field, stood>>
    BY <1>2 DEF AskImport, AsksAspect, aspects
  <2>2. \A o \in ImportRequests : "kind" \in DOMAIN o /\ o.kind # "reorder"
    BY DEF ImportRequests
  <2> QED
    BY <2>1, <2>2, AskOrderly
<1>3. CASE CreateType(r) \/ RenameType(r) \/ UseType(r) \/ TypeRefused(r) \/ FieldRefused(r) \/ ImportRefused(r)
  <2>1. End(r) /\ UNCHANGED <<field, stood>>
    BY <1>3 DEF CreateType, RenameType, UseType, TypeRefused, FieldRefused, ImportRefused, RefuseAspect, Refuse, aspects
  <2>2. \A f \in Fields : field'[f] = field[f]
    BY <2>1
  <2> QED
    BY <1>0, <2>1, <2>2, EndOrderly
<1>4. CASE DeleteType(r) \/ RemoveField(r)
  <2>1. /\ End(r) /\ UNCHANGED stood
        /\ DOMAIN field' = Fields /\ \A f \in Fields : field'[f] \in {field[f], Removed}
    BY <1>0, <1>4 DEF DeleteType, RemoveField
  <2> QED
    BY <2>1, EndOrderly
<1>5. CASE AddField(r)
  <2>1. PICK f \in FreeFields : field' = [field EXCEPT ![f] = [of |-> op[r].type, position |-> op[r].position]]
    BY <1>5 DEF AddField
  <2>2. field[f] = NoField /\ DOMAIN field'[f] = {"of", "position"}
    BY <1>0, <2>1 DEF FreeFields
  <2>3. DOMAIN field' = Fields /\ \A g \in Fields \ {f} : field'[g] = field[g]
    BY <1>0, <2>1
  <2>4. End(r) /\ UNCHANGED stood
    BY <1>5 DEF AddField
  <2> HIDE DEF NoField, Removed
  <2> QED
    BY <2>2, <2>3, <2>4, EndOrderly
<1>6. CASE Import(r)
  <2> DEFINE N == Fresh(Len(op[r].file.positions))
  <2>1. PICK new : /\ new \in N
                   /\ field' = [f \in Fields |-> IF \E n \in DOMAIN new : new[n] = f
                                                 THEN [of |-> op[r].type, position |-> Place(new, f)] ELSE field[f]]
    BY <1>6 DEF Import
  <2>2. \A n \in DOMAIN new : field[new[n]] = NoField
    BY <2>1 DEF Fresh, FreeFields
  <2>3. /\ DOMAIN field' = Fields
        /\ \A f \in Fields : \/ field'[f] = field[f]
                             \/ field[f] = NoField /\ DOMAIN field'[f] = {"of", "position"}
    BY <2>1, <2>2
  <2>4. End(r) /\ UNCHANGED stood
    BY <1>6 DEF Import
  <2> HIDE DEF NoField, Removed
  <2> QED
    BY <2>3, <2>4, EndOrderly
<1>7. CASE CountUses(r) \/ LockImports(r)
  BY <1>7, StageOrderly DEF CountUses, LockImports, Go, aspects, Stages
<1>8. CASE CountPositions(r) \/ ReadNames(r)
  <2>1. /\ UNCHANGED <<field, stood>> /\ op[r].kind # "reorder"
        /\ \E to \in {"placed", "named"} : at' = [at EXCEPT ![r] = to]
        /\ \E m : op' = [op EXCEPT ![r] = Extended(op[r], m)]
    BY <1>8 DEF CountPositions, ReadNames, Asked, Go, aspects, OpsInv
  <2>2. DOMAIN op' = Requests /\ op'[r].kind # "reorder" /\ \A q \in Requests \ {r} : op'[q] = op[q]
    BY <2>1, KindStays
  <2> QED
    BY <2>1, <2>2, StageOrderly DEF Stages
<1> QED
  BY <1>1, <1>2, <1>3, <1>4, <1>5, <1>6, <1>7, <1>8

-----------------------------------------------------------------------------
(* Orders: a reorder, from its request to its commit.                      *)

\* A list that is asked for is a sequence of fields.
LEMMA OrdersAre ==
  ASSUME NEW y, NEW order \in Orders(y)
  PROVE  order \in Seq(Fields)
<1>1. FieldsOf(y) \subseteq Fields /\ IsFiniteSet(FieldsOf(y))
  BY AspectsAssumption, FS_Subset DEF FieldsOf
<1>2. PICK n : n = Cardinality(FieldsOf(y))
  OBVIOUS
<1>3. n \in Nat
  BY <1>1, <1>2, FS_CardinalityType
<1>4. order \in [1 .. n -> Fields] \/ order \in [1 .. n - 1 -> Fields]
  BY <1>1, <1>2 DEF Orders
<1> QED
  BY <1>3, <1>4, SeqIs

\* A field or an order is asked for.
LEMMA AskFieldKeeps ==
  ASSUME OrderInv, OpsInv, NEW r \in Requests, AskField(r)
  PROVE  OrderInv'
<1> DEFINE ops == AddFieldRequests \cup RemoveFieldRequests \cup ReorderRequests
<1>1. Asks(r, ops) /\ UNCHANGED <<field, stood>>
  BY DEF AskField, AsksAspect, aspects
<1> HIDE DEF ops
<1>2. PICK o \in ops : DOMAIN op'[r] = DOMAIN o \cup {"by"} /\ \A x \in DOMAIN o : op'[r][x] = o[x]
  BY <1>1, AskIs
<1>3. /\ at'[r] = "asked" /\ DOMAIN at' = Requests /\ DOMAIN op' = Requests
      /\ \A q \in Requests \ {r} : at'[q] = at[q] /\ op'[q] = op[q]
  BY <1>1, AskIs
<1>4. CASE o \in AddFieldRequests \cup RemoveFieldRequests
  <2>1. "kind" \in DOMAIN o /\ o.kind # "reorder"
    BY <1>4 DEF AddFieldRequests, RemoveFieldRequests
  <2>2. op'[r].kind # "reorder"
    BY <1>2, <2>1
  <2>3. Orderly(r)
    BY <1>1, <1>3, <2>2 DEF Orderly, OrderInv, FieldInv, Stages
  <2> QED
    BY <2>3, OrderlyKeeps
<1>5. CASE o \in ReorderRequests
  <2>1. PICK y \in KnownTypes : o \in [kind : {"reorder"}, type : {y}, order : Orders(y)]
    BY <1>5 DEF ReorderRequests
  <2>2. DOMAIN o = {"kind", "type", "order"} /\ o.kind = "reorder" /\ o.type = y /\ o.order \in Orders(y)
    BY <2>1
  <2>3. op'[r].kind = "reorder" /\ op'[r].type = y /\ op'[r].order = o.order
        /\ DOMAIN op'[r] = {"kind", "type", "order", "by"}
    BY <1>2, <2>2
  <2>4. op'[r].type \in Types /\ op'[r].order \in Seq(Fields)
    BY <2>1, <2>2, <2>3, OrdersAre DEF KnownTypes
  <2>5. ReordersInv'
    BY <1>1, <1>3, <2>3, <2>4 DEF OrderInv, ReordersInv, Lists, Stages
  <2> QED
    BY <1>1, <2>5 DEF OrderInv, FieldInv, StoodInv, Lists
<1> QED
  BY <1>2, <1>4, <1>5 DEF ops

\* The list is compared with the fields of that moment.
LEMMA CheckOrderKeeps ==
  ASSUME OrderInv, OpsInv, NEW r \in Requests, CheckOrder(r)
  PROVE  OrderInv'
<1> DEFINE m == [of |-> FieldsOf(op[r].type)]
<1>1. /\ UNCHANGED <<field, stood>> /\ at[r] = "asked" /\ op[r].kind = "reorder"
      /\ sameSet(FieldsOf(op[r].type), op[r].order)
      /\ op' = [op EXCEPT ![r] = Extended(op[r], m)] /\ at' = [at EXCEPT ![r] = "checked"]
      /\ DOMAIN op = Requests /\ DOMAIN at = Requests
  BY DEF CheckOrder, Asked, Go, aspects, OpsInv
<1>2. op[r].type \in Types /\ op[r].order \in Seq(Fields) /\ DOMAIN op[r] = {"kind", "type", "order", "by"}
  BY <1>1 DEF OrderInv, ReordersInv
<1>3. FieldsOf(op[r].type) \subseteq Fields /\ \A f \in FieldsOf(op[r].type) : field[f] # NoField
  BY <1>2, AspectsAssumption DEF FieldsOf, NoField
<1>4. Lists(op[r].order, FieldsOf(op[r].type))
  BY <1>1, <1>2, <1>3, SameSetLists
<1>5. DOMAIN m = {"of"} /\ m.of = FieldsOf(op[r].type)
  OBVIOUS
<1> HIDE DEF m
<1>6. /\ op'[r].kind = "reorder" /\ op'[r].type = op[r].type /\ op'[r].order = op[r].order
      /\ op'[r].of = FieldsOf(op[r].type) /\ at'[r] = "checked"
      /\ \A q \in Requests \ {r} : op'[q] = op[q] /\ at'[q] = at[q]
  <2> DEFINE o == op[r]
  <2>1. op'[r] = Extended(o, m) /\ DOMAIN o = {"kind", "type", "order", "by"} /\ o.kind = "reorder"
    BY <1>1, <1>2
  <2> HIDE DEF o
  <2>2. /\ \A x \in DOMAIN o : Extended(o, m)[x] = o[x]
        /\ \A x \in DOMAIN m \ DOMAIN o : Extended(o, m)[x] = m[x]
    BY ExtendedIs
  <2>3. op'[r].kind = "reorder" /\ op'[r].type = o.type /\ op'[r].order = o.order /\ op'[r].of = m.of
    BY <1>5, <2>1, <2>2
  <2> QED
    BY <1>1, <1>5, <2>3 DEF o
<1>7. ReordersInv'
  <2> SUFFICES ASSUME NEW q \in Requests
               PROVE  /\ op'[q].kind = "reorder" =>
                          /\ op'[q].type \in Types /\ op'[q].order \in Seq(Fields)
                          /\ at'[q] = "asked" => DOMAIN op'[q] = {"kind", "type", "order", "by"}
                      /\ at'[q] \in Stages =>
                          /\ op'[q].kind = "reorder" /\ Lists(op'[q].order, op'[q].of)
                          /\ \A f \in op'[q].of : field'[f] # NoField
    BY DEF ReordersInv, Lists
  <2>1. CASE q = r
    BY <1>1, <1>2, <1>3, <1>4, <1>6, <2>1
  <2>2. CASE q # r
    BY <1>1, <1>6, <2>2 DEF OrderInv, ReordersInv
  <2> QED
    BY <2>1, <2>2
<1> QED
  BY <1>1, <1>7 DEF OrderInv, FieldInv, StoodInv, Lists

\* The fields are waited for, and written.
LEMMA WriteOrderKeeps ==
  ASSUME OrderInv, OpsInv, NEW r \in Requests, WriteOrder(r)
  PROVE  OrderInv'
<1>1. /\ UNCHANGED <<field, stood, op>> /\ at[r] = "checked" /\ at' = [at EXCEPT ![r] = "reordered"]
      /\ DOMAIN at = Requests
  BY DEF WriteOrder, Go, aspects, OpsInv
<1> QED
  BY <1>1 DEF OrderInv, FieldInv, StoodInv, ReordersInv, Lists, Stages

\* Each field the type still has takes its place in the list.
LEMMA CommitOrderKeeps ==
  ASSUME OrderInv, OpsInv, NEW r \in Requests, CommitOrder(r)
  PROVE  OrderInv'
<1>1. PICK y : y = op[r].type
  OBVIOUS
<1>2. PICK order : order = op[r].order
  OBVIOUS
<1>3. PICK s : s = op[r].of
  OBVIOUS
<1>4. /\ at[r] = "reordered" /\ End(r)
      /\ field' = [f \in Fields |-> IF field[f].of = y /\ \E n \in DOMAIN order : order[n] = f
                                    THEN [field[f] EXCEPT !.position = Place(order, f)] ELSE field[f]]
      /\ stood' = [stood EXCEPT ![y] = [order |-> order, of |-> s]]
  BY <1>1, <1>2, <1>3 DEF CommitOrder
<1>5. y \in Types /\ Lists(order, s) /\ \A f \in s : field[f] # NoField
  BY <1>1, <1>2, <1>3, <1>4 DEF OrderInv, ReordersInv, Stages
<1>6. DOMAIN order = 1 .. Len(order)
  BY <1>5 DEF Lists
<1>7. \A n \in DOMAIN order : Place(order, order[n]) = n
  BY <1>5, <1>6 DEF Place, Lists
<1>8. ASSUME NEW f \in Fields
      PROVE  /\ DOMAIN field'[f] = {"of", "position"} /\ field'[f].of = field[f].of
             /\ field[f] # NoField => field'[f] # NoField
             /\ field[f].of # y => field'[f] = field[f]
             /\ \A n \in DOMAIN order : order[n] = f /\ field[f].of = y => field'[f].position = n
  <2>1. PICK x : x = field[f]
    OBVIOUS
  <2>2. PICK p : p = Place(order, f)
    OBVIOUS
  <2>3. DOMAIN x = {"of", "position"}
    BY <2>1 DEF OrderInv, FieldInv
  <2>4. /\ DOMAIN [x EXCEPT !.position = p] = {"of", "position"}
        /\ [x EXCEPT !.position = p].of = x.of /\ [x EXCEPT !.position = p].position = p
    BY <2>3
  <2>5. field'[f] = IF x.of = y /\ \E n \in DOMAIN order : order[n] = f THEN [x EXCEPT !.position = p] ELSE x
    BY <1>4, <2>1, <2>2
  <2>6. y # NoField.of
    BY <1>5, AspectsAssumption DEF NoField
  <2>7. field'[f].of = x.of /\ DOMAIN field'[f] = {"of", "position"}
    BY <2>3, <2>4, <2>5
  <2>8. x # NoField => field'[f] # NoField
    BY <2>4, <2>5, <2>6
  <2>9. \A n \in DOMAIN order : order[n] = f /\ x.of = y => field'[f].position = n
    BY <1>7, <2>2, <2>4, <2>5
  <2> QED
    BY <2>1, <2>5, <2>7, <2>8, <2>9
<1>9. FieldInv'
  BY <1>4, <1>8 DEF FieldInv
<1>10. StoodInv'
  <2> SUFFICES ASSUME NEW z \in Types
               PROVE  /\ Lists(stood'[z].order, stood'[z].of)
                      /\ \A f \in stood'[z].of : field'[f] # NoField
                      /\ \A n \in DOMAIN stood'[z].order :
                          field'[stood'[z].order[n]].of = z => field'[stood'[z].order[n]].position = n
    BY DEF StoodInv, Lists
  <2>1. CASE z = y
    <3>1. stood'[z].order = order /\ stood'[z].of = s
      BY <1>4, <1>5, <2>1 DEF OrderInv
    <3>2. s \subseteq Fields /\ \A n \in DOMAIN order : order[n] \in Fields
      BY <1>5 DEF Lists
    <3> QED
      BY <1>5, <1>8, <2>1, <3>1, <3>2
  <2>2. CASE z # y
    <3>1. stood'[z] = stood[z]
      BY <1>4, <2>2 DEF OrderInv
    <3>2. /\ Lists(stood[z].order, stood[z].of)
          /\ \A f \in stood[z].of : field[f] # NoField
          /\ \A n \in DOMAIN stood[z].order :
              field[stood[z].order[n]].of = z => field[stood[z].order[n]].position = n
      BY DEF OrderInv, StoodInv
    <3>3. stood[z].of \subseteq Fields /\ \A n \in DOMAIN stood[z].order : stood[z].order[n] \in Fields
      BY <3>2 DEF Lists
    <3> QED
      BY <1>8, <2>2, <3>1, <3>2, <3>3
  <2> QED
    BY <2>1, <2>2
<1>11. ReordersInv'
  <2>1. /\ at'[r] = "done" /\ op'[r].kind = "none"
        /\ \A q \in Requests \ {r} : at'[q] = at[q] /\ op'[q] = op[q]
    BY <1>4, EndIs
  <2>2. \A q \in Requests : at[q] \in Stages => op[q].of \subseteq Fields
    BY DEF OrderInv, ReordersInv, Lists
  <2> SUFFICES ASSUME NEW q \in Requests
               PROVE  /\ op'[q].kind = "reorder" =>
                          /\ op'[q].type \in Types /\ op'[q].order \in Seq(Fields)
                          /\ at'[q] = "asked" => DOMAIN op'[q] = {"kind", "type", "order", "by"}
                      /\ at'[q] \in Stages =>
                          /\ op'[q].kind = "reorder" /\ Lists(op'[q].order, op'[q].of)
                          /\ \A f \in op'[q].of : field'[f] # NoField
    BY DEF ReordersInv, Lists
  <2>3. CASE q = r
    BY <2>1, <2>3 DEF Stages
  <2>4. CASE q # r
    BY <1>8, <2>1, <2>2, <2>4 DEF OrderInv, ReordersInv
  <2> QED
    BY <2>3, <2>4
<1>12. DOMAIN stood' = Types
  BY <1>4 DEF OrderInv
<1> QED
  BY <1>9, <1>10, <1>11, <1>12 DEF OrderInv

-----------------------------------------------------------------------------
(* Orders stand.                                                           *)

\* No order has been set at the start.
LEMMA OrderInit == Init => OrderInv
<1> SUFFICES ASSUME Init
             PROVE  OrderInv
  OBVIOUS
<1>1. /\ field = Fields0 /\ stood = [y \in Types |-> [order |-> <<>>, of |-> {}]]
      /\ at = [r \in Requests |-> "idle"] /\ op = [r \in Requests |-> NoOp]
  BY DEF Init, PlanningInit
<1>2. FieldInv
  BY <1>1, AspectsAssumption DEF FieldInv
<1>3. StoodInv
  <2>1. <<>> \in Seq(Fields) /\ DOMAIN <<>> = {}
    OBVIOUS
  <2>2. Lists(<<>>, {})
    BY <2>1 DEF Lists
  <2>3. \A y \in Types : stood[y].order = <<>> /\ stood[y].of = {}
    BY <1>1
  <2> QED
    BY <2>1, <2>2, <2>3 DEF StoodInv
<1>4. ReordersInv
  BY <1>1 DEF ReordersInv, NoOp, Stages
<1> QED
  BY <1>1, <1>2, <1>3, <1>4 DEF OrderInv

\* Every step keeps the orders that were set.
LEMMA OrderStep == OrderInv /\ OpsInv /\ [Next]_vars => OrderInv'
<1> SUFFICES ASSUME OrderInv, OpsInv, [Next]_vars
             PROVE  OrderInv'
  OBVIOUS
<1>1. ASSUME NEW r \in Requests, PlanningStep(r), UNCHANGED aspects
      PROVE  OrderInv'
  BY <1>1, PlanOrderly, OrderlyKeeps
<1>2. ASSUME NEW r \in Requests, AspectStep(r)
      PROVE  OrderInv'
  <2>1. CASE AskField(r) \/ CheckOrder(r) \/ WriteOrder(r) \/ CommitOrder(r)
    BY <2>1, AskFieldKeeps, CheckOrderKeeps, WriteOrderKeeps, CommitOrderKeeps
  <2>2. CASE \/ AskType(r) \/ AskImport(r)
             \/ CreateType(r) \/ RenameType(r) \/ UseType(r) \/ CountUses(r) \/ DeleteType(r) \/ TypeRefused(r)
             \/ CountPositions(r) \/ AddField(r) \/ RemoveField(r) \/ FieldRefused(r)
             \/ LockImports(r) \/ ReadNames(r) \/ Import(r) \/ ImportRefused(r)
    BY <2>2, TypesOrderly, OrderlyKeeps
  <2> QED
    BY <1>2, <2>1, <2>2 DEF AspectStep
<1>3. CASE UNCHANGED <<field, stood, at, op>>
  BY <1>3 DEF OrderInv, FieldInv, StoodInv, ReordersInv, Lists
<1>4. ASSUME (Receive \/ Relist) /\ UNCHANGED aspects
      PROVE  UNCHANGED <<field, stood, at, op>>
  BY <1>4 DEF Receive, Relist, aspects
<1>5. CASE UNCHANGED vars
  BY <1>3, <1>5 DEF vars, aspects
<1> QED
  BY <1>1, <1>2, <1>3, <1>4, <1>5 DEF Next

\* The fields an order was set for stand in that order until another is set,
\* whatever is added, removed or reordered between the check of the list and
\* its write, and after it.
THEOREM OrdersStand == Spec => []ReorderStands
<1>1. ASSUME OrderInv
      PROVE  ReorderStands
  <2> SUFFICES ASSUME NEW y \in Types
               PROVE  /\ \A f \in FieldsOf(y) : f \in stood[y].of <=> \E n \in DOMAIN stood[y].order : stood[y].order[n] = f
                      /\ \A m, n \in DOMAIN stood[y].order :
                          m < n /\ {stood[y].order[m], stood[y].order[n]} \subseteq FieldsOf(y)
                            => Before(stood[y].order[m], stood[y].order[n])
    BY DEF ReorderStands
  <2>1. /\ Lists(stood[y].order, stood[y].of)
        /\ \A n \in DOMAIN stood[y].order :
            field[stood[y].order[n]].of = y => field[stood[y].order[n]].position = n
    BY <1>1 DEF OrderInv, StoodInv
  <2> QED
    BY <2>1 DEF Lists, Before, FieldsOf
<1>2. Init => OrderInv /\ ImportInv
  BY OrderInit, ImportInit
<1>3. OrderInv /\ ImportInv /\ [Next]_vars => OrderInv' /\ ImportInv'
  BY OrderStep, ImportStep DEF ImportInv
<1> QED
  BY <1>1, <1>2, <1>3, PTL DEF Spec
=============================================================================
