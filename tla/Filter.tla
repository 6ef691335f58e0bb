-------------------------------- MODULE Filter --------------------------------
(***************************************************************************)
(* The list language of internal/filter: the conditions and groups of a    *)
(* filter, what of them is refused and what they compile to, the order of  *)
(* a page, and the predicate that resumes after a cursor.                  *)
(*                                                                         *)
(* What is compiled is SQL; what is modelled is the meaning the database   *)
(* gives it, three-valued, on a row.  Left out: the positions of faults,   *)
(* placeholders and casts, the text operator contains (the vocabulary      *)
(* here has no text field), base64.  A value is a number, or Malformed:    *)
(* one that is not of the field's kind.                                    *)
(***************************************************************************)
EXTENDS Integers, Sequences, FiniteSets, SequencesExt, FiniteSetsExt

CONSTANTS
    KindOf,         \* a resource's Schema: its fields, each with its kind
    Fields,         \* what a request may name: those fields and others
    MaxDepth,
    MaxConditions,
    DefaultLimit,
    MaxLimit,
    NULL,
    Malformed

ASSUME FilterAssumption ==
    /\ MaxDepth \in Nat \ {0} /\ MaxConditions \in Nat
    /\ DefaultLimit \in 1 .. MaxLimit
    /\ DOMAIN KindOf \subseteq Fields
    /\ NULL \notin Int /\ Malformed \notin Int \cup {NULL}

Names == DOMAIN KindOf

Legal ==
    [ text     |-> {"eq", "neq", "contains", "in", "is_null", "is_not_null"},
      uuid     |-> {"eq", "neq", "in", "is_null", "is_not_null"},
      time     |-> {"eq", "neq", "gt", "gte", "lt", "lte", "is_null", "is_not_null"},
      number   |-> {"eq", "neq", "gt", "gte", "lt", "lte", "in", "is_null", "is_not_null"},
      bool     |-> {"eq", "neq", "is_null", "is_not_null"},
      uuid_set |-> {"eq", "neq", "in", "is_null", "is_not_null"} ]

Coerced(v) == v # Malformed

(***************************************************************************)
(* A condition is [field, op, value], its value a sequence: empty when     *)
(* none was sent.  A filter is the sequence of its groups, the outermost   *)
(* first and each group after the one it is in, its parent; a group is     *)
(* [op, conditions, parent].  An absent filter decodes to one group with   *)
(* no op and no members.                                                   *)
(***************************************************************************)
Operators == UNION {Legal[k] : k \in DOMAIN Legal} \cup {"other"}
Conditions == [field : Fields, op : Operators, value : Seq(Int \cup {Malformed})]
Groups == [op : {"and", "or", "none", "other"}, conditions : Seq(Conditions), parent : Nat]

IsFilter(g) ==
    /\ g \in Seq(Groups)
    /\ g # <<>> /\ g[1].parent = 0
    /\ \A n \in 2 .. Len(g) : g[n].parent \in 1 .. n - 1

Nothing == <<[op |-> "none", conditions |-> <<>>, parent |-> 0]>>

Inside(g, n) == {m \in DOMAIN g : g[m].parent = n}
Bare(g, n) == g[n].conditions = <<>> /\ Inside(g, n) = {}

Normalised(g) == IF g = Nothing THEN [g EXCEPT ![1].op = "and"] ELSE g

BadList(c) ==
    \/ c.value = <<>> \/ \E i \in DOMAIN c.value : ~Coerced(c.value[i])
    \/ c.op # "in" /\ Len(c.value) > 1

ConditionFaults(c) ==
    IF c.field \notin Names THEN {"unknown_field"}
    ELSE IF c.op \notin Legal[KindOf[c.field]] THEN {"operator_not_valid"}
    ELSE IF c.op \notin {"is_null", "is_not_null"} /\ BadList(c) THEN {"value"} ELSE {}

Depth(g, n) ==
    LET depth[m \in DOMAIN g] == IF m = 1 THEN 1 ELSE depth[g[m].parent] + 1
    IN  depth[n]

\* The conditions the walk counts: none below the deepest level it enters.
Seen(g) == MapThenSumSet(LAMBDA n : Len(g[n].conditions), {n \in DOMAIN g : Depth(g, n) <= MaxDepth})

\* What is wrong with one group of the filter.  What is below a group that is too
\* deep is not walked: as that group is a fault, it does not matter what is said of it.
GroupFaults(g, n) ==
    IF n # 1 /\ Bare(g, n) THEN {"empty_group"}
    ELSE IF Depth(g, n) > MaxDepth THEN {"too_deep"}
    ELSE (IF g[n].op \in {"and", "or"} THEN {} ELSE {"conjunction"})
         \cup UNION {ConditionFaults(c) : c \in ToSet(g[n].conditions)}

FilterFaults(g) ==
    UNION {GroupFaults(g, n) : n \in DOMAIN g} \cup (IF Seen(g) > MaxConditions THEN {"too_many"} ELSE {})

(***************************************************************************)
(* What a compiled condition says of a row: true, false or, when SQL       *)
(* compares with a null, unknown.  WHERE keeps the rows of a true one.     *)
(***************************************************************************)
Truth(b) == IF b THEN "true" ELSE "false"

Compared(x, op, v) ==
    CASE op = "gt" -> x > v [] op = "gte" -> x >= v [] op = "lt" -> x < v [] op = "lte" -> x <= v
      [] OTHER -> x = v

NullTest(x, kind, op) ==
    Truth((op = "is_null") = (IF kind = "uuid_set" THEN x = {} ELSE x = NULL))

ScalarTest(x, op, v) ==
    IF op = "neq" THEN Truth(x # v)
    ELSE IF x = NULL THEN "unknown" ELSE Truth(Compared(x, op, v))

SetTest(x, op, v) == Truth((op = "neq") # (v \in x))

AnyOf(x, kind, vs) ==
    IF kind = "uuid_set" THEN Truth(x \cap vs # {})
    ELSE IF x = NULL THEN "unknown" ELSE Truth(x \in vs)

Condition(c, row) ==
    LET x == row[c.field]
        kind == KindOf[c.field]
    IN  IF c.op \in {"is_null", "is_not_null"} THEN NullTest(x, kind, c.op)
        ELSE IF c.op = "in" THEN AnyOf(x, kind, ToSet(c.value))
        ELSE IF kind = "uuid_set" THEN SetTest(x, c.op, c.value[1])
        ELSE ScalarTest(x, c.op, c.value[1])

Joined(op, terms) ==
    IF op = "or"
    THEN IF "true" \in terms THEN "true" ELSE IF "unknown" \in terms THEN "unknown" ELSE "false"
    ELSE IF "false" \in terms THEN "false" ELSE IF "unknown" \in terms THEN "unknown" ELSE "true"

Where(g, row) ==
    LET where[n \in DOMAIN g] ==
            IF Bare(g, n) THEN "true"
            ELSE Joined(g[n].op, {Condition(c, row) : c \in ToSet(g[n].conditions)}
                                 \cup {where[m] : m \in Inside(g, n)})
    IN  where[1]

(***************************************************************************)
(* Sorting.  An order is [field, desc]; nulls are last either way, and the *)
(* id, which is unique, ends every sort.                                   *)
(***************************************************************************)
SortFaults(orders) ==
    UNION {IF o.field \notin Names THEN {"unknown_field"}
           ELSE IF KindOf[o.field] = "uuid_set" THEN {"not_sortable"} ELSE {}
           : o \in ToSet(orders)}

Before(o, x, y) ==
    x # NULL /\ (y = NULL \/ IF o.desc THEN x > y ELSE x < y)

Precedes(orders, r, s) ==
    LET Agree(i) == \A j \in 1 .. i - 1 : r[orders[j].field] = s[orders[j].field]
    IN  \/ \E i \in DOMAIN orders :
            Agree(i) /\ Before(orders[i], r[orders[i].field], s[orders[i].field])
        \/ (Agree(Len(orders) + 1) /\ r.id < s.id)

KeysOf(orders, row) == Append([i \in DOMAIN orders |-> row[orders[i].field]], row.id)

(***************************************************************************)
(* Resuming.  CompileAfter folds from the right:                           *)
(*     after(k1) OR (same(k1) AND (after(k2) OR (same(k2) AND id > last))) *)
(***************************************************************************)
\* Mutant of AfterKey: NULLS LAST is forgotten on the way in.
AfterKey_NoNulls(o, v, x) == v # NULL /\ x # NULL /\ (IF o.desc THEN x < v ELSE x > v)

AfterKey(o, v, x) == v # NULL /\ (x = NULL \/ IF o.desc THEN x < v ELSE x > v)

CompileAfter(orders, key, row) ==
    LET after[i \in 1 .. Len(orders) + 1] ==
            IF i > Len(orders) THEN row.id > Last(key)
            ELSE LET x == row[orders[i].field]
                 IN  AfterKey(orders[i], key[i], x) \/ (key[i] = x /\ after[i + 1])
    IN  after[1]

(***************************************************************************)
(* A request is [filter, sort, limit, cursor].  A cursor carries the       *)
(* fingerprint of its query and the keys of the last row its page kept.    *)
(***************************************************************************)
NoCursor == [query |-> <<>>, key |-> <<>>]
Garbled == [query |-> <<>>, key |-> <<Malformed>>]

SortOf(request, default) == IF request.sort = <<>> THEN default ELSE request.sort
LimitOf(request) == IF request.limit = 0 THEN DefaultLimit ELSE request.limit

Fingerprint(g, orders) == <<g, orders>>

Decodes(cursor) == cursor.query # <<>> /\ cursor.key # <<>>

CursorFault(request, orders) ==
    LET c == request.cursor
    IN  IF c = NoCursor THEN "none"
        ELSE IF ~Decodes(c) THEN "bad_cursor"
        ELSE IF c.query # Fingerprint(Normalised(request.filter), orders) THEN "cursor_mismatch"
        ELSE IF SortFaults(orders) # {} THEN "filter_invalid"
        ELSE IF Len(c.key) # Len(orders) + 1 THEN "cursor_mismatch"
        ELSE IF Last(c.key) \in {NULL, Malformed} THEN "bad_cursor" ELSE "none"

\* The first thing wrong with a request, in the order Plan looks.
Fault(request, default) ==
    LET orders == SortOf(request, default)
    IN  IF LimitOf(request) \notin 1 .. MaxLimit \/ FilterFaults(Normalised(request.filter)) # {}
        THEN "filter_invalid"
        ELSE IF CursorFault(request, orders) # "none" THEN CursorFault(request, orders)
        ELSE IF SortFaults(orders) # {} THEN "filter_invalid" ELSE "none"

Kept(request, orders, row) ==
    /\ Where(Normalised(request.filter), row) = "true"
    /\ request.cursor = NoCursor \/ CompileAfter(orders, request.cursor.key, row)

CursorAfter(request, orders, row) ==
    [query |-> Fingerprint(Normalised(request.filter), orders), key |-> KeysOf(orders, row)]
===============================================================================
