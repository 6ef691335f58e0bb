--------------------------------- MODULE Lists ---------------------------------
(***************************************************************************)
(* Reading a list page by page (POST .../list) while its rows change, and  *)
(* the saved views, whose configuration is such a list kept for later.     *)
(*                                                                         *)
(* Every resource lists in one way: its own scope, then what the filter    *)
(* language compiles (module Filter), one row more than the page.  Each    *)
(* page is one statement: nothing holds between two of them but the        *)
(* cursor in the client's hands.                                           *)
(*                                                                         *)
(* A row is [id, link, stamp, label, seen, live]: link the nullable        *)
(* reference its list filters on (a ticket's status, a document's project, *)
(* a review's status, a view's project, an entry's entity), stamp what the *)
(* default sort orders by, seen whether the scope of the list takes the    *)
(* row in for this caller, live whether it, or what it hangs on, is not    *)
(* archived.  Left out: the rest of the columns, a team's statuses.        *)
(***************************************************************************)
EXTENDS Filter

CONSTANTS
    Ids,            \* numbers, in the order of the ids
    Resources,      \* the lists that are read
    Tables(_),      \* the rows there may be at first, of each resource
    Filters(_),     \* what a request body may hold, of each resource
    Sorts(_),
    Limits,
    Configs,        \* what a saved view may be asked to keep
    Pending,        \* review_status of an open review request
    Entities,       \* tickets and documents with a history
    MaxWrites       \* bound: writes beside the reading

Scalars == Int \cup {NULL}
Rows == [id : Ids, link : Scalars, stamp : Int, label : SUBSET Int, seen : BOOLEAN, live : BOOLEAN]
Absent == [id |-> 0]
Orders == [field : Fields, desc : BOOLEAN]

ASSUME ListsAssumption ==
    /\ IsFiniteSet(Ids) /\ Ids \subseteq Nat \ {0} /\ Entities \subseteq Int
    /\ \A f \in Names :
        /\ f \in {"link", "stamp", "label"}
        /\ IF f = "label" THEN KindOf[f] = "uuid_set" ELSE KindOf[f] \in {"uuid", "time", "number"}
    /\ "link" \in Fields /\ "stamp" \in Names /\ Limits \subseteq Int
    /\ \A k \in Resources :
        /\ \A t \in Tables(k) : t \in [Ids -> Rows \cup {Absent}] /\ \A i \in Ids : t[i].id \in {i, 0}
        /\ \A g \in Filters(k) : IsFilter(g)
        /\ Sorts(k) \subseteq Seq(Orders)
    /\ \A c \in Configs : IsFilter(c.filter) /\ c.sort \in Seq(Orders)

VARIABLES
    resource,       \* the list this reader reads
    table,          \* its table
    within,         \* whether the team or the entity it is read under is in reach
    turn,           \* where the reader is
    ask,            \* the request, its cursor the last page's
    got,            \* the rows of the pages read so far, in the order they came
    touched,        \* rows written since the reading began
    writes,
    saved           \* the configuration a saved view keeps

reader == <<turn, ask, got, touched>>
listsVars == <<resource, table, within, reader, writes, saved>>

There == {i \in Ids : table[i] # Absent}
NoConfig == [layout |-> "none"]
NoAsk == [filter |-> Nothing, sort |-> <<>>, limit |-> 0, cursor |-> NoCursor, archived |-> FALSE, under |-> NULL]

DefaultSort == <<[field |-> "stamp", desc |-> resource \in {"ticket", "document", "activity"}]>>

(***************************************************************************)
(* The scope of each list: composed first, whatever the filter says.       *)
(***************************************************************************)
NamesField(g) == \E n \in DOMAIN g : \E c \in ToSet(g[n].conditions) : c.field = "link"

Tickets(q, r) == r.live /\ r.seen
Documents(q, r) == r.live # q.archived /\ r.seen
Comments(q, r) == r.live /\ r.seen
Attachments(q, r) == r.live /\ r.seen
Reviews(q, r) == r.live /\ r.seen /\ r.link # NULL /\ (NamesField(q.filter) \/ r.link = Pending)
Views(q, r) == r.seen /\ (q.under = NULL \/ r.link \in {NULL, q.under})
Members(q, r) == r.seen
Teams(q, r) == r.seen
Projects(q, r) == r.seen

\* An activity filter must name one entity at its top level, where nothing can widen it.
Named(g) ==
    IF g[1].op = "or" /\ Len(g[1].conditions) + Cardinality(Inside(g, 1)) > 1 THEN {}
    ELSE {c.value[1] : c \in {c \in ToSet(g[1].conditions) : c.field = "link" /\ c.op = "eq" /\ c.value # <<>>}}

Scope(g) == Named(g) \cap Entities

Activity(q, r) == r.link \in Scope(q.filter)

Listed(q, r) ==
    CASE resource = "ticket" -> Tickets(q, r)     [] resource = "document" -> Documents(q, r)
      [] resource = "comment" -> Comments(q, r)   [] resource = "attachment" -> Attachments(q, r)
      [] resource = "review" -> Reviews(q, r)     [] resource = "view" -> Views(q, r)
      [] resource = "member" -> Members(q, r)     [] resource = "team" -> Teams(q, r)
      [] resource = "project" -> Projects(q, r)   [] resource = "activity" -> Activity(q, r)

(***************************************************************************)
(* What each list takes from a request body.  Documents have four filters  *)
(* by name and no sort; saved views a project and neither.                 *)
(***************************************************************************)
ListRequests == [filter : Filters(resource), sort : Sorts(resource), limit : Limits, cursor : {NoCursor}, archived : {FALSE}, under : {NULL}]

Equals(f) == <<[op |-> "and", conditions |-> f, parent |-> 0]>>

DocumentRequests ==
    [filter : {Equals(<<>>)} \cup {Equals(<<[field |-> "link", op |-> "eq", value |-> <<p>>]>>) : p \in Entities},
     sort : {<<>>}, limit : Limits, cursor : {NoCursor}, archived : BOOLEAN, under : {NULL}]

ViewRequests ==
    [filter : {Nothing}, sort : {<<>>}, limit : Limits, cursor : {NoCursor}, archived : {FALSE}, under : Entities \cup {NULL}]

Bodies ==
    CASE resource = "document" -> DocumentRequests [] resource = "view" -> ViewRequests [] OTHER -> ListRequests

(***************************************************************************)
(* The saved view's configuration is [layout, filter, sort, group,         *)
(* columns], checked against the ticket list's vocabulary.                 *)
(***************************************************************************)
\* Mutant of ConfigFaults: the sort is not put through the order's compiler.
ConfigFaults_AnySort(c) ==
    FilterFaults(Normalised(c.filter))
    \cup (IF c.group \in Names \cup {NULL} THEN {} ELSE {"unknown_field"})

ConfigFaults(c) ==
    FilterFaults(Normalised(c.filter)) \cup SortFaults(c.sort)
    \cup (IF c.group = NULL THEN {} ELSE IF c.group \notin Names THEN {"unknown_field"}
          ELSE IF KindOf[c.group] = "uuid_set" THEN {"not_groupable"} ELSE {})
    \cup {"unknown_field" : f \in ToSet(c.columns) \ Names}
    \cup (IF IsInjective(c.columns) THEN {} ELSE {"listed_twice"})

Opened(c) ==
    [filter |-> c.filter, sort |-> c.sort, limit |-> 0, cursor |-> NoCursor, archived |-> FALSE, under |-> NULL]

ListsInit ==
    /\ resource \in Resources
    /\ table \in Tables(resource)
    /\ within = TRUE
    /\ turn = "idle" /\ ask = NoAsk /\ got = <<>> /\ touched = {}
    /\ writes = 0 /\ saved = NoConfig

-------------------------------------------------------------------------------
\* Two lists look first whether what they hang on is in reach, in a statement of its own.
LooksFirst == resource \in {"view", "activity"}

Ask(request) ==
    /\ turn = "idle"
    /\ ask' = request /\ turn' = "asking" /\ got' = <<>> /\ touched' = {}
    /\ UNCHANGED <<resource, table, within, writes, saved>>

Over == /\ turn' = "idle" /\ ask' = NoAsk /\ got' = <<>> /\ touched' = {}

\* A list of a history names its entity before anything else is looked at.
ScopeFault == resource = "activity" /\ Scope(ask.filter) = {}

Refused ==
    /\ turn = "asking"
    /\ ScopeFault \/ (resource # "activity" /\ Fault(ask, DefaultSort) # "none")
    /\ Over
    /\ UNCHANGED <<resource, table, within, writes, saved>>

Look ==
    /\ turn = "asking" /\ LooksFirst /\ ~ScopeFault
    /\ resource = "view" => Fault(ask, DefaultSort) = "none"
    /\ IF within THEN turn' = "reading" /\ UNCHANGED <<ask, got, touched>> ELSE Over
    /\ UNCHANGED <<resource, table, within, writes, saved>>

\* The history's filter is planned after the entity was looked up.
RefusedLate ==
    /\ turn = "reading" /\ Fault(ask, DefaultSort) # "none"
    /\ Over
    /\ UNCHANGED <<resource, table, within, writes, saved>>

Order == SortOf(ask, DefaultSort)
Matching == {i \in There : Listed(ask, table[i]) /\ Kept(ask, Order, table[i])}
InOrder(S) ==
    {s \in [1 .. Cardinality(S) -> S] :
        \A m, n \in DOMAIN s : m < n => Precedes(Order, table[s[m]], table[s[n]])}

KeptLast(top, limit) == top[limit]

\* One statement: limit + 1 rows, the last only to know whether there are more.
ReadPage ==
    LET limit == LimitOf(ask) IN
    /\ turn = IF LooksFirst THEN "reading" ELSE "asking"
    /\ Fault(ask, DefaultSort) = "none"
    /\ \E top \in InOrder(Matching) :
        LET more == Len(top) > limit IN
        /\ got' = got \o (IF more THEN SubSeq(top, 1, limit) ELSE top)
        /\ IF more
           THEN /\ ask' = [ask EXCEPT !.cursor = CursorAfter(ask, Order, table[KeptLast(top, limit)])]
                /\ turn' = "between"
           ELSE turn' = "done" /\ UNCHANGED ask
    /\ UNCHANGED <<resource, table, within, touched, writes, saved>>

\* The client passes the cursor back: with its request, with one member of it changed, or
\* damaged.
Continue(request) ==
    /\ turn = "between"
    /\ Cardinality({m \in {"filter", "sort", "limit"} : request[m] # ask[m]}) <= 1
    /\ request.archived = ask.archived /\ request.under = ask.under
    /\ ask' = [request EXCEPT !.cursor = ask.cursor] /\ turn' = "asking"
    /\ UNCHANGED <<resource, table, within, got, touched, writes, saved>>

Damage ==
    /\ turn = "between"
    /\ ask' = [ask EXCEPT !.cursor = Garbled] /\ turn' = "asking"
    /\ UNCHANGED <<resource, table, within, got, touched, writes, saved>>

Stop == turn \in {"between", "done"} /\ Over /\ UNCHANGED <<resource, table, within, writes, saved>>

-------------------------------------------------------------------------------
\* The writers.  A page is one statement, so what is written falls between two pages.
Write(i, r) ==
    /\ turn \in {"between", "reading"} /\ writes < MaxWrites
    /\ table' = [table EXCEPT ![i] = r]
    /\ touched' = touched \cup {i} /\ writes' = writes + 1
    /\ UNCHANGED <<resource, within, turn, ask, got, saved>>

Now == 1 + Max({table[i].stamp : i \in There} \cup {0})

Create(i) ==
    /\ i \notin There
    /\ \E l \in Entities \cup {NULL} : 
        Write(i, [id |-> i, link |-> l, stamp |-> Now, label |-> {}, seen |-> TRUE, live |-> TRUE])

Edit(i) ==
    /\ i \in There /\ resource \notin {"activity", "attachment", "member"}
    /\ \E l \in Entities \cup {NULL} : l # table[i].link
        /\ Write(i, [table[i] EXCEPT !.link = l, !.stamp = IF resource \in {"ticket", "document"} THEN Now ELSE @])

Rename(i) ==
    /\ i \in There /\ resource \in {"team", "project", "view"}
    /\ \E n \in Ids : n # table[i].stamp /\ Write(i, [table[i] EXCEPT !.stamp = n])

Hide(i) ==
    /\ i \in There /\ resource \in {"ticket", "document", "comment", "review", "attachment"}
    /\ Write(i, [table[i] EXCEPT !.live = ~@])

Delete(i) ==
    /\ i \in There /\ resource \in {"comment", "review", "attachment", "view", "member"}
    /\ Write(i, Absent)

OutOfReach ==
    /\ within /\ turn \in {"between", "reading"} /\ LooksFirst
    /\ within' = FALSE
    /\ UNCHANGED <<resource, table, reader, writes, saved>>

\* A view is saved only when its configuration has no fault.
Save(c) ==
    /\ turn = "idle" /\ resource = "ticket" /\ saved = NoConfig
    /\ ConfigFaults(c) = {}
    /\ saved' = c
    /\ UNCHANGED <<resource, table, within, reader, writes>>

OpenView ==
    /\ turn = "idle" /\ saved # NoConfig
    /\ ask' = Opened(saved) /\ turn' = "asking" /\ got' = <<>> /\ touched' = {}
    /\ UNCHANGED <<resource, table, within, writes, saved>>

ListsNext ==
    \/ \E request \in Bodies : Ask(request) \/ Continue(request)
    \/ Refused \/ Look \/ RefusedLate \/ ReadPage \/ Damage \/ Stop
    \/ \E i \in Ids : Create(i) \/ Edit(i) \/ Rename(i) \/ Hide(i) \/ Delete(i)
    \/ OutOfReach
    \/ \E c \in Configs : Save(c)
    \/ OpenView

ListsSpec == ListsInit /\ [][ListsNext]_listsVars

-------------------------------------------------------------------------------
(***************************************************************************)
(* What a filter says in words, two-valued: "is not" holds of a row that   *)
(* has nothing there, a comparison does not.                               *)
(***************************************************************************)
Holds(c, r) ==
    LET x == r[c.field]
        set == KindOf[c.field] = "uuid_set"
        has == IF set THEN x ELSE {x} \ {NULL}
    IN  CASE c.op = "is_null" -> has = {}     [] c.op = "is_not_null" -> has # {}
          [] c.op \in {"eq", "in"} -> has \cap ToSet(c.value) # {}
          [] c.op = "neq" -> has \cap ToSet(c.value) = {}
          [] c.op = "gt" -> \E v \in has : v > c.value[1]   [] c.op = "gte" -> \E v \in has : v >= c.value[1]
          [] c.op = "lt" -> \E v \in has : v < c.value[1]   [] c.op = "lte" -> \E v \in has : v <= c.value[1]

\* A group joins what it holds; one that holds nothing keeps every row (compile.go:70).
Means(g, r) ==
    LET means[n \in DOMAIN g] ==
            IF g[n].op = "or" /\ ~Bare(g, n)
            THEN (\E c \in ToSet(g[n].conditions) : Holds(c, r)) \/ (\E m \in Inside(g, n) : means[m])
            ELSE (\A c \in ToSet(g[n].conditions) : Holds(c, r)) /\ (\A m \in Inside(g, n) : means[m])
    IN  means[1]

\* The sort in words: by the first key two rows differ in, those with nothing there last.
Rank(o, x) == IF x = NULL THEN <<1, 0>> ELSE <<0, IF o.desc THEN -x ELSE x>>
Less(a, b) == a[1] < b[1] \/ (a[1] = b[1] /\ a[2] < b[2])
Sooner(orders, r, s) ==
    LET Differ == {n \in DOMAIN orders : r[orders[n].field] # s[orders[n].field]} IN
    IF Differ = {} THEN r.id < s.id
    ELSE \E n \in Differ :
            /\ \A m \in Differ : n <= m
            /\ Less(Rank(orders[n], r[orders[n].field]), Rank(orders[n], s[orders[n].field]))

\* The rows to be read that no write has touched since the reading began.
Still == {i \in There \ touched : Listed(ask, table[i]) /\ Means(ask.filter, table[i])}

(***************************************************************************)
(* The pages add up.  However the table changes between two pages, the     *)
(* rows nothing touched since the reading began come in the order asked    *)
(* for, each once, none left out: what was read of them is the beginning   *)
(* of the sorted list of those that match, and all of it when the last     *)
(* page has been read (sort.go:49 "a cursor into that sequence can skip a  *)
(* row or repeat one", cursor.go:251).  A cursor of another query or a     *)
(* damaged one never continues a reading (plan.go:131).                    *)
(***************************************************************************)
PagesAddUp ==
    turn \in {"between", "done"} =>
        LET read == {n \in DOMAIN got : got[n] \notin touched}
            Came(i) == \E n \in read : got[n] = i
        IN  /\ \A n \in read : got[n] \in Still
            /\ \A m, n \in read : m < n => Sooner(Order, table[got[m]], table[got[n]])
            /\ \A i \in Still : turn = "done" => Came(i)
            /\ \A i \in Still, n \in read : Sooner(Order, table[i], table[got[n]]) => Came(i)

\* A view that could be saved can be opened: "nothing can be saved that the ticket list
\* would refuse" (savedview.go:252).
SavedViewsOpen ==
    saved # NoConfig => Fault(Opened(saved), DefaultSort) = "none"
===============================================================================
