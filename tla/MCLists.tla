-------------------------------- MODULE MCLists --------------------------------
(* Instances of Lists for TLC: three rows, two of which tie on every default sort. *)
EXTENDS Lists, TLC

MCKindOf == [link |-> "uuid", stamp |-> "time", label |-> "uuid_set"]

Is(f, o, v) == [field |-> f, op |-> o, value |-> v]
Group(o, cs, p) == [op |-> o, conditions |-> cs, parent |-> p]
All(cs) == <<Group("and", cs, 0)>>

NotOne == All(<<Is("link", "neq", <<1>>)>>)
Nested == <<Group("and", <<Is("stamp", "gte", <<1>>)>>, 0),
            Group("or", <<Is("label", "neq", <<1>>), Is("link", "in", <<1, 2>>)>>, 1)>>
One == All(<<Is("link", "eq", <<1>>)>>)
Unset == <<Group("or", <<Is("link", "is_null", <<>>), Is("label", "in", <<1>>), Is("stamp", "lt", <<2>>)>>, 0)>>
Wrong == All(<<Is("stamp", "in", <<1>>)>>)
Empty == <<Group("or", <<>>, 0)>>
Hollow == <<Group("and", <<>>, 0), Group("and", <<>>, 1)>>
Deep == <<Group("and", <<>>, 0), Group("or", <<>>, 1), Group("and", <<Is("link", "eq", <<1>>)>>, 2)>>

By(f, d) == [field |-> f, desc |-> d]
AllSorts == {<<>>, <<By("link", FALSE)>>, <<By("link", TRUE), By("stamp", FALSE)>>, <<By("label", FALSE)>>}

\* The language is one for all lists: the ticket list is asked with most of it.
MCSorts(kind) ==
    CASE kind = "ticket" -> AllSorts [] kind = "team" -> {<<>>, <<By("link", TRUE)>>}
      [] kind = "activity" -> {<<>>, <<By("label", FALSE)>>} [] OTHER -> {<<>>}

MCFilters(kind) ==
    CASE kind = "ticket" -> {Nothing, NotOne, Nested, Unset, Wrong, Empty, Hollow, Deep}
      [] kind \in {"review", "activity"} -> {Nothing, NotOne, One} [] OTHER -> {Nothing, NotOne}

Row(i, l, s, ls, seen, live) == [id |-> i, link |-> l, stamp |-> s, label |-> ls, seen |-> seen, live |-> live]

\* The first two rows tie; the third may be out of sight, archived or absent.
MCTables(kind) ==
    LET Third == CASE kind \in {"ticket", "review"} -> {Row(3, 1, 2, {}, TRUE, TRUE), Row(3, NULL, 1, {1}, TRUE, FALSE)}
                   [] kind \in {"document", "comment", "attachment"} -> {Row(3, 2, 1, {}, TRUE, FALSE)}
                   [] OTHER -> {Row(3, NULL, 2, {}, TRUE, TRUE), Row(3, 1, 1, {}, FALSE, TRUE)}
    IN  {<<Row(1, l, 1, {1}, TRUE, TRUE), Row(2, m, 1, {}, TRUE, TRUE), t, Absent>>
         : l \in {NULL, 2}, m \in {NULL, 1}, t \in Third}

Shown(f, s, g, c) == [layout |-> "list", filter |-> f, sort |-> s, group |-> g, columns |-> c]
MCConfigs == {Shown(f, s, g, <<"link", "stamp">>) : f \in {Nothing, Nested, Wrong}, s \in AllSorts, g \in {NULL, "link", "label"}}
             \cup {Shown(Nothing, <<>>, NULL, <<"link", "link">>), Shown(Nothing, <<>>, "nope", <<"nope">>)}
===============================================================================
