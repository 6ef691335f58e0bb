------------------------------ MODULE MCDocuments ------------------------------
(* Instances of Documents for TLC: two fields, texts of two letters.       *)
EXTENDS Documents, TLC

CONSTANTS r1, r2, r3

MCFields == <<"f1", "f2">>
MCRegions == {<<1, 2>>}

AB == <<"a", "b">>
AC == <<"a", "c">>

Text(k, t) == [x \in {k} |-> t]
Empty == [x \in {} |-> <<>>]

\* Two texts, a conversion that carries the text, one that fills the first
\* field itself, one that names a field, an aspect body.
MCContents == {
    [type |-> "normal", body |-> Text("content", AB)],
    [type |-> "normal", body |-> Text("content", AC)],
    [type |-> "aspect", body |-> Empty],
    [type |-> "aspect", body |-> Text("f1", AB)],
    [type |-> "aspect", body |-> Text("f2", AC)]}

Document(type, body) == [live |-> TRUE, type |-> type, body |-> body, version |-> 2]
Row(k, status, anchor) ==
    [Unborn EXCEPT !.life = "there", !.review = TRUE, !.field = k, !.region = <<1, 2>>, !.status = status, !.anchor = anchor]

\* No document yet; a request made on "ab" that waits on "ac"; an approval of
\* the content; an approval of a field.
MCStarts == {
    [doc |-> [live |-> FALSE, type |-> "normal", body |-> Empty, version |-> 0], comment |-> <<>>],
    [doc |-> Document("normal", Text("content", AC)), comment |-> 1 :> Row("content", "pending", <<"b">>)],
    [doc |-> Document("normal", Text("content", AB)), comment |-> 1 :> Row("content", "approved", <<"b">>)],
    [doc |-> Document("aspect", Text("f1", AB)), comment |-> 1 :> Row("f1", "approved", <<"b">>)]}

MCComments == {1, 2}
MCKeys == {"k"}
MCSymmetry == Permutations({r1, r2, r3})
===============================================================================
