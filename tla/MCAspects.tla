------------------------------- MODULE MCAspects -------------------------------
\* One epic and one label, a sprint, and a ticket that may name each; one type
\* with two fields.
EXTENDS Aspects

CONSTANTS r1, r2
MCSymmetry == Permutations({r1, r2})

MCKindOf == "e" :> "epic" @@ "l" :> "label" @@ "m" :> "label" @@ "s" :> "sprint" @@ "g" :> "milestone" @@ "h" :> "milestone" @@ "f" :> "epic" @@ "q" :> "sprint"
MCRegistry == "sprint.length_days" :> "team" @@ "review.stale_threshold_percent" :> "workspace"

NotYet == [is |-> "unborn", name |-> NoTitle, from |-> NoDay, till |-> NoDay]
There(n) == [NotYet EXCEPT !.is = "there", !.name = n]
MCRows0 == {"e" :> There("x") @@ "l" :> There("x") @@ "m" :> NotYet @@ "s" :> There("x")
             @@ "g" :> There("x") @@ "h" :> NotYet @@ "f" :> NotYet @@ "q" :> NotYet}
MCPoints0 == [Cards -> {{}, {"e", "g", "l", "s"}}]

MCTypes0 == 1 :> [is |-> "there", name |-> <<>>]
            @@ [y \in Types \ {1} |-> [is |-> "unborn", name |-> <<>>]]
MCFields0 == [f \in Fields |-> IF f \in {1, 3} THEN [of |-> 1, position |-> f] ELSE NoField]
MCUses0 == [y \in Types |-> 0]
MCFiles == {[readable |-> TRUE, name |-> <<>>, positions |-> <<2, 1>>],
            [readable |-> FALSE, name |-> <<>>, positions |-> <<>>]}
================================================================================
