----------------------------- MODULE Idempotency -----------------------------
(***************************************************************************)
(* Idempotency-Key, src/internal/idempotency/idempotency.go: Do runs one   *)
(* create at most once per (account, key, operation) and replays it after. *)
(*                                                                         *)
(* Keys do not interact, so the model has one key: one row of the          *)
(* idempotency_key table, and the requests that carry that key.  Each      *)
(* statement is a step of its own, committed by itself (Do runs on the     *)
(* pool, not in a transaction).                                            *)
(*                                                                         *)
(* The constant Faults names what may go wrong beyond a create that fails  *)
(* cleanly, a request that gives up, and a process that dies before its    *)
(* create committed:                                                       *)
(*    "slow"    a create may run for longer than staleAfter                *)
(*    "orphan"  a request may end between its create and record: its       *)
(*              context is cancelled, or its process dies                  *)
(***************************************************************************)
EXTENDS Naturals, FiniteSets

CONSTANTS
    Tries,   \* the calls of Do with this key
    Resources,  \* the ids a create can be given
    NoResource, \* resource_id IS NULL
    NoRow,      \* there is no claim
    Faults      \* see above

ASSUME IdempotencyAssumption ==
    /\ NoResource \notin Resources
    /\ NoRow \notin [by : Tries, res : Resources \cup {NoResource}, stale : BOOLEAN]
    /\ Faults \subseteq {"slow", "orphan"}

VARIABLES
    pc,       \* where each Do stands
    saw,      \* the resource lookup returned to it, or the one it created
    row,      \* the row of idempotency_key; by is history, stale is claimed_at's age
    made,     \* the resources created so far
    deleted   \* those deleted since

keyVars == <<pc, saw, row, made, deleted>>

PCs == {"idle", "claim", "create", "record", "release", "lookup", "load",
        "dropGone", "dropStale", "wait", "done", "failed"}

Rows == [by : Tries, res : Resources \cup {NoResource}, stale : BOOLEAN]

KeyTypeOK ==
    /\ pc \in [Tries -> PCs]
    /\ saw \in [Tries -> Resources \cup {NoResource}]
    /\ row \in Rows \cup {NoRow}
    /\ made \in SUBSET Resources
    /\ deleted \in SUBSET Resources

KeyInit ==
    /\ pc = [r \in Tries |-> "idle"]
    /\ saw = [r \in Tries |-> NoResource]
    /\ row = NoRow
    /\ made = {}
    /\ deleted = {}

Turn(r, from, to) ==
    /\ pc[r] = from
    /\ pc' = [pc EXCEPT ![r] = to]

Begin(r) ==
    /\ Turn(r, "idle", "claim")
    /\ UNCHANGED <<saw, row, made, deleted>>

\* Mutant of Claim: ON CONFLICT DO UPDATE, so that every claim succeeds.
Claim_Overwrites(r) ==
    /\ Turn(r, "claim", "create")
    /\ row' = [by |-> r, res |-> NoResource, stale |-> FALSE]
    /\ UNCHANGED <<saw, made, deleted>>

\* INSERT ... ON CONFLICT DO NOTHING.
Claim(r) ==
    /\ IF row = NoRow
       THEN /\ Turn(r, "claim", "create")
            /\ row' = [by |-> r, res |-> NoResource, stale |-> FALSE]
       ELSE /\ Turn(r, "claim", "lookup")
            /\ UNCHANGED row
    /\ UNCHANGED <<saw, made, deleted>>

\* The create commits.  Its id is new.
MakeOne(r) ==
    /\ Turn(r, "create", "record")
    /\ \E i \in Resources \ made :
          /\ made' = made \cup {i}
          /\ saw' = [saw EXCEPT ![r] = i]
    /\ UNCHANGED <<row, deleted>>

MakeFails(r) ==
    /\ Turn(r, "create", "release")
    /\ UNCHANGED <<saw, row, made, deleted>>

\* DELETE ... WHERE resource_id IS NULL: the claim, whoever made it.
Release(r) ==
    /\ Turn(r, "release", "failed")
    /\ row' = IF row # NoRow /\ row.res = NoResource THEN NoRow ELSE row
    /\ UNCHANGED <<saw, made, deleted>>

\* UPDATE ... SET resource_id: no row, or another's claim, is no error.
Record(r) ==
    /\ Turn(r, "record", "done")
    /\ row' = IF row = NoRow THEN NoRow ELSE [row EXCEPT !.res = saw[r]]
    /\ UNCHANGED <<saw, made, deleted>>

\* Mutant of Lookup: stale is never true.
Lookup_NeverStale(r) ==
    /\ IF row # NoRow /\ row.res # NoResource
       THEN Turn(r, "lookup", "load") /\ saw' = [saw EXCEPT ![r] = row.res]
       ELSE Turn(r, "lookup", "wait") /\ UNCHANGED saw
    /\ UNCHANGED <<row, made, deleted>>

\* One snapshot: no row reads as in flight; stale only while there is no resource.
Lookup(r) ==
    /\ \/ /\ row = NoRow
          /\ Turn(r, "lookup", "wait")
          /\ UNCHANGED saw
       \/ /\ row # NoRow
          /\ row.res # NoResource
          /\ Turn(r, "lookup", "load")
          /\ saw' = [saw EXCEPT ![r] = row.res]
       \/ /\ row # NoRow
          /\ row.res = NoResource
          /\ Turn(r, "lookup", IF row.stale THEN "dropStale" ELSE "wait")
          /\ UNCHANGED saw
    /\ UNCHANGED <<row, made, deleted>>

\* load: a replay, or the error gone.
Load(r) ==
    /\ Turn(r, "load", IF saw[r] \in deleted THEN "dropGone" ELSE "done")
    /\ UNCHANGED <<saw, row, made, deleted>>

\* Mutant of DropGone: deletes the row by its key alone.
DropGone_ByKey(r) ==
    /\ Turn(r, "dropGone", "claim")
    /\ row' = NoRow
    /\ UNCHANGED <<saw, made, deleted>>

\* drop(id): the row that points at the resource this request found gone.
DropGone(r) ==
    /\ Turn(r, "dropGone", "claim")
    /\ row' = IF row # NoRow /\ row.res = saw[r] THEN NoRow ELSE row
    /\ UNCHANGED <<saw, made, deleted>>

\* Mutant of DropStale: does not look at claimed_at again.
DropStale_AnyClaim(r) ==
    /\ Turn(r, "dropStale", "claim")
    /\ row' = IF row # NoRow /\ row.res = NoResource THEN NoRow ELSE row
    /\ UNCHANGED <<saw, made, deleted>>

\* drop(""): a claim that is still stale when the statement runs.
DropStale(r) ==
    /\ Turn(r, "dropStale", "claim")
    /\ row' = IF row # NoRow /\ row.res = NoResource /\ row.stale THEN NoRow ELSE row
    /\ UNCHANGED <<saw, made, deleted>>

\* time.After(pollEvery).
Poll(r) ==
    /\ Turn(r, "wait", "claim")
    /\ UNCHANGED <<saw, row, made, deleted>>

\* A statement fails, the context ends or the process dies.  In "create" it is
\* the death of the process, the transaction rolled back; in "release" it is the
\* 5 seconds running out.  Both leave the claim behind.  In "record" it leaves a
\* resource the key does not point at: the context is the request's own.
GiveUp(r) ==
    /\ pc[r] \in {"claim", "create", "release", "lookup", "load", "dropGone", "dropStale", "wait"}
              \cup (IF "orphan" \in Faults THEN {"record"} ELSE {})
    /\ pc' = [pc EXCEPT ![r] = "failed"]
    /\ UNCHANGED <<saw, row, made, deleted>>

\* staleAfter passes.  While the request that made the claim still works on it
\* that takes a create slower than 30 seconds.
Age ==
    /\ row # NoRow
    /\ row.res = NoResource
    /\ ~row.stale
    /\ "slow" \in Faults \/ pc[row.by] \notin {"create", "record", "release"}
    /\ row' = [row EXCEPT !.stale = TRUE]
    /\ UNCHANGED <<pc, saw, made, deleted>>

\* Someone deletes the resource.
DeleteOne(i) ==
    /\ i \in made \ deleted
    /\ deleted' = deleted \cup {i}
    /\ UNCHANGED <<pc, saw, row, made>>

Do(r) ==
    \/ Claim(r) \/ MakeOne(r) \/ MakeFails(r) \/ Release(r) \/ Record(r)
    \/ Lookup(r) \/ Load(r) \/ DropGone(r) \/ DropStale(r) \/ Poll(r)

KeyNext ==
    \/ \E r \in Tries : Begin(r) \/ Do(r) \/ GiveUp(r)
    \/ \E i \in Resources : DeleteOne(i)
    \/ Age

KeySpec == KeyInit /\ [][KeyNext]_keyVars

\* Every statement returns (the pool's connections time out), and time passes.
FairKeySpec == KeySpec /\ WF_keyVars(Age) /\ \A r \in Tries : WF_keyVars(Do(r))

-----------------------------------------------------------------------------

Live == made \ deleted

\* "Do runs one create at most once per (account, key, operation)", a deleted
\* resource freeing the key: never two resources of one key at once, through any
\* mix of failed creates, takeovers of dead claims, deletions and replays.
AtMostOnce == \A i, j \in Live : i = j

\* "There is no check-then-insert": of all the requests with the key, one at most
\* is anywhere between winning the claim and recording or releasing it.
OneHolder ==
    \A q, r \in Tries :
        {pc[q], pc[r]} \subseteq {"create", "record", "release"} => q = r

\* "Replay after": whenever a resource of the key is live and its request is past
\* recording it, the row points at it, so that the next retry finds it.
RetryFindsIt ==
    Live # {} /\ (\A r \in Tries : pc[r] # "record") => row # NoRow /\ row.res \in Live

\* "Conditional, so two requests dropping the same row cannot drop a fresh claim",
\* and release deletes only its own: a claim that disappears was released by its
\* own request, had gone stale, or pointed at a deleted resource.
ClaimsAreNotStolen ==
    [][row # NoRow /\ row' = NoRow =>
          \/ row.res \in deleted
          \/ row.res = NoResource /\ row.stale
          \/ row.res = NoResource /\ pc[row.by] = "release"]_keyVars

\* A request that gave up before its create ran, and a create that failed, do not
\* block the key: every request that began and does not give up ends with an answer.
EveryRequestEnds ==
    \A r \in Tries : pc[r] = "claim" ~> pc[r] \in {"done", "failed"}

=============================================================================
