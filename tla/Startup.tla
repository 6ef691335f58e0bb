-------------------------------- MODULE Startup --------------------------------
(***************************************************************************)
(* What runs before a server listens and what operators run beside it:     *)
(* the migration runner (internal/migrate, cmd/migrate), ensureSchema and  *)
(* the start and stop of main.go, the search index (internal/search,       *)
(* cmd/reindex) and the transactions of a serving server that write it.    *)
(*                                                                         *)
(* Several processes, of one release or of two, share one database.  The   *)
(* runner holds a session lock over several transactions; a rebuild is one *)
(* transaction of many statements, each with a snapshot of its own (READ   *)
(* COMMITTED), and so is the write of a source.  A DELETE takes the rows   *)
(* of its snapshot that are still there once it has their locks: what was  *)
(* inserted while it waited stays.                                         *)
(*                                                                         *)
(* Left out: the text of a migration and of a row, the parsing of files,   *)
(* configuration, the rest of what a server does.  Migrations are numbers. *)
(***************************************************************************)
EXTENDS Integers, FiniteSets

CONSTANTS
    Servers,     \* processes of main.go
    Tools,       \* runs of cmd/migrate and cmd/reindex
    Writers,     \* requests that write a source and its row
    Newest,      \* the newest migration each process knows
    IndexFormat, \* the IndexVersion of each server
    AutoApply,   \* the servers started with MIGRATE_ON_STARTUP
    Sources,     \* rows that are indexed, numbered in the order of a rebuild
    MaxText,     \* bound: how often a source is written
    Ids,         \* ids of index rows: a bound on how many there are at once
    MaxStarts,   \* bound: how often a server is started
    Starts       \* the database at the start

Processes == Servers \cup Tools

ASSUME StartupAssumption ==
    /\ Servers \cap Tools = {} /\ Processes \cap Writers = {}
    /\ \A s \in Starts : s.applied \subseteq Nat \ {0}
    /\ Newest \in [Processes -> Nat] /\ IndexFormat \in [Servers -> Nat]
    /\ AutoApply \subseteq Servers
    /\ IsFiniteSet(Sources) /\ Sources = 1 .. Cardinality(Sources) /\ Ids \subseteq Nat

VARIABLES
    applied,   \* schema_migrations
    schema,    \* the migrations whose changes are in the schema
    lock,      \* who holds the runner's advisory lock
    stored,    \* search_index_version
    source,    \* the committed sources: [text, live, kind]
    rows,      \* the committed index rows
    starts,
    at, tx,
    overlap    \* a rebuild has run beside another writer of the index

database == <<applied, schema, lock, stored, source, rows>>
vars == <<applied, schema, lock, stored, source, rows, starts, at, tx, overlap>>

NoTx == [read |-> {}, left |-> 0, seen |-> {}, gone |-> {}, added |-> {}, next |-> 1, text |-> 0,
         source |-> 0, server |-> "", kind |-> "", moved |-> FALSE]

Actors == Processes \cup Writers

Init ==
    /\ \E s \in Starts :
        /\ applied = s.applied /\ schema = s.schema /\ stored = s.stored
        /\ \E kind \in [Sources -> {"ticket", "project"}] :
              source = [i \in Sources |-> [text |-> IF i \in s.sources THEN 1 ELSE 0, live |-> i \in s.sources,
                                           kind |-> kind[i]]]
        /\ rows = {[id |-> i, source |-> i, text |-> 1] : i \in s.sources}
    /\ lock = {} /\ starts = 0 /\ overlap = FALSE
    /\ at = [p \in Actors |-> "down"]
    /\ tx = [p \in Actors |-> NoTx]

Known(p) == 1 .. Newest[p]

Go(p, from, to) == at[p] = from /\ at' = [at EXCEPT ![p] = to]
Stay == UNCHANGED <<applied, schema, lock, stored, source, rows, starts, overlap>>
End(p, to) == at' = [at EXCEPT ![p] = to] /\ tx' = [tx EXCEPT ![p] = NoTx]

-----------------------------------------------------------------------------
(* The migration runner                                                    *)

\* Mutant of LockFree: runners are not serialized.
LockFree_None(p) == p \in Processes

\* pg_advisory_lock, held from withLock to the unlock or the end of the session.
LockFree(p) == lock \subseteq {p}

\* The schema changed under the servers that have looked at it.
Moved(p) == [q \in Actors |-> IF q = p THEN tx[q] ELSE [tx[q] EXCEPT !.moved = at[q] # "down"]]

\* A server starts: config, pool, files.
Start(p) ==
    /\ p \in Servers /\ starts < MaxStarts
    /\ starts' = starts + 1
    /\ Go(p, "down", "started")
    /\ UNCHANGED <<database, tx, overlap>>

\* Mutant of IsAhead: a database that knows more is as good.
IsAhead_Never(p) == p \notin Processes

IsAhead(p) == \E v \in applied : v > Newest[p]

\* Ahead, Pending, Status: lock, read, unlock.
Ahead(p) ==
    /\ LockFree(p) /\ ~IsAhead(p)
    /\ Go(p, "started", "checked")
    /\ tx' = [tx EXCEPT ![p].moved = FALSE]
    /\ Stay

Newer(p) == at[p] = "started" /\ LockFree(p) /\ IsAhead(p) /\ End(p, "down") /\ Stay

UpToDate(p) ==
    /\ p \in Servers \ AutoApply
    /\ LockFree(p) /\ Known(p) \subseteq applied
    /\ Go(p, "checked", "migrated")
    /\ UNCHANGED tx /\ Stay

Pending(p) ==
    /\ at[p] = "checked" /\ p \in Servers \ AutoApply
    /\ LockFree(p) /\ ~(Known(p) \subseteq applied)
    /\ End(p, "down") /\ Stay

\* Up: the lock, and the versions applied, read once.
UpLock(p) ==
    /\ LockFree(p)
    /\ \/ p \in AutoApply /\ Go(p, "checked", "applying")
       \/ p \in Tools /\ Go(p, "down", "applying")
    /\ lock' = {p}
    /\ tx' = [tx EXCEPT ![p].read = applied]
    /\ UNCHANGED <<applied, schema, stored, source, rows, starts, overlap>>

ToApply(p) == Known(p) \ tx[p].read

Oldest(S) == CHOOSE v \in S : \A u \in S : v <= u

\* apply: the statements and the record, in one transaction ...
Apply(p) ==
    LET m == Oldest(ToApply(p))
    IN  /\ at[p] = "applying" /\ ToApply(p) # {}
        /\ m \notin schema
        /\ schema' = schema \cup {m} /\ applied' = applied \cup {m}
        /\ tx' = [Moved(p) EXCEPT ![p].read = @ \cup {m}]
        /\ UNCHANGED <<lock, stored, source, rows, starts, at, overlap>>

\* ... which fails as a whole, and the runner with it ("table already exists").
ApplyFails(p) ==
    /\ at[p] \in {"applying", "undoing"}
    /\ lock' = lock \ {p}
    /\ End(p, "down")
    /\ UNCHANGED <<applied, schema, stored, source, rows, starts, overlap>>

UpDone(p) ==
    /\ at[p] = "applying" /\ ToApply(p) = {}
    /\ lock' = lock \ {p}
    /\ IF p \in Servers THEN Go(p, "applying", "migrated") /\ UNCHANGED tx ELSE End(p, "down")
    /\ UNCHANGED <<applied, schema, stored, source, rows, starts, overlap>>

\* Down, of the n newest that this binary knows.
DownLock(p, n) ==
    /\ p \in Tools /\ LockFree(p)
    /\ Go(p, "down", "undoing")
    /\ lock' = {p}
    /\ tx' = [tx EXCEPT ![p].read = applied, ![p].left = n]
    /\ UNCHANGED <<applied, schema, stored, source, rows, starts, overlap>>

ToUndo(p) == IF tx[p].left = 0 THEN {} ELSE tx[p].read \cap Known(p)

Undo(p) ==
    LET m == CHOOSE v \in ToUndo(p) : \A u \in ToUndo(p) : u <= v
    IN  /\ at[p] = "undoing" /\ ToUndo(p) # {}
        /\ m \in schema
        /\ schema' = schema \ {m} /\ applied' = applied \ {m}
        /\ tx' = [Moved(p) EXCEPT ![p].read = @ \ {m}, ![p].left = @ - 1]
        /\ UNCHANGED <<lock, stored, source, rows, starts, at, overlap>>

DownDone(p) ==
    /\ at[p] = "undoing" /\ ToUndo(p) = {}
    /\ lock' = lock \ {p}
    /\ End(p, "down")
    /\ UNCHANGED <<applied, schema, stored, source, rows, starts, overlap>>

\* Every migration recorded and none run, for a schema built by hand.
Baseline(p) ==
    /\ p \in Tools /\ at[p] = "down"
    /\ LockFree(p) /\ applied = {} /\ schema = Known(p)
    /\ applied' = Known(p)
    /\ tx' = Moved(p)
    /\ UNCHANGED <<schema, lock, stored, source, rows, starts, at, overlap>>

-----------------------------------------------------------------------------
(* The rebuild of the index                                                *)

Rebuilding(p) == p \in Processes /\ at[p] \in {"clearing", "reading", "filling"}
Writing(w) == w \in Writers /\ at[w] \in {"clearing", "indexing"}

\* Rows a transaction has deleted and not committed are locked.
Unlocked(p, S) == \A q \in Actors \ {p} : tx[q].gone \cap S = {}

\* Mutant of Alone: rebuilds at startup do not wait for one another.
Alone_NoLock(p) == p \in Servers

\* The advisory lock of EnsureCurrent; cmd/reindex takes none.
Alone(p) == \A q \in Servers \ {p} : ~Rebuilding(q)

\* The index is of this format: nothing to do.
Current(p) ==
    /\ p \in Servers /\ Alone(p) /\ stored >= IndexFormat[p]
    /\ Go(p, "migrated", "serving")
    /\ UNCHANGED tx /\ Stay

\* DELETE FROM search_index begins, with its snapshot ...
Rebuild(p) ==
    /\ \/ p \in Servers /\ Alone(p) /\ stored < IndexFormat[p] /\ Go(p, "migrated", "clearing")
       \/ p \in Tools /\ Go(p, "down", "clearing")
    /\ tx' = [tx EXCEPT ![p].seen = rows]
    /\ Stay

\* ... and has locked what is left of it.
Clear(p) ==
    /\ Unlocked(p, tx[p].seen)
    /\ Go(p, "clearing", IF p \in Processes THEN "reading" ELSE "indexing")
    /\ tx' = [tx EXCEPT ![p].gone = tx[p].seen \cap rows, ![p].seen = {}]
    /\ Stay

\* One source after the other: its text is read by one statement ...
Read(p) ==
    LET s == tx[p].next
    IN  /\ s \in Sources
        /\ Go(p, "reading", "filling")
        /\ tx' = [tx EXCEPT ![p].text = IF source[s].live THEN source[s].text ELSE 0]
        /\ Stay

Fresh == CHOOSE i \in Ids :
    LET used == {r.id : r \in rows \cup UNION {tx[q].added \cup tx[q].seen : q \in Actors}}
    IN  i \notin used /\ \A j \in Ids \ used : i <= j

Room == Cardinality(rows \cup UNION {tx[q].added \cup tx[q].seen : q \in Actors}) < Cardinality(Ids)

\* The source is locked FOR UPDATE by the request that writes it.
Held(s) == \E w \in Writers : at[w] \in {"locked", "clearing", "indexing"} /\ tx[w].source = s

\* ... and inserted by the next, whose foreign key waits for the source.
Fill(p) ==
    LET s == tx[p].next
    IN  /\ tx[p].text > 0 => ~Held(s) /\ Room
        /\ Go(p, "filling", "reading")
        /\ tx' = [tx EXCEPT ![p].next = @ + 1, ![p].text = 0,
                            ![p].added = @ \cup (IF tx[p].text > 0 THEN {[id |-> Fresh, source |-> s, text |-> tx[p].text]} ELSE {})]
        /\ Stay

\* Another transaction on the index, one of the two a rebuild; not two
\* startups, which wait for one another.
Beside(p) ==
    \E q \in Actors \ {p} :
        /\ Rebuilding(q) \/ Writing(q)
        /\ Rebuilding(p) \/ Rebuilding(q)
        /\ ~({p, q} \subseteq Servers)

Committed(p) == rows' = (rows \ tx[p].gone) \cup tx[p].added

\* The commit, with the version of a startup's rebuild.
RebuildDone(p) ==
    /\ tx[p].next \notin Sources
    /\ at[p] = "reading"
    /\ Committed(p)
    /\ stored' = IF p \in Servers THEN IndexFormat[p] ELSE stored
    /\ overlap' = (overlap \/ Beside(p))
    /\ at' = [at EXCEPT ![p] = IF p \in Servers THEN "serving" ELSE "down"]
    /\ tx' = [tx EXCEPT ![p] = [NoTx EXCEPT !.moved = tx[p].moved]]
    /\ UNCHANGED <<applied, schema, lock, source, starts>>

\* A failure, or a deadlock with a writer: rolled back; a server goes on.
RebuildFails(p) ==
    /\ Rebuilding(p)
    /\ at' = [at EXCEPT ![p] = IF p \in Servers THEN "serving" ELSE "down"]
    /\ tx' = [tx EXCEPT ![p] = [NoTx EXCEPT !.moved = tx[p].moved]]
    /\ Stay

-----------------------------------------------------------------------------
(* The requests of a serving server that write a source and its row        *)

\* The source is locked, once no rebuild holds the key its row refers to, or is
\* new to this transaction only.
Begin(w) ==
    /\ \E p \in Servers, s \in Sources, k \in {"write", "archive"} :
        /\ at[p] = "serving" /\ ~Held(s)
        /\ source[s].text < MaxText
        /\ \A q \in Processes : \A r \in tx[q].added : r.source # s
        /\ k = "archive" => source[s].live
        /\ source[s].kind = "ticket" \/ source[s].text = 0
        /\ tx' = [tx EXCEPT ![w].source = s, ![w].server = p, ![w].kind = k]
    /\ Go(w, "down", "locked")
    /\ Stay

\* ClearTicket begins; a create has nothing to clear.
ClearBegin(w) ==
    /\ Go(w, "locked", "clearing")
    /\ tx' = [tx EXCEPT ![w].seen = {r \in rows : r.source = tx[w].source /\ source[tx[w].source].text > 0}]
    /\ Stay

\* IndexTicket, unless archived, and the commit.
Index(w) ==
    LET s == tx[w].source
        new == [source[s] EXCEPT !.text = @ + 1, !.live = tx[w].kind = "write"]
    IN  /\ at[w] = "indexing" /\ Room
        /\ source' = [source EXCEPT ![s] = new]
        /\ rows' = (rows \ tx[w].gone) \cup (IF new.live THEN {[id |-> Fresh, source |-> s, text |-> new.text]} ELSE {})
        /\ overlap' = (overlap \/ Beside(w))
        /\ End(w, "down")
        /\ UNCHANGED <<applied, schema, lock, stored, starts>>

\* A project's Rename: one statement, which leaves the index alone.
Rename(s) ==
    /\ \E p \in Servers : at[p] = "serving"
    /\ source[s].live /\ source[s].kind # "ticket" /\ source[s].text < MaxText
    /\ source' = [source EXCEPT ![s].text = @ + 1, ![s].kind = "renamed"]
    /\ UNCHANGED <<applied, schema, lock, stored, rows, starts, at, tx, overlap>>

WriteFails(w) == w \in Writers /\ at[w] # "down" /\ End(w, "down") /\ Stay

-----------------------------------------------------------------------------
\* A server is stopped or killed, in the middle of anything; its session ends,
\* and with it the lock and the transactions, those of its requests too.
Stop(p) ==
    LET ended == {p} \cup {w \in Writers : tx[w].server = p}
    IN  /\ p \in Servers /\ at[p] # "down"
        /\ lock' = lock \ {p}
        /\ at' = [q \in Actors |-> IF q \in ended THEN "down" ELSE at[q]]
        /\ tx' = [q \in Actors |-> IF q \in ended THEN NoTx ELSE tx[q]]
        /\ UNCHANGED <<applied, schema, stored, source, rows, starts, overlap>>

Next ==
    \/ \E p \in Processes :
        \/ Start(p) \/ Ahead(p) \/ Newer(p) \/ UpToDate(p) \/ Pending(p)
        \/ UpLock(p) \/ Apply(p) \/ ApplyFails(p) \/ UpDone(p)
        \/ (\E n \in 1 .. 2 : DownLock(p, n)) \/ Undo(p) \/ DownDone(p) \/ Baseline(p)
        \/ Current(p) \/ Rebuild(p) \/ Clear(p) \/ Read(p) \/ Fill(p) \/ RebuildDone(p) \/ RebuildFails(p)
        \/ Stop(p)
    \/ \E w \in Writers : Begin(w) \/ ClearBegin(w) \/ Clear(w) \/ Index(w) \/ WriteFails(w)
    \/ \E s \in Sources : Rename(s)

Spec == Init /\ [][Next]_vars
-----------------------------------------------------------------------------
(* Properties                                                              *)

\* Runners that overlap never try what another has done: the one that waited
\* finds it applied (runner.go:24 "the loser fails with a confusing \"table
\* already exists\" rather than simply waiting").
NoCollision ==
    \A p \in Processes : applied = schema =>
        /\ at[p] = "applying" /\ ToApply(p) # {} => Oldest(ToApply(p)) \notin schema
        /\ at[p] = "undoing" => ToUndo(p) \subseteq schema

\* A server that begins to serve does so on the schema it knows, whole and no
\* newer, unless a runner changed it between its look and then
\* (main.go:125 "Serving against a schema this binary does not match").
ServesItsSchema ==
    [][\A p \in Servers : at[p] # "serving" /\ at'[p] = "serving" => applied = Known(p) \/ tx[p].moved]_vars

OneRowEach(s) ==
    {r.text : r \in {x \in rows : x.source = s}} = (IF source[s].live THEN {source[s].text} ELSE {})
    /\ Cardinality({x \in rows : x.source = s}) <= 1

Renamed(s) == source[s].kind = "renamed"

\* One row for each live source, with the text of now, and none for another:
\* after any mix of writes, failures, stops and starts in which nothing wrote
\* the index beside a rebuild (search.go:83 "it is a pure function of the
\* sources"); but for the name in the one row of a project that was renamed.
IndexFollowsSources ==
    ~overlap => \A s \in Sources :
        IF Renamed(s) THEN Cardinality({r \in rows : r.source = s}) = 1 ELSE OneRowEach(s)

\* A project's row has its name of now (project.go, Create, "so the index cannot
\* lack a project that exists"; index.go:414 "no rename yet").
ProjectsAreFoundByName == ~overlap => \A s \in Sources : Renamed(s) => OneRowEach(s)

\* search.go:84 "If it ever produces a different index than the live path, the
\* live path was wrong".
RebuildAgrees == \A s \in Sources : OneRowEach(s)
===============================================================================
