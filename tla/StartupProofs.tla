----------------------------- MODULE StartupProofs -----------------------------
(***************************************************************************)
(* Theorems about Startup, for any number of processes, releases and       *)
(* migrations: no runner collides with another, no server begins on a      *)
(* schema it does not know, unless it changed after the server looked, and *)
(* the search index says of every source what it is.                       *)
(***************************************************************************)
EXTENDS Startup, TLAPS, WellFoundedInduction, FiniteSetTheorems

Fields == {"read", "left", "seen", "gone", "added", "next", "text", "source", "server", "kind", "moved"}

\* The records have the fields the steps look at.
Shape ==
    /\ DOMAIN at = Actors /\ DOMAIN tx = Actors
    /\ \A p \in Actors : DOMAIN tx[p] = Fields

Running == {"applying", "undoing"}

\* A runner that works has the lock alone, and its idea of what is applied is
\* the truth, for as long as it works.
LockInv ==
    /\ applied \subseteq Nat \ {0}
    /\ \A p \in Actors : at[p] \in Running => lock = {p} /\ tx[p].read = applied

\* Where a server is that has looked at the schema, and where one that has found
\* it as it should be.
Early == {"checked", "applying"}
Late == {"migrated", "clearing", "reading", "filling"}

\* What a server knows of a schema that has not moved since it looked.
SeenInv ==
    \A p \in Servers : ~tx[p].moved =>
        /\ at[p] \in Early => ~IsAhead(p)
        /\ at[p] \in Late => applied = Known(p)

-----------------------------------------------------------------------------
(* Sets of versions                                                        *)

\* A set of naturals has a least member.
LEMMA Least ==
  ASSUME NEW S, S \subseteq Nat, S # {}
  PROVE  \E m \in S : \A u \in S : m <= u
<1> DEFINE Before == {ss \in Nat \X Nat : ss[1] < ss[2]}
<1>1. IsWellFoundedOn(Before, Nat)
  BY NatLessThanWellFounded DEF OpToRel
<1>2. \A u, n \in Nat : u < n => <<u, n>> \in Before
  OBVIOUS
<1> HIDE DEF Before
<1>3. PICK m \in S : \A u \in S : ~ (<<u, m>> \in Before)
  BY <1>1, WFMin
<1>4. \A u \in S : u \in Nat /\ m \in Nat /\ ~(u < m)
  BY <1>2, <1>3
<1>5. QED BY <1>4

\* The migration a runner applies next is one it has to apply.
LEMMA OldestIsOne ==
  ASSUME NEW S, S \subseteq Nat, S # {}
  PROVE  Oldest(S) \in S
BY Least DEF Oldest

\* The migrations a process knows are numbered from one.
LEMMA KnownVersions ==
  ASSUME NEW p \in Processes
  PROVE  /\ Newest[p] \in Nat /\ Known(p) \subseteq Nat \ {0}
         /\ \A v \in Nat \ {0} : v \in Known(p) <=> ~(v > Newest[p])
<1>1. Newest[p] \in Nat
  BY StartupAssumption
<1>2. QED BY <1>1 DEF Known

-----------------------------------------------------------------------------
(* The start                                                               *)

LEMMA InitInv == Init => Shape /\ LockInv /\ SeenInv
<1> SUFFICES ASSUME Init PROVE Shape /\ LockInv /\ SeenInv
  OBVIOUS
<1>1. Shape
  BY DEF Init, Shape, NoTx, Fields
<1>2. applied \subseteq Nat \ {0}
  BY StartupAssumption DEF Init
<1>3. \A p \in Actors : at[p] = "down"
  BY DEF Init
<1>4. QED BY <1>1, <1>2, <1>3 DEF LockInv, SeenInv, Running, Early, Late, Actors, Processes

-----------------------------------------------------------------------------
(* Frames                                                                  *)

\* The end of what an actor does leaves it with nothing, and the others alone.
LEMMA EndFacts ==
  ASSUME Shape, NEW p \in Actors, NEW s, End(p, s)
  PROVE  /\ at'[p] = s /\ tx'[p] = NoTx
         /\ \A q \in Actors \ {p} : at'[q] = at[q] /\ tx'[q] = tx[q]
         /\ DOMAIN at' = Actors /\ DOMAIN tx' = Actors
BY DEF End, Shape

LEMMA NoTxFields == DOMAIN NoTx = Fields /\ ~NoTx.moved /\ NoTx.added = {} /\ NoTx.next = 1
BY DEF NoTx, Fields

LEMMA LockKept ==
  ASSUME LockInv, UNCHANGED <<applied, lock>>,
         \A p \in Actors : at'[p] \in Running => at[p] \in Running /\ tx'[p].read = tx[p].read
  PROVE  LockInv'
BY DEF LockInv, Running

\* A runner that ends takes the lock with it and leaves the others without one.
LEMMA LockFreed ==
  ASSUME LockInv, UNCHANGED applied, NEW p \in Actors,
         lock' = lock \ {p}, at'[p] \notin Running,
         \A q \in Actors \ {p} : at'[q] \in Running => at[q] \in Running /\ tx'[q].read = tx[q].read
  PROVE  LockInv'
<1>1. ASSUME NEW q \in Actors, at'[q] \in Running
      PROVE  lock' = {q} /\ tx'[q].read = applied'
  <2>1. q # p /\ at[q] \in Running /\ tx'[q].read = tx[q].read
    BY <1>1
  <2>2. lock = {q} /\ tx[q].read = applied
    BY <2>1 DEF LockInv
  <2>3. QED BY <2>1, <2>2
<1>2. QED BY <1>1 DEF LockInv

\* A runner that takes the lock is the only one.
LEMMA LockTaken ==
  ASSUME LockInv, NEW p \in Actors, LockFree(p), at[p] \notin Running
  PROVE  \A q \in Actors : at[q] \notin Running
BY DEF LockInv, LockFree

LEMMA SeenKept ==
  ASSUME SeenInv, UNCHANGED applied,
         \A p \in Servers : /\ at'[p] \in Early => at[p] \in Early /\ tx'[p].moved = tx[p].moved
                            /\ at'[p] \in Late => at[p] \in Late /\ tx'[p].moved = tx[p].moved
  PROVE  SeenInv'
BY DEF SeenInv, IsAhead

\* When the schema moves, every other server that is up has seen the old one.
LEMMA SeenMoved ==
  ASSUME Shape, NEW p \in Actors, NEW q \in Actors \ {p}
  PROVE  Moved(p)[q].moved = (at[q] # "down") /\ Moved(p)[q].read = tx[q].read
BY DEF Moved, Shape, Fields

-----------------------------------------------------------------------------
(* Steps                                                                   *)

LEMMA ShapeNext == Shape /\ [Next]_vars => Shape'
<1> SUFFICES ASSUME Shape, [Next]_vars PROVE Shape'
  OBVIOUS
<1>1. CASE UNCHANGED vars
  BY <1>1 DEF Shape, vars
<1>2. ASSUME NEW p \in Actors, NEW s, End(p, s)
      PROVE  Shape'
  BY <1>2, EndFacts, NoTxFields DEF Shape
<1>3. ASSUME NEW p \in Processes,
             Newer(p) \/ Pending(p) \/ ApplyFails(p) \/ DownDone(p)
      PROVE  Shape'
  BY <1>2, <1>3 DEF Newer, Pending, ApplyFails, DownDone, Actors
<1>4. ASSUME NEW p \in Processes, UpDone(p)
      PROVE  Shape'
  BY <1>2, <1>4 DEF UpDone, Actors, Go, Shape
<1>5. ASSUME NEW p \in Processes,
             Start(p) \/ Ahead(p) \/ UpToDate(p) \/ UpLock(p) \/ (\E n \in 1 .. 2 : DownLock(p, n))
      PROVE  Shape'
  BY <1>5 DEF Start, Ahead, UpToDate, UpLock, DownLock, Stay, Go, Shape, Fields
<1>6. ASSUME NEW p \in Processes, Apply(p) \/ Undo(p) \/ Baseline(p)
      PROVE  Shape'
  <2>1. DOMAIN Moved(p) = Actors /\ \A q \in Actors : DOMAIN Moved(p)[q] = Fields
    BY DEF Moved, Shape, Fields
  <2>2. UNCHANGED at
    BY <1>6 DEF Apply, Undo, Baseline
  <2>3. DOMAIN tx' = Actors /\ \A q \in Actors : DOMAIN tx'[q] = Fields
    BY <1>6, <2>1 DEF Apply, Undo, Baseline
  <2>4. QED BY <2>2, <2>3 DEF Shape
<1>7. ASSUME NEW p \in Actors, Current(p) \/ Rebuild(p) \/ Clear(p) \/ Read(p) \/ Fill(p)
      PROVE  Shape'
  BY <1>7 DEF Current, Rebuild, Clear, Read, Fill, Stay, Go, Shape, Fields
<1>8. ASSUME NEW p \in Processes, RebuildDone(p) \/ RebuildFails(p)
      PROVE  Shape'
  <2>1. DOMAIN [NoTx EXCEPT !.moved = tx[p].moved] = Fields
    BY NoTxFields
  <2>2. QED BY <1>8, <2>1 DEF RebuildDone, RebuildFails, Shape
<1>9. ASSUME NEW p \in Processes, Stop(p)
      PROVE  Shape'
  BY <1>9, NoTxFields DEF Stop, Shape
<1>10. ASSUME NEW w \in Writers, Begin(w) \/ ClearBegin(w)
       PROVE  Shape'
  BY <1>10 DEF Begin, ClearBegin, Stay, Go, Shape, Fields
<1>11. ASSUME NEW w \in Writers, Index(w) \/ WriteFails(w)
       PROVE  Shape'
  BY <1>2, <1>11 DEF Index, WriteFails, Actors
<1>12. ASSUME NEW s \in Sources, Rename(s)
       PROVE  Shape'
  BY <1>12 DEF Rename, Shape
<1>13. QED BY <1>1, <1>3, <1>4, <1>5, <1>6, <1>7, <1>8, <1>9, <1>10, <1>11, <1>12 DEF Next, Actors

\* The steps that end a runner, of their own or by a stop.
LEMMA LockNext == Shape /\ LockInv /\ [Next]_vars => LockInv'
<1> SUFFICES ASSUME Shape, LockInv, [Next]_vars PROVE LockInv'
  OBVIOUS
<1>1. CASE UNCHANGED vars
  BY <1>1, LockKept DEF vars
<1>2. ASSUME NEW p \in Processes, ApplyFails(p) \/ UpDone(p) \/ DownDone(p) \/ Stop(p)
      PROVE  LockInv'
  <2>1. p \in Actors /\ UNCHANGED applied /\ lock' = lock \ {p}
    BY <1>2 DEF ApplyFails, UpDone, DownDone, Stop, Actors
  <2>2. at'[p] \in {"down", "migrated"}
    BY <1>2, <2>1, EndFacts DEF ApplyFails, UpDone, DownDone, Stop, Go, Shape
  <2>3. \A q \in Actors \ {p} : at'[q] = "down" \/ (at'[q] = at[q] /\ tx'[q] = tx[q])
    <3>1. CASE ApplyFails(p) \/ DownDone(p)
      BY <2>1, <3>1, EndFacts DEF ApplyFails, DownDone
    <3>2. CASE UpDone(p)
      BY <2>1, <3>2, EndFacts DEF UpDone, Go, Shape
    <3>3. CASE Stop(p)
      BY <3>3 DEF Stop
    <3>4. QED BY <1>2, <3>1, <3>2, <3>3
  <2>4. QED BY <2>1, <2>2, <2>3, LockFreed DEF Running
<1>3. ASSUME NEW p \in Actors, NEW s, End(p, s), s \notin Running, UNCHANGED <<applied, lock>>
      PROVE  LockInv'
  BY <1>3, EndFacts, LockKept
<1>4. ASSUME NEW p \in Actors,
             Newer(p) \/ Pending(p) \/ Index(p) \/ WriteFails(p)
      PROVE  LockInv'
  BY <1>3, <1>4 DEF Newer, Pending, Index, WriteFails, Stay, Running
<1>5. ASSUME NEW p \in Actors,
             \/ Start(p) \/ Ahead(p) \/ UpToDate(p) \/ Current(p) \/ Rebuild(p) \/ Clear(p)
             \/ Read(p) \/ Fill(p) \/ Begin(p) \/ ClearBegin(p)
      PROVE  LockInv'
  <2>1. PICK s : at' = [at EXCEPT ![p] = s] /\ s \notin Running
    <3>1. CASE Start(p) \/ Ahead(p) \/ UpToDate(p) \/ Current(p)
      BY <3>1 DEF Start, Ahead, UpToDate, Current, Go, Running
    <3>2. CASE Rebuild(p) \/ Read(p) \/ Fill(p) \/ Begin(p) \/ ClearBegin(p)
      BY <3>2 DEF Rebuild, Read, Fill, Begin, ClearBegin, Go, Running
    <3>3. CASE Clear(p)
      <4>1. \E s \in {"reading", "indexing"} : at' = [at EXCEPT ![p] = s]
        BY <3>3 DEF Clear, Go
      <4>2. QED BY <4>1 DEF Running
    <3>4. QED BY <1>5, <3>1, <3>2, <3>3
  <2>2. UNCHANGED <<applied, lock>>
    BY <1>5 DEF Start, Ahead, UpToDate, Current, Rebuild, Clear, Read, Fill, Begin, ClearBegin, Stay, database
  <2>3. \A q \in Actors \ {p} : tx'[q] = tx[q]
    BY <1>5 DEF Start, Ahead, UpToDate, Current, Rebuild, Clear, Read, Fill, Begin, ClearBegin, Shape
  <2>4. QED BY <2>1, <2>2, <2>3, LockKept DEF Shape
<1>6. ASSUME NEW p \in Processes, RebuildDone(p) \/ RebuildFails(p)
      PROVE  LockInv'
  <2>1. PICK s : at' = [at EXCEPT ![p] = s] /\ s \notin Running
    BY <1>6 DEF RebuildDone, RebuildFails, Running
  <2>2. UNCHANGED <<applied, lock>>
    BY <1>6 DEF RebuildDone, RebuildFails, Stay
  <2>3. \A q \in Actors \ {p} : tx'[q] = tx[q]
    BY <1>6 DEF RebuildDone, RebuildFails, Shape
  <2>4. QED BY <2>1, <2>2, <2>3, LockKept DEF Shape, Actors
<1>7. ASSUME NEW p \in Processes, UpLock(p) \/ (\E n \in 1 .. 2 : DownLock(p, n))
      PROVE  LockInv'
  <2>1. p \in Actors /\ LockFree(p) /\ at[p] \notin Running /\ lock' = {p} /\ UNCHANGED applied
    BY <1>7 DEF UpLock, DownLock, Go, Running, Actors
  <2>2. \A q \in Actors \ {p} : at'[q] = at[q]
    BY <1>7 DEF UpLock, DownLock, Go, Shape
  <2>3. tx'[p].read = applied
    BY <1>7, <2>1 DEF UpLock, DownLock, Shape, Fields
  <2>4. \A q \in Actors \ {p} : at'[q] \notin Running
    BY <2>1, <2>2, LockTaken
  <2>5. QED BY <2>1, <2>3, <2>4 DEF LockInv
<1>8. ASSUME NEW p \in Processes, Apply(p) \/ Undo(p)
      PROVE  LockInv'
  <2>1. p \in Actors /\ at[p] \in Running /\ UNCHANGED <<at, lock>>
    BY <1>8 DEF Apply, Undo, Running, Actors
  <2>2. lock = {p} /\ tx[p].read = applied
    BY <2>1 DEF LockInv
  <2>3. \A q \in Actors : at'[q] \in Running => q = p
    BY <2>1, <2>2 DEF LockInv
  <2>4. Moved(p)[p] = tx[p] /\ DOMAIN Moved(p) = Actors
    BY <2>1 DEF Moved
  <2>5. CASE Apply(p)
    <3> DEFINE m == Oldest(ToApply(p))
    <3>1. m \in Known(p)
      BY <2>5, OldestIsOne, KnownVersions DEF Apply, ToApply
    <3>2. applied' = applied \cup {m} /\ tx' = [Moved(p) EXCEPT ![p].read = @ \cup {m}]
      BY <2>5 DEF Apply
    <3> HIDE DEF m
    <3>3. tx'[p].read = applied \cup {m}
      BY <2>1, <2>2, <2>4, <3>2 DEF Shape, Fields
    <3>4. applied' \subseteq Nat \ {0}
      BY <3>1, <3>2, KnownVersions DEF LockInv
    <3>5. QED BY <2>1, <2>2, <2>3, <3>2, <3>3, <3>4 DEF LockInv
  <2>6. CASE Undo(p)
    <3>1. PICK m : applied' = applied \ {m} /\ tx' = [Moved(p) EXCEPT ![p].read = @ \ {m}, ![p].left = @ - 1]
      BY <2>6 DEF Undo
    <3>2. tx'[p].read = applied \ {m}
      BY <2>1, <2>2, <2>4, <3>1 DEF Shape, Fields
    <3>3. applied' \subseteq Nat \ {0}
      BY <3>1 DEF LockInv
    <3>4. QED BY <2>1, <2>2, <2>3, <3>1, <3>2, <3>3 DEF LockInv
  <2>7. QED BY <1>8, <2>5, <2>6
<1>9. ASSUME NEW p \in Processes, Baseline(p)
      PROVE  LockInv'
  <2>1. p \in Actors /\ LockFree(p) /\ at[p] \notin Running /\ UNCHANGED at
    BY <1>9 DEF Baseline, Running, Actors
  <2>2. \A q \in Actors : at'[q] \notin Running
    BY <2>1, LockTaken
  <2>3. applied' \subseteq Nat \ {0}
    BY <1>9, KnownVersions DEF Baseline
  <2>4. QED BY <2>2, <2>3 DEF LockInv
<1>10. ASSUME NEW s \in Sources, Rename(s)
       PROVE  LockInv'
  BY <1>10, LockKept DEF Rename
<1>11. QED BY <1>1, <1>2, <1>4, <1>5, <1>6, <1>7, <1>8, <1>9, <1>10 DEF Next, Actors

\* Nobody who is not a server, and no step but a look or a migration, changes
\* what a server knows.
LEMMA SeenNext == Shape /\ LockInv /\ SeenInv /\ [Next]_vars => SeenInv'
<1> SUFFICES ASSUME Shape, LockInv, SeenInv, [Next]_vars PROVE SeenInv'
  OBVIOUS
<1> Servers \subseteq Actors
  BY DEF Actors, Processes
<1>1. CASE UNCHANGED vars
  BY <1>1, SeenKept DEF vars
<1>2. ASSUME NEW p \in Actors, NEW s, End(p, s), s \notin Early \cup Late, UNCHANGED applied
      PROVE  SeenInv'
  BY <1>2, EndFacts, SeenKept
<1>3. ASSUME NEW p \in Actors,
             \/ Newer(p) \/ Pending(p) \/ ApplyFails(p) \/ DownDone(p)
             \/ Index(p) \/ WriteFails(p)
      PROVE  SeenInv'
  BY <1>2, <1>3 DEF Newer, Pending, ApplyFails, DownDone, Index, WriteFails, Stay, Early, Late
<1>4. ASSUME NEW p \in Processes, Stop(p)
      PROVE  SeenInv'
  <2>1. \A q \in Servers : at'[q] = "down" \/ (at'[q] = at[q] /\ tx'[q] = tx[q])
    BY <1>4 DEF Stop
  <2>2. UNCHANGED applied
    BY <1>4 DEF Stop
  <2>3. QED BY <2>1, <2>2, SeenKept DEF Early, Late
<1>5. ASSUME NEW p \in Actors, UNCHANGED applied,
             \A q \in Actors \ {p} : at'[q] = at[q] /\ tx'[q].moved = tx[q].moved,
             p \in Servers => /\ at'[p] \in Early => at[p] \in Early /\ tx'[p].moved = tx[p].moved
                              /\ at'[p] \in Late => at[p] \in Late /\ tx'[p].moved = tx[p].moved
      PROVE  SeenInv'
  BY <1>5, SeenKept
<1>6. ASSUME NEW p \in Actors, Start(p) \/ (p \in Writers /\ (Begin(p) \/ ClearBegin(p)))
      PROVE  SeenInv'
  <2>1. UNCHANGED applied /\ \A q \in Actors \ {p} : at'[q] = at[q] /\ tx'[q].moved = tx[q].moved
    BY <1>6 DEF Start, Begin, ClearBegin, Stay, Go, database, Shape
  <2>2. CASE Start(p)
    <3>1. at'[p] = "started"
      BY <2>2 DEF Start, Go, Shape
    <3>2. QED BY <1>5, <2>1, <3>1 DEF Early, Late
  <2>3. CASE p \in Writers
    BY <1>5, <2>1, <2>3, StartupAssumption DEF Processes
  <2>4. QED BY <1>6, <2>2, <2>3
<1>7. ASSUME NEW p \in Servers, Current(p) \/ Rebuild(p) \/ Clear(p) \/ Read(p) \/ Fill(p)
      PROVE  SeenInv'
  <2>1. PICK s \in {"serving", "clearing", "reading", "indexing", "filling"} : at' = [at EXCEPT ![p] = s]
    BY <1>7 DEF Current, Rebuild, Clear, Read, Fill, Go
  <2>2. at[p] \in Late
    BY <1>7, StartupAssumption DEF Current, Rebuild, Clear, Read, Fill, Go, Late
  <2>3. UNCHANGED applied
    BY <1>7 DEF Current, Rebuild, Clear, Read, Fill, Stay
  <2>4. \A q \in Actors : tx'[q].moved = tx[q].moved
    BY <1>7 DEF Current, Rebuild, Clear, Read, Fill, Shape, Fields
  <2>5. QED BY <1>5, <2>1, <2>2, <2>3, <2>4 DEF Shape, Early, Late
<1>8. ASSUME NEW p \in Actors \ Servers, Rebuild(p) \/ Clear(p) \/ Read(p) \/ Fill(p)
      PROVE  SeenInv'
  <2>1. UNCHANGED applied /\ \A q \in Actors \ {p} : at'[q] = at[q] /\ tx'[q].moved = tx[q].moved
    BY <1>8 DEF Rebuild, Clear, Read, Fill, Stay, Go, Shape
  <2>2. QED BY <1>5, <2>1
<1>9. ASSUME NEW p \in Processes, RebuildDone(p) \/ RebuildFails(p)
      PROVE  SeenInv'
  <2>1. UNCHANGED applied /\ \A q \in Actors \ {p} : at'[q] = at[q] /\ tx'[q].moved = tx[q].moved
    BY <1>9 DEF RebuildDone, RebuildFails, Stay, Shape
  <2>2. p \in Servers => at'[p] = "serving"
    BY <1>9 DEF RebuildDone, RebuildFails, Shape
  <2>3. QED BY <1>5, <2>1, <2>2 DEF Early, Late, Actors
<1>10. ASSUME NEW p \in Processes, Ahead(p)
       PROVE  SeenInv'
  <2>1. /\ UNCHANGED applied /\ at'[p] = "checked"
        /\ \A q \in Actors \ {p} : at'[q] = at[q] /\ tx'[q] = tx[q]
    BY <1>10 DEF Ahead, Stay, Go, Shape, Actors
  <2>2. ~IsAhead(p) /\ ~IsAhead(p)'
    BY <1>10, <2>1 DEF Ahead, IsAhead
  <2>3. QED BY <2>1, <2>2 DEF SeenInv, Early, Late, IsAhead, Known
<1>11. ASSUME NEW p \in Processes, at[p] \in Early, ~tx[p].moved, p \in Servers, Known(p) \subseteq applied
       PROVE  applied = Known(p)
  <2>1. ~IsAhead(p)
    BY <1>11 DEF SeenInv
  <2>2. \A v \in applied : v \in Known(p)
    BY <2>1, KnownVersions DEF IsAhead, LockInv
  <2>3. QED BY <1>11, <2>2
<1>12. ASSUME NEW p \in Processes, UpToDate(p)
       PROVE  SeenInv'
  <2>1. /\ p \in Servers /\ UNCHANGED <<applied, tx>>
        /\ at[p] = "checked" /\ Known(p) \subseteq applied
        /\ at' = [at EXCEPT ![p] = "migrated"]
    BY <1>12 DEF UpToDate, Stay, Go
  <2>2. ~tx[p].moved => applied = Known(p)
    BY <1>11, <2>1 DEF Early
  <2>3. \A q \in Actors : at'[q] = IF q = p THEN "migrated" ELSE at[q]
    BY <2>1 DEF Shape
  <2>4. QED BY <2>1, <2>2, <2>3 DEF SeenInv, Early, Late, IsAhead, Known
<1>13. ASSUME NEW p \in Processes, UpDone(p)
       PROVE  SeenInv'
  <2>1. CASE p \notin Servers
    BY <1>2, <1>13, <2>1 DEF UpDone, Actors, Early, Late
  <2>2. CASE p \in Servers
    <3>1. /\ UNCHANGED <<applied, tx>>
          /\ at[p] = "applying" /\ at' = [at EXCEPT ![p] = "migrated"]
          /\ Known(p) \subseteq tx[p].read
      BY <1>13, <2>2 DEF UpDone, Go, ToApply
    <3>2. tx[p].read = applied
      BY <2>2, <3>1 DEF LockInv, Running
    <3>3. ~tx[p].moved => applied = Known(p)
      BY <1>11, <2>2, <3>1, <3>2 DEF Early
    <3>4. \A q \in Actors : at'[q] = IF q = p THEN "migrated" ELSE at[q]
      BY <3>1 DEF Shape
    <3>5. QED BY <3>1, <3>3, <3>4 DEF SeenInv, Early, Late, IsAhead, Known
  <2>3. QED BY <2>1, <2>2
<1>14. ASSUME NEW p \in Processes, UpLock(p) \/ (\E n \in 1 .. 2 : DownLock(p, n))
       PROVE  SeenInv'
  <2>1. UNCHANGED applied /\ \A q \in Actors \ {p} : at'[q] = at[q] /\ tx'[q].moved = tx[q].moved
    BY <1>14 DEF UpLock, DownLock, Go, Shape
  <2>2. p \in Servers => at[p] = "checked" /\ at'[p] = "applying"
    BY <1>14, StartupAssumption DEF UpLock, DownLock, Go, Shape
  <2>3. tx'[p].moved = tx[p].moved
    BY <1>14 DEF UpLock, DownLock, Shape, Fields, Actors
  <2>4. QED BY <1>5, <2>1, <2>2, <2>3 DEF Early, Late, Actors
<1>15. ASSUME NEW p \in Processes, Apply(p) \/ Undo(p) \/ Baseline(p)
       PROVE  SeenInv'
  <2>1. p \in Actors /\ UNCHANGED at
    BY <1>15 DEF Apply, Undo, Baseline, Actors
  <2>2. \A q \in Actors \ {p} : tx'[q].moved = (at[q] # "down")
    <3>1. DOMAIN Moved(p) = Actors
      BY DEF Moved
    <3>2. \A q \in Actors \ {p} : tx'[q] = Moved(p)[q]
      BY <1>15, <3>1 DEF Apply, Undo, Baseline
    <3>3. QED BY <2>1, <3>2, SeenMoved
  <2>3. \A q \in Servers \ {p} : ~tx'[q].moved => at'[q] \notin Early /\ at'[q] \notin Late
    BY <2>1, <2>2 DEF Early, Late
  <2>4. CASE p \in Servers /\ Apply(p)
    <3> DEFINE m == Oldest(ToApply(p))
    <3>1. m \in Known(p)
      BY <2>4, OldestIsOne, KnownVersions DEF Apply, ToApply
    <3>2. applied' = applied \cup {m} /\ at[p] = "applying" /\ tx' = [Moved(p) EXCEPT ![p].read = @ \cup {m}]
      BY <2>4 DEF Apply
    <3> HIDE DEF m
    <3>3. tx'[p].moved = tx[p].moved
      BY <2>1, <3>2 DEF Moved, Shape, Fields
    <3>4. ~tx[p].moved => ~IsAhead(p)
      BY <2>4, <3>2 DEF SeenInv, Early
    <3>5. ~tx'[p].moved => ~IsAhead(p)'
      BY <3>1, <3>2, <3>3, <3>4, KnownVersions DEF IsAhead
    <3>6. QED BY <2>1, <2>3, <3>2, <3>5 DEF SeenInv, Early, Late
  <2>5. CASE ~(p \in Servers /\ Apply(p))
    <3>1. at[p] \in {"undoing", "down"} \/ p \notin Servers
      BY <1>15, <2>5 DEF Undo, Baseline
    <3>2. QED BY <2>1, <2>3, <3>1 DEF SeenInv, Early, Late
  <2>6. QED BY <2>4, <2>5
<1>16. ASSUME NEW p \in Processes, Current(p) \/ Rebuild(p) \/ Clear(p) \/ Read(p) \/ Fill(p)
       PROVE  SeenInv'
  BY <1>7, <1>8, <1>16 DEF Current, Actors
<1>17. ASSUME NEW w \in Writers, Clear(w)
       PROVE  SeenInv'
  BY <1>8, <1>17, StartupAssumption DEF Actors, Processes
<1>18. ASSUME NEW s \in Sources, Rename(s)
       PROVE  SeenInv'
  BY <1>18, SeenKept DEF Rename
<1>19. QED BY <1>1, <1>3, <1>4, <1>6, <1>9, <1>10, <1>12, <1>13, <1>14, <1>15, <1>16, <1>17, <1>18 DEF Next, Actors

\* The steps that end in serving start from a schema found as it should be.
LEMMA Serving ==
  ASSUME Shape, [Next]_vars, NEW p \in Servers, at[p] # "serving", at'[p] = "serving"
  PROVE  at[p] \in Late
<1> p \in Actors /\ p \in Processes
  BY DEF Actors, Processes
<1>1. CASE UNCHANGED vars
  BY <1>1 DEF vars
<1>2. ASSUME NEW q \in Actors, NEW s, End(q, s), s # "serving"
      PROVE  FALSE
  BY <1>2, EndFacts
<1>3. ASSUME NEW q \in Actors, NEW s, at' = [at EXCEPT ![q] = s], s # "serving"
      PROVE  FALSE
  BY <1>3 DEF Shape
<1>4. ASSUME NEW q \in Actors,
             \/ Newer(q) \/ Pending(q) \/ ApplyFails(q) \/ DownDone(q)
             \/ Index(q) \/ WriteFails(q)
      PROVE  FALSE
  BY <1>2, <1>4 DEF Newer, Pending, ApplyFails, DownDone, Index, WriteFails
<1>5. ASSUME NEW q \in Actors, Start(q) \/ Ahead(q) \/ UpToDate(q) \/ UpLock(q) \/ (\E n \in 1 .. 2 : DownLock(q, n))
      PROVE  FALSE
  BY <1>3, <1>5 DEF Start, Ahead, UpToDate, UpLock, DownLock, Go
<1>6. ASSUME NEW q \in Actors, Rebuild(q) \/ Clear(q) \/ Read(q) \/ Fill(q) \/ Begin(q) \/ ClearBegin(q)
      PROVE  FALSE
  <2>1. \E s \in {"clearing", "reading", "indexing", "filling", "locked"} : at' = [at EXCEPT ![q] = s]
    BY <1>6 DEF Rebuild, Clear, Read, Fill, Begin, ClearBegin, Go
  <2>2. QED BY <1>3, <2>1
<1>7. ASSUME NEW q \in Processes, UpDone(q)
      PROVE  FALSE
  BY <1>2, <1>3, <1>7 DEF UpDone, Go, Actors
<1>8. ASSUME NEW q \in Processes, Apply(q) \/ Undo(q) \/ Baseline(q)
      PROVE  FALSE
  BY <1>8 DEF Apply, Undo, Baseline
<1>9. ASSUME NEW q \in Processes, Stop(q)
      PROVE  FALSE
  BY <1>9 DEF Stop
<1>10. ASSUME NEW q \in Processes, Current(q) \/ RebuildDone(q) \/ RebuildFails(q)
       PROVE  at[p] \in Late
  <2>1. q = p
    BY <1>10 DEF Current, RebuildDone, RebuildFails, Go, Shape
  <2>2. QED BY <1>10, <2>1 DEF Current, RebuildDone, RebuildFails, Go, Rebuilding, Late
<1>11. ASSUME NEW s \in Sources, Rename(s)
       PROVE  FALSE
  BY <1>11 DEF Rename
<1>12. QED BY <1>1, <1>4, <1>5, <1>6, <1>7, <1>8, <1>9, <1>10, <1>11 DEF Next, Actors

-----------------------------------------------------------------------------
(* The theorems                                                            *)

LEMMA SpecInv == Spec => [](Shape /\ LockInv /\ SeenInv)
<1>1. Shape /\ LockInv /\ SeenInv /\ [Next]_vars => (Shape /\ LockInv /\ SeenInv)'
  BY ShapeNext, LockNext, SeenNext
<1>2. QED BY <1>1, InitInv, PTL DEF Spec

\* internal/migrate, withLock: however runners overlap, fail and are stopped,
\* the one that works has read what is applied under the lock it still holds.
THEOREM RunnersDoNotCollide == Spec => []NoCollision
<1>1. Shape /\ LockInv /\ SeenInv => NoCollision
  <2> SUFFICES ASSUME LockInv, NEW p \in Processes, applied = schema
               PROVE  /\ at[p] = "applying" /\ ToApply(p) # {} => Oldest(ToApply(p)) \notin schema
                      /\ at[p] = "undoing" => ToUndo(p) \subseteq schema
    BY DEF NoCollision
  <2>1. at[p] \in Running => tx[p].read = schema
    BY DEF LockInv, Actors
  <2>2. ASSUME at[p] = "applying", ToApply(p) # {}
        PROVE  Oldest(ToApply(p)) \notin schema
    <3>1. ToApply(p) \subseteq Nat /\ ToApply(p) \cap schema = {}
      BY <2>1, <2>2, KnownVersions DEF ToApply, Running
    <3>2. QED BY <2>2, <3>1, OldestIsOne
  <2>3. at[p] = "undoing" => ToUndo(p) \subseteq schema
    BY <2>1 DEF ToUndo, Running
  <2>4. QED BY <2>2, <2>3
<1>2. QED BY <1>1, SpecInv, PTL

\* main.go, ensureSchema: the three looks at the schema, each under a lock of
\* its own, leave a server on the schema it knows unless a runner moved it.
THEOREM ServersKnowTheirSchema == Spec => ServesItsSchema
<1>1. ASSUME Shape, SeenInv, [Next]_vars, NEW p \in Servers, at[p] # "serving", at'[p] = "serving"
      PROVE  applied = Known(p) \/ tx[p].moved
  <2>1. at[p] \in Late
    BY <1>1, Serving DEF Late
  <2>2. QED BY <1>1, <2>1 DEF SeenInv
<1>2. Shape /\ LockInv /\ SeenInv /\ [Next]_vars =>
        [\A p \in Servers : at[p] # "serving" /\ at'[p] = "serving" => applied = Known(p) \/ tx[p].moved]_vars
  BY <1>1
<1>3. QED BY <1>2, SpecInv, PTL DEF Spec, ServesItsSchema
-----------------------------------------------------------------------------
(* The index and its sources                                               *)

Record == [text : Nat, live : BOOLEAN, kind : {"ticket", "project", "renamed"}]

\* A source has a text before it is live, and only what is live was renamed.
SourceInv ==
    /\ source \in [Sources -> Record]
    /\ \A s \in Sources : /\ source[s].live => source[s].text > 0
                          /\ Renamed(s) => source[s].live

RowsOf(s, S) == {r \in S : r.source = s}

\* The rows S say of a source what they should: nothing of one that is not live.
Says(s, S) ==
    IF source[s].live
    THEN \E r : RowsOf(s, S) = {r} /\ (Renamed(s) \/ r.text = source[s].text)
    ELSE RowsOf(s, S) = {}

\* A process starts its rebuild with nothing, at the first source.
ProcessInv(p) ==
    /\ at[p] \notin {"reading", "filling"} => tx[p].added = {} /\ tx[p].next = 1
    /\ tx[p].next \in Nat \ {0}

Holding == {"locked", "clearing", "indexing"}

\* A writer has its source for itself, and no rename is of that source.
WriterInv(w) ==
    at[w] \in Holding =>
        /\ tx[w].source \in Sources
        /\ source[tx[w].source].kind = "ticket" \/ source[tx[w].source].text = 0
        /\ \A v \in Writers \ {w} : at[v] \in Holding => tx[v].source # tx[w].source

\* The text a rebuild has read of a source, if it is live, is that of now but
\* for a rename.
ReadInv(p, s) ==
    /\ s \in Sources
    /\ IF source[s].live THEN tx[p].text > 0 /\ (Renamed(s) \/ tx[p].text = source[s].text)
                         ELSE tx[p].text = 0

\* A rebuild nothing was committed beside takes every row there is, and has put
\* the right ones for the sources it went through.
RebuildInv(p) ==
    /\ at[p] = "clearing" => tx[p].seen = rows
    /\ at[p] \in {"reading", "filling"} =>
        /\ tx[p].gone = rows
        /\ \A s \in Sources : IF s < tx[p].next THEN Says(s, tx[p].added) ELSE RowsOf(s, tx[p].added) = {}
    /\ at[p] = "filling" => ReadInv(p, tx[p].next)

\* A writer no rebuild was committed beside takes the rows of its source.
WriteInv(w) ==
    /\ at[w] = "clearing" => tx[w].seen = RowsOf(tx[w].source, rows)
    /\ at[w] = "indexing" => tx[w].gone = RowsOf(tx[w].source, rows)

\* Servers rebuild one after the other.
AloneInv == \A p, q \in Servers : Rebuilding(p) /\ Rebuilding(q) => p = q

RowsInv ==
    ~overlap => /\ \A s \in Sources : Says(s, rows)
                /\ \A p \in Processes : RebuildInv(p)
                /\ \A w \in Writers : WriteInv(w)

\* Until something is committed beside a rebuild, the rows say of every source
\* what they should, and so will those of each transaction once it commits.
IndexInv ==
    /\ SourceInv /\ AloneInv
    /\ \A p \in Processes : ProcessInv(p)
    /\ \A w \in Writers : WriterInv(w)
    /\ RowsInv

LEMMA InitIndex == Init => IndexInv
<1> SUFFICES ASSUME Init PROVE IndexInv
  OBVIOUS
<1>1. PICK ss \in Starts, kind \in [Sources -> {"ticket", "project"}] :
        /\ source = [i \in Sources |-> [text |-> IF i \in ss.sources THEN 1 ELSE 0, live |-> i \in ss.sources,
                                        kind |-> kind[i]]]
        /\ rows = {[id |-> i, source |-> i, text |-> 1] : i \in ss.sources}
  BY DEF Init
<1>2. ASSUME NEW s \in Sources
      PROVE  /\ source[s] \in Record /\ ~Renamed(s)
             /\ source[s].live <=> s \in ss.sources
             /\ source[s].text = IF s \in ss.sources THEN 1 ELSE 0
  <2>1. PICK live \in BOOLEAN, text \in {0, 1}, k \in {"ticket", "project"} :
          /\ live <=> s \in ss.sources
          /\ text = IF s \in ss.sources THEN 1 ELSE 0
          /\ source[s] = [text |-> text, live |-> live, kind |-> k]
    <3>1. kind[s] \in {"ticket", "project"} /\ (s \in ss.sources) \in BOOLEAN
      OBVIOUS
    <3>2. source[s] = [text |-> IF s \in ss.sources THEN 1 ELSE 0, live |-> s \in ss.sources, kind |-> kind[s]]
      BY <1>1
    <3>3. (IF s \in ss.sources THEN 1 ELSE 0) \in {0, 1}
      OBVIOUS
    <3>4. QED BY <3>1, <3>2, <3>3, Zenon
  <2>2. source[s].live = live /\ source[s].text = text /\ source[s].kind = k
    BY <2>1
  <2>3. source[s] \in Record
    <3>1. text \in Nat /\ k \in {"ticket", "project", "renamed"}
      BY <2>1
    <3>2. [text |-> text, live |-> live, kind |-> k] \in Record
      BY <3>1 DEF Record
    <3>3. QED BY <2>1, <3>2
  <2>4. QED BY <2>1, <2>2, <2>3 DEF Renamed
<1>3. SourceInv
  BY <1>1, <1>2 DEF SourceInv
<1>4. ASSUME NEW s \in Sources
      PROVE  Says(s, rows)
  <2> DEFINE row == [id |-> s, source |-> s, text |-> 1]
  <2>1. CASE s \in ss.sources
    <3>1. RowsOf(s, rows) = {row}
      BY <1>1, <2>1 DEF RowsOf
    <3>2. row.text = source[s].text /\ source[s].live
      BY <1>2, <2>1
    <3>3. QED BY <3>1, <3>2 DEF Says
  <2>2. CASE s \notin ss.sources
    <3>1. RowsOf(s, rows) = {}
      BY <1>1, <2>2 DEF RowsOf
    <3>2. QED BY <1>2, <2>2, <3>1 DEF Says
  <2>3. QED BY <2>1, <2>2
<1>5. \A q \in Actors : at[q] = "down" /\ tx[q] = NoTx
  BY DEF Init
<1>6. \A p \in Processes : ~Rebuilding(p) /\ ProcessInv(p) /\ RebuildInv(p)
  BY <1>5, NoTxFields DEF ProcessInv, RebuildInv, Rebuilding, Actors
<1>7. \A w \in Writers : WriterInv(w) /\ WriteInv(w)
  BY <1>5 DEF WriterInv, WriteInv, Holding, Actors
<1>8. AloneInv
  BY <1>6 DEF AloneInv, Processes
<1>9. QED BY <1>3, <1>4, <1>6, <1>7, <1>8 DEF IndexInv, RowsInv

-----------------------------------------------------------------------------
(* Steps that leave the index and its sources alone                        *)

\* What of a transaction the index depends on.
SameWork(q) ==
    /\ at'[q] = at[q]
    /\ tx'[q].seen = tx[q].seen /\ tx'[q].gone = tx[q].gone /\ tx'[q].added = tx[q].added
    /\ tx'[q].next = tx[q].next /\ tx'[q].text = tx[q].text /\ tx'[q].source = tx[q].source

LEMMA SameWorkKeeps ==
  ASSUME UNCHANGED <<source, rows>>, NEW q, SameWork(q)
  PROVE  /\ Rebuilding(q)' <=> Rebuilding(q)
         /\ ProcessInv(q) => ProcessInv(q)'
         /\ RebuildInv(q) => RebuildInv(q)'
         /\ WriteInv(q) => WriteInv(q)'
<1>1. Rebuilding(q)' <=> Rebuilding(q)
  BY DEF SameWork, Rebuilding
<1>3. ProcessInv(q) => ProcessInv(q)'
  BY <1>1 DEF SameWork, ProcessInv
<1>4. \A s : ReadInv(q, s) => ReadInv(q, s)'
  BY DEF SameWork, ReadInv, Renamed
<1>5. ASSUME RebuildInv(q)
      PROVE  RebuildInv(q)'
  <2>1. /\ at'[q] = at[q] /\ tx'[q].seen = tx[q].seen /\ tx'[q].gone = tx[q].gone
        /\ tx'[q].added = tx[q].added /\ tx'[q].next = tx[q].next
    BY DEF SameWork
  <2>2. at'[q] = "clearing" => tx'[q].seen = rows'
    BY <1>5, <2>1 DEF RebuildInv
  <2>3. \A s : /\ Says(s, tx[q].added)' <=> Says(s, tx[q].added)
              /\ RowsOf(s, tx[q].added)' = RowsOf(s, tx[q].added)
    BY <2>1 DEF Says, Renamed, RowsOf
  <2>4. ASSUME at'[q] \in {"reading", "filling"}
        PROVE  /\ tx'[q].gone = rows'
               /\ \A s \in Sources : IF s < tx'[q].next THEN Says(s, tx[q].added)'
                                                        ELSE RowsOf(s, tx[q].added)' = {}
    BY <1>5, <2>1, <2>3, <2>4 DEF RebuildInv
  <2>5. at'[q] = "filling" => ReadInv(q, tx[q].next)'
    BY <1>4, <1>5, <2>1 DEF RebuildInv
  <2>6. QED BY <2>2, <2>4, <2>5 DEF RebuildInv
<1>6. WriteInv(q) => WriteInv(q)'
  BY DEF SameWork, WriteInv, RowsOf
<1>7. QED BY <1>1, <1>3, <1>5, <1>6
\* A step after which every transaction has done what it had, or is none.
LEMMA IndexKept ==
  ASSUME IndexInv, UNCHANGED <<source, rows, overlap>>,
         \A p \in Processes : SameWork(p) \/ (~Rebuilding(p)' /\ tx'[p].added = {} /\ tx'[p].next = 1),
         \A w \in Writers : SameWork(w) \/ at'[w] \notin Holding
  PROVE  IndexInv'
<1>1. ASSUME NEW p \in Processes
      PROVE  /\ Rebuilding(p)' => Rebuilding(p)
             /\ ProcessInv(p)' /\ (~overlap => RebuildInv(p)')
  <2>1. ProcessInv(p) /\ (~overlap => RebuildInv(p))
    BY DEF IndexInv, RowsInv
  <2>2. CASE SameWork(p)
    BY <2>1, <2>2, SameWorkKeeps
  <2>3. CASE ~Rebuilding(p)' /\ tx'[p].added = {} /\ tx'[p].next = 1
    BY <2>3 DEF Rebuilding, ProcessInv, RebuildInv
  <2>4. QED BY <2>2, <2>3
<1>2. ASSUME NEW w \in Writers
      PROVE  WriterInv(w)' /\ (~overlap => WriteInv(w)')
  <2>1. WriterInv(w) /\ (~overlap => WriteInv(w))
    BY DEF IndexInv, RowsInv
  <2>2. CASE at'[w] \notin Holding
    BY <2>2 DEF WriterInv, WriteInv, Holding
  <2>3. CASE SameWork(w)
    <3>1. \A v \in Writers : at'[v] \in Holding => at[v] = at'[v] /\ tx'[v].source = tx[v].source
      BY DEF SameWork
    <3>2. at[w] = at'[w] /\ tx'[w].source = tx[w].source
      BY <2>3 DEF SameWork
    <3>3. WriterInv(w)'
      BY <2>1, <3>1, <3>2 DEF WriterInv
    <3>4. QED BY <2>1, <2>3, <3>3, SameWorkKeeps
  <2>4. QED BY <2>2, <2>3
<1>3. SourceInv' /\ AloneInv'
  <2>1. SourceInv'
    BY DEF IndexInv, SourceInv, Renamed
  <2>2. AloneInv'
    BY <1>1 DEF IndexInv, AloneInv, Processes
  <2>3. QED BY <2>1, <2>2
<1>4. ~overlap => \A s \in Sources : Says(s, rows)'
  BY DEF IndexInv, RowsInv, Says, RowsOf, Renamed
<1>5. QED BY <1>1, <1>2, <1>3, <1>4 DEF IndexInv, RowsInv

\* A step of a rebuild before its commit.
LEMMA RebuildStep ==
  ASSUME IndexInv, UNCHANGED <<source, rows, overlap>>, NEW p \in Processes,
         \A q \in Actors \ {p} : SameWork(q),
         Rebuilding(p)', p \in Servers => Rebuilding(p) \/ Alone(p),
         ProcessInv(p)', ~overlap => RebuildInv(p)'
  PROVE  IndexInv'
<1> Servers \subseteq Processes /\ Processes \subseteq Actors /\ Writers \subseteq Actors \ {p}
  BY StartupAssumption DEF Actors, Processes
<1>1. ASSUME NEW q \in Processes
      PROVE  ProcessInv(q)' /\ (~overlap => RebuildInv(q)')
  <2>1. CASE q = p
    BY <2>1 DEF ProcessInv
  <2>2. CASE q # p
    <3>1. SameWork(q) /\ ProcessInv(q) /\ (~overlap => RebuildInv(q))
      BY <2>2 DEF IndexInv, RowsInv
    <3>2. QED BY <3>1, SameWorkKeeps
  <2>3. QED BY <2>1, <2>2
<1>2. ASSUME NEW w \in Writers
      PROVE  WriterInv(w)' /\ (~overlap => WriteInv(w)')
  <2>1. WriterInv(w) /\ (~overlap => WriteInv(w)) /\ SameWork(w)
    BY DEF IndexInv, RowsInv
  <2>2. \A v \in Writers : at[v] = at'[v] /\ tx'[v].source = tx[v].source
    BY DEF SameWork
  <2>3. WriterInv(w)'
    BY <2>1, <2>2 DEF WriterInv
  <2>4. QED BY <2>1, <2>3, SameWorkKeeps
<1>3. SourceInv'
  BY DEF IndexInv, SourceInv, Renamed
<1>4. AloneInv'
  <2>1. \A q \in Servers \ {p} : Rebuilding(q)' <=> Rebuilding(q)
    BY SameWorkKeeps
  <2>2. p \in Servers => \A q \in Servers \ {p} : ~Rebuilding(q)
    BY DEF Alone, IndexInv, AloneInv
  <2>3. QED BY <2>1, <2>2 DEF AloneInv, IndexInv
<1>5. ~overlap => \A s \in Sources : Says(s, rows)'
  BY DEF IndexInv, RowsInv, Says, RowsOf, Renamed
<1>6. QED BY <1>1, <1>2, <1>3, <1>4, <1>5 DEF IndexInv, RowsInv

\* A step of a writer before its commit.
LEMMA WriteStep ==
  ASSUME IndexInv, UNCHANGED <<source, rows, overlap>>, NEW w \in Writers,
         \A q \in Actors \ {w} : SameWork(q),
         WriterInv(w)', ~overlap => WriteInv(w)'
  PROVE  IndexInv'
<1> Servers \subseteq Processes /\ Processes \subseteq Actors \ {w} /\ Writers \subseteq Actors
  BY StartupAssumption DEF Actors, Processes
<1>1. ASSUME NEW q \in Processes
      PROVE  /\ Rebuilding(q)' <=> Rebuilding(q)
             /\ ProcessInv(q)' /\ (~overlap => RebuildInv(q)')
  <2>1. SameWork(q) /\ ProcessInv(q) /\ (~overlap => RebuildInv(q))
    BY DEF IndexInv, RowsInv
  <2>2. QED BY <2>1, SameWorkKeeps
<1>2. ASSUME NEW v \in Writers
      PROVE  WriterInv(v)' /\ (~overlap => WriteInv(v)')
  <2>1. CASE v = w
    BY <2>1
  <2>2. CASE v # w
    <3>1. WriterInv(v) /\ (~overlap => WriteInv(v)) /\ SameWork(v)
      BY <2>2 DEF IndexInv, RowsInv
    <3>2. \A u \in Writers \ {w} : at[u] = at'[u] /\ tx'[u].source = tx[u].source
      BY DEF SameWork
    <3>3. at'[v] \in Holding /\ at'[w] \in Holding => tx'[v].source # tx'[w].source
      BY <2>2 DEF WriterInv
    <3>4. WriterInv(v)'
      BY <2>2, <3>1, <3>2, <3>3 DEF WriterInv
    <3>5. QED BY <3>1, <3>4, SameWorkKeeps
  <2>3. QED BY <2>1, <2>2
<1>3. SourceInv' /\ AloneInv'
  <2>1. SourceInv'
    BY DEF IndexInv, SourceInv, Renamed
  <2>2. AloneInv'
    BY <1>1 DEF IndexInv, AloneInv, Processes
  <2>3. QED BY <2>1, <2>2
<1>4. ~overlap => \A s \in Sources : Says(s, rows)'
  BY DEF IndexInv, RowsInv, Says, RowsOf, Renamed
<1>5. QED BY <1>1, <1>2, <1>3, <1>4 DEF IndexInv, RowsInv
-----------------------------------------------------------------------------
(* Every step and the index                                                *)

\* The steps of the runner, and the failures, leave the index alone.
LEMMA IndexRest ==
  ASSUME Shape, IndexInv,
         \/ UNCHANGED vars
         \/ \E p \in Processes :
              \/ Start(p) \/ Ahead(p) \/ Newer(p) \/ UpToDate(p) \/ Pending(p)
              \/ UpLock(p) \/ Apply(p) \/ ApplyFails(p) \/ UpDone(p)
              \/ (\E n \in 1 .. 2 : DownLock(p, n)) \/ Undo(p) \/ DownDone(p) \/ Baseline(p)
              \/ Current(p) \/ RebuildFails(p) \/ Stop(p)
         \/ \E w \in Writers : WriteFails(w)
  PROVE  IndexInv'
<1> DEFINE Calm(q) == SameWork(q) \/ (at'[q] \notin {"clearing", "reading", "filling", "locked", "indexing"}
                                      /\ tx'[q].added = {} /\ tx'[q].next = 1)
<1>1. ASSUME UNCHANGED <<source, rows, overlap>>, \A q \in Actors : Calm(q)
      PROVE  IndexInv'
  <2>1. \A q \in Processes : SameWork(q) \/ (~Rebuilding(q)' /\ tx'[q].added = {} /\ tx'[q].next = 1)
    BY <1>1 DEF Rebuilding, Actors
  <2>2. \A w \in Writers : SameWork(w) \/ at'[w] \notin Holding
    BY <1>1 DEF Holding, Actors
  <2>3. QED BY <1>1, <2>1, <2>2, IndexKept
<1>2. CASE UNCHANGED vars
  BY <1>1, <1>2 DEF vars, database, SameWork
<1>3. ASSUME NEW p \in Actors, NEW s, End(p, s), s \in {"down", "serving"}, UNCHANGED <<source, rows, overlap>>
      PROVE  IndexInv'
  <2>1. \A q \in Actors \ {p} : SameWork(q)
    BY <1>3, EndFacts DEF SameWork
  <2>2. tx'[p] = NoTx /\ at'[p] = s
    BY <1>3, EndFacts
  <2>3. QED BY <1>1, <1>3, <2>1, <2>2, NoTxFields
<1>4. ASSUME NEW p \in Actors, Newer(p) \/ Pending(p) \/ ApplyFails(p) \/ DownDone(p) \/ WriteFails(p)
      PROVE  IndexInv'
  BY <1>3, <1>4 DEF Newer, Pending, ApplyFails, DownDone, WriteFails, Stay
<1>5. ASSUME NEW p \in Processes, NEW s \in {"started", "checked", "migrated", "applying", "undoing", "serving"},
             at' = [at EXCEPT ![p] = s], at[p] \notin {"reading", "filling"},
             \A q \in Actors : /\ tx'[q].seen = tx[q].seen /\ tx'[q].gone = tx[q].gone /\ tx'[q].added = tx[q].added
                               /\ tx'[q].next = tx[q].next /\ tx'[q].text = tx[q].text /\ tx'[q].source = tx[q].source,
             UNCHANGED <<source, rows, overlap>>
      PROVE  IndexInv'
  <2>1. \A q \in Actors \ {p} : SameWork(q)
    BY <1>5 DEF SameWork, Shape
  <2>2. p \in Actors /\ at'[p] = s /\ tx'[p].added = {} /\ tx'[p].next = 1
    BY <1>5 DEF IndexInv, ProcessInv, Shape, Actors
  <2>3. QED BY <1>1, <1>5, <2>1, <2>2
<1>6. ASSUME NEW p \in Processes,
             Start(p) \/ Ahead(p) \/ UpToDate(p) \/ Current(p) \/ (p \in Servers /\ UpDone(p))
      PROVE  IndexInv'
  <2>1. PICK s \in {"started", "checked", "migrated", "serving"} :
          at' = [at EXCEPT ![p] = s] /\ at[p] \notin {"reading", "filling"}
    BY <1>6 DEF Start, Ahead, UpToDate, Current, UpDone, Go
  <2>2. UNCHANGED <<source, rows, overlap>>
    BY <1>6 DEF Start, Ahead, UpToDate, Current, UpDone, Stay, database
  <2>3. \A q \in Actors : /\ tx'[q].seen = tx[q].seen /\ tx'[q].gone = tx[q].gone /\ tx'[q].added = tx[q].added
                          /\ tx'[q].next = tx[q].next /\ tx'[q].text = tx[q].text /\ tx'[q].source = tx[q].source
    BY <1>6 DEF Start, Ahead, UpToDate, Current, UpDone, Shape, Fields
  <2>4. QED BY <1>5, <2>1, <2>2, <2>3
<1>7. ASSUME NEW p \in Processes, UpLock(p) \/ (\E n \in 1 .. 2 : DownLock(p, n))
      PROVE  IndexInv'
  <2>1. PICK s \in {"applying", "undoing"} :
          at' = [at EXCEPT ![p] = s] /\ at[p] \notin {"reading", "filling"}
    BY <1>7 DEF UpLock, DownLock, Go
  <2>2. UNCHANGED <<source, rows, overlap>>
    BY <1>7 DEF UpLock, DownLock
  <2>3. \A q \in Actors : /\ tx'[q].seen = tx[q].seen /\ tx'[q].gone = tx[q].gone /\ tx'[q].added = tx[q].added
                          /\ tx'[q].next = tx[q].next /\ tx'[q].text = tx[q].text /\ tx'[q].source = tx[q].source
    BY <1>7 DEF UpLock, DownLock, Shape, Fields
  <2>4. QED BY <1>5, <2>1, <2>2, <2>3
<1>8. ASSUME NEW p \in Processes, UpDone(p), p \notin Servers
      PROVE  IndexInv'
  BY <1>3, <1>8 DEF UpDone, Actors
<1>9. ASSUME NEW p \in Processes, Apply(p) \/ Undo(p) \/ Baseline(p)
      PROVE  IndexInv'
  <2>1. /\ DOMAIN Moved(p) = Actors
        /\ \A q \in Actors :
             LET m == Moved(p)[q]
             IN  /\ m.seen = tx[q].seen /\ m.gone = tx[q].gone /\ m.added = tx[q].added
                 /\ m.next = tx[q].next /\ m.text = tx[q].text /\ m.source = tx[q].source
                 /\ DOMAIN m = Fields
    BY DEF Moved, Shape, Fields
  <2>2. \A q \in Actors : SameWork(q)
    BY <1>9, <2>1 DEF Apply, Undo, Baseline, SameWork, Fields
  <2>3. UNCHANGED <<source, rows, overlap>>
    BY <1>9 DEF Apply, Undo, Baseline
  <2>4. QED BY <1>1, <2>2, <2>3
<1>10. ASSUME NEW p \in Processes, RebuildFails(p)
       PROVE  IndexInv'
  <2>1. \A q \in Actors \ {p} : SameWork(q)
    BY <1>10 DEF RebuildFails, SameWork, Shape
  <2>2. p \in Actors /\ at'[p] \in {"down", "serving"}
    BY <1>10 DEF RebuildFails, Shape, Actors
  <2>3. tx'[p].added = {} /\ tx'[p].next = 1
    BY <1>10, <2>2, NoTxFields DEF RebuildFails, Shape, Fields
  <2>4. UNCHANGED <<source, rows, overlap>>
    BY <1>10 DEF RebuildFails, Stay
  <2>5. QED BY <1>1, <2>1, <2>2, <2>3, <2>4
<1>11. ASSUME NEW p \in Processes, Stop(p)
       PROVE  IndexInv'
  <2>1. \A q \in Actors : (at'[q] = "down" /\ tx'[q] = NoTx) \/ (at'[q] = at[q] /\ tx'[q] = tx[q])
    BY <1>11 DEF Stop
  <2>2. \A q \in Actors : Calm(q)
    BY <2>1, NoTxFields DEF SameWork
  <2>3. UNCHANGED <<source, rows, overlap>>
    BY <1>11 DEF Stop
  <2>4. QED BY <1>1, <2>2, <2>3
<1>12. QED BY <1>2, <1>4, <1>6, <1>7, <1>8, <1>9, <1>10, <1>11 DEF Actors
\* The sources are numbered from one.
LEMMA SourceNumbers ==
  /\ Sources \subseteq Nat \ {0}
  /\ \A n \in Nat \ {0} : n \notin Sources => \A s \in Sources : s < n
<1> DEFINE N == Cardinality(Sources)
<1>1. Sources = 1 .. N /\ N \in Nat
  BY StartupAssumption, FS_CardinalityType
<1> HIDE DEF N
<1>2. QED BY <1>1

LEMMA IndexRebuild ==
  ASSUME Shape, IndexInv, NEW p \in Processes, Rebuild(p) \/ Clear(p)
  PROVE  IndexInv'
<1> p \in Actors /\ p \notin Writers
  BY StartupAssumption DEF Actors
<1>1. UNCHANGED <<source, rows, overlap>> /\ \A q \in Actors \ {p} : SameWork(q)
  BY DEF Rebuild, Clear, Stay, Go, Shape, SameWork
<1>2. /\ tx'[p].added = tx[p].added /\ tx'[p].next = tx[p].next
      /\ at[p] \in {"migrated", "down", "clearing"} /\ at'[p] \in {"clearing", "reading"}
  BY DEF Rebuild, Clear, Go, Shape, Fields
<1>3. tx[p].added = {} /\ tx[p].next = 1
  BY <1>2 DEF IndexInv, ProcessInv
<1>4. Rebuilding(p)' /\ ProcessInv(p)'
  BY <1>2, <1>3 DEF Rebuilding, ProcessInv
<1>5. p \in Servers => Rebuilding(p) \/ Alone(p)
  BY StartupAssumption DEF Rebuild, Clear, Rebuilding, Go
<1>6. ~overlap => RebuildInv(p)'
  <2>1. CASE Rebuild(p)
    <3>1. tx'[p].seen = rows /\ at'[p] = "clearing"
      BY <2>1 DEF Rebuild, Go, Shape, Fields
    <3>2. QED BY <1>1, <3>1 DEF RebuildInv
  <2>2. CASE Clear(p)
    <3>1. tx'[p].gone = tx[p].seen \cap rows /\ at'[p] = "reading" /\ at[p] = "clearing"
      BY <2>2 DEF Clear, Go, Shape, Fields
    <3>2. ~overlap => tx'[p].gone = rows'
      BY <1>1, <3>1 DEF IndexInv, RowsInv, RebuildInv
    <3>3. tx'[p].added = {} /\ tx'[p].next = 1
      BY <1>2, <1>3
    <3>4. \A s \in Sources : ~(s < 1)
      BY SourceNumbers
    <3>5. QED BY <3>1, <3>2, <3>3, <3>4 DEF RebuildInv, RowsOf
  <2>3. QED BY <2>1, <2>2
<1>7. QED BY <1>1, <1>4, <1>5, <1>6, RebuildStep

LEMMA IndexRead ==
  ASSUME Shape, IndexInv, NEW p \in Processes, Read(p)
  PROVE  IndexInv'
<1> DEFINE s == tx[p].next
<1> p \in Actors
  BY DEF Actors
<1>1. UNCHANGED <<source, rows, overlap>> /\ \A q \in Actors \ {p} : SameWork(q)
  BY DEF Read, Stay, Go, Shape, SameWork
<1>2. /\ tx'[p].added = tx[p].added /\ tx'[p].next = tx[p].next /\ tx'[p].gone = tx[p].gone
      /\ at[p] = "reading" /\ at'[p] = "filling"
      /\ s \in Sources
      /\ tx'[p].text = IF source[s].live THEN source[s].text ELSE 0
  BY DEF Read, Go, Shape, Fields
<1>3. Rebuilding(p) /\ Rebuilding(p)' /\ ProcessInv(p)'
  BY <1>2 DEF Rebuilding, ProcessInv, IndexInv
<1>4. ReadInv(p, s)'
  <2>1. source[s].live => source[s].text > 0
    BY <1>2 DEF IndexInv, SourceInv
  <2>2. s' = s /\ source'[s] = source[s]
    BY <1>1, <1>2
  <2>3. QED BY <1>2, <2>1, <2>2 DEF ReadInv
<1>5. ~overlap => RebuildInv(p)'
  <2> SUFFICES ASSUME ~overlap PROVE RebuildInv(p)'
    OBVIOUS
  <2>1. tx[p].gone = rows
        /\ \A u \in Sources : IF u < tx[p].next THEN Says(u, tx[p].added) ELSE RowsOf(u, tx[p].added) = {}
    BY <1>2 DEF IndexInv, RowsInv, RebuildInv
  <2>2. \A u : /\ Says(u, tx[p].added)' <=> Says(u, tx[p].added)
               /\ RowsOf(u, tx[p].added)' = RowsOf(u, tx[p].added)
    BY <1>1, <1>2 DEF Says, Renamed, RowsOf
  <2>3. QED BY <1>1, <1>2, <1>4, <2>1, <2>2 DEF RebuildInv
<1>6. QED BY <1>1, <1>3, <1>5, RebuildStep

LEMMA IndexFill ==
  ASSUME Shape, IndexInv, NEW p \in Processes, Fill(p)
  PROVE  IndexInv'
<1> p \in Actors
  BY DEF Actors
<1>1. PICK s, text, id :
        /\ s = tx[p].next /\ text = tx[p].text
        /\ at[p] = "filling" /\ at' = [at EXCEPT ![p] = "reading"]
        /\ tx' = [tx EXCEPT ![p].next = @ + 1, ![p].text = 0,
                            ![p].added = @ \cup (IF text > 0 THEN {[id |-> id, source |-> s, text |-> text]} ELSE {})]
        /\ UNCHANGED <<source, rows, overlap>>
  <2>1. PICK s, text, id : s = tx[p].next /\ text = tx[p].text /\ id = Fresh
    OBVIOUS
  <2>2. QED BY <2>1 DEF Fill, Stay, Go
<1> DEFINE new == [id |-> id, source |-> s, text |-> text]
<1>2. \A q \in Actors \ {p} : SameWork(q)
  BY <1>1 DEF Shape, SameWork
<1>3. /\ at'[p] = "reading" /\ tx'[p].gone = tx[p].gone /\ tx'[p].next = s + 1
      /\ tx'[p].added = tx[p].added \cup (IF text > 0 THEN {new} ELSE {})
  BY <1>1 DEF Shape, Fields
<1>4. s \in Nat \ {0}
  BY <1>1 DEF IndexInv, ProcessInv
<1>5. Rebuilding(p) /\ Rebuilding(p)' /\ ProcessInv(p)'
  BY <1>1, <1>3, <1>4 DEF Rebuilding, ProcessInv
<1>6. ~overlap => RebuildInv(p)'
  <2> SUFFICES ASSUME ~overlap PROVE RebuildInv(p)'
    OBVIOUS
  <2>1. RebuildInv(p)
    BY DEF IndexInv, RowsInv
  <2>2. PICK A : A = tx[p].added
    OBVIOUS
  <2>3. PICK B : B = tx'[p].added
    OBVIOUS
  <2>4. /\ tx[p].gone = rows /\ ReadInv(p, s)
        /\ \A u \in Sources : IF u < s THEN Says(u, A) ELSE RowsOf(u, A) = {}
    BY <1>1, <2>1, <2>2 DEF RebuildInv
  <2>5. /\ s \in Sources
        /\ IF source[s].live THEN text > 0 /\ (Renamed(s) \/ text = source[s].text) ELSE text = 0
    BY <1>1, <2>4 DEF ReadInv
  <2>6. RowsOf(s, A) = {}
    BY <1>4, <2>4, <2>5
  <2>7. /\ RowsOf(s, B) = IF text > 0 THEN {new} ELSE {}
        /\ \A u : u # s => RowsOf(u, B) = RowsOf(u, A)
    <3>1. new.source = s
      OBVIOUS
    <3> HIDE DEF new
    <3>2. CASE text > 0
      <4>1. B = A \cup {new}
        BY <1>3, <2>2, <2>3, <3>2
      <4>2. RowsOf(s, A \cup {new}) = {new} /\ \A u : u # s => RowsOf(u, A \cup {new}) = RowsOf(u, A)
        BY <2>6, <3>1 DEF RowsOf
      <4>3. QED BY <3>2, <4>1, <4>2
    <3>3. CASE ~(text > 0)
      <4>1. B = A
        BY <1>3, <2>2, <2>3, <3>3
      <4>2. QED BY <2>6, <3>3, <4>1
    <3>4. QED BY <3>2, <3>3
  <2>8. Says(s, B)
    <3>1. CASE source[s].live
      <4>1. RowsOf(s, B) = {new} /\ (Renamed(s) \/ new.text = source[s].text)
        BY <2>5, <2>7, <3>1
      <4>2. QED BY <3>1, <4>1 DEF Says
    <3>2. CASE ~source[s].live
      BY <2>5, <2>7, <3>2 DEF Says
    <3>3. QED BY <3>1, <3>2
  <2>9. ASSUME NEW u \in Sources
        PROVE  IF u < s + 1 THEN Says(u, B) ELSE RowsOf(u, B) = {}
    <3>1. u \in Nat
      BY SourceNumbers
    <3>2. CASE u = s
      BY <1>4, <2>8, <3>2
    <3>3. CASE u # s
      <4>1. Says(u, B) <=> Says(u, A)
        BY <2>7, <3>3 DEF Says
      <4>2. u < s + 1 <=> u < s
        BY <1>4, <3>1, <3>3
      <4>3. QED BY <2>4, <2>7, <3>3, <4>1, <4>2
    <3>4. QED BY <3>2, <3>3
  <2>10. \A u : (Says(u, B)' <=> Says(u, B)) /\ RowsOf(u, B)' = RowsOf(u, B)
    BY <1>1 DEF Says, Renamed, RowsOf
  <2>11. \A u \in Sources : IF u < tx'[p].next THEN Says(u, B)' ELSE RowsOf(u, B)' = {}
    BY <1>3, <2>9, <2>10
  <2>12. \A u \in Sources : IF u < tx'[p].next THEN Says(u, tx[p].added)' ELSE RowsOf(u, tx[p].added)' = {}
    BY <2>3, <2>11 DEF Says, Renamed, RowsOf
  <2>13. QED BY <1>1, <1>3, <2>4, <2>12 DEF RebuildInv
<1>7. QED BY <1>1, <1>2, <1>5, <1>6, RebuildStep
\* The commit of a rebuild: every other transaction on the index it may have run
\* beside is marked by overlap.
LEMMA IndexRebuilt ==
  ASSUME Shape, IndexInv, NEW p \in Processes, RebuildDone(p)
  PROVE  IndexInv'
<1> Servers \subseteq Processes /\ Processes \subseteq Actors /\ Writers \subseteq Actors \ {p}
  BY StartupAssumption DEF Actors, Processes
<1>1. PICK gone, added, m, s :
        /\ gone = tx[p].gone /\ added = tx[p].added
        /\ tx[p].next \notin Sources /\ at[p] = "reading"
        /\ rows' = (rows \ gone) \cup added
        /\ overlap' = (overlap \/ Beside(p))
        /\ s \in {"serving", "down"} /\ at' = [at EXCEPT ![p] = s]
        /\ m = [NoTx EXCEPT !.moved = tx[p].moved] /\ tx' = [tx EXCEPT ![p] = m]
        /\ UNCHANGED source
  BY DEF RebuildDone, Committed
<1>2. m.added = {} /\ m.next = 1
  BY <1>1, NoTxFields DEF Fields
<1>3. at'[p] = s /\ tx'[p] = m /\ \A q \in Actors \ {p} : at'[q] = at[q] /\ tx'[q] = tx[q]
  BY <1>1 DEF Shape
<1>4. ASSUME NEW q \in Processes
      PROVE  ProcessInv(q)' /\ (Rebuilding(q)' => Rebuilding(q) /\ q # p)
  <2>1. CASE q = p
    <3>1. at'[q] \notin {"clearing", "reading", "filling"}
      BY <1>1, <1>3, <2>1
    <3>2. tx'[q].added = {} /\ tx'[q].next = 1
      BY <1>2, <1>3, <2>1
    <3>3. QED BY <3>1, <3>2 DEF ProcessInv, Rebuilding
  <2>2. CASE q # p
    BY <1>3, <2>2 DEF ProcessInv, Rebuilding, IndexInv
  <2>3. QED BY <2>1, <2>2
<1>5. ASSUME NEW w \in Writers
      PROVE  WriterInv(w)'
  <2>1. \A v \in Writers : at'[v] = at[v] /\ tx'[v] = tx[v]
    BY <1>3
  <2>2. QED BY <1>1, <2>1 DEF WriterInv, IndexInv
<1>6. SourceInv' /\ AloneInv'
  <2>1. SourceInv'
    BY <1>1 DEF IndexInv, SourceInv, Renamed
  <2>2. QED BY <1>4, <2>1 DEF IndexInv, AloneInv
<1>7. RowsInv'
  <2> SUFFICES ASSUME ~overlap' PROVE RowsInv'
    BY DEF RowsInv
  <2>1. ~overlap /\ ~Beside(p) /\ Rebuilding(p)
    BY <1>1 DEF Rebuilding
  <2>2. \A q \in Processes : ~Rebuilding(q)'
    <3>1. SUFFICES ASSUME NEW q \in Processes, Rebuilding(q), q # p PROVE FALSE
      BY <1>4
    <3>2. {p, q} \subseteq Servers
      BY <2>1, <3>1 DEF Beside
    <3>3. QED BY <2>1, <3>1, <3>2 DEF IndexInv, AloneInv
  <2>3. \A w \in Writers : at'[w] \notin {"clearing", "indexing"}
    <3>1. \A w \in Writers : w \notin Servers /\ w # p
      BY StartupAssumption
    <3>2. \A w \in Writers : ~Writing(w)
      BY <2>1, <3>1 DEF Beside
    <3>3. QED BY <1>3, <3>1, <3>2 DEF Writing
  <2>4. /\ gone = rows
        /\ \A u \in Sources : IF u < tx[p].next THEN Says(u, added) ELSE RowsOf(u, added) = {}
    BY <1>1, <2>1 DEF IndexInv, RowsInv, RebuildInv
  <2>5. \A u \in Sources : u < tx[p].next
    BY <1>1, SourceNumbers DEF IndexInv, ProcessInv
  <2>6. rows' = added
    BY <1>1, <2>4
  <2>7. \A u \in Sources : Says(u, rows)'
    <3>1. \A u \in Sources : Says(u, added)
      BY <2>4, <2>5
    <3>2. QED BY <1>1, <2>6, <3>1 DEF Says, Renamed, RowsOf
  <2>8. \A q \in Processes : RebuildInv(q)'
    BY <2>2 DEF RebuildInv, Rebuilding
  <2>9. \A w \in Writers : WriteInv(w)'
    BY <2>3 DEF WriteInv
  <2>10. QED BY <2>7, <2>8, <2>9 DEF RowsInv
<1>8. QED BY <1>4, <1>5, <1>6, <1>7 DEF IndexInv

LEMMA IndexBegin ==
  ASSUME Shape, IndexInv, NEW w \in Writers, Begin(w)
  PROVE  IndexInv'
<1> w \in Actors /\ w \notin Processes
  BY StartupAssumption DEF Actors
<1>1. PICK p \in Servers, s \in Sources, k \in {"write", "archive"} :
        /\ ~Held(s) /\ (source[s].kind = "ticket" \/ source[s].text = 0)
        /\ tx' = [tx EXCEPT ![w].source = s, ![w].server = p, ![w].kind = k]
  BY DEF Begin
<1>2. UNCHANGED <<source, rows, overlap>> /\ at' = [at EXCEPT ![w] = "locked"]
  BY DEF Begin, Stay, Go
<1>3. \A q \in Actors \ {w} : at'[q] = at[q] /\ tx'[q] = tx[q] /\ SameWork(q)
  BY <1>1, <1>2 DEF Shape, SameWork
<1>4. at'[w] = "locked" /\ tx'[w].source = s
  BY <1>1, <1>2 DEF Shape, Fields
<1>5. WriterInv(w)'
  <2>1. \A v \in Writers \ {w} : at'[v] \in Holding => tx'[v].source # s
    BY <1>1, <1>3 DEF Held, Holding, Actors
  <2>2. QED BY <1>1, <1>2, <1>4, <2>1 DEF WriterInv
<1>6. WriteInv(w)'
  BY <1>4 DEF WriteInv
<1>7. QED BY <1>2, <1>3, <1>5, <1>6, WriteStep

LEMMA IndexClear ==
  ASSUME Shape, IndexInv, NEW w \in Writers, ClearBegin(w) \/ Clear(w)
  PROVE  IndexInv'
<1> w \in Actors /\ w \notin Processes
  BY StartupAssumption DEF Actors
<1> DEFINE s == tx[w].source
<1>1. UNCHANGED <<source, rows, overlap>>
  BY DEF ClearBegin, Clear, Stay
<1>2. \A q \in Actors \ {w} : at'[q] = at[q] /\ tx'[q] = tx[q] /\ SameWork(q)
  BY DEF ClearBegin, Clear, Go, Shape, SameWork
<1>3. tx'[w].source = s /\ at[w] \in {"locked", "clearing"} /\ at'[w] \in {"clearing", "indexing"}
  BY DEF ClearBegin, Clear, Go, Shape, Fields
<1>4. WriterInv(w) /\ s \in Sources
  BY <1>3 DEF IndexInv, WriterInv, Holding
<1>5. WriterInv(w)'
  <2>1. \A v \in Writers \ {w} : at'[v] = at[v] /\ tx'[v].source = tx[v].source
    BY <1>2 DEF Actors
  <2>2. QED BY <1>1, <1>3, <1>4, <2>1 DEF WriterInv, Holding
<1>6. ~overlap => WriteInv(w)'
  <2> SUFFICES ASSUME ~overlap PROVE WriteInv(w)'
    OBVIOUS
  <2>1. CASE ClearBegin(w)
    <3>1. /\ at'[w] = "clearing"
          /\ tx'[w].seen = {r \in rows : r.source = s /\ source[s].text > 0}
      BY <2>1 DEF ClearBegin, Go, Shape, Fields
    <3>2. CASE source[s].text > 0
      BY <1>1, <1>3, <3>1, <3>2 DEF WriteInv, RowsOf
    <3>3. CASE ~(source[s].text > 0)
      <4>1. RowsOf(s, rows) = {}
        BY <1>4, <3>3 DEF IndexInv, SourceInv, RowsInv, Says
      <4>2. tx'[w].seen = {}
        BY <3>1, <3>3
      <4>3. RowsOf(s, rows') = {}
        BY <1>1, <4>1
      <4>4. QED BY <1>3, <3>1, <4>2, <4>3 DEF WriteInv, RowsOf
    <3>4. QED BY <3>2, <3>3
  <2>2. CASE Clear(w)
    <3>1. at[w] = "clearing" /\ at'[w] = "indexing" /\ tx'[w].gone = tx[w].seen \cap rows
      BY <2>2 DEF Clear, Go, Shape, Fields
    <3>2. tx[w].seen = RowsOf(s, rows)
      BY <3>1 DEF IndexInv, RowsInv, WriteInv
    <3>3. tx'[w].gone = RowsOf(s, rows)
      BY <3>1, <3>2 DEF RowsOf
    <3>4. QED BY <1>1, <1>3, <3>1, <3>3 DEF WriteInv, RowsOf
  <2>3. QED BY <2>1, <2>2
<1>7. QED BY <1>1, <1>2, <1>5, <1>6, WriteStep
\* The commit of a write, beside no rebuild, has replaced the row of its source
\* and no other.
LEMMA IndexWritten ==
  ASSUME Shape, IndexInv, NEW w \in Writers, Index(w)
  PROVE  IndexInv'
<1> w \in Actors /\ w \notin Processes /\ Servers \subseteq Processes /\ Processes \subseteq Actors
  BY StartupAssumption DEF Actors, Processes
<1>1. PICK s, gone, id, live, text, new, r :
        /\ live \in BOOLEAN /\ s = tx[w].source /\ gone = tx[w].gone /\ text = source[s].text + 1
        /\ at[w] = "indexing" /\ End(w, "down")
        /\ new = [source[s] EXCEPT !.text = text, !.live = live]
        /\ r = [id |-> id, source |-> s, text |-> text]
        /\ source' = [source EXCEPT ![s] = new]
        /\ rows' = (rows \ gone) \cup (IF live THEN {r} ELSE {})
        /\ overlap' = (overlap \/ Beside(w))
  <2>1. PICK s, gone, id : s = tx[w].source /\ gone = tx[w].gone /\ id = Fresh
    OBVIOUS
  <2>2. PICK live \in BOOLEAN : live = (tx[w].kind = "write")
    OBVIOUS
  <2>3. PICK text, new : text = source[s].text + 1 /\ new = [source[s] EXCEPT !.text = text, !.live = live]
    OBVIOUS
  <2>4. PICK r : r = [id |-> id, source |-> s, text |-> text]
    OBVIOUS
  <2>5. s \in Sources /\ DOMAIN source[s] = {"text", "live", "kind"}
    BY <2>1 DEF Index, IndexInv, WriterInv, Holding, SourceInv, Record
  <2>6. new.live = live /\ new.text = text
    BY <2>3, <2>5
  <2>7. /\ at[w] = "indexing" /\ End(w, "down") /\ source' = [source EXCEPT ![s] = new]
        /\ overlap' = (overlap \/ Beside(w))
    BY <2>1, <2>2, <2>3 DEF Index
  <2>8. rows' = (rows \ gone) \cup (IF new.live THEN {[id |-> id, source |-> s, text |-> new.text]} ELSE {})
    BY <2>1, <2>2, <2>3 DEF Index
  <2>9. rows' = (rows \ gone) \cup (IF live THEN {r} ELSE {})
    BY <2>4, <2>6, <2>8
  <2>10. QED BY <2>1, <2>2, <2>3, <2>4, <2>7, <2>9, Zenon
<1>2. /\ s \in Sources /\ ~Renamed(s) /\ source \in [Sources -> Record] /\ WriterInv(w)
      /\ \A v \in Writers \ {w} : at[v] \in Holding => tx[v].source # s
  <2>1. WriterInv(w) /\ at[w] \in Holding /\ SourceInv
    BY <1>1 DEF IndexInv, Holding
  <2>2. /\ s \in Sources /\ (source[s].kind = "ticket" \/ source[s].text = 0)
        /\ \A v \in Writers \ {w} : at[v] \in Holding => tx[v].source # s
    BY <1>1, <2>1 DEF WriterInv
  <2>3. ~Renamed(s)
    BY <2>1, <2>2 DEF SourceInv, Renamed
  <2>4. QED BY <2>1, <2>2, <2>3 DEF SourceInv
<1>3. /\ new.live = live /\ new.text = text /\ new.kind = source[s].kind
      /\ text \in Nat /\ text > 0 /\ new \in Record
  <2>1. source[s] \in Record
    BY <1>2
  <2>2. source[s].text \in Nat
    BY <2>1 DEF Record
  <2>3. text \in Nat /\ text > 0
    BY <1>1, <2>2
  <2>4. QED BY <1>1, <2>1, <2>3 DEF Record
<1>4. /\ source'[s] = new
      /\ \A u \in Sources \ {s} : source'[u] = source[u]
      /\ source' \in [Sources -> Record]
  BY <1>1, <1>2, <1>3
<1>5. /\ at'[w] = "down"
      /\ \A q \in Actors \ {w} : at'[q] = at[q] /\ tx'[q] = tx[q]
  BY <1>1, EndFacts
<1>6. ASSUME NEW q \in Processes
      PROVE  ProcessInv(q)' /\ (Rebuilding(q)' <=> Rebuilding(q))
  <2>1. at'[q] = at[q] /\ tx'[q] = tx[q]
    BY <1>5
  <2>2. QED BY <2>1 DEF ProcessInv, Rebuilding, IndexInv
<1>7. ASSUME NEW v \in Writers
      PROVE  WriterInv(v)'
  <2>1. CASE v = w
    BY <1>5, <2>1 DEF WriterInv, Holding
  <2>2. CASE v # w
    <3>1. WriterInv(v) /\ at'[v] = at[v] /\ tx'[v] = tx[v]
      BY <1>5, <2>2 DEF IndexInv, Actors
    <3>2. at[v] \in Holding => source'[tx[v].source] = source[tx[v].source]
      BY <1>2, <1>4, <2>2, <3>1 DEF WriterInv
    <3>3. \A u \in Writers : at'[u] \in Holding => at[u] \in Holding /\ tx'[u] = tx[u]
      BY <1>5 DEF Holding, Actors
    <3>4. QED BY <3>1, <3>2, <3>3 DEF WriterInv
  <2>3. QED BY <2>1, <2>2
<1>8. SourceInv' /\ AloneInv'
  <2>1. ASSUME NEW u \in Sources
        PROVE  (source'[u].live => source'[u].text > 0) /\ (Renamed(u)' => source'[u].live)
    <3>1. CASE u = s
      <4>1. ~Renamed(u)'
        BY <1>2, <1>3, <1>4, <3>1 DEF Renamed
      <4>2. QED BY <1>3, <1>4, <3>1, <4>1
    <3>2. CASE u # s
      BY <1>4, <3>2 DEF IndexInv, SourceInv, Renamed
    <3>3. QED BY <3>1, <3>2
  <2>2. SourceInv'
    BY <1>4, <2>1 DEF SourceInv
  <2>3. QED BY <1>6, <2>2 DEF IndexInv, AloneInv
<1>9. RowsInv'
  <2> SUFFICES ASSUME ~overlap' PROVE RowsInv'
    BY DEF RowsInv
  <2>1. ~overlap /\ ~Beside(w)
    BY <1>1
  <2>2. \A q \in Processes : ~Rebuilding(q)'
    <3>1. \A q \in Processes : q \in Actors \ {w} /\ {w, q} \subseteq Servers => FALSE
      OBVIOUS
    <3>2. \A q \in Processes : ~Rebuilding(q)
      BY <2>1, <3>1 DEF Beside
    <3>3. QED BY <1>6, <3>2
  <2>3. gone = RowsOf(s, rows)
    BY <1>1, <2>1 DEF IndexInv, RowsInv, WriteInv
  <2>4. /\ RowsOf(s, rows') = IF live THEN {r} ELSE {}
        /\ \A u : u # s => RowsOf(u, rows') = RowsOf(u, rows)
    <3>1. r.source = s
      BY <1>1
    <3>2. CASE live
      BY <1>1, <2>3, <3>1, <3>2 DEF RowsOf
    <3>3. CASE ~live
      BY <1>1, <2>3, <3>3 DEF RowsOf
    <3>4. QED BY <3>2, <3>3
  <2>5. ASSUME NEW u \in Sources
        PROVE  Says(u, rows)'
    <3>1. CASE u # s
      <4>1. Says(u, rows)
        BY <2>1 DEF IndexInv, RowsInv
      <4>2. source'[u] = source[u] /\ RowsOf(u, rows') = RowsOf(u, rows)
        BY <1>4, <2>4, <3>1
      <4>3. QED BY <4>1, <4>2 DEF Says, Renamed, RowsOf
    <3>2. CASE u = s
      <4>1. r.text = text
        BY <1>1
      <4>2. source'[u].live = live /\ source'[u].text = text
        BY <1>3, <1>4, <3>2
      <4>3. CASE live
        <5>1. RowsOf(u, rows') = {r} /\ r.text = source'[u].text
          BY <2>4, <3>2, <4>1, <4>2, <4>3
        <5>2. QED BY <4>2, <4>3, <5>1 DEF Says, RowsOf
      <4>4. CASE ~live
        <5>1. RowsOf(u, rows') = {}
          BY <2>4, <3>2, <4>4
        <5>2. QED BY <4>2, <4>4, <5>1 DEF Says, RowsOf
      <4>5. QED BY <4>3, <4>4
    <3>3. QED BY <3>1, <3>2
  <2>6. \A q \in Processes : RebuildInv(q)'
    BY <2>2 DEF RebuildInv, Rebuilding
  <2>7. ASSUME NEW v \in Writers
        PROVE  WriteInv(v)'
    <3>1. CASE v = w
      BY <1>5, <3>1 DEF WriteInv
    <3>2. CASE v # w
      <4>1. WriteInv(v) /\ at'[v] = at[v] /\ tx'[v] = tx[v]
        BY <1>5, <2>1, <3>2 DEF IndexInv, RowsInv, Actors
      <4>2. at[v] \in Holding => RowsOf(tx[v].source, rows') = RowsOf(tx[v].source, rows)
        BY <1>2, <2>4, <3>2
      <4>3. QED BY <4>1, <4>2 DEF WriteInv, Holding, RowsOf
    <3>3. QED BY <3>1, <3>2
  <2>8. QED BY <2>5, <2>6, <2>7 DEF RowsInv
<1>10. QED BY <1>6, <1>7, <1>8, <1>9 DEF IndexInv

\* A rename is of a source nobody holds, and of which the index is not asked for
\* the text.
LEMMA IndexRenamed ==
  ASSUME IndexInv, NEW s \in Sources, Rename(s)
  PROVE  IndexInv'
<1>1. PICK new :
        /\ new = [source[s] EXCEPT !.text = @ + 1, !.kind = "renamed"]
        /\ source' = [source EXCEPT ![s] = new]
        /\ source[s].live /\ source[s].kind # "ticket"
        /\ UNCHANGED <<rows, at, tx, overlap>>
  BY DEF Rename
<1>2. /\ source[s] \in Record /\ source \in [Sources -> Record] /\ source[s].text > 0
  <2>1. SourceInv
    BY DEF IndexInv
  <2>2. QED BY <1>1, <2>1 DEF SourceInv
<1>3. new.live = source[s].live /\ new.kind = "renamed" /\ new.text > 0 /\ new \in Record
  <2>1. DOMAIN source[s] = {"text", "live", "kind"} /\ source[s].text \in Nat /\ source[s].live \in BOOLEAN
    BY <1>2 DEF Record
  <2>2. PICK live \in BOOLEAN, text \in Nat : live = source[s].live /\ text = source[s].text
    BY <2>1
  <2>3. DOMAIN new = {"text", "live", "kind"} /\ new.text = text + 1 /\ new.live = live /\ new.kind = "renamed"
    BY <1>1, <2>1, <2>2
  <2>4. text + 1 \in Nat /\ text + 1 > 0
    BY <2>2
  <2>5. new = [text |-> new.text, live |-> new.live, kind |-> new.kind]
    BY <1>1, <2>1
  <2>6. [text |-> new.text, live |-> new.live, kind |-> new.kind] \in Record
    BY <2>2, <2>3, <2>4 DEF Record
  <2>7. QED BY <2>2, <2>3, <2>4, <2>5, <2>6
<1>4. /\ source'[s] = new
      /\ \A u \in Sources \ {s} : source'[u] = source[u]
      /\ source' \in [Sources -> Record]
  BY <1>1, <1>2, <1>3
<1>5. \A u \in Sources : /\ source'[u].live = source[u].live
                         /\ Renamed(u) => Renamed(u)'
                         /\ Renamed(u)' \/ source'[u] = source[u]
  BY <1>3, <1>4 DEF Renamed
<1>6. SourceInv'
  <2>1. ASSUME NEW u \in Sources
        PROVE  (source'[u].live => source'[u].text > 0) /\ (Renamed(u)' => source'[u].live)
    <3>1. CASE u = s
      BY <1>1, <1>3, <1>4, <3>1
    <3>2. CASE u # s
      BY <1>4, <3>2 DEF IndexInv, SourceInv, Renamed
    <3>3. QED BY <3>1, <3>2
  <2>2. QED BY <1>4, <2>1 DEF SourceInv
<1>7. ASSUME NEW w \in Writers
      PROVE  WriterInv(w)'
  <2>1. WriterInv(w)
    BY DEF IndexInv
  <2>2. at[w] \in Holding => tx[w].source # s
    BY <1>1, <1>2, <2>1 DEF WriterInv
  <2>3. QED BY <1>1, <1>4, <2>1, <2>2 DEF WriterInv
<1>8. ASSUME NEW u \in Sources, NEW S, Says(u, S)
      PROVE  IF source'[u].live THEN \E r : RowsOf(u, S) = {r} /\ (Renamed(u)' \/ r.text = source'[u].text)
                                ELSE RowsOf(u, S) = {}
  BY <1>5, <1>8 DEF Says
<1>9. ASSUME NEW p \in Processes
      PROVE  ProcessInv(p)' /\ (RebuildInv(p) => RebuildInv(p)')
  <2>1. ProcessInv(p)'
    BY <1>1 DEF IndexInv, ProcessInv
  <2>2. ASSUME RebuildInv(p)
        PROVE  RebuildInv(p)'
    <3>1. ASSUME at[p] \in {"reading", "filling"}
          PROVE  \A u \in Sources : IF u < tx[p].next THEN Says(u, tx[p].added)' ELSE RowsOf(u, tx[p].added)' = {}
      <4>1. PICK A : A = tx[p].added
        OBVIOUS
      <4>2. \A u \in Sources : IF u < tx[p].next THEN Says(u, A) ELSE RowsOf(u, A) = {}
        BY <2>2, <3>1, <4>1 DEF RebuildInv
      <4>3. \A u \in Sources : Says(u, A) => Says(u, A)'
        BY <1>8 DEF Says, RowsOf
      <4>4. \A u \in Sources : IF u < tx[p].next THEN Says(u, A)' ELSE RowsOf(u, A)' = {}
        BY <4>2, <4>3 DEF RowsOf
      <4>5. tx'[p].added = A
        BY <1>1, <4>1
      <4>6. QED BY <4>4, <4>5 DEF Says, Renamed, RowsOf
    <3>2. ASSUME at[p] = "filling"
          PROVE  ReadInv(p, tx[p].next)'
      <4>1. ReadInv(p, tx[p].next)
        BY <2>2, <3>2 DEF RebuildInv
      <4>2. QED BY <1>1, <1>5, <4>1 DEF ReadInv
    <3>3. QED BY <1>1, <2>2, <3>1, <3>2 DEF RebuildInv
  <2>3. QED BY <2>1, <2>2
<1>10. \A w \in Writers : WriteInv(w) => WriteInv(w)'
  BY <1>1 DEF WriteInv, RowsOf
<1>11. (\A u \in Sources : Says(u, rows)) => \A u \in Sources : Says(u, rows)'
  <2>1. SUFFICES ASSUME NEW u \in Sources, Says(u, rows) PROVE Says(u, rows)'
    OBVIOUS
  <2>2. IF source'[u].live THEN \E r : RowsOf(u, rows) = {r} /\ (Renamed(u)' \/ r.text = source'[u].text)
                           ELSE RowsOf(u, rows) = {}
    BY <1>8, <2>1
  <2>3. RowsOf(u, rows') = RowsOf(u, rows)
    BY <1>1
  <2>4. RowsOf(u, rows)' = RowsOf(u, rows')
    BY DEF RowsOf
  <2>5. QED BY <2>2, <2>3, <2>4 DEF Says
<1>12. AloneInv'
  BY <1>1 DEF IndexInv, AloneInv, Rebuilding
<1>13. RowsInv'
  BY <1>1, <1>9, <1>10, <1>11 DEF IndexInv, RowsInv
<1>14. QED BY <1>6, <1>7, <1>9, <1>12, <1>13 DEF IndexInv

LEMMA IndexNext == Shape /\ IndexInv /\ [Next]_vars => IndexInv'
<1> SUFFICES ASSUME Shape, IndexInv, [Next]_vars PROVE IndexInv'
  OBVIOUS
<1>1. CASE UNCHANGED vars
  BY <1>1, IndexRest
<1>2. CASE \E p \in Processes :
              \/ Start(p) \/ Ahead(p) \/ Newer(p) \/ UpToDate(p) \/ Pending(p)
              \/ UpLock(p) \/ Apply(p) \/ ApplyFails(p) \/ UpDone(p)
              \/ (\E n \in 1 .. 2 : DownLock(p, n)) \/ Undo(p) \/ DownDone(p) \/ Baseline(p)
              \/ Current(p) \/ RebuildFails(p) \/ Stop(p)
  BY <1>2, IndexRest
<1>3. CASE \E w \in Writers : WriteFails(w)
  BY <1>3, IndexRest
<1>4. ASSUME NEW p \in Processes, Rebuild(p) \/ Clear(p) \/ Read(p) \/ Fill(p) \/ RebuildDone(p)
      PROVE  IndexInv'
  BY <1>4, IndexRebuild, IndexRead, IndexFill, IndexRebuilt
<1>5. ASSUME NEW w \in Writers, Begin(w) \/ ClearBegin(w) \/ Clear(w) \/ Index(w)
      PROVE  IndexInv'
  BY <1>5, IndexBegin, IndexClear, IndexWritten
<1>6. ASSUME NEW s \in Sources, Rename(s)
      PROVE  IndexInv'
  BY <1>6, IndexRenamed
<1>7. QED BY <1>1, <1>2, <1>3, <1>4, <1>5, <1>6 DEF Next

\* internal/search, EnsureCurrent and cmd/reindex beside the writes of a server:
\* however they fail and are stopped, the index is the function of its sources,
\* until one of them commits beside a rebuild.
THEOREM IndexIsOfItsSources == Spec => []IndexFollowsSources
<1>1. IndexInv => IndexFollowsSources
  <2> SUFFICES ASSUME IndexInv, ~overlap, NEW s \in Sources
               PROVE  IF Renamed(s) THEN Cardinality(RowsOf(s, rows)) = 1 ELSE OneRowEach(s)
    BY DEF IndexFollowsSources, RowsOf
  <2>1. Says(s, rows) /\ (Renamed(s) => source[s].live)
    BY DEF IndexInv, RowsInv, SourceInv
  <2>2. CASE source[s].live
    <3>1. PICK r : RowsOf(s, rows) = {r} /\ (Renamed(s) \/ r.text = source[s].text)
      BY <2>1, <2>2 DEF Says
    <3>2. Cardinality(RowsOf(s, rows)) = 1
      BY <3>1, FS_Singleton
    <3>3. {x.text : x \in RowsOf(s, rows)} = {r.text}
      BY <3>1
    <3>4. QED BY <2>2, <3>1, <3>2, <3>3 DEF OneRowEach, RowsOf
  <2>3. CASE ~source[s].live
    <3>1. RowsOf(s, rows) = {} /\ ~Renamed(s)
      BY <2>1, <2>3 DEF Says
    <3>2. Cardinality(RowsOf(s, rows)) = 0
      BY <3>1, FS_EmptySet
    <3>3. {x.text : x \in RowsOf(s, rows)} = {}
      BY <3>1
    <3>4. QED BY <2>3, <3>1, <3>2, <3>3 DEF OneRowEach, RowsOf
  <2>4. QED BY <2>2, <2>3
<1>2. Shape /\ IndexInv /\ [Next]_vars => (Shape /\ IndexInv)'
  BY ShapeNext, IndexNext
<1>3. Init => Shape /\ IndexInv
  BY InitInv, InitIndex
<1>4. QED BY <1>1, <1>2, <1>3, PTL DEF Spec
===============================================================================
