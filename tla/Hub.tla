--------------------------------- MODULE Hub ---------------------------------
(***************************************************************************)
(* The change feed's hub, src/internal/realtime/hub.go: one process, one   *)
(* registry of connections, any number of publishers.                      *)
(*                                                                         *)
(* A connection c is one call of Hub.Serve and the reader goroutine it     *)
(* starts.  A publisher is one call of Hub.Publish, so it is named by the  *)
(* event it carries.  A closer is one call of Hub.Close.  Every step below *)
(* is one stretch of such a goroutine between two points where another one *)
(* can be seen: a lock, a channel operation, a socket operation.           *)
(*                                                                         *)
(* h.mu is not a variable.  It is held for reading by exactly the          *)
(* publishers in "sending" (Publish sends inside the read lock), and every *)
(* section under the write lock is one step, taken when no publisher is in *)
(* "sending".                                                              *)
(***************************************************************************)
EXTENDS Naturals, Sequences, FiniteSets

CONSTANTS
    Conns,          \* the calls of Serve
    Events,         \* the calls of Publish, each with its one event
    Closers,        \* the calls of Close
    Workspaces,     \* workspace ids
    Kinds,          \* event types, as far as a token's scopes tell them apart
    WorkspaceOf,    \* Conns \cup Events -> Workspaces
    KindOf,         \* Events -> Kinds
    Allowed,        \* Conns -> SUBSET Kinds: the conn's allow function
    SendQueue,      \* Options.SendQueue
    Hello,          \* helloFrame
    NoFrame         \* no frame in hand

ASSUME HubAssumption ==
    /\ IsFiniteSet(Conns)
    /\ WorkspaceOf \in [Conns \cup Events -> Workspaces]
    /\ KindOf \in [Events -> Kinds]
    /\ Allowed \in [Conns -> SUBSET Kinds]
    /\ SendQueue \in Nat \ {0}
    /\ Hello \notin Events
    /\ NoFrame \notin Events \cup {Hello}
    /\ {"unused", "used"} \cap Events = {}

VARIABLES
    stage,      \* where each Serve stands
    reader,     \* its reader goroutine
    ctxDone,    \* its context has been cancelled
    queue,      \* conn.send
    frame,      \* the frame Serve took from send and is writing
    wire,       \* the frames written to the client, in order
    once,       \* conn.once: "unused", the event whose publisher runs it, "used"
    registered, \* the connections in Hub.conns
    wg,         \* Hub.wg
    closed,     \* Hub.closed
    hubDone,    \* Hub.ctx has been cancelled
    closer,     \* where each Close stands
    pub,        \* where each Publish stands
    todo,       \* the connections its range over the set has still to visit
    slow,       \* the connections it found full and has still to drop
    owed        \* history: the events published to c after its client had hello

connVars == <<stage, reader, ctxDone, queue, frame, wire, once>>
hubVars  == <<registered, wg, closed, hubDone, closer>>
pubVars  == <<pub, todo, slow, owed>>
vars     == <<stage, reader, ctxDone, queue, frame, wire, once,
              registered, wg, closed, hubDone, closer,
              pub, todo, slow, owed>>

Frames == Events \cup {Hello}

Stages == {"new", "refused", "entered", "accepted", "loop", "writing", "pinging",
           "leaving", "teardown", "joining", "returned"}

\* The stages between wg.Add and wg.Done.
InFlight == {c \in Conns : stage[c] \notin {"new", "refused", "returned"}}

TypeOK ==
    /\ stage \in [Conns -> Stages]
    /\ reader \in [Conns -> {"none", "reading", "refusing", "done"}]
    /\ ctxDone \in [Conns -> BOOLEAN]
    /\ queue \in [Conns -> Seq(Frames)]
    /\ frame \in [Conns -> Frames \cup {NoFrame}]
    /\ wire \in [Conns -> Seq(Frames)]
    /\ once \in [Conns -> Events \cup {"unused", "used"}]
    /\ registered \in SUBSET Conns
    /\ wg \in Nat
    /\ closed \in BOOLEAN
    /\ hubDone \in BOOLEAN
    /\ closer \in [Closers -> {"idle", "marked", "waiting", "returned"}]
    /\ pub \in [Events -> {"idle", "sending", "dropping", "returned"}]
    /\ todo \in [Events -> SUBSET Conns]
    /\ slow \in [Events -> SUBSET Conns]
    /\ owed \in [Conns -> SUBSET Events]

Init ==
    /\ stage = [c \in Conns |-> "new"]
    /\ reader = [c \in Conns |-> "none"]
    /\ ctxDone = [c \in Conns |-> FALSE]
    /\ queue = [c \in Conns |-> <<>>]
    /\ frame = [c \in Conns |-> NoFrame]
    /\ wire = [c \in Conns |-> <<>>]
    /\ once = [c \in Conns |-> "unused"]
    /\ registered = {}
    /\ wg = 0
    /\ closed = FALSE
    /\ hubDone = FALSE
    /\ closer = [k \in Closers |-> "idle"]
    /\ pub = [e \in Events |-> "idle"]
    /\ todo = [e \in Events |-> {}]
    /\ slow = [e \in Events |-> {}]
    /\ owed = [c \in Conns |-> {}]

\* The write lock can be taken: no publisher holds the read lock.
NoReadLock == \A e \in Events : pub[e] # "sending"

Go(c, from, to) ==
    /\ stage[c] = from
    /\ stage' = [stage EXCEPT ![c] = to]

-----------------------------------------------------------------------------
(* Serve.                                                                  *)

\* Mutant of Enter: admits a Serve without looking at closed.
Enter_IgnoresClosed(c) ==
    /\ NoReadLock
    /\ Go(c, "new", "entered")
    /\ wg' = wg + 1
    /\ UNCHANGED <<reader, ctxDone, queue, frame, wire, once>>
    /\ UNCHANGED <<registered, closed, hubDone, closer>>
    /\ UNCHANGED pubVars

\* enter: counted and admitted, or refused with ErrClosed.
Enter(c) ==
    /\ NoReadLock
    /\ IF closed
       THEN Go(c, "new", "refused") /\ UNCHANGED wg
       ELSE Go(c, "new", "entered") /\ wg' = wg + 1
    /\ UNCHANGED <<reader, ctxDone, queue, frame, wire, once>>
    /\ UNCHANGED <<registered, closed, hubDone, closer>>
    /\ UNCHANGED pubVars

\* websocket.Accept refuses the handshake; only wg.Done is deferred yet.
AcceptFails(c) ==
    /\ Go(c, "entered", "returned")
    /\ wg' = wg - 1
    /\ UNCHANGED <<reader, ctxDone, queue, frame, wire, once>>
    /\ UNCHANGED <<registered, closed, hubDone, closer>>
    /\ UNCHANGED pubVars

\* Accept succeeds: the reader starts and the hello is queued.
Accept(c) ==
    /\ Go(c, "entered", "accepted")
    /\ reader' = [reader EXCEPT ![c] = "reading"]
    /\ queue' = [queue EXCEPT ![c] = Append(@, Hello)]
    /\ UNCHANGED <<ctxDone, frame, wire, once>>
    /\ UNCHANGED hubVars
    /\ UNCHANGED pubVars

\* add, also on a hub that has closed since enter.
Add(c) ==
    /\ NoReadLock
    /\ Go(c, "accepted", "loop")
    /\ registered' = registered \cup {c}
    /\ UNCHANGED <<reader, ctxDone, queue, frame, wire, once>>
    /\ UNCHANGED <<wg, closed, hubDone, closer>>
    /\ UNCHANGED pubVars

\* The loop's select, <-ctx.Done().
LoopCancelled(c) ==
    /\ ctxDone[c]
    /\ Go(c, "loop", "leaving")
    /\ UNCHANGED <<reader, ctxDone, queue, frame, wire, once>>
    /\ UNCHANGED hubVars
    /\ UNCHANGED pubVars

\* The loop's select, <-h.ctx.Done(): the close frame, then return.
LoopGoingAway(c) ==
    /\ hubDone
    /\ Go(c, "loop", "leaving")
    /\ UNCHANGED <<reader, ctxDone, queue, frame, wire, once>>
    /\ UNCHANGED hubVars
    /\ UNCHANGED pubVars

\* The loop's select, msg := <-c.send.
LoopTake(c) ==
    /\ queue[c] # <<>>
    /\ Go(c, "loop", "writing")
    /\ frame' = [frame EXCEPT ![c] = Head(queue[c])]
    /\ queue' = [queue EXCEPT ![c] = Tail(@)]
    /\ UNCHANGED <<reader, ctxDone, wire, once>>
    /\ UNCHANGED hubVars
    /\ UNCHANGED pubVars

WriteSucceeds(c) ==
    /\ Go(c, "writing", "loop")
    /\ wire' = [wire EXCEPT ![c] = Append(@, frame[c])]
    /\ frame' = [frame EXCEPT ![c] = NoFrame]
    /\ UNCHANGED <<reader, ctxDone, queue, once>>
    /\ UNCHANGED hubVars
    /\ UNCHANGED pubVars

\* Timed out, cancelled, or the socket is dead.
WriteFails(c) ==
    /\ Go(c, "writing", "leaving")
    /\ frame' = [frame EXCEPT ![c] = NoFrame]
    /\ UNCHANGED <<reader, ctxDone, queue, wire, once>>
    /\ UNCHANGED hubVars
    /\ UNCHANGED pubVars

\* The loop's select, <-ping.C, and the two ends of ws.Ping.
LoopPing(c) ==
    /\ Go(c, "loop", "pinging")
    /\ UNCHANGED <<reader, ctxDone, queue, frame, wire, once>>
    /\ UNCHANGED hubVars
    /\ UNCHANGED pubVars

PingEnds(c) ==
    /\ \/ reader[c] = "reading" /\ Go(c, "pinging", "loop")
       \/ Go(c, "pinging", "leaving")
    /\ UNCHANGED <<reader, ctxDone, queue, frame, wire, once>>
    /\ UNCHANGED hubVars
    /\ UNCHANGED pubVars

\* Mutant of Remove: the deferred remove is missing.
Remove_Forgets(c) ==
    /\ NoReadLock
    /\ Go(c, "leaving", "teardown")
    /\ UNCHANGED <<reader, ctxDone, queue, frame, wire, once>>
    /\ UNCHANGED hubVars
    /\ UNCHANGED pubVars

\* The deferred h.remove(c).
Remove(c) ==
    /\ NoReadLock
    /\ Go(c, "leaving", "teardown")
    /\ registered' = registered \ {c}
    /\ UNCHANGED <<reader, ctxDone, queue, frame, wire, once>>
    /\ UNCHANGED <<wg, closed, hubDone, closer>>
    /\ UNCHANGED pubVars

\* The deferred cancel and ws.CloseNow.
Teardown(c) ==
    /\ Go(c, "teardown", "joining")
    /\ ctxDone' = [ctxDone EXCEPT ![c] = TRUE]
    /\ UNCHANGED <<reader, queue, frame, wire, once>>
    /\ UNCHANGED hubVars
    /\ UNCHANGED pubVars

\* The deferred <-readerDone, then wg.Done.
Return(c) ==
    /\ reader[c] = "done"
    /\ Go(c, "joining", "returned")
    /\ wg' = wg - 1
    /\ UNCHANGED <<reader, ctxDone, queue, frame, wire, once>>
    /\ UNCHANGED <<registered, closed, hubDone, closer>>
    /\ UNCHANGED pubVars

-----------------------------------------------------------------------------
(* The reader goroutine.  Its deferred cancel and close(readerDone) are    *)
(* one step: nobody can see the channel open and the context cancelled and *)
(* act on the difference.                                                  *)

ReaderExits(c) ==
    /\ reader' = [reader EXCEPT ![c] = "done"]
    /\ ctxDone' = [ctxDone EXCEPT ![c] = TRUE]
    /\ UNCHANGED <<stage, queue, frame, wire, once>>
    /\ UNCHANGED hubVars
    /\ UNCHANGED pubVars

\* ws.Read fails because the client left.
PeerLeaves(c) ==
    /\ reader[c] = "reading"
    /\ ReaderExits(c)

\* ws.Read returns a data frame: the reader closes with a policy violation.
PeerSendsData(c) ==
    /\ reader[c] = "reading"
    /\ reader' = [reader EXCEPT ![c] = "refusing"]
    /\ UNCHANGED <<stage, ctxDone, queue, frame, wire, once>>
    /\ UNCHANGED hubVars
    /\ UNCHANGED pubVars

\* ws.Read fails because its context ended, or ws.Close is over.
ReaderUnblocks(c) ==
    /\ \/ reader[c] = "reading" /\ ctxDone[c]
       \/ reader[c] = "refusing"
    /\ ReaderExits(c)

-----------------------------------------------------------------------------
(* Publish.                                                                *)

InWorkspace(e) == {c \in registered : WorkspaceOf[c] = WorkspaceOf[e]}

Wants(c, e) ==
    /\ WorkspaceOf[c] = WorkspaceOf[e]
    /\ KindOf[e] \in Allowed[c]

\* Takes the read lock and the workspace's set.  An empty set ends the call.
\* A nil allow function is Allowed[c] = Kinds.
PublishBegin(e) ==
    /\ pub[e] = "idle"
    /\ todo' = [todo EXCEPT ![e] = {c \in InWorkspace(e) : KindOf[e] \in Allowed[c]}]
    /\ pub' = [pub EXCEPT ![e] = IF InWorkspace(e) = {} THEN "returned" ELSE "sending"]
    /\ owed' = [c \in Conns |->
                   IF Wants(c, e) /\ wire[c] # <<>> THEN owed[c] \cup {e} ELSE owed[c]]
    /\ UNCHANGED slow
    /\ UNCHANGED connVars
    /\ UNCHANGED hubVars

\* json.Marshal fails: logged, and the event reaches nobody.
PublishEncodeFails(e) ==
    /\ pub[e] = "idle"
    /\ InWorkspace(e) # {}
    /\ pub' = [pub EXCEPT ![e] = "returned"]
    /\ UNCHANGED <<todo, slow, owed>>
    /\ UNCHANGED connVars
    /\ UNCHANGED hubVars

\* Mutant of PublishSend: a full queue is skipped, and nobody is dropped.
PublishSend_Skips(e, c) ==
    /\ pub[e] = "sending"
    /\ c \in todo[e]
    /\ todo' = [todo EXCEPT ![e] = @ \ {c}]
    /\ queue' = IF Len(queue[c]) < SendQueue THEN [queue EXCEPT ![c] = Append(@, e)] ELSE queue
    /\ UNCHANGED <<stage, reader, ctxDone, frame, wire, once>>
    /\ UNCHANGED hubVars
    /\ UNCHANGED <<pub, slow, owed>>

\* Mutant of PublishSend: the send blocks until there is room.
PublishSend_Blocks(e, c) ==
    /\ pub[e] = "sending"
    /\ c \in todo[e]
    /\ Len(queue[c]) < SendQueue
    /\ todo' = [todo EXCEPT ![e] = @ \ {c}]
    /\ queue' = [queue EXCEPT ![c] = Append(@, e)]
    /\ UNCHANGED <<stage, reader, ctxDone, frame, wire, once>>
    /\ UNCHANGED hubVars
    /\ UNCHANGED <<pub, slow, owed>>

\* One turn of the range: the non-blocking send, or a note that c is full.
PublishSend(e, c) ==
    /\ pub[e] = "sending"
    /\ c \in todo[e]
    /\ todo' = [todo EXCEPT ![e] = @ \ {c}]
    /\ IF Len(queue[c]) < SendQueue
       THEN /\ queue' = [queue EXCEPT ![c] = Append(@, e)]
            /\ UNCHANGED slow
       ELSE /\ slow' = [slow EXCEPT ![e] = @ \cup {c}]
            /\ UNCHANGED queue
    /\ UNCHANGED <<stage, reader, ctxDone, frame, wire, once>>
    /\ UNCHANGED hubVars
    /\ UNCHANGED <<pub, owed>>

\* h.mu.RUnlock.
PublishUnlock(e) ==
    /\ pub[e] = "sending"
    /\ todo[e] = {}
    /\ pub' = [pub EXCEPT ![e] = "dropping"]
    /\ UNCHANGED <<todo, slow, owed>>
    /\ UNCHANGED connVars
    /\ UNCHANGED hubVars

\* drop, as the first caller of c.once.Do: h.remove(c), then c.cancel().
DropRemove(e, c) ==
    /\ pub[e] = "dropping"
    /\ c \in slow[e]
    /\ once[c] = "unused"
    /\ \A d \in Conns : once[d] # e
    /\ NoReadLock
    /\ registered' = registered \ {c}
    /\ once' = [once EXCEPT ![c] = e]
    /\ UNCHANGED <<stage, reader, ctxDone, queue, frame, wire>>
    /\ UNCHANGED <<wg, closed, hubDone, closer>>
    /\ UNCHANGED pubVars

\* Mutant of DropCancel: the connection is unregistered and never cancelled.
DropCancel_OnlyRemoves(e, c) ==
    /\ once[c] = e
    /\ once' = [once EXCEPT ![c] = "used"]
    /\ slow' = [slow EXCEPT ![e] = @ \ {c}]
    /\ UNCHANGED <<stage, reader, ctxDone, queue, frame, wire>>
    /\ UNCHANGED hubVars
    /\ UNCHANGED <<pub, todo, owed>>

DropCancel(e, c) ==
    /\ once[c] = e
    /\ once' = [once EXCEPT ![c] = "used"]
    /\ ctxDone' = [ctxDone EXCEPT ![c] = TRUE]
    /\ slow' = [slow EXCEPT ![e] = @ \ {c}]
    /\ UNCHANGED <<stage, reader, queue, frame, wire>>
    /\ UNCHANGED hubVars
    /\ UNCHANGED <<pub, todo, owed>>

\* drop, as a later caller: once.Do has nothing left to do.
DropAgain(e, c) ==
    /\ pub[e] = "dropping"
    /\ c \in slow[e]
    /\ once[c] = "used"
    /\ \A d \in Conns : once[d] # e
    /\ slow' = [slow EXCEPT ![e] = @ \ {c}]
    /\ UNCHANGED connVars
    /\ UNCHANGED hubVars
    /\ UNCHANGED <<pub, todo, owed>>

PublishReturn(e) ==
    /\ pub[e] = "dropping"
    /\ slow[e] = {}
    /\ pub' = [pub EXCEPT ![e] = "returned"]
    /\ UNCHANGED <<todo, slow, owed>>
    /\ UNCHANGED connVars
    /\ UNCHANGED hubVars

-----------------------------------------------------------------------------
(* Close.                                                                  *)

CloseMark(k) ==
    /\ NoReadLock
    /\ closer[k] = "idle"
    /\ closer' = [closer EXCEPT ![k] = "marked"]
    /\ closed' = TRUE
    /\ UNCHANGED <<registered, wg, hubDone>>
    /\ UNCHANGED connVars
    /\ UNCHANGED pubVars

\* Mutant of CloseCancel: Close waits without cancelling the hub's context.
CloseCancel_OnlyWaits(k) ==
    /\ closer[k] = "marked"
    /\ closer' = [closer EXCEPT ![k] = "waiting"]
    /\ UNCHANGED <<registered, wg, closed, hubDone>>
    /\ UNCHANGED connVars
    /\ UNCHANGED pubVars

CloseCancel(k) ==
    /\ closer[k] = "marked"
    /\ closer' = [closer EXCEPT ![k] = "waiting"]
    /\ hubDone' = TRUE
    /\ UNCHANGED <<registered, wg, closed>>
    /\ UNCHANGED connVars
    /\ UNCHANGED pubVars

\* wg.Wait returns.
CloseReturn(k) ==
    /\ closer[k] = "waiting"
    /\ wg = 0
    /\ closer' = [closer EXCEPT ![k] = "returned"]
    /\ UNCHANGED <<registered, wg, closed, hubDone>>
    /\ UNCHANGED connVars
    /\ UNCHANGED pubVars

-----------------------------------------------------------------------------

Leave(c) == Remove(c) \/ Teardown(c) \/ Return(c)

Serve(c) ==
    \/ Enter(c) \/ AcceptFails(c) \/ Accept(c) \/ Add(c)
    \/ LoopCancelled(c) \/ LoopGoingAway(c) \/ LoopTake(c) \/ LoopPing(c)
    \/ WriteSucceeds(c) \/ WriteFails(c) \/ PingEnds(c)
    \/ Leave(c)

Reader(c) == PeerLeaves(c) \/ PeerSendsData(c) \/ ReaderUnblocks(c)

Publish(e) ==
    \/ PublishBegin(e) \/ PublishEncodeFails(e) \/ PublishUnlock(e) \/ PublishReturn(e)
    \/ \E c \in Conns :
          PublishSend(e, c) \/ DropRemove(e, c) \/ DropCancel(e, c) \/ DropAgain(e, c)

Close(k) == CloseMark(k) \/ CloseCancel(k) \/ CloseReturn(k)

Next ==
    \/ \E c \in Conns : Serve(c) \/ Reader(c)
    \/ \E e \in Events : Publish(e)
    \/ \E k \in Closers : Close(k)

Spec == Init /\ [][Next]_vars

(***************************************************************************)
(* Fairness.  A publisher that began goes on: it waits for nobody but      *)
(* lock holders.  A Serve that began goes on: Accept, a write and a ping   *)
(* are bounded by the HTTP server, WriteTimeout and PongTimeout, so each   *)
(* ends one way or the other.  Go's select picks among ready cases at      *)
(* random, so a ready case is not passed over for ever: those are the two  *)
(* strong fairness conditions.  Clients and new calls owe nothing.         *)
(***************************************************************************)
PublisherFairness ==
    \A e \in Events :
        /\ WF_vars(PublishUnlock(e) \/ PublishReturn(e))
        /\ \A c \in Conns :
              WF_vars(PublishSend(e, c)) /\ WF_vars(DropRemove(e, c) \/ DropCancel(e, c) \/ DropAgain(e, c))

ServeFairness ==
    \A c \in Conns :
        /\ WF_vars(AcceptFails(c) \/ Accept(c))
        /\ WF_vars(Add(c))
        /\ WF_vars(WriteSucceeds(c) \/ WriteFails(c))
        /\ WF_vars(PingEnds(c))
        /\ SF_vars(LoopCancelled(c) \/ LoopGoingAway(c))
        /\ SF_vars(LoopTake(c))
        /\ WF_vars(Leave(c))
        /\ WF_vars(ReaderUnblocks(c))

CloseFairness == \A k \in Closers : WF_vars(CloseCancel(k)) /\ WF_vars(CloseReturn(k))

FairSpec == Spec /\ PublisherFairness /\ ServeFairness /\ CloseFairness

-----------------------------------------------------------------------------
(* What the hub promises.                                                  *)

\* e was written to c, is being written, or is queued.
Has(c, e) ==
    \/ \E i \in 1..Len(wire[c]) : wire[c][i] = e
    \/ frame[c] = e
    \/ \E i \in 1..Len(queue[c]) : queue[c][i] = e

\* c is on its way out, or a publisher is on its way to put it out.
Ending(c) ==
    \/ ctxDone[c]
    \/ stage[c] \in {"leaving", "teardown", "joining", "returned"}
    \/ once[c] # "unused"

\* "A connection whose queue is full is dropped rather than waited for: the
\* client reconnects and lists, which closes any gap."  A client that has had
\* its hello either gets every event published after it, or is being ended: no
\* connection misses an event and lives on.
NoSilentGap ==
    \A c \in Conns : \A e \in owed[c] :
        \/ Has(c, e)
        \/ c \in todo[e] \cup slow[e]
        \/ Ending(c)

\* Close "returns only when every Serve has returned", so that no goroutine and
\* no registry entry outlives it, even for a Serve caught between enter and add.
CloseDrains ==
    (\E k \in Closers : closer[k] = "returned") =>
        /\ InFlight = {}
        /\ registered = {}
        /\ \A c \in Conns : reader[c] \in {"none", "done"}

\* remove and drop both delete from the registry and only add inserts: a Serve
\* that has left it is never in it again, and a Serve in its loop is missing
\* from it only when drop took it out.
RegistryIsExact ==
    \A c \in Conns :
        /\ c \in registered => stage[c] \in {"loop", "writing", "pinging", "leaving"}
        /\ stage[c] \in {"loop", "writing", "pinging"} => c \in registered \/ once[c] # "unused"

\* "Publish never blocks": a publisher that holds the read lock can always take
\* its next step, whatever state its clients, their queues and the hub are in.
PublishNeverBlocks ==
    \A e \in Events : pub[e] = "sending" => ENABLED Publish(e)

\* Close, once called, returns, whatever the clients do.
CloseReturns ==
    \A k \in Closers : closer[k] # "idle" ~> closer[k] = "returned"

\* A connection found full is ended, not merely taken off the registry.
SlowIsEnded ==
    \A c \in Conns, e \in Events : c \in slow[e] ~> stage[c] = "returned"

=============================================================================
