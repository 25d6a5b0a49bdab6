---------------------------- MODULE RelayService ----------------------------
(***************************************************************************)
(* The RTMP relay (xaionaro-go-rtmp/yutoppgortmp): the registry of the     *)
(* published streams (relay_service.go), the connections' handlers that    *)
(* publish and play them (handler.go), and how streams and subscribers are *)
(* taken down (pubsub.go).  The tags that flow are not modelled here.      *)
(*                                                                         *)
(* A stream is known by the number of its Pubsub, 0 being the nil one.     *)
(* Each handler has two threads: the message loop of its connection and    *)
(* the goroutine that OnClose leaves behind.  RelayService.m is held       *)
(* through several steps by NewPubsub and RemovePubsub only; Pub.Close     *)
(* works on the registry WITHOUT it, under the mutex of its own Pubsub.    *)
(***************************************************************************)
EXTENDS Naturals, Sequences, FiniteSets

CONSTANTS
    Handlers,    \* the connections
    NoHandler,   \* the nil publisherHandler
    Admins,      \* goroutines of the embedding program, calling RemovePubsub
    Waiters,     \* ... and WaitPubsub
    Keys,        \* the names of streams
    MaxPubsubs   \* connections stop publishing at this many Pubsubs

ASSUME NoHandlerAssumption == NoHandler \notin Handlers
ASSUME KeysAssumption == Keys # {}

VARIABLES
    up,              \* the process
    streams,         \* RelayService.streams
    changed,         \* RelayService.streamsChanged, channels being numbered
    closedChans,     \* the channels that are closed
    pubsubs,         \* every Pubsub made: its name and its publisherHandler
    subs,            \* <<p, h>>: the Sub of h is in the map of p
    sweeps,          \* <<p, t>>: goroutines of deregister that did not run yet
    told,            \* the Pubsubs whose Pub's closedChan was closed
    closedConns,     \* the handlers whose connection is closed
    isClosed,        \* Handler.isClosed
    pub, sub,        \* Handler.pub and Handler.sub, each by its Pubsub
    pc, job,         \* the control point of each thread and what it works on
    wait             \* the calls of WaitPubsub

registry == <<streams, changed, closedChans>>
taken    == <<pubsubs, subs, sweeps, told>>
conns    == <<closedConns, isClosed, pub, sub>>
threads  == <<pc, job>>
outside  == <<up, wait>>
vars == <<registry, taken, conns, threads, outside>>

-----------------------------------------------------------------------------

Threads == (Handlers \X {"loop", "closer"}) \cup (Admins \X {"admin"})

loop(h)   == <<h, "loop">>      \* go-rtmp's message loop of the connection
closer(h) == <<h, "closer">>    \* the goroutine of OnClose

PCs == {"none", "ready", "newPubsub", "drain", "check", "delete", "announce", "cut",
        "register", "publishAnnounce", "setPub", "lookup", "subscribe",
        "panicked", "closeSub", "done"}

NoJob  == [key |-> CHOOSE k \in Keys : TRUE, pubsub |-> 0, seen |-> 0]
NoWait == [pc |-> "idle", key |-> CHOOSE k \in Keys : TRUE, cur |-> 0, chan |-> 0]

Pubsub == [name : Keys, publisher : Handlers \cup {NoHandler}]
IDs == 1..Len(pubsubs)

TypeOK ==
    /\ up \in BOOLEAN
    /\ pubsubs \in Seq(Pubsub)
    /\ streams \in [Keys -> {0} \cup IDs]
    /\ changed \in Nat \ {0}
    /\ closedChans \subseteq 1..changed
    /\ subs \subseteq IDs \X Handlers
    /\ sweeps \subseteq IDs \X Threads
    /\ told \subseteq IDs
    /\ closedConns \subseteq Handlers /\ isClosed \subseteq closedConns
    /\ pub \in [Handlers -> {0} \cup IDs]
    /\ sub \in [Handlers -> {0} \cup IDs]
    /\ pc \in [Threads -> PCs]
    /\ job \in [Threads -> [key : Keys, pubsub : {0} \cup IDs, seen : 0..changed]]
    /\ wait \in [Waiters -> [pc : {"idle", "check", "waiting"}, key : Keys,
                             cur : {0} \cup IDs, chan : 0..changed]]

Init ==
    /\ up = TRUE
    /\ streams = [k \in Keys |-> 0]
    /\ changed = 1 /\ closedChans = {}
    /\ pubsubs = <<>> /\ subs = {} /\ sweeps = {} /\ told = {}
    /\ closedConns = {} /\ isClosed = {}
    /\ pub = [h \in Handlers |-> 0] /\ sub = [h \in Handlers |-> 0]
    /\ pc = [t \in Threads |-> IF t[2] \in {"loop", "admin"} THEN "ready" ELSE "none"]
    /\ job = [t \in Threads |-> NoJob]
    /\ wait = [w \in Waiters |-> NoWait]

-----------------------------------------------------------------------------
(***************************************************************************)
(* Mutexes and control.                                                    *)
(***************************************************************************)

Deregistering == {"drain", "check", "delete", "announce", "cut"}

\* RelayService.m: NewPubsub holds it until it returns, RemovePubsub too.
HoldsRegistry(t) ==
    \/ t[2] = "loop" /\ pc[t] \in Deregistering \cup {"register", "publishAnnounce"}
    \/ t[2] = "admin" /\ pc[t] # "ready"

RegistryFree == \A t \in Threads : ~HoldsRegistry(t)

\* Pubsub.m: Deregister holds it until it returns.
PubsubFree(p) ==
    \A h \in Handlers : ~( /\ pc[closer(h)] \in Deregistering \ {"drain"}
                           /\ job[closer(h)].pubsub = p )

At(t, label) == up /\ pc[t] = label
Goto(t, label) == pc' = [pc EXCEPT ![t] = label]

\* What a call that returns worked on is gone.
Forget(t) == job' = [job EXCEPT ![t] = NoJob]

\* An operation that changes nothing but where t is and what it works on.
Quietly == UNCHANGED <<registry, taken, conns, outside>>

-----------------------------------------------------------------------------
(***************************************************************************)
(* Pubsub.deregister, in NewPubsub (under RelayService.m, for the stream   *)
(* that is taken over) and in Pub.Close (under Pubsub.m), and removePubsub *)
(* in both and in RemovePubsub.                                            *)
(***************************************************************************)

\* The subscribers are deleted from the map before the goroutine that is to
\* close them is spawned, and that goroutine walks the same map.
Drain(t) ==
    /\ At(t, "drain")
    /\ subs' = {s \in subs : s[1] # job[t].pubsub}
    /\ sweeps' = sweeps \cup {<<job[t].pubsub, t>>}
    /\ Goto(t, "check")
    /\ UNCHANGED <<registry, pubsubs, told, conns, job, outside>>

AfterRemoval(t) == IF t[2] = "admin" THEN "ready" ELSE "cut"

\* A slip: removePubsub spins on the mutex that NewPubsub holds.
Check_Relocks(t) ==
    /\ At(t, "check")
    /\ Goto(t, IF ~RegistryFree THEN "check"
               ELSE IF streams[job[t].key] = 0 THEN AfterRemoval(t) ELSE "delete")
    /\ Quietly /\ UNCHANGED job

Check(t) ==
    /\ At(t, "check")
    /\ Goto(t, IF streams[job[t].key] = 0      \* "not published"
               THEN AfterRemoval(t) ELSE "delete")
    /\ Quietly /\ UNCHANGED job

\* The entry goes whatever Pubsub it names by now.
Delete(t) ==
    /\ At(t, "delete")
    /\ streams' = [streams EXCEPT ![job[t].key] = 0]
    /\ job' = [job EXCEPT ![t].seen = changed]
    /\ Goto(t, "announce")
    /\ UNCHANGED <<changed, closedChans, taken, conns, outside>>

\* A slip: the channel is replaced and not closed.
CloseChan_Forgotten(t) == t \in Threads /\ changed' = changed + 1 /\ UNCHANGED closedChans

\* The channel that was read is closed when streamsChanged has a new one.
CloseChan(t) ==
    /\ changed' = changed + 1
    /\ closedChans' = closedChans \cup {job[t].seen}

Announcing(t) == pc[t] \in {"announce", "publishAnnounce"}

\* Another thread that did not hold the same mutex read the same channel and
\* closed it first.
ClosesTwice(t) == Announcing(t) /\ job[t].seen \in closedChans

Announce(t) ==
    /\ up /\ Announcing(t) /\ ~ClosesTwice(t)
    /\ CloseChan(t)
    /\ job' = [job EXCEPT ![t].seen = 0]
    /\ Goto(t, IF pc[t] = "announce" THEN AfterRemoval(t) ELSE "setPub")
    /\ UNCHANGED <<streams, taken, conns, outside>>

\* It panics, which ends the process; go-rtmp may recover the panic of a
\* message loop, which then ends with the deferred unlock and its connection.
DoubleClose(t) ==
    /\ up /\ ClosesTwice(t)
    /\ changed' = changed + 1
    /\ \/ up' = FALSE /\ UNCHANGED <<closedConns, pc>>
       \/ /\ t[2] = "loop"
          /\ closedConns' = closedConns \cup {t[1]}
          /\ Goto(t, "panicked")
          /\ UNCHANGED up
    /\ UNCHANGED <<streams, closedChans, taken, isClosed, pub, sub, job, wait>>

\* The connection of the publisher is closed, once; Pub.Close then tells those
\* who watch the Pub and goes on with the Sub of its handler.
Cut(t) ==
    /\ At(t, "cut")
    /\ LET p == job[t].pubsub
       IN  /\ closedConns' = closedConns \cup ({pubsubs[p].publisher} \ {NoHandler})
           /\ pubsubs' = [pubsubs EXCEPT ![p].publisher = NoHandler]
           /\ told' = IF t[2] = "closer" THEN told \cup {p} ELSE told
    /\ Goto(t, IF t[2] = "loop" THEN "register"
               ELSE IF sub[t[1]] # 0 THEN "closeSub" ELSE "done")
    /\ job' = [job EXCEPT ![t].pubsub = 0]
    /\ UNCHANGED <<registry, subs, sweeps, isClosed, pub, sub, outside>>

\* RelayService.RemovePubsub.
RemovePubsub(t) ==
    /\ t[2] = "admin" /\ At(t, "ready")
    /\ RegistryFree
    /\ \E k \in Keys : job' = [job EXCEPT ![t] = [NoJob EXCEPT !.key = k]]
    /\ Goto(t, "check")
    /\ Quietly

-----------------------------------------------------------------------------
(***************************************************************************)
(* The message loop of a connection: publishing.                           *)
(***************************************************************************)

\* The connection's next message is read, if there is a connection.
Receives(h) == At(loop(h), "ready") /\ h \notin closedConns

BelowBound ==
    Len(pubsubs) + Cardinality({h \in Handlers : pc[loop(h)] \in
        Deregistering \cup {"newPubsub", "register"}}) < MaxPubsubs

OnPublish(h) ==
    /\ Receives(h) /\ BelowBound
    /\ sub[h] = 0
    /\ \E k \in Keys : job' = [job EXCEPT ![loop(h)] = [NoJob EXCEPT !.key = k]]
    /\ Goto(loop(h), "newPubsub")
    /\ Quietly

\* A slip: RelayService.m is only taken to write the map.
NewPubsub_Unlocked(t) ==
    /\ At(t, "newPubsub")
    /\ LET old == streams[job[t].key]
       IN  /\ job' = [job EXCEPT ![t].pubsub = old]
           /\ Goto(t, IF old = 0 THEN "register" ELSE "drain")
    /\ Quietly

\* NewPubsub takes the mutex and takes over the stream of that name, if any.
NewPubsub(t) ==
    /\ At(t, "newPubsub")
    /\ RegistryFree
    /\ LET old == streams[job[t].key]
       IN  /\ job' = [job EXCEPT ![t].pubsub = old]
           /\ Goto(t, IF old = 0 THEN "register" ELSE "drain")
    /\ Quietly

Register(t) ==
    /\ At(t, "register")
    /\ LET p == Len(pubsubs) + 1
       IN  /\ pubsubs' = Append(pubsubs, [name |-> job[t].key, publisher |-> t[1]])
           /\ streams' = [streams EXCEPT ![job[t].key] = p]
           /\ job' = [job EXCEPT ![t].pubsub = p, ![t].seen = changed]
    /\ Goto(t, "publishAnnounce")
    /\ UNCHANGED <<changed, closedChans, subs, sweeps, told, conns, outside>>

\* A slip: the handler may have been closed while NewPubsub ran.
SetPub_Unchecked(t) ==
    /\ At(t, "setPub")
    /\ pub' = [pub EXCEPT ![t[1]] = job[t].pubsub]
    /\ Goto(t, "ready") /\ Forget(t)
    /\ UNCHANGED <<registry, taken, closedConns, isClosed, sub, outside>>

\* A slip: who published before is left with what he had.
SetPub_First(t) ==
    /\ At(t, "setPub")
    /\ pub' = IF t[1] \in isClosed \/ pub[t[1]] # 0 THEN pub
              ELSE [pub EXCEPT ![t[1]] = job[t].pubsub]
    /\ Goto(t, "ready") /\ Forget(t)
    /\ UNCHANGED <<registry, taken, closedConns, isClosed, sub, outside>>

\* "the handler is closed" leaves the stream registered.
SetPub(t) ==
    /\ At(t, "setPub")
    /\ pub' = IF t[1] \in isClosed THEN pub ELSE [pub EXCEPT ![t[1]] = job[t].pubsub]
    /\ Goto(t, "ready") /\ Forget(t)
    /\ UNCHANGED <<registry, taken, closedConns, isClosed, sub, outside>>

-----------------------------------------------------------------------------
(***************************************************************************)
(* The message loop of a connection: playing.                              *)
(***************************************************************************)

OnPlay(h) ==
    /\ Receives(h)
    /\ sub[h] = 0
    /\ \E k \in Keys : job' = [job EXCEPT ![loop(h)] = [NoJob EXCEPT !.key = k]]
    /\ Goto(loop(h), "lookup")
    /\ Quietly

\* A slip: the nil check is forgotten.
GetPubsub_NilUnchecked(t) ==
    /\ At(t, "lookup")
    /\ RegistryFree
    /\ job' = [job EXCEPT ![t].pubsub = streams[job[t].key]]
    /\ Goto(t, "subscribe")
    /\ Quietly

GetPubsub(t) ==
    /\ At(t, "lookup")
    /\ RegistryFree
    /\ LET p == streams[job[t].key]
       IN  IF p = 0 THEN Goto(t, "ready") /\ Forget(t)      \* "is not found"
           ELSE Goto(t, "subscribe") /\ job' = [job EXCEPT ![t].pubsub = p]
    /\ Quietly

\* Pubsub.Sub, on the Pubsub that was found, under Handler.Mutex and Pubsub.m.
Subscribe(t) ==
    /\ At(t, "subscribe")
    /\ LET h == t[1]  p == job[t].pubsub
       IN  /\ PubsubFree(p)
           /\ IF h \in isClosed THEN UNCHANGED <<sub, subs>>
              ELSE /\ sub' = [sub EXCEPT ![h] = p]
                   /\ subs' = subs \cup {<<p, h>>}
    /\ Goto(t, "ready") /\ Forget(t)
    /\ UNCHANGED <<registry, pubsubs, sweeps, told, closedConns, isClosed, pub,
                   outside>>

-----------------------------------------------------------------------------
(***************************************************************************)
(* The end of a connection and of a subscriber.                            *)
(***************************************************************************)

Disconnect(h) ==
    /\ Receives(h)
    /\ closedConns' = closedConns \cup {h}
    /\ UNCHANGED <<registry, taken, isClosed, pub, sub, threads, outside>>

\* Whoever closed the connection, its handler is told, at any time.
OnClose(h) ==
    /\ up /\ h \in closedConns \ isClosed
    /\ isClosed' = isClosed \cup {h}
    /\ job' = IF pub[h] = 0 THEN job
              ELSE [job EXCEPT ![closer(h)] =
                       [key |-> pubsubs[pub[h]].name, pubsub |-> pub[h], seen |-> 0]]
    /\ Goto(closer(h), IF pub[h] # 0 THEN "drain"
                       ELSE IF sub[h] # 0 THEN "closeSub" ELSE "done")
    /\ UNCHANGED <<registry, taken, closedConns, pub, sub, outside>>

\* Sub.Close of the subscriber of each handler of hs.
CloseSubs(hs) ==
    /\ closedConns' = closedConns \cup hs
    /\ subs' = {s \in subs : s[2] \notin hs}
    /\ UNCHANGED <<registry, pubsubs, told, isClosed, pub, sub, job, outside>>

\* By the goroutine of OnClose.
CloseSub(t) ==
    /\ At(t, "closeSub")
    /\ PubsubFree(sub[t[1]])
    /\ CloseSubs({t[1]})
    /\ Goto(t, "done")
    /\ UNCHANGED sweeps

\* By the goroutine of Submit, which found the queue of h full while the
\* publisher of its stream was sending.
QueueFull(h) ==
    /\ up
    /\ <<sub[h], h>> \in subs
    /\ PubsubFree(sub[h])
    /\ \E g \in Handlers : pub[g] = sub[h] /\ g \notin isClosed /\ pc[loop(g)] = "ready"
    /\ CloseSubs({h})
    /\ UNCHANGED <<sweeps, pc>>

\* By the goroutine of deregister: whom it finds in the map.
Sweep(p, t) ==
    /\ up /\ <<p, t>> \in sweeps
    /\ PubsubFree(p)
    /\ sweeps' = sweeps \ {<<p, t>>}
    /\ CloseSubs({h \in Handlers : <<p, h>> \in subs})
    /\ UNCHANGED pc

-----------------------------------------------------------------------------
(***************************************************************************)
(* WaitPubsub.  Its context is not looked at: the loop waits on a fresh    *)
(* one, so that no step of a caller ends the wait.                         *)
(***************************************************************************)

WaitPubsub(w) ==
    /\ up /\ wait[w].pc = "idle"
    /\ \E k \in Keys, waitForNext \in BOOLEAN :
          /\ waitForNext => RegistryFree
          /\ wait' = [wait EXCEPT ![w] =
                [pc |-> "check", key |-> k, chan |-> 0,
                 cur |-> IF waitForNext THEN streams[k] ELSE 0]]
    /\ UNCHANGED <<up, registry, taken, conns, threads>>

Wanted(w) == streams[wait[w].key] \notin {0, wait[w].cur}

WaitCheck(w) ==
    /\ up /\ wait[w].pc = "check"
    /\ RegistryFree
    /\ wait' = [wait EXCEPT ![w] =
                  IF Wanted(w) THEN NoWait
                  ELSE [@ EXCEPT !.pc = "waiting", !.chan = changed]]
    /\ UNCHANGED <<up, registry, taken, conns, threads>>

WaitWake(w) ==
    /\ up /\ wait[w].pc = "waiting"
    /\ wait[w].chan \in closedChans
    /\ wait' = [wait EXCEPT ![w].pc = "check", ![w].chan = 0]
    /\ UNCHANGED <<up, registry, taken, conns, threads>>

-----------------------------------------------------------------------------

\* What a thread is about to read or write without RelayService.m protecting it
\* from a closer, and the subscribers' maps, which NewPubsub reaches without
\* Pubsub.m.
WritesRegistry(t) == pc[t] \in {"delete", "register"}
ReadsRegistry(t)  == \/ pc[t] \in {"check", "delete", "register"}
                     \/ pc[t] \in {"newPubsub", "lookup"} /\ RegistryFree
TouchesSubs(t, p) == \/ pc[t] \in {"drain", "subscribe"} /\ job[t].pubsub = p
                     \/ pc[t] = "closeSub" /\ sub[t[1]] = p

\* The Go runtime ends the process when it notices a map in use by two
\* goroutines, one of them writing; when it does not, the two just follow one
\* another.
MapRace ==
    \/ \E t \in Threads : \E u \in Threads \ {t} :
          WritesRegistry(t) /\ ReadsRegistry(u)
    \/ RegistryFree /\ \E t \in Threads, w \in Waiters :
          WritesRegistry(t) /\ wait[w].pc = "check"
    \/ \E t \in Threads : \E u \in Threads \ {t} :
          /\ t[2] = "loop" /\ pc[t] = "drain"
          /\ TouchesSubs(u, job[t].pubsub)
    \/ \E s \in sweeps : \E u \in Threads : TouchesSubs(u, s[1])

ConcurrentMapAccess ==
    /\ up /\ MapRace
    /\ up' = FALSE
    /\ UNCHANGED <<registry, taken, conns, threads, wait>>

ThreadStep(t) ==
    \/ Drain(t) \/ Check(t) \/ Delete(t) \/ Announce(t) \/ DoubleClose(t) \/ Cut(t)
    \/ NewPubsub(t) \/ Register(t) \/ SetPub(t)
    \/ GetPubsub(t) \/ Subscribe(t)
    \/ CloseSub(t)

WaitStep(w) == WaitCheck(w) \/ WaitWake(w)

\* Connections may all be gone, and a caller of WaitPubsub wait for the next.
Quiet ==
    /\ \/ ~up
       \/ /\ \A t \in Threads : pc[t] \in {"none", "ready", "panicked", "done"}
          /\ isClosed = Handlers /\ sweeps = {}
    /\ UNCHANGED vars

Next ==
    \/ \E t \in Threads : ThreadStep(t) \/ RemovePubsub(t)
    \/ \E h \in Handlers : \/ OnPublish(h) \/ OnPlay(h) \/ Disconnect(h)
                           \/ OnClose(h) \/ QueueFull(h)
    \/ \E t \in Threads, p \in 1..MaxPubsubs : Sweep(p, t)
    \/ \E w \in Waiters : WaitPubsub(w) \/ WaitStep(w)
    \/ ConcurrentMapAccess \/ Quiet

Spec == Init /\ [][Next]_vars

(***************************************************************************)
(* Goroutines run, and a connection that is closed tells its handler.      *)
(* Nothing is assumed of peers, of the embedding program, of queues that   *)
(* fill, nor of how a panic ends.                                          *)
(***************************************************************************)
Fairness ==
    /\ \A t \in Threads : WF_vars(ThreadStep(t))
    /\ \A h \in Handlers : WF_vars(OnClose(h))
    /\ \A t \in Threads, p \in 1..MaxPubsubs : WF_vars(Sweep(p, t))
    /\ \A w \in Waiters : WF_vars(WaitStep(w))

FairSpec == Spec /\ Fairness

-----------------------------------------------------------------------------
(***************************************************************************)
(* Properties.                                                             *)
(***************************************************************************)

Panicked == \E h \in Handlers : pc[loop(h)] = "panicked"

\* WaitPubsub never sleeps through a change of the registry: the channel it
\* waits on is the current one or is closed, unless a message loop lost a race
\* for that channel and its panic was recovered.
NoLostWakeup ==
    up /\ ~Panicked =>
        \A w \in Waiters :
            wait[w].pc = "waiting" => wait[w].chan \in closedChans \cup {changed}

\* A stream that can be found has a publisher whom the next one of that name
\* cuts off: publisherHandler is cleared only after the entry is gone, however
\* a takeover and the end of the old publisher interleave.
ListedHasPublisher ==
    \A k \in Keys :
        streams[k] # 0 => /\ pubsubs[streams[k]].publisher # NoHandler
                          /\ pubsubs[streams[k]].name = k

\* When the goroutine of OnClose is done, nothing is left of what its handler
\* was known to publish and to play; and whatever the others do, it stays so.
LeavesNothing ==
    \A h \in Handlers :
        pc[closer(h)] = "done" =>
            /\ pub[h] # 0 => pub[h] \in told /\ \A k \in Keys : streams[k] # pub[h]
            /\ <<sub[h], h>> \notin subs

\* Who answers for a stream that is listed: the handler of its publisher knows
\* it, and if its connection is gone is about to remove it.  There are three
\* ways to be listed and not be known: to be about to be, in a message loop that
\* goes on or panicked; to belong to a handler which was closed before it knew;
\* and to be followed by another stream of the same connection.
ListedIsKnown ==
    /\ ListedHasPublisher
    /\ \A k \in Keys : streams[k] # 0 =>
        LET p == streams[k]
            h == pubsubs[p].publisher
        IN  IF pub[h] = p
            THEN h \in isClosed => pc[closer(h)] \in {"drain", "check", "delete"}
            ELSE \/ pc[loop(h)] \in {"publishAnnounce", "setPub"} /\ job[loop(h)].pubsub = p
                 \/ pc[loop(h)] = "panicked"
                 \/ h \in isClosed
                 \/ pub[h] > p

\* What the registry is to those who publish and watch.
Streams == INSTANCE StreamLifecycle WITH
    made   <- Len(pubsubs),
    listed <- streams,
    ended  <- {p \in IDs : pubsubs[p].publisher = NoHandler}

ImplementsStreams == Streams!StreamSpec

\* Once its connection is closed, what a handler published is not listed and
\* whoever watches its Pub was told; what it played no longer counts it among
\* its subscribers; and it stays so.
HandlerDetached ==
    \A h \in Handlers :
        h \in isClosed ~>
            \/ ~up
            \/ [](/\ pub[h] # 0 => pub[h] \in told /\ \A k \in Keys : streams[k] # pub[h]
                  /\ <<sub[h], h>> \notin subs)

\* No call waits for ever for a mutex, and every goroutine comes to its end.
CallsReturn ==
    \A t \in Threads :
        pc[t] \notin {"none", "ready"} ~>
            (pc[t] \in {"ready", "done", "panicked"} \/ ~up)

\* A caller of WaitPubsub does not miss for ever a stream that is listed.
WaiterServed ==
    \A w \in Waiters :
        []<>~(up /\ ~Panicked /\ wait[w].pc # "idle" /\ Wanted(w))

\* What removePubsub and OnPlay answer, "not published" and "is not found", is
\* so: no connection is publishing under that name.
NotPublishedIsTrue ==
    \A h \in Handlers :
        (up /\ pub[h] # 0 /\ h \notin closedConns)
            => \/ streams[pubsubs[pub[h]].name] # 0
               \/ \E t \in Threads : HoldsRegistry(t) \/ pc[t] \in Deregistering

\* deregister closes the subscribers it takes out of the map.
SubscribersClosed ==
    \A h \in Handlers :
        (/\ sub[h] # 0
         /\ pubsubs[sub[h]].publisher = NoHandler
         /\ \A s \in sweeps : s[1] # sub[h])
            => h \in closedConns
=============================================================================
