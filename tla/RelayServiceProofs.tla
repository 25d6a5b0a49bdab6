------------------------- MODULE RelayServiceProofs -------------------------
(***************************************************************************)
(* The relay's registry, proved for any number of connections, names,      *)
(* streams and callers: its types, that a listed stream has a publisher to *)
(* cut off, and that WaitPubsub sleeps through no change.                  *)
(*                                                                         *)
(* None of this rests on RelayService.m, which Pub.Close does not take:    *)
(* the argument is about the order of the steps of deregister.             *)
(***************************************************************************)
EXTENDS RelayService, SequenceTheorems, TLAPS

\* Which thread can be where.
RoleOK(t) ==
    /\ pc[t] \in {"newPubsub", "register", "publishAnnounce", "setPub", "lookup",
                  "subscribe"} => t[2] = "loop"
    /\ pc[t] \in {"drain", "cut"} => t[2] \in {"loop", "closer"}
    /\ pc[t] = "closeSub" => t[2] = "closer"

\* What a thread works on.  From the removal on, the Pubsub it deregisters is
\* not in the registry any more, and no Pubsub enters it twice.
JobOK(t) ==
    /\ pc[t] \in {"setPub", "subscribe", "publishAnnounce"} => job[t].pubsub \in IDs
    /\ t[2] # "admin" /\ pc[t] \in Deregistering =>
          job[t].pubsub \in IDs /\ pubsubs[job[t].pubsub].name = job[t].key
    /\ t[2] # "admin" /\ pc[t] \in {"announce", "cut"} =>
          \A k \in Keys : streams[k] # job[t].pubsub
    /\ Announcing(t) => job[t].seen \in 1..changed

JobType == [key : Keys, pubsub : {0} \cup IDs, seen : 0..changed]

\* Every channel but the current one is closed.
ChannelsOK == up /\ ~Panicked => 1..(changed - 1) \subseteq closedChans

RelayInv ==
    /\ TypeOK
    /\ \A t \in Threads : RoleOK(t) /\ JobOK(t)
    /\ ListedHasPublisher
    /\ ChannelsOK

\* Setting one field of one thread's job.
LEMMA JobSeen ==
    ASSUME NEW D, NEW K, NEW P, NEW S, NEW R, R = [key : K, pubsub : P, seen : S],
           NEW f \in [D -> R], NEW d \in D, NEW v \in S
    PROVE  [f EXCEPT ![d].seen = v] \in [D -> R]
  OBVIOUS

LEMMA JobPubsub ==
    ASSUME NEW D, NEW K, NEW P, NEW S, NEW R, R = [key : K, pubsub : P, seen : S],
           NEW f \in [D -> R], NEW d \in D, NEW v \in P
    PROVE  [f EXCEPT ![d].pubsub = v] \in [D -> R]
  OBVIOUS

LEMMA InitRelayInv == Init => RelayInv
<1>. SUFFICES ASSUME Init PROVE RelayInv
  OBVIOUS
<1>1. NoJob \in [key : Keys, pubsub : {0} \cup IDs, seen : 0..changed]
  BY KeysAssumption DEF NoJob, Init, IDs
<1>2. NoWait \in [pc : {"idle", "check", "waiting"}, key : Keys,
                  cur : {0} \cup IDs, chan : 0..changed]
  BY KeysAssumption DEF NoWait, Init, IDs
<1>3. TypeOK
  BY <1>1, <1>2 DEF Init, TypeOK, IDs, PCs
<1>4. \A t \in Threads : RoleOK(t) /\ JobOK(t)
  BY DEF Init, RoleOK, JobOK, Announcing, Deregistering
<1>5. ListedHasPublisher /\ ChannelsOK
  BY DEF Init, ListedHasPublisher, ChannelsOK
<1>. QED  BY <1>3, <1>4, <1>5 DEF RelayInv

LEMMA PanickedStays ==
    ASSUME TypeOK, NEW t \in Threads, NEW label, Goto(t, label),
           pc[t] # "panicked" \/ t[2] # "loop"
    PROVE  Panicked => Panicked'
<1>1. ASSUME NEW h \in Handlers, pc[loop(h)] = "panicked" PROVE pc'[loop(h)] = "panicked"
  <2>1. loop(h) \in Threads
    BY DEF loop, Threads
  <2>2. loop(h)[2] = "loop"
    BY DEF loop
  <2>3. t # loop(h)
    BY <1>1, <2>2
  <2>. QED  BY <1>1, <2>1, <2>3 DEF Goto, TypeOK
<1>. QED  BY <1>1 DEF Panicked

-----------------------------------------------------------------------------
(***************************************************************************)
(* The steps of deregister and removePubsub.                               *)
(***************************************************************************)

\* The registry, the Pubsubs and the channels stay, and one thread moves.
LEMMA DrainInv == ASSUME RelayInv, NEW t \in Threads, Drain(t) PROVE RelayInv'
<1>. USE DEF RelayInv, Drain, At, Goto, registry, conns, outside
<1>1. TypeOK'
  BY DEF TypeOK, PCs, IDs, JobOK, RoleOK, Deregistering, Threads
<1>2. \A u \in Threads : (RoleOK(u) /\ JobOK(u))'
  BY DEF TypeOK, RoleOK, JobOK, IDs, Deregistering, Announcing
<1>3. (ListedHasPublisher /\ ChannelsOK)'
  BY PanickedStays DEF ListedHasPublisher, ChannelsOK
<1>. QED  BY <1>1, <1>2, <1>3

LEMMA CheckInv == ASSUME RelayInv, NEW t \in Threads, Check(t) PROVE RelayInv'
<1>. USE DEF RelayInv, Check, At, Goto, Quietly, AfterRemoval, registry, taken, conns, outside
<1>1. TypeOK'
  BY DEF TypeOK, PCs, IDs
<1>2. \A u \in Threads : (RoleOK(u) /\ JobOK(u))'
  BY DEF TypeOK, RoleOK, JobOK, IDs, Deregistering, Announcing, ListedHasPublisher, Threads
<1>3. (ListedHasPublisher /\ ChannelsOK)'
  BY PanickedStays DEF ListedHasPublisher, ChannelsOK
<1>. QED  BY <1>1, <1>2, <1>3

LEMMA DeleteInv == ASSUME RelayInv, NEW t \in Threads, Delete(t) PROVE RelayInv'
<1>. USE DEF RelayInv, Delete, At, Goto, taken, conns, outside
<1>1. TypeOK'
  <2>1. job' \in [Threads -> JobType]
    <3>1. job \in [Threads -> JobType] /\ changed \in 0..changed
      BY DEF TypeOK, JobType
    <3>2. job' = [job EXCEPT ![t].seen = changed]
      OBVIOUS
    <3>. QED  BY <3>1, <3>2, JobSeen DEF JobType
  <2>2. streams' \in [Keys -> {0} \cup IDs]
    BY DEF TypeOK
  <2>. QED  BY <2>1, <2>2 DEF TypeOK, PCs, IDs, JobType
<1>2. \A u \in Threads : (RoleOK(u) /\ JobOK(u))'
  BY DEF TypeOK, RoleOK, JobOK, IDs, Deregistering, Announcing, ListedHasPublisher
<1>3. (ListedHasPublisher /\ ChannelsOK)'
  BY PanickedStays DEF ListedHasPublisher, ChannelsOK, TypeOK
<1>. QED  BY <1>1, <1>2, <1>3

LEMMA AnnounceInv == ASSUME RelayInv, NEW t \in Threads, Announce(t) PROVE RelayInv'
<1>. USE DEF RelayInv, Announce, CloseChan, At, Goto, AfterRemoval, taken, conns, outside
<1>0. job[t].seen \in 1..changed /\ changed \in Nat
  BY DEF TypeOK, JobOK
<1>1. TypeOK'
  <2>1. job' \in [Threads -> JobType']
    <3>1. 0..changed \subseteq 0..changed' /\ 0 \in 0..changed' /\ IDs' = IDs
      BY <1>0 DEF IDs
    <3>2. job \in [Threads -> JobType'] /\ job' = [job EXCEPT ![t].seen = 0]
      BY <3>1 DEF TypeOK, JobType
    <3>. QED  BY <3>1, <3>2, JobSeen DEF JobType
  <2>2. changed' \in Nat \ {0} /\ closedChans' \subseteq 1..changed'
    BY <1>0 DEF TypeOK
  <2>3. wait' \in [Waiters -> [pc : {"idle", "check", "waiting"}, key : Keys,
                              cur : {0} \cup IDs, chan : 0..changed']]
    BY <1>0 DEF TypeOK
  <2>. QED  BY <2>1, <2>2, <2>3 DEF TypeOK, PCs, IDs, JobType
<1>2. \A u \in Threads : (RoleOK(u) /\ JobOK(u))'
  BY DEF TypeOK, RoleOK, JobOK, IDs, Deregistering, Announcing, Threads
<1>3. ListedHasPublisher'
  BY DEF ListedHasPublisher
<1>4. ChannelsOK'
  <2>. SUFFICES ASSUME up, ~Panicked PROVE (1..(changed - 1) \subseteq closedChans)'
    BY PanickedStays DEF ChannelsOK, Announcing
  <2>1. job[t].seen = changed
    BY <1>0 DEF ChannelsOK, ClosesTwice
  <2>. QED  BY <1>0, <2>1 DEF ChannelsOK
<1>. QED  BY <1>1, <1>2, <1>3, <1>4

LEMMA DoubleCloseInv == ASSUME RelayInv, NEW t \in Threads, DoubleClose(t) PROVE RelayInv'
<1>. USE DEF RelayInv, DoubleClose, ClosesTwice, At, Goto, taken
<1>1. TypeOK'
  <2>1. changed \in Nat \ {0} /\ changed' = changed + 1
    BY DEF TypeOK
  <2>2. job' \in [Threads -> JobType']
    BY <2>1 DEF TypeOK, JobType, IDs
  <2>3. wait' \in [Waiters -> [pc : {"idle", "check", "waiting"}, key : Keys,
                              cur : {0} \cup IDs, chan : 0..changed']]
    BY <2>1 DEF TypeOK
  <2>4. up' \in BOOLEAN /\ pc' \in [Threads -> PCs]
    BY DEF TypeOK, PCs
  <2>5. closedConns' \subseteq Handlers /\ closedConns \subseteq closedConns'
    BY DEF TypeOK, Threads
  <2>. QED  BY <2>1, <2>2, <2>3, <2>4, <2>5 DEF TypeOK, IDs, JobType, conns
<1>2. \A u \in Threads : (RoleOK(u) /\ JobOK(u))'
  <2>. SUFFICES ASSUME NEW u \in Threads PROVE (RoleOK(u) /\ JobOK(u))'
    OBVIOUS
  <2>1. pc'[u] = pc[u] \/ pc'[u] = "panicked"
    BY DEF TypeOK
  <2>2. changed \in Nat /\ changed' = changed + 1
    BY DEF TypeOK
  <2>. QED  BY <2>1, <2>2 DEF RoleOK, JobOK, IDs, Deregistering, Announcing
<1>3. ListedHasPublisher'
  BY DEF ListedHasPublisher
<1>4. ~(up' /\ ~Panicked')
  <2>. SUFFICES ASSUME up' PROVE Panicked'
    OBVIOUS
  <2>1. t[2] = "loop" /\ pc' = [pc EXCEPT ![t] = "panicked"]
    OBVIOUS
  <2>2. PICK h \in Handlers : t = loop(h)
    BY <2>1 DEF Threads, loop
  <2>. QED  BY <2>1, <2>2 DEF Panicked, TypeOK
<1>. QED  BY <1>1, <1>2, <1>3, <1>4 DEF ChannelsOK

\* Forgetting a publisher changes nothing else of the Pubsubs.
LEMMA ClearPublisher ==
    ASSUME TypeOK, NEW p \in IDs,
           pubsubs' = [pubsubs EXCEPT ![p].publisher = NoHandler]
    PROVE  /\ pubsubs' \in Seq(Pubsub)
           /\ IDs' = IDs
           /\ \A q \in IDs : /\ pubsubs'[q].name = pubsubs[q].name
                             /\ q # p => pubsubs'[q] = pubsubs[q]
           /\ pubsubs[p].publisher \in Handlers \cup {NoHandler}
<1>1. pubsubs \in Seq(Pubsub) /\ p \in 1..Len(pubsubs) /\ pubsubs[p] \in Pubsub
  BY LenProperties DEF TypeOK, IDs
<1>2. [pubsubs[p] EXCEPT !.publisher = NoHandler] \in Pubsub
  BY <1>1 DEF Pubsub
<1>. DEFINE e == [pubsubs[p] EXCEPT !.publisher = NoHandler]
<1>3. e.name = pubsubs[p].name /\ pubsubs[p].publisher \in Handlers \cup {NoHandler}
  BY <1>1 DEF Pubsub
<1>4. pubsubs' = [pubsubs EXCEPT ![p] = e] /\ e \in Pubsub
  BY <1>2
<1>. HIDE DEF e
<1>5. /\ pubsubs' \in Seq(Pubsub) /\ Len(pubsubs') = Len(pubsubs)
      /\ \A q \in 1..Len(pubsubs) : pubsubs'[q] = IF q = p THEN e ELSE pubsubs[q]
  BY <1>1, <1>4, ExceptSeq
<1>. QED  BY <1>1, <1>3, <1>5 DEF IDs

LEMMA CutInv == ASSUME RelayInv, NEW t \in Threads, Cut(t) PROVE RelayInv'
<1>. DEFINE p == job[t].pubsub
<1>. USE DEF RelayInv, Cut, At, Goto, registry, outside
<1>0. /\ t[2] # "admin" /\ p \in IDs /\ \A k \in Keys : streams[k] # p
  BY DEF RoleOK, JobOK, Deregistering
<1>1. /\ pubsubs' \in Seq(Pubsub)
      /\ IDs' = IDs
      /\ \A q \in IDs : /\ pubsubs'[q].name = pubsubs[q].name
                        /\ q # p => pubsubs'[q] = pubsubs[q]
      /\ pubsubs[p].publisher \in Handlers \cup {NoHandler}
  BY <1>0, ClearPublisher
<1>2. TypeOK'
  <2>1. job' \in [Threads -> JobType']
    <3>1. job \in [Threads -> JobType'] /\ job' = [job EXCEPT ![t].pubsub = 0]
      BY <1>1 DEF TypeOK, JobType
    <3>. QED  BY <3>1, JobPubsub DEF JobType
  <2>2. pc' \in [Threads -> PCs] /\ told' \subseteq IDs
    BY <1>0 DEF TypeOK, PCs
  <2>3. closedConns' \subseteq Handlers /\ closedConns \subseteq closedConns'
    BY <1>1 DEF TypeOK
  <2>. QED  BY <1>1, <2>1, <2>2, <2>3 DEF TypeOK, JobType
<1>3. \A u \in Threads : (RoleOK(u) /\ JobOK(u))'
  <2>. SUFFICES ASSUME NEW u \in Threads PROVE (RoleOK(u) /\ JobOK(u))'
    OBVIOUS
  <2>1. CASE u = t
    BY <1>0, <2>1 DEF TypeOK, RoleOK, JobOK, Deregistering, Announcing, Threads
  <2>2. CASE u # t
    <3>1. /\ pc'[u] = pc[u] /\ job'[u] = job[u]
          /\ streams' = streams /\ changed' = changed /\ RoleOK(u) /\ JobOK(u)
      BY <2>2 DEF TypeOK
    <3>2. RoleOK(u)'
      BY ONLY <3>1 DEF RoleOK
    <3>3. \A q \in IDs : pubsubs'[q].name = pubsubs[q].name
      BY <1>1
    <3>4. JobOK(u)'
      BY ONLY <1>1, <3>1, <3>3 DEF JobOK, Deregistering, Announcing
    <3>. QED  BY ONLY <3>2, <3>4
  <2>. QED  BY <2>1, <2>2
<1>4. ListedHasPublisher'
  <2>1. ListedHasPublisher /\ streams' = streams
    OBVIOUS
  <2>2. \A k \in Keys : streams[k] \in {0} \cup IDs
    BY DEF TypeOK
  <2>3. \A q \in IDs : q # p => pubsubs'[q] = pubsubs[q]
    BY <1>1
  <2>. HIDE DEF p
  <2>. QED  BY ONLY <1>0, <2>1, <2>2, <2>3 DEF ListedHasPublisher
<1>5. ChannelsOK'
  BY PanickedStays DEF ChannelsOK
<1>. QED  BY <1>2, <1>3, <1>4, <1>5

-----------------------------------------------------------------------------
(***************************************************************************)
(* The message loops and the callers: publishing, playing, removing.       *)
(***************************************************************************)

\* What a call that begins works on, and one that returned, is of the type.
LEMMA FreshJob ==
    ASSUME NEW k \in Keys, TypeOK
    PROVE  NoJob \in JobType /\ [NoJob EXCEPT !.key = k] \in JobType
<1>. DEFINE k0 == CHOOSE x \in Keys : TRUE
<1>1. k0 \in Keys /\ 0 \in 0..changed
  BY KeysAssumption DEF TypeOK
<1>2. NoJob = [key |-> k0, pubsub |-> 0, seen |-> 0]
  BY DEF NoJob
<1>. HIDE DEF k0
<1>3. [NoJob EXCEPT !.key = k] = [key |-> k, pubsub |-> 0, seen |-> 0]
  BY <1>2
<1>. QED  BY <1>1, <1>2, <1>3 DEF JobType

\* A thread that is idle begins a call about some name.
LEMMA BeginInv ==
    ASSUME RelayInv, NEW t \in Threads, NEW k \in Keys, NEW label,
           job' = [job EXCEPT ![t] = [NoJob EXCEPT !.key = k]],
           Goto(t, label), pc[t] = "ready", Quietly,
           \/ label = "check" /\ t[2] = "admin"
           \/ label \in {"newPubsub", "lookup"} /\ t[2] = "loop"
    PROVE  RelayInv'
<1>. USE DEF RelayInv, Goto, Quietly, registry, taken, conns, outside
<1>1. TypeOK'
  BY FreshJob DEF TypeOK, PCs, IDs, JobType
<1>2. \A u \in Threads : (RoleOK(u) /\ JobOK(u))'
  BY DEF TypeOK, RoleOK, JobOK, IDs, Deregistering, Announcing
<1>3. (ListedHasPublisher /\ ChannelsOK)'
  BY PanickedStays DEF ListedHasPublisher, ChannelsOK
<1>. QED  BY <1>1, <1>2, <1>3

LEMMA NewPubsubInv == ASSUME RelayInv, NEW t \in Threads, NewPubsub(t) PROVE RelayInv'
<1>. USE DEF RelayInv, NewPubsub, At, Goto, Quietly, registry, taken, conns, outside
<1>0. job[t].key \in Keys /\ streams[job[t].key] \in {0} \cup IDs
  BY DEF TypeOK
<1>1. TypeOK'
  <2>1. job' \in [Threads -> JobType]
    <3>1. job \in [Threads -> JobType]
      BY DEF TypeOK, JobType
    <3>2. job' = [job EXCEPT ![t].pubsub = streams[job[t].key]]
      OBVIOUS
    <3>. QED  BY <1>0, <3>1, <3>2, JobPubsub DEF JobType
  <2>. QED  BY <2>1 DEF TypeOK, PCs, IDs, JobType
<1>2. \A u \in Threads : (RoleOK(u) /\ JobOK(u))'
  BY <1>0 DEF TypeOK, RoleOK, JobOK, IDs, Deregistering, Announcing, ListedHasPublisher
<1>3. (ListedHasPublisher /\ ChannelsOK)'
  BY PanickedStays DEF ListedHasPublisher, ChannelsOK
<1>. QED  BY <1>1, <1>2, <1>3

LEMMA SetPubInv == ASSUME RelayInv, NEW t \in Threads, SetPub(t) PROVE RelayInv'
<1>. USE DEF RelayInv, SetPub, At, Goto, Forget, registry, taken, outside
<1>1. TypeOK'
  BY FreshJob DEF TypeOK, PCs, IDs, JobType, JobOK
<1>2. \A u \in Threads : (RoleOK(u) /\ JobOK(u))'
  BY DEF TypeOK, RoleOK, JobOK, IDs, Deregistering, Announcing
<1>3. (ListedHasPublisher /\ ChannelsOK)'
  BY PanickedStays DEF ListedHasPublisher, ChannelsOK
<1>. QED  BY <1>1, <1>2, <1>3

LEMMA GetPubsubInv == ASSUME RelayInv, NEW t \in Threads, GetPubsub(t) PROVE RelayInv'
<1>. USE DEF RelayInv, GetPubsub, At, Goto, Forget, Quietly, registry, taken, conns, outside
<1>0. job[t].key \in Keys /\ streams[job[t].key] \in {0} \cup IDs /\ t[2] = "loop"
  BY DEF TypeOK, RoleOK
<1>1. TypeOK'
  <2>1. job' \in [Threads -> JobType]
    <3>1. job \in [Threads -> JobType] /\ NoJob \in JobType
      BY <1>0, FreshJob DEF TypeOK, JobType
    <3>2. \/ job' = [job EXCEPT ![t] = NoJob]
          \/ job' = [job EXCEPT ![t].pubsub = streams[job[t].key]]
      OBVIOUS
    <3>. QED  BY <1>0, <3>1, <3>2, JobPubsub DEF JobType
  <2>. QED  BY <2>1 DEF TypeOK, PCs, IDs, JobType
<1>2. \A u \in Threads : (RoleOK(u) /\ JobOK(u))'
  BY <1>0 DEF TypeOK, RoleOK, JobOK, IDs, Deregistering, Announcing
<1>3. (ListedHasPublisher /\ ChannelsOK)'
  BY PanickedStays DEF ListedHasPublisher, ChannelsOK
<1>. QED  BY <1>1, <1>2, <1>3

LEMMA SubscribeInv == ASSUME RelayInv, NEW t \in Threads, Subscribe(t) PROVE RelayInv'
<1>. USE DEF RelayInv, Subscribe, At, Goto, Forget, registry, outside
<1>0. t[1] \in Handlers /\ job[t].pubsub \in IDs
  BY DEF Threads, RoleOK, JobOK
<1>1. TypeOK'
  <2>1. job' \in [Threads -> JobType] /\ pc' \in [Threads -> PCs]
    BY FreshJob DEF TypeOK, PCs, JobType
  <2>2. \/ sub' = sub /\ subs' = subs
        \/ /\ sub' = [sub EXCEPT ![t[1]] = job[t].pubsub]
           /\ subs' = subs \cup {<<job[t].pubsub, t[1]>>}
    OBVIOUS
  <2>3. sub \in [Handlers -> {0} \cup IDs] /\ subs \subseteq IDs \X Handlers
    BY DEF TypeOK
  <2>4. sub' \in [Handlers -> {0} \cup IDs]
    BY ONLY <1>0, <2>2, <2>3
  <2>5. subs' \subseteq IDs \X Handlers
    BY ONLY <1>0, <2>2, <2>3
  <2>. QED  BY <2>1, <2>4, <2>5 DEF TypeOK, IDs, JobType
<1>2. \A u \in Threads : (RoleOK(u) /\ JobOK(u))'
  BY DEF TypeOK, RoleOK, JobOK, IDs, Deregistering, Announcing
<1>3. (ListedHasPublisher /\ ChannelsOK)'
  BY PanickedStays DEF ListedHasPublisher, ChannelsOK
<1>. QED  BY <1>1, <1>2, <1>3

\* The new Pubsub is known to nobody yet, and its publisher is the connection
\* that asked for it.
LEMMA RegisterInv == ASSUME RelayInv, NEW t \in Threads, Register(t) PROVE RelayInv'
<1>. DEFINE p == Len(pubsubs) + 1
            e == [name |-> job[t].key, publisher |-> t[1]]
<1>. USE DEF RelayInv
<1>1. /\ pubsubs' = Append(pubsubs, e)
      /\ streams' = [streams EXCEPT ![job[t].key] = p]
      /\ job' = [job EXCEPT ![t].pubsub = p, ![t].seen = changed]
      /\ pc[t] = "register" /\ pc' = [pc EXCEPT ![t] = "publishAnnounce"]
      /\ UNCHANGED <<changed, closedChans, subs, sweeps, told, conns, outside>>
  BY DEF Register, At, Goto
<1>2. /\ t[2] = "loop" /\ t[1] \in Handlers /\ job[t].key \in Keys
      /\ pubsubs \in Seq(Pubsub) /\ Len(pubsubs) \in Nat
  BY <1>1, LenProperties DEF TypeOK, RoleOK, Threads
<1>3. e \in Pubsub /\ e.name = job[t].key /\ e.publisher # NoHandler
  BY <1>2, NoHandlerAssumption DEF Pubsub
<1>. HIDE DEF e
<1>4. /\ pubsubs' \in Seq(Pubsub) /\ Len(pubsubs') = p
      /\ \A i \in 1..Len(pubsubs) : pubsubs'[i] = pubsubs[i]
      /\ pubsubs'[p] = e
  BY <1>1, <1>2, <1>3, AppendProperties
<1>5. /\ IDs \subseteq IDs' /\ p \in IDs' /\ p \notin IDs /\ p # 0
      /\ \A q \in IDs : pubsubs'[q] = pubsubs[q]
  BY <1>2, <1>4 DEF IDs
<1>. HIDE DEF p
<1>6. TypeOK'
  <2>1. job' \in [Threads -> JobType']
    <3>1. job \in [Threads -> JobType'] /\ changed \in (0..changed)'
      BY <1>1, <1>5 DEF TypeOK, JobType
    <3>. DEFINE f == [job EXCEPT ![t].pubsub = p]
    <3>2. f \in [Threads -> JobType']
      BY <1>5, <3>1, JobPubsub DEF JobType
    <3>3. job' = [f EXCEPT ![t].seen = changed]
      BY <1>1 DEF TypeOK
    <3>. HIDE DEF f
    <3>. QED  BY <3>1, <3>2, <3>3, JobSeen DEF JobType
  <2>2. streams' \in [Keys -> {0} \cup IDs'] /\ pc' \in [Threads -> PCs]
    BY <1>1, <1>5 DEF TypeOK, PCs
  <2>3. /\ subs' \subseteq IDs' \X Handlers /\ sweeps' \subseteq IDs' \X Threads
        /\ told' \subseteq IDs'
    BY <1>1, <1>5 DEF TypeOK
  <2>4. pub' \in [Handlers -> {0} \cup IDs'] /\ sub' \in [Handlers -> {0} \cup IDs']
    BY <1>1, <1>5 DEF TypeOK, conns
  <2>5. wait' \in [Waiters -> [pc : {"idle", "check", "waiting"}, key : Keys,
                              cur : {0} \cup IDs', chan : 0..changed']]
    BY <1>1, <1>5 DEF TypeOK, outside
  <2>. QED  BY <1>1, <1>4, <2>1, <2>2, <2>3, <2>4, <2>5 DEF TypeOK, JobType, conns, outside
<1>7. \A u \in Threads : (RoleOK(u) /\ JobOK(u))'
  <2>. SUFFICES ASSUME NEW u \in Threads PROVE (RoleOK(u) /\ JobOK(u))'
    OBVIOUS
  <2>1. RoleOK(u)'
    BY <1>1, <1>2 DEF TypeOK, RoleOK
  <2>2. CASE u = t
    <3>1. /\ pc'[t] = "publishAnnounce"
          /\ job'[t].pubsub = p /\ job'[t].seen = changed /\ changed \in 1..changed'
      BY <1>1 DEF TypeOK
    <3>2. p \in IDs'
      BY <1>5
    <3>. QED  BY ONLY <2>1, <2>2, <3>1, <3>2 DEF JobOK, Deregistering, Announcing
  <2>3. CASE u # t
    <3>1. pc'[u] = pc[u] /\ job'[u] = job[u] /\ changed' = changed /\ JobOK(u)
      BY <1>1, <2>3 DEF TypeOK
    <3>2. \A k \in Keys : streams'[k] # streams[k] => streams'[k] = p
      BY <1>1 DEF TypeOK
    <3>3. job[u].pubsub \in IDs =>
             /\ job[u].pubsub \in IDs' /\ job[u].pubsub # p
             /\ pubsubs'[job[u].pubsub] = pubsubs[job[u].pubsub]
      BY <1>5
    <3>. QED  BY ONLY <2>1, <3>1, <3>2, <3>3 DEF JobOK, Deregistering, Announcing
  <2>. QED  BY <2>1, <2>2, <2>3
<1>8. ListedHasPublisher'
  <2>1. \A k \in Keys : streams[k] \in {0} \cup IDs
    BY DEF TypeOK
  <2>2. \A k \in Keys : streams'[k] = IF k = job[t].key THEN p ELSE streams[k]
    BY <1>1 DEF TypeOK
  <2>. QED  BY <1>3, <1>4, <1>5, <2>1, <2>2 DEF ListedHasPublisher
<1>9. ChannelsOK'
  BY <1>1, PanickedStays DEF ChannelsOK, Goto, outside
<1>. QED  BY <1>6, <1>7, <1>8, <1>9

-----------------------------------------------------------------------------
(***************************************************************************)
(* The end of connections and subscribers, and the callers of WaitPubsub.  *)
(***************************************************************************)

\* Neither the registry nor a thread's work moves.
LEMMA StaysInv ==
    ASSUME RelayInv, TypeOK',
           UNCHANGED <<registry, pubsubs, threads>>, up' => up
    PROVE  RelayInv'
<1>1. \A u \in Threads : (RoleOK(u) /\ JobOK(u))'
  BY DEF RelayInv, registry, threads, RoleOK, JobOK, IDs, Announcing
<1>2. (ListedHasPublisher /\ ChannelsOK)'
  BY DEF RelayInv, registry, threads, ListedHasPublisher, ChannelsOK, Panicked
<1>. QED  BY <1>1, <1>2 DEF RelayInv

LEMMA OnCloseInv == ASSUME RelayInv, NEW h \in Handlers, OnClose(h) PROVE RelayInv'
<1>. USE DEF RelayInv, OnClose, Goto, registry, taken, outside
<1>0. /\ closer(h) \in Threads /\ closer(h)[2] = "closer"
      /\ pub[h] \in {0} \cup IDs /\ (pub[h] # 0 => pubsubs[pub[h]].name \in Keys)
  <2>1. closer(h) \in Threads /\ closer(h)[2] = "closer"
    BY DEF closer, Threads
  <2>2. \A q \in IDs : pubsubs[q] \in Pubsub
    BY LenProperties DEF TypeOK, IDs
  <2>3. pub[h] \in {0} \cup IDs
    BY DEF TypeOK
  <2>4. \A e \in Pubsub : e.name \in Keys
    BY DEF Pubsub
  <2>. QED  BY <2>1, <2>2, <2>3, <2>4
<1>1. TypeOK'
  <2>1. job' \in [Threads -> JobType] /\ pc' \in [Threads -> PCs]
    BY <1>0 DEF TypeOK, PCs, JobType
  <2>2. isClosed' \subseteq closedConns'
    BY DEF TypeOK
  <2>. QED  BY <2>1, <2>2 DEF TypeOK, IDs, JobType
<1>2. \A u \in Threads : (RoleOK(u) /\ JobOK(u))'
  BY <1>0 DEF TypeOK, RoleOK, JobOK, IDs, Deregistering, Announcing
<1>3. (ListedHasPublisher /\ ChannelsOK)'
  BY <1>0, PanickedStays DEF ListedHasPublisher, ChannelsOK
<1>. QED  BY <1>1, <1>2, <1>3

LEMMA CloseSubInv == ASSUME RelayInv, NEW t \in Threads, CloseSub(t) PROVE RelayInv'
<1>. USE DEF RelayInv, CloseSub, CloseSubs, At, Goto, registry, outside
<1>0. t[1] \in Handlers
  BY DEF Threads, RoleOK
<1>1. TypeOK'
  BY <1>0 DEF TypeOK, PCs, IDs
<1>2. \A u \in Threads : (RoleOK(u) /\ JobOK(u))'
  BY DEF TypeOK, RoleOK, JobOK, IDs, Deregistering, Announcing
<1>3. (ListedHasPublisher /\ ChannelsOK)'
  BY PanickedStays DEF ListedHasPublisher, ChannelsOK
<1>. QED  BY <1>1, <1>2, <1>3

LEMMA ConnectionInv ==
    ASSUME RelayInv,
           \/ \E h \in Handlers : Disconnect(h) \/ QueueFull(h)
           \/ \E t \in Threads, p \in 1..MaxPubsubs : Sweep(p, t)
    PROVE  RelayInv'
<1>. USE DEF RelayInv, registry, taken, threads, outside
<1>1. ASSUME NEW h \in Handlers, Disconnect(h) PROVE RelayInv'
  <2>1. TypeOK'
    BY <1>1 DEF Disconnect, TypeOK, IDs
  <2>. QED  BY <1>1, <2>1, StaysInv DEF Disconnect
<1>2. ASSUME NEW h \in Handlers, QueueFull(h) PROVE RelayInv'
  <2>1. TypeOK'
    BY <1>2 DEF QueueFull, CloseSubs, TypeOK, IDs
  <2>. QED  BY <1>2, <2>1, StaysInv DEF QueueFull, CloseSubs
<1>3. ASSUME NEW t, NEW p, Sweep(p, t) PROVE RelayInv'
  <2>1. TypeOK'
    BY <1>3 DEF Sweep, CloseSubs, TypeOK, IDs
  <2>. QED  BY <1>3, <2>1, StaysInv DEF Sweep, CloseSubs
<1>. QED  BY <1>1, <1>2, <1>3

LEMMA WaitInv ==
    ASSUME RelayInv, NEW w \in Waiters, WaitPubsub(w) \/ WaitStep(w)
    PROVE  RelayInv'
<1>. DEFINE W == [pc : {"idle", "check", "waiting"}, key : Keys,
                  cur : {0} \cup IDs, chan : 0..changed]
<1>. USE DEF RelayInv, registry, taken, conns, threads
<1>1. wait \in [Waiters -> W] /\ changed \in 0..changed /\ 0 \in 0..changed
  BY DEF TypeOK
<1>2. UNCHANGED <<up, registry, taken, conns, threads>>
  BY DEF WaitPubsub, WaitStep, WaitCheck, WaitWake
<1>3. \E v \in W : wait' = [wait EXCEPT ![w] = v]
  <2>1. CASE WaitPubsub(w)
    BY <1>1, <2>1 DEF WaitPubsub, TypeOK
  <2>2. CASE WaitCheck(w)
    <3>1. NoWait \in W
      BY <1>1, KeysAssumption DEF NoWait
    <3>2. [wait[w] EXCEPT !.pc = "waiting", !.chan = changed] \in W
      BY <1>1
    <3>. QED  BY <2>2, <3>1, <3>2 DEF WaitCheck
  <2>3. CASE WaitWake(w)
    <3>1. [wait[w] EXCEPT !.pc = "check", !.chan = 0] \in W
      BY <1>1
    <3>2. wait' = [wait EXCEPT ![w] = [wait[w] EXCEPT !.pc = "check", !.chan = 0]]
      BY <1>1, <2>3 DEF WaitWake
    <3>. QED  BY <3>1, <3>2
  <2>. QED  BY <2>1, <2>2, <2>3 DEF WaitStep
<1>4. wait' \in [Waiters -> W]
  BY <1>1, <1>3
<1>5. TypeOK'
  BY <1>2, <1>4 DEF TypeOK, IDs
<1>. QED  BY <1>2, <1>5, StaysInv

-----------------------------------------------------------------------------
(***************************************************************************)
(* The theorems.                                                           *)
(***************************************************************************)

LEMMA NextRelayInv == RelayInv /\ [Next]_vars => RelayInv'
<1>. SUFFICES ASSUME RelayInv, [Next]_vars PROVE RelayInv'
  OBVIOUS
<1>1. ASSUME NEW t \in Threads, ThreadStep(t) PROVE RelayInv'
  BY <1>1, DrainInv, CheckInv, DeleteInv, AnnounceInv, DoubleCloseInv, CutInv,
     NewPubsubInv, RegisterInv, SetPubInv, GetPubsubInv, SubscribeInv, CloseSubInv
     DEF ThreadStep
<1>2. ASSUME NEW t \in Threads, RemovePubsub(t) PROVE RelayInv'
  <2>1. PICK k \in Keys : job' = [job EXCEPT ![t] = [NoJob EXCEPT !.key = k]]
    BY <1>2 DEF RemovePubsub
  <2>. QED  BY <1>2, <2>1, BeginInv DEF RemovePubsub, At
<1>3. ASSUME NEW h \in Handlers, OnPublish(h) \/ OnPlay(h) PROVE RelayInv'
  <2>1. PICK k \in Keys : job' = [job EXCEPT ![loop(h)] = [NoJob EXCEPT !.key = k]]
    BY <1>3 DEF OnPublish, OnPlay
  <2>2. loop(h) \in Threads /\ loop(h)[2] = "loop"
    BY DEF loop, Threads
  <2>. QED  BY <1>3, <2>1, <2>2, BeginInv DEF OnPublish, OnPlay, Receives, At
<1>4. CASE ConcurrentMapAccess \/ UNCHANGED vars
  <2>1. UNCHANGED <<registry, taken, conns, threads, wait>> /\ (up' = FALSE \/ up' = up)
    BY <1>4 DEF ConcurrentMapAccess, vars, outside
  <2>2. TypeOK'
    BY <2>1 DEF RelayInv, TypeOK, IDs, registry, taken, conns, threads
  <2>. QED  BY <2>1, <2>2, StaysInv DEF taken
<1>. QED  BY <1>1, <1>2, <1>3, <1>4, OnCloseInv, ConnectionInv, WaitInv DEF Next, Quiet

\* A caller of WaitPubsub that waits has the channel it waits on.
WaitOK == \A w \in Waiters : wait[w].pc = "waiting" => wait[w].chan # 0

LEMMA NextWaitOK == RelayInv /\ WaitOK /\ [Next]_vars => WaitOK'
<1>. SUFFICES ASSUME RelayInv, WaitOK, [Next]_vars PROVE WaitOK'
  OBVIOUS
<1>. USE DEF WaitOK
<1>1. CASE UNCHANGED wait
  BY <1>1
<1>2. ASSUME NEW w \in Waiters, WaitPubsub(w) PROVE WaitOK'
  BY <1>2 DEF WaitPubsub, RelayInv, TypeOK
<1>3. ASSUME NEW w \in Waiters, WaitCheck(w) PROVE WaitOK'
  <2>1. changed # 0
    BY DEF RelayInv, TypeOK
  <2>. QED  BY <1>3, <2>1 DEF WaitCheck, NoWait, RelayInv, TypeOK
<1>4. ASSUME NEW w \in Waiters, WaitWake(w) PROVE WaitOK'
  BY <1>4 DEF WaitWake, RelayInv, TypeOK
<1>5. ASSUME NEW t \in Threads, ThreadStep(t) PROVE UNCHANGED wait
  BY <1>5 DEF ThreadStep, Drain, Check, Delete, Announce, DoubleClose, Cut, NewPubsub,
     Register, SetPub, GetPubsub, Subscribe, CloseSub, CloseSubs, Quietly, outside
<1>6. ASSUME NEW h \in Handlers,
             OnPublish(h) \/ OnPlay(h) \/ Disconnect(h) \/ OnClose(h) \/ QueueFull(h)
      PROVE  UNCHANGED wait
  BY <1>6 DEF OnPublish, OnPlay, Disconnect, OnClose, QueueFull, CloseSubs, Quietly, outside
<1>7. CASE \/ \E t \in Threads : RemovePubsub(t)
           \/ \E t \in Threads, p \in 1..MaxPubsubs : Sweep(p, t)
           \/ ConcurrentMapAccess \/ UNCHANGED vars
  BY <1>1, <1>7 DEF RemovePubsub, Sweep, CloseSubs, ConcurrentMapAccess, Quietly, vars, outside
<1>. QED  BY <1>1, <1>2, <1>3, <1>4, <1>5, <1>6, <1>7 DEF Next, WaitStep, Quiet

LEMMA RelayInvariant == Spec => [](RelayInv /\ WaitOK)
<1>1. Init => RelayInv /\ WaitOK
  BY InitRelayInv DEF Init, WaitOK, NoWait
<1>2. (RelayInv /\ WaitOK) /\ [Next]_vars => (RelayInv /\ WaitOK)'
  BY NextRelayInv, NextWaitOK
<1>. QED  BY <1>1, <1>2, PTL DEF Spec

\* However many connections publish, play and close at once, every variable of
\* the relay stays of its type; in particular no thread and no map refers to a
\* Pubsub that was never made.
THEOREM RelayTypeCorrect == Spec => []TypeOK
<1>1. RelayInv => TypeOK
  BY DEF RelayInv
<1>. QED  BY <1>1, RelayInvariant, PTL

\* A stream that can be found always has a publisher for the next one of its
\* name to cut off: no interleaving of takeovers, of closers that work without
\* RelayService.m and of RemovePubsub clears publisherHandler too early.
THEOREM ListedStreamHasPublisher == Spec => []ListedHasPublisher
<1>1. RelayInv => ListedHasPublisher
  BY DEF RelayInv
<1>. QED  BY <1>1, RelayInvariant, PTL

\* WaitPubsub never sleeps on a channel that was replaced and not closed,
\* although the channel is read, replaced and closed in separate steps and
\* Pub.Close takes no part in RelayService.m.
THEOREM WaitPubsubMissesNothing == Spec => []NoLostWakeup
<1>1. RelayInv /\ WaitOK => NoLostWakeup
  <2>. SUFFICES ASSUME RelayInv, WaitOK, up, ~Panicked,
                       NEW w \in Waiters, wait[w].pc = "waiting"
                PROVE  wait[w].chan \in closedChans \cup {changed}
    BY DEF NoLostWakeup
  <2>1. wait[w].chan \in 0..changed /\ wait[w].chan # 0 /\ changed \in Nat
    BY DEF RelayInv, TypeOK, WaitOK
  <2>2. 1..(changed - 1) \subseteq closedChans
    BY DEF RelayInv, ChannelsOK
  <2>. QED  BY <2>1, <2>2
<1>. QED  BY <1>1, RelayInvariant, PTL

-----------------------------------------------------------------------------
(***************************************************************************)
(* RelayService.m and the entry that NewPubsub is about to write.          *)
(***************************************************************************)

\* One thread holds the mutex, and from the removal on the name it is to
\* register is free: who works without the mutex only takes entries away.
MutexInv ==
    /\ \A t, u \in Threads : HoldsRegistry(t) /\ HoldsRegistry(u) => t = u
    /\ \A t \in Threads :
          t[2] = "loop" /\ pc[t] \in {"announce", "cut", "register"}
              => streams[job[t].key] = 0

\* A step of one thread.
OnlyMoves(t) ==
    \A u \in Threads \ {t} : pc'[u] = pc[u] /\ job'[u] = job[u]

LEMMA MutexMoves ==
    ASSUME MutexInv, TypeOK, NEW t \in Threads, OnlyMoves(t),
           HoldsRegistry(t)' => HoldsRegistry(t) \/ RegistryFree,
           t[2] = "loop" /\ pc'[t] \in {"announce", "cut", "register"}
               => streams'[job'[t].key] = 0,
           HoldsRegistry(t) \/ \A k \in Keys : streams'[k] \in {0, streams[k]}
    PROVE  MutexInv'
<1>1. \A u \in Threads \ {t} : HoldsRegistry(u)' <=> HoldsRegistry(u)
  BY DEF OnlyMoves, HoldsRegistry
<1>2. \A u, v \in Threads : HoldsRegistry(u)' /\ HoldsRegistry(v)' => u = v
  BY <1>1 DEF MutexInv, RegistryFree
<1>3. ASSUME NEW u \in Threads \ {t}, u[2] = "loop",
             pc'[u] \in {"announce", "cut", "register"}
      PROVE  streams'[job'[u].key] = 0
  <2>1. /\ pc'[u] = pc[u] /\ job'[u] = job[u] /\ job[u].key \in Keys
        /\ streams[job[u].key] = 0
    BY <1>3 DEF OnlyMoves, MutexInv, TypeOK
  <2>2. HoldsRegistry(u)
    BY <1>3, <2>1 DEF HoldsRegistry, Deregistering
  <2>3. ~HoldsRegistry(t)
    BY <2>2 DEF MutexInv
  <2>. QED  BY <2>1, <2>3
<1>. QED  BY <1>2, <1>3 DEF MutexInv

\* Who moves in a step of a thread.
LEMMA OneThread ==
    ASSUME TypeOK, NEW t \in Threads, ThreadStep(t) \/ RemovePubsub(t)
    PROVE  OnlyMoves(t)
  BY DEF ThreadStep, RemovePubsub, Drain, Check, Delete, Announce, DoubleClose, Cut,
     NewPubsub, Register, SetPub, GetPubsub, Subscribe, CloseSub, CloseSubs, Goto, Forget,
     Quietly, At, OnlyMoves, TypeOK

LEMMA MutexStep == RelayInv /\ MutexInv /\ [Next]_vars => MutexInv'
<1>. SUFFICES ASSUME RelayInv, MutexInv, [Next]_vars PROVE MutexInv'
  OBVIOUS
<1>0. TypeOK /\ \A t \in Threads : RoleOK(t)
  BY DEF RelayInv
<1>1. ASSUME UNCHANGED <<streams, pc, job>> PROVE MutexInv'
  BY <1>1 DEF MutexInv, HoldsRegistry
<1>2. ASSUME NEW t \in Threads, ThreadStep(t) PROVE MutexInv'
  <2>. SUFFICES /\ HoldsRegistry(t)' => HoldsRegistry(t) \/ RegistryFree
                /\ t[2] = "loop" /\ pc'[t] \in {"announce", "cut", "register"}
                       => streams'[job'[t].key] = 0
                /\ HoldsRegistry(t) \/ \A k \in Keys : streams'[k] \in {0, streams[k]}
    BY <1>0, <1>2, OneThread, MutexMoves
  <2>1. CASE Drain(t) \/ Check(t)
    BY <1>0, <2>1 DEF Drain, Check, At, Goto, AfterRemoval, HoldsRegistry, Deregistering,
       Quietly, registry, TypeOK, Threads
  <2>2. CASE Delete(t)
    <3>1. /\ streams' = [streams EXCEPT ![job[t].key] = 0]
          /\ job' = [job EXCEPT ![t].seen = changed]
          /\ pc[t] = "delete" /\ pc' = [pc EXCEPT ![t] = "announce"]
      BY <2>2 DEF Delete, At, Goto
    <3>2. /\ job'[t].key = job[t].key /\ job[t].key \in Keys
          /\ \A k \in Keys : streams'[k] \in {0, streams[k]}
          /\ streams'[job[t].key] = 0 /\ pc'[t] = "announce"
      BY <1>0, <3>1 DEF TypeOK
    <3>. QED  BY <3>1, <3>2 DEF HoldsRegistry, Deregistering
  <2>3. CASE Announce(t)
    <3>1. /\ streams' = streams /\ job'[t].key = job[t].key /\ Announcing(t)
          /\ pc'[t] = IF pc[t] = "announce" THEN AfterRemoval(t) ELSE "setPub"
      BY <1>0, <2>3 DEF Announce, Goto, TypeOK
    <3>. QED
      BY <3>1 DEF MutexInv, Announcing, AfterRemoval, HoldsRegistry, Deregistering, Threads
  <2>4. CASE Cut(t)
    <3>1. /\ streams' = streams /\ job'[t].key = job[t].key /\ pc[t] = "cut"
          /\ t[2] = "loop" => pc'[t] = "register"
          /\ pc'[t] \in {"register", "closeSub", "done"}
      BY <1>0, <2>4 DEF Cut, At, Goto, registry, TypeOK
    <3>2. t[2] # "admin"
      BY <1>0, <3>1 DEF RoleOK
    <3>. QED  BY <3>1, <3>2 DEF MutexInv, HoldsRegistry, Deregistering
  <2>5. CASE NewPubsub(t)
    <3>1. /\ streams' = streams /\ job'[t].key = job[t].key /\ RegistryFree
          /\ pc'[t] = IF streams[job[t].key] = 0 THEN "register" ELSE "drain"
      BY <1>0, <2>5 DEF NewPubsub, Goto, Quietly, registry, TypeOK
    <3>. QED  BY <3>1
  <2>6. CASE Register(t)
    <3>1. pc[t] = "register" /\ pc'[t] = "publishAnnounce" /\ t[2] = "loop"
      BY <1>0, <2>6 DEF Register, At, Goto, RoleOK, TypeOK
    <3>. QED  BY <3>1 DEF HoldsRegistry
  <2>7. CASE DoubleClose(t)
    <3>1. /\ streams' = streams /\ job' = job
          /\ pc'[t] = pc[t] \/ (pc'[t] = "panicked" /\ t[2] = "loop")
      BY <1>0, <2>7 DEF DoubleClose, Goto, TypeOK
    <3>. QED  BY <3>1 DEF MutexInv, HoldsRegistry, Deregistering
  <2>8. CASE SetPub(t) \/ GetPubsub(t) \/ Subscribe(t) \/ CloseSub(t)
    <3>1. /\ streams' = streams /\ pc'[t] \in {"ready", "subscribe", "done"}
          /\ pc[t] \in {"setPub", "lookup", "subscribe", "closeSub"}
      BY <1>0, <2>8 DEF SetPub, GetPubsub, Subscribe, CloseSub, CloseSubs, At, Goto, Quietly,
         registry, TypeOK
    <3>2. t[2] # "admin"
      BY <1>0, <3>1 DEF RoleOK
    <3>. QED  BY <3>1, <3>2 DEF HoldsRegistry, Deregistering
  <2>. QED  BY <1>2, <2>1, <2>2, <2>3, <2>4, <2>5, <2>6, <2>7, <2>8 DEF ThreadStep
<1>3. ASSUME NEW t \in Threads, RemovePubsub(t) PROVE MutexInv'
  <2>1. /\ streams' = streams /\ pc'[t] = "check" /\ t[2] = "admin" /\ RegistryFree
    BY <1>0, <1>3 DEF RemovePubsub, Goto, Quietly, registry, TypeOK
  <2>. QED  BY <1>0, <1>3, <2>1, OneThread, MutexMoves
<1>4. ASSUME NEW h \in Handlers, OnPublish(h) \/ OnPlay(h) \/ OnClose(h) PROVE MutexInv'
  <2>1. PICK t \in Threads :
          /\ OnlyMoves(t) /\ streams' = streams
          /\ \/ t[2] = "loop" /\ pc'[t] \in {"newPubsub", "lookup"}
             \/ t[2] = "closer"
    <3>1. loop(h) \in Threads /\ closer(h) \in Threads
          /\ loop(h)[2] = "loop" /\ closer(h)[2] = "closer"
      BY DEF loop, closer, Threads
    <3>2. CASE OnClose(h)
      <4>1. OnlyMoves(closer(h)) /\ streams' = streams
        BY <1>0, <3>1, <3>2 DEF OnClose, Goto, OnlyMoves, registry, TypeOK
      <4>. QED  BY <3>1, <4>1
    <3>3. CASE OnPublish(h) \/ OnPlay(h)
      <4>1. OnlyMoves(loop(h)) /\ streams' = streams /\ pc'[loop(h)] \in {"newPubsub", "lookup"}
        BY <1>0, <3>1, <3>3 DEF OnPublish, OnPlay, Goto, OnlyMoves, Quietly, registry, TypeOK
      <4>. QED  BY <3>1, <4>1
    <3>. QED  BY <1>4, <3>2, <3>3
  <2>2. ~HoldsRegistry(t)'
    BY <2>1 DEF HoldsRegistry, Deregistering
  <2>. QED  BY <1>0, <2>1, <2>2, MutexMoves
<1>5. ASSUME \/ \E h \in Handlers : Disconnect(h) \/ QueueFull(h)
             \/ \E t \in Threads, p \in 1..MaxPubsubs : Sweep(p, t)
             \/ \E w \in Waiters : WaitPubsub(w) \/ WaitStep(w)
             \/ ConcurrentMapAccess \/ UNCHANGED vars
      PROVE  MutexInv'
  BY <1>1, <1>5 DEF Disconnect, QueueFull, Sweep, CloseSubs, WaitPubsub, WaitStep, WaitCheck,
     WaitWake, ConcurrentMapAccess, vars, registry, threads
<1>. QED  BY <1>2, <1>3, <1>4, <1>5 DEF Next, Quiet

-----------------------------------------------------------------------------
(***************************************************************************)
(* The relay keeps what StreamLifecycle promises.                          *)
(***************************************************************************)

StreamStep == [Streams!StreamNext]_(Streams!streamVars)

Ended == {p \in IDs : pubsubs[p].publisher = NoHandler}

LEMMA NoStream == UNCHANGED <<streams, pubsubs, told>> => StreamStep
  BY DEF StreamStep, Streams!streamVars, IDs

\* The stream of a name is listed while RelayService.m is held and the name is
\* free.
LEMMA RegisterLists ==
    ASSUME RelayInv, MutexInv, NEW t \in Threads, Register(t)
    PROVE  StreamStep
<1>0. PICK k \in Keys : k = job[t].key
  BY DEF RelayInv, TypeOK
<1>. DEFINE e == [name |-> k, publisher |-> t[1]]
<1>1. /\ pc[t] = "register" /\ t[2] = "loop"
      /\ pubsubs' = Append(pubsubs, e)
      /\ streams' = [streams EXCEPT ![k] = Len(pubsubs) + 1]
      /\ told' = told
  BY <1>0 DEF Register, At, RelayInv, RoleOK
<1>2. t[1] \in Handlers /\ pubsubs \in Seq(Pubsub)
  BY <1>1 DEF Threads, RelayInv, TypeOK
<1>3. e \in Pubsub /\ e.publisher # NoHandler
  BY <1>2, NoHandlerAssumption DEF Pubsub
<1>4. streams[k] = 0
  BY <1>0, <1>1 DEF MutexInv
<1>. HIDE DEF e
<1>5. /\ Len(pubsubs') = Len(pubsubs) + 1 /\ Len(pubsubs) \in Nat
      /\ \A i \in 1..Len(pubsubs) : pubsubs'[i] = pubsubs[i]
      /\ pubsubs'[Len(pubsubs) + 1] = e
  BY <1>1, <1>2, <1>3, AppendProperties, LenProperties
<1>6. {p \in IDs : pubsubs[p].publisher = NoHandler}'
        = {p \in IDs : pubsubs[p].publisher = NoHandler}
  BY <1>3, <1>5 DEF IDs
<1>7. Streams!List(k)
  BY <1>1, <1>4, <1>5, <1>6 DEF Streams!List
<1>. QED  BY <1>7 DEF StreamStep, Streams!StreamNext

LEMMA DeleteUnlists ==
    ASSUME RelayInv, NEW t \in Threads, Delete(t)
    PROVE  StreamStep
<1>0. PICK k \in Keys : k = job[t].key
  BY DEF RelayInv, TypeOK
<1>1. streams' = [streams EXCEPT ![k] = 0] /\ UNCHANGED <<pubsubs, told>>
  BY <1>0 DEF Delete, taken
<1>2. CASE streams[k] = 0
  <2>1. streams' = streams
    BY <1>1, <1>2 DEF RelayInv, TypeOK
  <2>. QED  BY <1>1, <2>1, NoStream
<1>3. CASE streams[k] # 0
  <2>1. Streams!Unlist(k)
    BY <1>1, <1>3 DEF Streams!Unlist, IDs
  <2>. QED  BY <2>1 DEF StreamStep, Streams!StreamNext
<1>. QED  BY <1>2, <1>3

\* A publisher is let go when his stream is not listed any more, and whoever
\* watches it learns of it then or later.
LEMMA CutEnds ==
    ASSUME RelayInv, NEW t \in Threads, Cut(t)
    PROVE  StreamStep
<1>0. /\ pc[t] = "cut" /\ t[2] # "admin" /\ job[t].pubsub \in IDs
      /\ \A k \in Keys : streams[k] # job[t].pubsub
  BY DEF Cut, At, RelayInv, RoleOK, JobOK, Deregistering
<1>1. PICK p \in IDs : p = job[t].pubsub
  BY <1>0
<1>2. /\ pubsubs' = [pubsubs EXCEPT ![p].publisher = NoHandler]
      /\ told' \in {told, told \cup {p}} /\ streams' = streams
  BY <1>1 DEF Cut, registry
<1>3. /\ IDs' = IDs /\ Len(pubsubs') = Len(pubsubs)
      /\ \A q \in IDs : q # p => pubsubs'[q] = pubsubs[q]
      /\ pubsubs'[p].publisher = NoHandler
  <2>1. pubsubs \in Seq(Pubsub)
    BY DEF RelayInv, TypeOK
  <2>2. IDs' = IDs /\ \A q \in IDs : q # p => pubsubs'[q] = pubsubs[q]
    BY <1>2, ClearPublisher DEF RelayInv
  <2>. DEFINE e == [pubsubs[p] EXCEPT !.publisher = NoHandler]
  <2>3. pubsubs[p] \in Pubsub
    BY <2>1, LenProperties DEF IDs
  <2>4. e \in Pubsub /\ e.publisher = NoHandler /\ pubsubs' = [pubsubs EXCEPT ![p] = e]
    BY <1>2, <2>3 DEF Pubsub
  <2>. HIDE DEF e
  <2>5. Len(pubsubs') = Len(pubsubs) /\ pubsubs'[p] = e
    <3>1. p \in 1..Len(pubsubs)
      BY DEF IDs
    <3>. QED  BY <2>1, <2>4, <3>1, ExceptSeq
  <2>. QED  BY <2>2, <2>4, <2>5
<1>4. Ended' = Ended \cup {p}
  BY <1>3 DEF Ended
<1>5. CASE p \in Ended
  <2>1. CASE told' = told
    BY <1>2, <1>3, <1>4, <1>5, <2>1 DEF StreamStep, Streams!streamVars, Ended
  <2>2. CASE told' = told \cup {p}
    <3>1. Streams!Tell(p)
      BY <1>2, <1>3, <1>4, <1>5, <2>2 DEF Streams!Tell, Ended
    <3>. QED  BY <3>1 DEF StreamStep, Streams!StreamNext, IDs
  <2>. QED  BY <1>2, <2>1, <2>2
<1>6. CASE p \notin Ended
  <2>1. Streams!End(p)
    BY <1>0, <1>1, <1>2, <1>3, <1>4, <1>6 DEF Streams!End, Ended
  <2>. QED  BY <2>1 DEF StreamStep, Streams!StreamNext, IDs
<1>. QED  BY <1>5, <1>6

LEMMA StreamSteps == RelayInv /\ MutexInv /\ [Next]_vars => StreamStep
<1>. SUFFICES ASSUME RelayInv, MutexInv, [Next]_vars PROVE StreamStep
  OBVIOUS
<1>1. ASSUME NEW t \in Threads,
             \/ Drain(t) \/ Check(t) \/ Announce(t) \/ DoubleClose(t) \/ NewPubsub(t)
             \/ SetPub(t) \/ GetPubsub(t) \/ Subscribe(t) \/ CloseSub(t) \/ RemovePubsub(t)
      PROVE  StreamStep
  BY <1>1, NoStream DEF Drain, Check, Announce, DoubleClose, NewPubsub, SetPub, GetPubsub,
     Subscribe, CloseSub, CloseSubs, RemovePubsub, Quietly, registry, taken
<1>2. ASSUME \/ \E h \in Handlers : \/ OnPublish(h) \/ OnPlay(h) \/ Disconnect(h)
                                    \/ OnClose(h) \/ QueueFull(h)
             \/ \E t \in Threads, p \in 1..MaxPubsubs : Sweep(p, t)
             \/ \E w \in Waiters : WaitPubsub(w) \/ WaitStep(w)
             \/ ConcurrentMapAccess \/ UNCHANGED vars
      PROVE  StreamStep
  BY <1>2, NoStream DEF OnPublish, OnPlay, Disconnect, OnClose, QueueFull, Sweep, CloseSubs,
     WaitPubsub, WaitStep, WaitCheck, WaitWake, ConcurrentMapAccess, vars, Quietly, registry,
     taken
<1>. QED
  BY <1>1, <1>2, RegisterLists, DeleteUnlists, CutEnds DEF Next, ThreadStep, Quiet

\* The relay keeps what StreamLifecycle promises of its streams, for any number
\* of connections: a name lists one stream, which replaces none; a publisher is
\* let go only when his stream is off the list, and only then is its end told.
THEOREM StreamRefinement == Spec => ImplementsStreams
<1>1. Init => RelayInv /\ MutexInv /\ Streams!StreamInit
  <2>1. Init => MutexInv
    BY DEF Init, MutexInv, HoldsRegistry, Deregistering, Threads
  <2>2. Init => Streams!StreamInit
    BY DEF Init, Streams!StreamInit, IDs
  <2>. QED  BY <2>1, <2>2, InitRelayInv
<1>2. (RelayInv /\ MutexInv) /\ [Next]_vars => (RelayInv /\ MutexInv)'
  BY NextRelayInv, MutexStep
<1>3. RelayInv /\ MutexInv /\ [Next]_vars => [Streams!StreamNext]_(Streams!streamVars)
  BY StreamSteps DEF StreamStep
<1>. QED  BY <1>1, <1>2, <1>3, PTL DEF Spec, ImplementsStreams, Streams!StreamSpec

-----------------------------------------------------------------------------
(***************************************************************************)
(* What becomes of what a handler published and played.                    *)
(***************************************************************************)

Unlisted(p) == \A k \in Keys : streams[k] # p

\* The goroutine of OnClose runs once the handler is closed, which then changes
\* neither its Pub nor its Sub; what it works on is that Pub.
Leaves(h) ==
    /\ pc[closer(h)] \in {"none", "closeSub", "done"} \cup Deregistering
    /\ h \in isClosed <=> pc[closer(h)] # "none"
    /\ pc[closer(h)] \in Deregistering => job[closer(h)].pubsub = pub[h]
    /\ pc[closer(h)] \in {"closeSub", "done"} /\ pub[h] # 0 =>
          pub[h] \in told /\ Unlisted(pub[h])
    /\ pc[closer(h)] = "done" => <<sub[h], h>> \notin subs

\* A publisher knows his stream, is about to, will not because he is closed or
\* panicked, or knows another by now: those he is told of come in their order.
InFlight(h, p) ==
    pc[loop(h)] \in {"publishAnnounce", "setPub"} /\ job[loop(h)].pubsub = p

KnownBy(h, p) ==
    \/ pub[h] = p \/ pub[h] > p
    \/ InFlight(h, p)
    \/ pc[loop(h)] = "panicked"
    \/ h \in isClosed

Knows(h) ==
    \A p \in IDs : /\ pubsubs[p].publisher = h => KnownBy(h, p)
                   /\ InFlight(h, p) => p > pub[h]

HandlerInv == \A h \in Handlers : Leaves(h) /\ Knows(h)

LEMMA TheThreads ==
    \A h \in Handlers :
        /\ loop(h) \in Threads /\ closer(h) \in Threads /\ loop(h) # closer(h)
        /\ loop(h)[1] = h /\ closer(h)[1] = h
        /\ loop(h)[2] = "loop" /\ closer(h)[2] = "closer"
        /\ \A g \in Handlers : (loop(g) = loop(h) => g = h) /\ (closer(g) = closer(h) => g = h)
  BY DEF Threads, loop, closer

LEMMA TheirOwner ==
    \A t \in Threads :
        /\ t[2] = "loop" => t[1] \in Handlers /\ t = loop(t[1])
        /\ t[2] = "closer" => t[1] \in Handlers /\ t = closer(t[1])
  BY DEF Threads, loop, closer

\* Nobody learns of his stream, closes his handler or plays.
LEMMA LeavesKept ==
    ASSUME RelayInv, NEW h \in Handlers, Leaves(h),
           pc'[closer(h)] = pc[closer(h)], job'[closer(h)] = job[closer(h)],
           h \in isClosed' <=> h \in isClosed,
           h \in isClosed => pub'[h] = pub[h] /\ sub'[h] = sub[h],
           told \subseteq told',
           \A k \in Keys : streams'[k] \in {0, streams[k]} \/ streams'[k] \notin IDs,
           h \in isClosed => \A p : <<p, h>> \in subs' => <<p, h>> \in subs
    PROVE  Leaves(h)'
<1>1. pub[h] # 0 => pub[h] \in IDs
  BY DEF RelayInv, TypeOK
<1>2. pub[h] # 0 /\ Unlisted(pub[h]) => \A k \in Keys : streams'[k] # pub[h]
  BY <1>1 DEF Unlisted
<1>3. CASE h \notin isClosed
  BY <1>3 DEF Leaves, Deregistering
<1>4. CASE h \in isClosed
  BY <1>2, <1>4 DEF Leaves, Unlisted
<1>. QED  BY <1>3, <1>4

\* One goroutine of OnClose at work, from its Pub to its Sub.
LEMMA CloserLeaves ==
    ASSUME RelayInv, RelayInv', NEW h \in Handlers, Leaves(h), ThreadStep(closer(h))
    PROVE  Leaves(h)'
<1>. DEFINE t == closer(h)
<1>0. /\ t \in Threads /\ t[1] = h /\ t[2] = "closer" /\ TypeOK /\ RoleOK(t) /\ JobOK(t)
      /\ pub[h] \in {0} \cup IDs /\ sub[h] \in {0} \cup IDs /\ subs \subseteq IDs \X Handlers
      /\ 0 \notin IDs
  <2>1. t \in Threads /\ t[1] = h /\ t[2] = "closer"
    BY TheThreads
  <2>2. /\ pub[h] \in {0} \cup IDs /\ sub[h] \in {0} \cup IDs
        /\ subs \subseteq IDs \X Handlers
    BY DEF RelayInv, TypeOK
  <2>3. 0 \notin IDs
    BY DEF IDs
  <2>. QED  BY <2>1, <2>2, <2>3 DEF RelayInv
<1>1. pc[t] \in {"none", "closeSub", "done"} \cup Deregistering
  BY DEF Leaves
<1>2. CASE Drain(t)
  <2>1. /\ pc[t] = "drain" /\ pc'[t] = "check"
        /\ UNCHANGED <<job, pub, isClosed>>
    BY <1>0, <1>2 DEF Drain, At, Goto, conns, TypeOK
  <2>. QED  BY <2>1 DEF Leaves, Deregistering
<1>3. CASE Check(t)
  <2>1. /\ pc[t] = "check" /\ pc'[t] \in {"cut", "delete"}
        /\ UNCHANGED <<job, pub, isClosed>>
    BY <1>0, <1>3 DEF Check, At, Goto, AfterRemoval, Quietly, conns, TypeOK
  <2>. QED  BY <2>1 DEF Leaves, Deregistering
<1>4. CASE Delete(t)
  <2>1. /\ pc[t] = "delete" /\ pc'[t] = "announce" /\ job'[t].pubsub = job[t].pubsub
        /\ UNCHANGED <<pub, isClosed>>
    BY <1>0, <1>4 DEF Delete, At, Goto, conns, TypeOK
  <2>. QED  BY <2>1 DEF Leaves, Deregistering
<1>5. CASE Announce(t)
  <2>1. pc[t] = "announce"
    BY <1>0, <1>5 DEF Announce, Announcing, RoleOK
  <2>2. /\ pc'[t] = "cut" /\ job'[t].pubsub = job[t].pubsub /\ UNCHANGED <<pub, isClosed>>
    BY <1>0, <1>5, <2>1 DEF Announce, Goto, AfterRemoval, conns, TypeOK
  <2>. QED  BY <2>1, <2>2 DEF Leaves, Deregistering
<1>6. CASE DoubleClose(t)
  <2>1. UNCHANGED <<pc, job, pub, sub, isClosed, streams, taken>>
    BY <1>0, <1>6 DEF DoubleClose
  <2>. QED  BY <2>1 DEF Leaves, Unlisted, taken
<1>7. CASE Cut(t)
  <2>1. /\ pc[t] = "cut" /\ pc'[t] = IF sub[h] # 0 THEN "closeSub" ELSE "done"
        /\ told' = told \cup {job[t].pubsub}
        /\ UNCHANGED <<streams, subs, pub, sub, isClosed>>
    BY <1>0, <1>7 DEF Cut, At, Goto, registry, TypeOK
  <2>2. job[t].pubsub = pub[h] /\ Unlisted(pub[h])
    BY <1>0, <2>1 DEF Leaves, JobOK, Deregistering, Unlisted
  <2>3. Unlisted(pub[h])'
    BY <2>1, <2>2 DEF Unlisted
  <2>4. pc'[t] = "done" => <<sub[h], h>> \notin subs
    BY <1>0, <2>1
  <2>. QED  BY <2>1, <2>2, <2>3, <2>4 DEF Leaves, Deregistering
<1>8. CASE CloseSub(t)
  <2>1. /\ pc[t] = "closeSub" /\ pc'[t] = "done"
        /\ subs' = {s \in subs : s[2] # h}
        /\ UNCHANGED <<streams, told, pub, sub, isClosed>>
    BY <1>0, <1>8 DEF CloseSub, CloseSubs, At, Goto, registry, TypeOK
  <2>2. <<sub[h], h>> \notin subs'
    BY <2>1
  <2>. QED  BY <2>1, <2>2 DEF Leaves, Deregistering, Unlisted
<1>9. ~(NewPubsub(t) \/ Register(t) \/ SetPub(t) \/ GetPubsub(t) \/ Subscribe(t))
  BY <1>1 DEF NewPubsub, Register, SetPub, GetPubsub, Subscribe, At, Deregistering
<1>. QED  BY <1>2, <1>3, <1>4, <1>5, <1>6, <1>7, <1>8, <1>9 DEF ThreadStep

\* What a step of any thread does to a handler that is closed, whoever it is.
LEMMA ClosedIsLeft ==
    ASSUME RelayInv, NEW t \in Threads, ThreadStep(t), NEW h \in Handlers
    PROVE  /\ isClosed' = isClosed /\ told \subseteq told'
           /\ h \in isClosed => pub'[h] = pub[h] /\ sub'[h] = sub[h]
           /\ h \in isClosed => \A p : <<p, h>> \in subs' => <<p, h>> \in subs
           /\ \A k \in Keys : streams'[k] \in {0, streams[k]} \/ streams'[k] \notin IDs
<1>0. TypeOK /\ RoleOK(t) /\ (t[2] = "loop" => t[1] \in Handlers)
  BY TheirOwner DEF RelayInv
<1>1. CASE Drain(t) \/ Check(t) \/ Announce(t) \/ DoubleClose(t) \/ NewPubsub(t)
           \/ GetPubsub(t) \/ CloseSub(t)
  BY <1>1 DEF Drain, Check, Announce, DoubleClose, NewPubsub, GetPubsub, CloseSub, CloseSubs,
     Quietly, conns, registry, taken
<1>2. CASE Delete(t)
  BY <1>0, <1>2 DEF Delete, conns, taken, TypeOK
<1>3. CASE Cut(t)
  BY <1>3 DEF Cut, registry
<1>4. CASE Register(t)
  <2>1. /\ streams' = [streams EXCEPT ![job[t].key] = Len(pubsubs) + 1]
        /\ UNCHANGED <<subs, told, conns>>
    BY <1>4 DEF Register
  <2>2. Len(pubsubs) + 1 \notin IDs
    BY <1>0, LenProperties DEF TypeOK, IDs
  <2>. QED  BY <1>0, <2>1, <2>2 DEF conns, TypeOK
<1>5. CASE SetPub(t)
  <2>1. /\ t[1] \in Handlers /\ pub' = IF t[1] \in isClosed THEN pub
                                       ELSE [pub EXCEPT ![t[1]] = job[t].pubsub]
        /\ UNCHANGED <<registry, taken, isClosed, sub>>
    BY <1>0, <1>5 DEF SetPub, At, RoleOK
  <2>2. h \in isClosed => pub'[h] = pub[h]
    BY <1>0, <2>1 DEF TypeOK
  <2>. QED  BY <2>1, <2>2 DEF registry, taken
<1>6. CASE Subscribe(t)
  <2>1. /\ t[1] \in Handlers
        /\ \/ sub' = sub /\ subs' = subs
           \/ /\ t[1] \notin isClosed
              /\ sub' = [sub EXCEPT ![t[1]] = job[t].pubsub]
              /\ subs' = subs \cup {<<job[t].pubsub, t[1]>>}
        /\ UNCHANGED <<registry, told, isClosed, pub>>
    BY <1>0, <1>6 DEF Subscribe, At, RoleOK
  <2>2. h \in isClosed => sub'[h] = sub[h]
    BY <1>0, <2>1 DEF TypeOK
  <2>. QED  BY <2>1, <2>2 DEF registry
<1>. QED  BY <1>1, <1>2, <1>3, <1>4, <1>5, <1>6 DEF ThreadStep

LEMMA LeavesStep ==
    ASSUME RelayInv, RelayInv', \A h \in Handlers : Leaves(h), [Next]_vars,
           NEW h \in Handlers
    PROVE  Leaves(h)'
<1>0. TypeOK /\ Leaves(h)
  BY DEF RelayInv
<1>1. ASSUME NEW t \in Threads, ThreadStep(t) PROVE Leaves(h)'
  <2>1. CASE t = closer(h)
    <3>1. ThreadStep(closer(h))
      BY <1>1, <2>1
    <3>. QED  BY <1>0, <3>1, CloserLeaves
  <2>2. CASE t # closer(h)
    <3>1. pc'[closer(h)] = pc[closer(h)] /\ job'[closer(h)] = job[closer(h)]
      BY <1>0, <1>1, <2>2, OneThread, TheThreads DEF OnlyMoves
    <3>. QED  BY <1>0, <1>1, <3>1, ClosedIsLeft, LeavesKept
  <2>. QED  BY <2>1, <2>2
<1>2. ASSUME UNCHANGED <<streams, told, isClosed, pub, sub>>, subs' \subseteq subs,
             pc'[closer(h)] = pc[closer(h)], job'[closer(h)] = job[closer(h)]
      PROVE  Leaves(h)'
  BY <1>0, <1>2, LeavesKept
<1>3. ASSUME NEW t \in Threads, RemovePubsub(t) PROVE Leaves(h)'
  <2>1. t # closer(h) /\ UNCHANGED <<streams, told, isClosed, pub, sub, subs>>
    BY <1>3, TheThreads DEF RemovePubsub, Quietly, registry, taken, conns
  <2>. QED  BY <1>0, <1>2, <1>3, <2>1, OneThread, TheThreads DEF OnlyMoves
<1>4. ASSUME NEW g \in Handlers, OnPublish(g) \/ OnPlay(g) PROVE Leaves(h)'
  <2>1. /\ UNCHANGED <<streams, told, isClosed, pub, sub, subs>>
        /\ \E x, l : job' = [job EXCEPT ![loop(g)] = x] /\ pc' = [pc EXCEPT ![loop(g)] = l]
    BY <1>4 DEF OnPublish, OnPlay, Goto, Quietly, registry, taken, conns
  <2>2. loop(g) # closer(h) /\ closer(h) \in Threads
    BY DEF loop, closer, Threads
  <2>3. pc'[closer(h)] = pc[closer(h)] /\ job'[closer(h)] = job[closer(h)]
    BY <1>0, <2>1, <2>2 DEF TypeOK
  <2>. QED  BY <1>2, <2>1, <2>3
<1>5. ASSUME NEW g \in Handlers, OnClose(g) PROVE Leaves(h)'
  <2>1. /\ UNCHANGED <<streams, told, subs, pub, sub>>
        /\ g \notin isClosed /\ isClosed' = isClosed \cup {g}
        /\ job' = IF pub[g] = 0 THEN job
                  ELSE [job EXCEPT ![closer(g)] =
                           [key |-> pubsubs[pub[g]].name, pubsub |-> pub[g], seen |-> 0]]
        /\ pc' = [pc EXCEPT ![closer(g)] =
                      IF pub[g] # 0 THEN "drain" ELSE IF sub[g] # 0 THEN "closeSub" ELSE "done"]
    BY <1>5 DEF OnClose, Goto, registry, taken
  <2>2. closer(h) \in Threads /\ closer(g) \in Threads /\ (closer(g) = closer(h) => g = h)
    BY TheThreads
  <2>3. CASE g # h
    <3>1. /\ pc'[closer(h)] = pc[closer(h)] /\ job'[closer(h)] = job[closer(h)]
          /\ h \in isClosed' <=> h \in isClosed
      BY <1>0, <2>1, <2>2, <2>3 DEF TypeOK
    <3>. QED  BY <1>0, <2>1, <3>1, LeavesKept
  <2>4. CASE g = h
    <3>1. /\ pc'[closer(h)] = IF pub[h] # 0 THEN "drain"
                              ELSE IF sub[h] # 0 THEN "closeSub" ELSE "done"
          /\ pub[h] # 0 => job'[closer(h)].pubsub = pub[h]
          /\ h \in isClosed'
      BY <1>0, <2>1, <2>2, <2>4 DEF TypeOK
    <3>2. sub[h] = 0 => <<sub[h], h>> \notin subs
      BY <1>0 DEF TypeOK, IDs
    <3>. QED  BY <2>1, <3>1, <3>2 DEF Leaves, Deregistering
  <2>. QED  BY <2>3, <2>4
<1>6. ASSUME \/ \E g \in Handlers : Disconnect(g) \/ QueueFull(g)
             \/ \E t \in Threads, p \in 1..MaxPubsubs : Sweep(p, t)
             \/ \E w \in Waiters : WaitPubsub(w) \/ WaitStep(w)
             \/ ConcurrentMapAccess \/ UNCHANGED vars
      PROVE  Leaves(h)'
  <2>1. UNCHANGED <<streams, told, isClosed, pub, sub, pc, job>> /\ subs' \subseteq subs
    BY <1>6 DEF Disconnect, QueueFull, Sweep, CloseSubs, WaitPubsub, WaitStep, WaitCheck,
       WaitWake, ConcurrentMapAccess, vars, registry, taken, conns, threads
  <2>. QED  BY <1>2, <2>1
<1>. QED  BY <1>1, <1>3, <1>4, <1>5, <1>6 DEF Next, Quiet

\* The message loop of h neither registers a stream nor tells h of one.
LEMMA KnowsKept ==
    ASSUME RelayInv, NEW h \in Handlers, Knows(h),
           pub'[h] = pub[h], isClosed \subseteq isClosed',
           pc[loop(h)] = "panicked" => pc'[loop(h)] = "panicked",
           \A p : InFlight(h, p)' => InFlight(h, p),
           \A p : InFlight(h, p) => InFlight(h, p)' \/ pc'[loop(h)] = "panicked",
           \A p \in IDs' : pubsubs'[p].publisher = h => p \in IDs /\ pubsubs[p].publisher = h
    PROVE  Knows(h)'
<1>1. \A p : InFlight(h, p) => p \in IDs
  BY TheThreads DEF RelayInv, JobOK, InFlight
<1>. QED  BY <1>1 DEF Knows, KnownBy

\* Publishing: the new stream is in the hands of the message loop,
LEMMA RegisterKnows ==
    ASSUME RelayInv, NEW t \in Threads, Register(t), NEW h \in Handlers, Knows(h)
    PROVE  Knows(h)'
<1>. DEFINE e == [name |-> job[t].key, publisher |-> t[1]]
<1>0. PICK n \in Nat : n = Len(pubsubs) + 1
  BY LenProperties DEF RelayInv, TypeOK
<1>1. /\ pc[t] = "register" /\ t[2] = "loop" /\ t[1] \in Handlers /\ t = loop(t[1])
      /\ pubsubs' = Append(pubsubs, e) /\ pubsubs \in Seq(Pubsub) /\ e \in Pubsub
      /\ pc' = [pc EXCEPT ![t] = "publishAnnounce"]
      /\ job' = [job EXCEPT ![t].pubsub = n, ![t].seen = changed]
      /\ UNCHANGED <<pub, isClosed>>
  <2>1. /\ pc[t] = "register" /\ t[2] = "loop" /\ t[1] \in Handlers /\ t = loop(t[1])
    BY TheirOwner DEF Register, At, RelayInv, RoleOK
  <2>2. pubsubs \in Seq(Pubsub) /\ e \in Pubsub
    BY <2>1 DEF RelayInv, TypeOK, Pubsub
  <2>. QED  BY <1>0, <2>1, <2>2 DEF Register, Goto, conns
<1>2. e.publisher = t[1]
  OBVIOUS
<1>. HIDE DEF e
<1>3. /\ IDs' = IDs \cup {n} /\ n \notin IDs /\ n \in Nat
      /\ \A p \in IDs : pubsubs'[p] = pubsubs[p] /\ p \in Nat /\ p < n
      /\ pubsubs'[n].publisher = t[1]
  <2>1. /\ Len(pubsubs') = n /\ Len(pubsubs) \in Nat
        /\ \A i \in 1..Len(pubsubs) : pubsubs'[i] = pubsubs[i]
        /\ pubsubs'[n] = e
    BY <1>0, <1>1, AppendProperties, LenProperties
  <2>. QED  BY <1>0, <1>2, <2>1 DEF IDs
<1>4. TypeOK /\ pub[h] \in {0} \cup IDs
  BY DEF RelayInv, TypeOK
<1>5. CASE t # loop(h)
  <2>1. t[1] # h
    BY <1>1, <1>5
  <2>2. pc'[loop(h)] = pc[loop(h)] /\ job'[loop(h)] = job[loop(h)]
    BY <1>1, <1>4, <1>5, TheThreads DEF TypeOK
  <2>3. \A p \in IDs' : pubsubs'[p].publisher = h => p \in IDs /\ pubsubs[p].publisher = h
    BY <1>3, <2>1
  <2>. QED  BY <1>1, <2>2, <2>3, KnowsKept DEF InFlight
<1>6. CASE t = loop(h)
  <2>1. pc'[loop(h)] = "publishAnnounce" /\ job'[loop(h)].pubsub = n
    BY <1>1, <1>4, <1>6 DEF TypeOK
  <2>2. InFlight(h, n)' /\ \A p : InFlight(h, p)' => p = n
    BY <2>1 DEF InFlight
  <2>3. n > pub[h]
    <3>1. n > 0 /\ (pub[h] = 0 \/ (pub[h] \in IDs /\ pub[h] < n))
      BY <1>0, <1>3, <1>4, LenProperties DEF TypeOK
    <3>. QED  BY <3>1, <1>3
  <2>4. ASSUME NEW p \in IDs, pubsubs'[p].publisher = h PROVE KnownBy(h, p)'
    <3>1. KnownBy(h, p) /\ ~InFlight(h, p) /\ pc[loop(h)] # "panicked"
      BY <1>1, <1>3, <1>6, <2>4 DEF Knows, InFlight
    <3>. QED  BY <1>1, <3>1 DEF KnownBy
  <2>. QED  BY <1>1, <1>3, <2>2, <2>3, <2>4 DEF Knows, KnownBy
<1>. QED  BY <1>5, <1>6

\* ... which tells the handler of it, unless that is closed.
LEMMA SetPubKnows ==
    ASSUME RelayInv, NEW t \in Threads, SetPub(t), NEW h \in Handlers, Knows(h)
    PROVE  Knows(h)'
<1>1. /\ pc[t] = "setPub" /\ t[2] = "loop" /\ t[1] \in Handlers /\ t = loop(t[1])
      /\ pub' = IF t[1] \in isClosed THEN pub ELSE [pub EXCEPT ![t[1]] = job[t].pubsub]
      /\ pc' = [pc EXCEPT ![t] = "ready"] /\ job' = [job EXCEPT ![t] = NoJob]
      /\ UNCHANGED <<pubsubs, isClosed>> /\ IDs' = IDs
  BY TheirOwner DEF SetPub, At, Goto, Forget, RelayInv, RoleOK, taken, IDs
<1>2. TypeOK /\ pub[h] \in Nat /\ \A p \in IDs : p \in Nat
  <2>1. TypeOK
    BY DEF RelayInv
  <2>2. \A p \in IDs : p \in Nat
    BY DEF IDs
  <2>. QED  BY <2>1, <2>2 DEF TypeOK
<1>3. CASE t # loop(h)
  <2>1. t[1] # h /\ pub'[h] = pub[h]
    BY <1>1, <1>2, <1>3 DEF TypeOK
  <2>2. pc'[loop(h)] = pc[loop(h)] /\ job'[loop(h)] = job[loop(h)]
    BY <1>1, <1>2, <1>3, TheThreads DEF TypeOK
  <2>. QED  BY <1>1, <2>1, <2>2, KnowsKept DEF InFlight
<1>4. CASE t = loop(h)
  <2>1. t[1] = h /\ pc[loop(h)] = "setPub" /\ pc'[loop(h)] = "ready"
    BY <1>1, <1>2, <1>4, TheThreads DEF TypeOK
  <2>2. \A p : ~InFlight(h, p)'
    BY <2>1 DEF InFlight
  <2>3. CASE h \in isClosed
    BY <1>1, <2>2, <2>3 DEF Knows, KnownBy
  <2>4. CASE h \notin isClosed
    <3>. DEFINE n == job[t].pubsub
    <3>1. pub'[h] = n
      BY <1>1, <1>2, <2>1, <2>4 DEF TypeOK
    <3>2. n \in IDs /\ InFlight(h, n) /\ n > pub[h]
      <4>1. n \in IDs
        BY <1>1 DEF RelayInv, JobOK
      <4>2. InFlight(h, n)
        BY <1>4, <2>1 DEF InFlight
      <4>. QED  BY <4>1, <4>2 DEF Knows
    <3>3. \A p : InFlight(h, p) => p = n
      BY <1>4 DEF InFlight
    <3>. HIDE DEF n
    <3>4. ASSUME NEW p \in IDs, pubsubs[p].publisher = h PROVE pub'[h] = p \/ pub'[h] > p
      <4>1. pub[h] = p \/ pub[h] > p \/ InFlight(h, p)
        BY <2>1, <2>4, <3>4 DEF Knows, KnownBy
      <4>. QED  BY <1>2, <3>1, <3>2, <3>3, <4>1
    <3>. QED  BY <1>1, <2>2, <3>4 DEF Knows, KnownBy
  <2>. QED  BY <2>3, <2>4
<1>. QED  BY <1>3, <1>4

LEMMA KnowsStep ==
    ASSUME RelayInv, NEW h \in Handlers, Knows(h), [Next]_vars
    PROVE  Knows(h)'
<1>0. TypeOK /\ loop(h) \in Threads
  BY TheThreads DEF RelayInv
<1>1. ASSUME UNCHANGED <<pubsubs, pub>>, isClosed \subseteq isClosed',
             pc'[loop(h)] = pc[loop(h)], job'[loop(h)] = job[loop(h)]
      PROVE  Knows(h)'
  <2>1. \A p : InFlight(h, p)' <=> InFlight(h, p)
    BY <1>1 DEF InFlight
  <2>. QED  BY <1>1, <2>1, KnowsKept DEF IDs
\* The loop's own steps that have nothing to do with a stream on its way,
<1>2. ASSUME UNCHANGED <<pubsubs, pub, isClosed>>,
             pc[loop(h)] \notin {"publishAnnounce", "setPub", "panicked"},
             pc'[loop(h)] \notin {"publishAnnounce", "setPub"}
      PROVE  Knows(h)'
  <2>1. \A p : ~InFlight(h, p)' /\ ~InFlight(h, p)
    BY <1>2 DEF InFlight
  <2>. QED  BY <1>2, <2>1, KnowsKept DEF IDs
<1>3. ASSUME NEW t \in Threads,
             \/ Drain(t) \/ Check(t) \/ Delete(t) \/ NewPubsub(t) \/ GetPubsub(t)
             \/ Subscribe(t) \/ CloseSub(t) \/ RemovePubsub(t)
      PROVE  Knows(h)'
  <2>1. UNCHANGED <<pubsubs, pub, isClosed>>
    BY <1>3 DEF Drain, Check, Delete, NewPubsub, GetPubsub, Subscribe, CloseSub, CloseSubs,
       RemovePubsub, Quietly, taken, conns
  <2>2. OnlyMoves(t)
    BY <1>0, <1>3, OneThread DEF ThreadStep
  <2>3. CASE t # loop(h)
    BY <1>0, <1>1, <2>1, <2>2, <2>3 DEF OnlyMoves
  <2>4. CASE t = loop(h)
    <3>1. /\ pc[t] \notin {"publishAnnounce", "setPub", "panicked"}
          /\ pc'[t] \notin {"publishAnnounce", "setPub"}
      BY <1>0, <1>3 DEF Drain, Check, Delete, NewPubsub, GetPubsub, Subscribe, CloseSub,
         RemovePubsub, At, Goto, AfterRemoval, TypeOK
    <3>. QED  BY <1>2, <2>1, <2>4, <3>1
  <2>. QED  BY <2>3, <2>4
\* ... and those that have.
<1>4. ASSUME NEW t \in Threads, Announce(t) PROVE Knows(h)'
  <2>1. /\ UNCHANGED <<pubsubs, pub, isClosed>> /\ Announcing(t)
        /\ job' = [job EXCEPT ![t].seen = 0]
        /\ pc' = [pc EXCEPT ![t] = IF pc[t] = "announce" THEN AfterRemoval(t) ELSE "setPub"]
    BY <1>4 DEF Announce, Goto, taken, conns
  <2>2. OnlyMoves(t)
    BY <1>0, <1>4, OneThread DEF ThreadStep
  <2>3. CASE t # loop(h)
    BY <1>0, <1>1, <2>1, <2>2, <2>3 DEF OnlyMoves
  <2>4. CASE t = loop(h)
    <3>1. CASE pc[t] = "announce"
      BY <1>0, <1>2, <2>1, <2>4, <3>1 DEF AfterRemoval, TypeOK
    <3>2. CASE pc[t] = "publishAnnounce"
      <4>1. /\ pc'[t] = "setPub" /\ job'[t].pubsub = job[t].pubsub
        BY <1>0, <2>1, <2>4, <3>2 DEF TypeOK
      <4>2. \A p : InFlight(h, p)' <=> InFlight(h, p)
        BY <2>4, <3>2, <4>1 DEF InFlight
      <4>. QED  BY <2>1, <2>4, <3>2, <4>1, <4>2, KnowsKept DEF IDs
    <3>. QED  BY <2>1, <3>1, <3>2 DEF Announcing
  <2>. QED  BY <2>3, <2>4
<1>5. ASSUME NEW t \in Threads, DoubleClose(t) PROVE Knows(h)'
  <2>1. /\ UNCHANGED <<pubsubs, pub, isClosed, job>> /\ Announcing(t)
        /\ \/ pc' = pc
           \/ t[2] = "loop" /\ pc' = [pc EXCEPT ![t] = "panicked"]
    BY <1>5 DEF DoubleClose, ClosesTwice, Goto, taken
  <2>2. CASE pc' = pc
    BY <1>1, <2>1, <2>2
  <2>3. CASE pc' = [pc EXCEPT ![t] = "panicked"]
    <3>1. CASE t # loop(h)
      BY <1>0, <1>1, <2>1, <2>3, <3>1 DEF TypeOK
    <3>2. CASE t = loop(h)
      <4>1. pc'[loop(h)] = "panicked" /\ \A p : ~InFlight(h, p)'
        BY <1>0, <2>3, <3>2 DEF TypeOK, InFlight
      <4>. QED  BY <2>1, <4>1, KnowsKept DEF IDs
    <3>. QED  BY <3>1, <3>2
  <2>. QED  BY <2>1, <2>2, <2>3
<1>6. ASSUME NEW t \in Threads, Cut(t) PROVE Knows(h)'
  <2>1. /\ UNCHANGED <<pub, isClosed>> /\ pc[t] = "cut"
        /\ pc'[t] \in {"register", "closeSub", "done"}
        /\ pubsubs' = [pubsubs EXCEPT ![job[t].pubsub].publisher = NoHandler]
    BY <1>0, <1>6 DEF Cut, At, Goto, TypeOK
  <2>2. job[t].pubsub \in IDs
    BY <2>1 DEF RelayInv, RoleOK, JobOK, Deregistering
  <2>3. PICK q \in IDs : q = job[t].pubsub
    BY <2>2
  <2>4. \A p \in IDs' : pubsubs'[p].publisher = h => p \in IDs /\ pubsubs[p].publisher = h
    <3>1. IDs' = IDs /\ \A p \in IDs : p # q => pubsubs'[p] = pubsubs[p]
      BY <1>0, <2>1, <2>3, ClearPublisher
    <3>2. pubsubs'[q].publisher # h
      <4>1. q \in DOMAIN pubsubs /\ pubsubs[q] \in Pubsub
        BY <1>0, LenProperties DEF IDs, TypeOK
      <4>. QED  BY <2>1, <2>3, <4>1, NoHandlerAssumption DEF Pubsub
    <3>. QED  BY <3>1, <3>2
  <2>5. OnlyMoves(t)
    BY <1>0, <1>6, OneThread DEF ThreadStep
  <2>6. \A p : InFlight(h, p)' <=> InFlight(h, p)
    BY <1>0, <2>1, <2>5 DEF OnlyMoves, InFlight
  <2>7. pc[loop(h)] = "panicked" => pc'[loop(h)] = "panicked"
    BY <1>0, <2>1, <2>5 DEF OnlyMoves
  <2>. QED  BY <2>1, <2>4, <2>6, <2>7, KnowsKept
<1>7. ASSUME NEW g \in Handlers, OnPublish(g) \/ OnPlay(g) PROVE Knows(h)'
  <2>1. /\ UNCHANGED <<pubsubs, pub, isClosed>> /\ pc[loop(g)] = "ready"
        /\ \E l \in {"newPubsub", "lookup"} : pc' = [pc EXCEPT ![loop(g)] = l]
        /\ \E x : job' = [job EXCEPT ![loop(g)] = x]
    BY <1>7 DEF OnPublish, OnPlay, Receives, At, Goto, Quietly, taken, conns
  <2>2. CASE loop(g) = loop(h)
    BY <1>0, <1>2, <2>1, <2>2 DEF TypeOK
  <2>3. CASE loop(g) # loop(h)
    BY <1>0, <1>1, <2>1, <2>3 DEF TypeOK
  <2>. QED  BY <2>2, <2>3
<1>8. ASSUME NEW g \in Handlers, OnClose(g) PROVE Knows(h)'
  <2>1. /\ UNCHANGED <<pubsubs, pub>> /\ isClosed \subseteq isClosed'
        /\ \E l : pc' = [pc EXCEPT ![closer(g)] = l]
        /\ job' = job \/ \E x : job' = [job EXCEPT ![closer(g)] = x]
    BY <1>8 DEF OnClose, Goto, taken
  <2>2. closer(g) # loop(h)
    BY DEF closer, loop
  <2>. QED  BY <1>0, <1>1, <2>1, <2>2 DEF TypeOK
<1>9. ASSUME \/ \E g \in Handlers : Disconnect(g) \/ QueueFull(g)
             \/ \E t \in Threads, p \in 1..MaxPubsubs : Sweep(p, t)
             \/ \E w \in Waiters : WaitPubsub(w) \/ WaitStep(w)
             \/ ConcurrentMapAccess \/ UNCHANGED vars
      PROVE  Knows(h)'
  <2>1. UNCHANGED <<pubsubs, pub, isClosed, pc, job>>
    BY <1>9 DEF Disconnect, QueueFull, Sweep, CloseSubs, WaitPubsub, WaitStep, WaitCheck,
       WaitWake, ConcurrentMapAccess, vars, registry, taken, conns, threads
  <2>. QED  BY <1>1, <2>1
<1>. QED
  BY <1>3, <1>4, <1>5, <1>6, <1>7, <1>8, <1>9, RegisterKnows, SetPubKnows
     DEF Next, ThreadStep, Quiet

LEMMA HandlerInvariant == Spec => [](RelayInv /\ HandlerInv)
<1>1. Init => RelayInv /\ HandlerInv
  <2>. SUFFICES ASSUME Init, NEW h \in Handlers PROVE Leaves(h) /\ Knows(h)
    BY InitRelayInv DEF HandlerInv
  <2>1. pc[closer(h)] = "none" /\ isClosed = {}
    BY TheThreads DEF Init
  <2>2. IDs = {}
    BY DEF Init, IDs
  <2>. QED  BY <2>1, <2>2 DEF Leaves, Knows, Deregistering
<1>2. (RelayInv /\ HandlerInv) /\ [Next]_vars => (RelayInv /\ HandlerInv)'
  <2>. SUFFICES ASSUME RelayInv, HandlerInv, [Next]_vars, NEW h \in Handlers
                PROVE  RelayInv' /\ Leaves(h)' /\ Knows(h)'
    BY NextRelayInv DEF HandlerInv
  <2>1. RelayInv'
    BY NextRelayInv
  <2>. QED  BY <2>1, LeavesStep, KnowsStep DEF HandlerInv
<1>. QED  BY <1>1, <1>2, PTL DEF Spec

\* When the goroutine of OnClose is done, the stream its handler published is
\* off the list and its end was told, the Sub is in no map, and it stays so:
\* nobody lists it again, although it took no part in RelayService.m.
THEOREM ClosedLeavesNothing == Spec => []LeavesNothing
<1>1. RelayInv /\ HandlerInv => LeavesNothing
  BY DEF HandlerInv, Leaves, LeavesNothing, Unlisted
<1>. QED  BY <1>1, HandlerInvariant, PTL

\* A stream that is listed is known to the handler of its publisher, or is one
\* of the three kinds that the code leaves without one; and a handler that is
\* closed is about to remove what it knows.
THEOREM ListedAnsweredFor == Spec => []ListedIsKnown
<1>1. RelayInv /\ HandlerInv => ListedIsKnown
  <2>. SUFFICES ASSUME RelayInv, HandlerInv, NEW k \in Keys, streams[k] # 0
                PROVE  LET p == streams[k]
                           h == pubsubs[p].publisher
                       IN  IF pub[h] = p
                           THEN h \in isClosed => pc[closer(h)] \in {"drain", "check", "delete"}
                           ELSE \/ InFlight(h, p) \/ pc[loop(h)] = "panicked"
                                \/ h \in isClosed \/ pub[h] > p
    BY DEF ListedIsKnown, InFlight, RelayInv
  <2>. DEFINE p == streams[k]
              h == pubsubs[p].publisher
  <2>1. p \in IDs /\ h \in Handlers
    <3>1. p \in IDs /\ pubsubs \in Seq(Pubsub) /\ h # NoHandler
      BY DEF RelayInv, TypeOK, ListedHasPublisher
    <3>2. pubsubs[p] \in Pubsub
      BY <3>1, LenProperties DEF IDs
    <3>. QED  BY <3>1, <3>2 DEF Pubsub
  <2>2. KnownBy(h, p) /\ Leaves(h)
    BY <2>1 DEF HandlerInv, Knows
  <2>3. CASE pub[h] = p /\ h \in isClosed
    <3>1. closer(h) \in Threads /\ JobOK(closer(h)) /\ closer(h)[2] = "closer"
      BY <2>1, TheThreads DEF RelayInv
    <3>2. pc[closer(h)] \notin {"none", "announce", "cut", "closeSub", "done"}
      BY <2>2, <2>3, <3>1 DEF Leaves, Unlisted, JobOK, Deregistering
    <3>. QED  BY <2>2, <2>3, <3>2 DEF Leaves, Deregistering
  <2>. QED  BY <2>2, <2>3 DEF KnownBy
<1>. QED  BY <1>1, HandlerInvariant, PTL
=============================================================================
