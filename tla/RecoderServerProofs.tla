------------------------- MODULE RecoderServerProofs -------------------------
(***************************************************************************)
(* Types and locking of RecoderServer, proved for any set of handlers.     *)
(*                                                                         *)
(* The argument: a handler owns exactly the mutexes its control point says *)
(* (LockInv).  Two handlers in the same registry would then own the same   *)
(* mutex, and a handler that waits for another waits for a mutex of lower  *)
(* rank than the one the other waits for, so such waits end after three.   *)
(***************************************************************************)
EXTENDS RecoderServer, TLAPS

\* The order in which every RPC takes its mutexes.

Rank(l) == CASE l = "ContextLocker" -> 1
             [] l = "InputLocker" -> 2
             [] OTHER -> 3

\* The mutexes an RPC takes.
Needed(o) ==
    CASE o \in ContextOps -> {"ContextLocker"}
      [] o \in AllLockOps -> Lockers
      [] o = "NewOutput"  -> {"OutputLocker"}
      [] OTHER            -> {"InputLocker"}

\* Those it holds at a control point.
HeldAt(o, p) ==
    CASE p \in Lockers -> {l \in Needed(o) : Rank(l) < Rank(p)}
      [] p \in {"body", "stopping"} -> Needed(o)
      [] OTHER -> {}

LEMMA NeededLockers == \A o : Needed(o) \subseteq Lockers
  BY DEF Needed, Lockers

LEMMA PathNext ==
    ASSUME NEW o \in Ops, NEW p \in Needed(o)
    PROVE  /\ LockPath(o)[p] \in Needed(o) \cup {"body"}
           /\ HeldAt(o, LockPath(o)[p]) = HeldAt(o, p) \cup {p}
<1>1. CASE o \in ContextOps
  BY <1>1 DEF LockPath, Needed, HeldAt, Lockers, Rank, ContextOps
<1>2. CASE o \in AllLockOps
  <2>1. /\ Needed(o) = Lockers
        /\ LockPath(o) = [entry |-> "ContextLocker", ContextLocker |-> "InputLocker",
                          InputLocker |-> "OutputLocker", OutputLocker |-> "body"]
    BY <1>2 DEF ContextOps, AllLockOps, Needed, LockPath
  <2>2. /\ HeldAt(o, "ContextLocker") = {}
        /\ HeldAt(o, "InputLocker") = {"ContextLocker"}
        /\ HeldAt(o, "OutputLocker") = {"ContextLocker", "InputLocker"}
        /\ HeldAt(o, "body") = Lockers
    BY <2>1 DEF HeldAt, Lockers, Rank
  <2>3. CASE p = "ContextLocker"
    BY <2>1, <2>2, <2>3 DEF Lockers
  <2>4. CASE p = "InputLocker"
    BY <2>1, <2>2, <2>4 DEF Lockers
  <2>5. CASE p = "OutputLocker"
    BY <2>1, <2>2, <2>5 DEF Lockers
  <2>. QED
    BY <2>1, <2>3, <2>4, <2>5 DEF Lockers
<1>3. CASE o \notin ContextOps \cup AllLockOps
  BY <1>3 DEF LockPath, Needed, HeldAt, Lockers, Rank, Ops
<1>. QED
  BY <1>1, <1>2, <1>3

LEMMA PathEntry ==
    ASSUME NEW o \in Ops
    PROVE  \/ LockPath(o).entry \in Needed(o) /\ HeldAt(o, LockPath(o).entry) = {}
           \/ LockPath(o).entry = "opening" /\ o \in {"NewInput", "NewOutput"}
  BY DEF LockPath, Needed, HeldAt, Lockers, Rank, ContextOps, AllLockOps, Ops

LEMMA PathOpening ==
    ASSUME NEW o \in {"NewInput", "NewOutput"}
    PROVE  LockPath(o).opening \in Needed(o) /\ HeldAt(o, LockPath(o).opening) = {}
  BY DEF LockPath, Needed, HeldAt, Lockers, Rank, ContextOps, AllLockOps, Ops

-----------------------------------------------------------------------------
\* The inductive invariant of the locking: a handler stands where its RPC can
\* be, and it owns exactly the mutexes that its control point says.
HandlerInv(h) ==
    /\ pc[h] \in Lockers => pc[h] \in Needed(req[h].op)
    /\ pc[h] = "opening" => req[h].op \in {"NewInput", "NewOutput"}
    /\ pc[h] = "stopping" => req[h].op = "Die"
    /\ \A l \in Lockers : owner[l] = h <=> l \in HeldAt(req[h].op, pc[h])

LockInv == \A h \in Calls : HandlerInv(h)

HandlersOK == /\ owner \in [Lockers -> Calls \cup {NoCall}]
              /\ pc \in [Calls -> PCs]
              /\ req \in [Calls -> Request]

LEMMA ReturnHandlers ==
    ASSUME HandlersOK, LockInv, NEW h \in Calls, Return(h)
    PROVE  HandlersOK' /\ LockInv'
<1>1. HandlersOK'
  BY DEF HandlersOK, Return, PCs, Request, NoRequest, Ops, ContextOps, AllLockOps, Configs
<1>2. ASSUME NEW g \in Calls PROVE HandlerInv(g)'
  <2>1. CASE g = h
    <3>1. pc'[g] = "idle" /\ \A l \in Lockers : owner'[l] # g
      BY <2>1, NoCallAssumption DEF HandlersOK, Return
    <3>. QED
      BY <3>1 DEF HandlerInv, HeldAt, Lockers
  <2>2. CASE g # h
    <3>1. pc'[g] = pc[g] /\ req'[g] = req[g] /\ \A l \in Lockers : owner'[l] = g <=> owner[l] = g
      BY <2>2, NoCallAssumption DEF HandlersOK, Return
    <3>. QED
      BY <3>1 DEF HandlerInv, LockInv
  <2>. QED
    BY <2>1, <2>2
<1>. QED
  BY <1>1, <1>2 DEF LockInv

LEMMA SameHandlers ==
    ASSUME HandlersOK, LockInv, UNCHANGED handlers
    PROVE  HandlersOK' /\ LockInv'
  BY DEF HandlersOK, LockInv, HandlerInv, handlers

\* The requests clients can make name IDs that were assigned.
LEMMA RequestBounds ==
    ASSUME contextNextID \in Nat, inputNextID \in Nat, outputNextID \in Nat,
           NEW o \in Ops, NEW r \in RequestsOf(o)
    PROVE  r \in Request /\ r.op = o /\ r.ctx \in 0..contextNextID
<1> DEFINE C == Arg(o \in {"CloseContext", "RecodingEndedChan", "GetStats",
                            "StartRecoding"}, contextNextID)
           I == Arg(o \in {"CloseInput", "StartRecoding"}, inputNextID)
           K == Arg(o \in {"CloseOutput", "StartRecoding"}, outputNextID)
           F == IF o = "StartRecoding" THEN Configs ELSE {"supported"}
<1>1. r \in [op : {o}, ctx : C, in : I, out : K, config : F]
  BY DEF RequestsOf
<1>2. C \subseteq 0..contextNextID
  BY DEF Arg
<1>3. I \subseteq Nat /\ K \subseteq Nat
  BY DEF Arg
<1>4. F \subseteq Configs
  BY DEF Configs
<1> HIDE DEF C, I, K, F
<1>5. /\ r.op = o /\ r.ctx \in C /\ r.in \in I /\ r.out \in K /\ r.config \in F
      /\ r = [op |-> r.op, ctx |-> r.ctx, in |-> r.in, out |-> r.out, config |-> r.config]
  BY <1>1
<1>6. /\ r.op \in Ops /\ r.ctx \in Nat /\ r.in \in Nat /\ r.out \in Nat
      /\ r.config \in Configs /\ r.ctx \in 0..contextNextID
  BY <1>2, <1>3, <1>4, <1>5
<1>7. r \in Request
  BY <1>5, <1>6 DEF Request
<1>. QED
  BY <1>5, <1>6, <1>7

LEMMA ArriveHandlers ==
    ASSUME HandlersOK, LockInv, contextNextID \in Nat, inputNextID \in Nat,
           outputNextID \in Nat, NEW h \in Calls, Arrive(h)
    PROVE  HandlersOK' /\ LockInv'
<1>0. PICK o \in Ops : \E r \in RequestsOf(o) :
         /\ req' = [req EXCEPT ![h] = r]
         /\ pc' = [pc EXCEPT ![h] = LockPath(o).entry]
  BY DEF Arrive
<1>1. PICK r \in RequestsOf(o) :
         /\ req' = [req EXCEPT ![h] = r]
         /\ pc' = [pc EXCEPT ![h] = LockPath(o).entry]
  BY <1>0
<1>2. LockPath(o).entry \in PCs /\ r \in Request /\ r.op = o
  BY PathEntry, NeededLockers, RequestBounds DEF PCs
<1>3. HandlersOK'
  BY <1>1, <1>2 DEF HandlersOK, Arrive
<1>4. ASSUME NEW g \in Calls PROVE HandlerInv(g)'
  <2>1. CASE g = h
    <3>1. \A l \in Lockers : owner'[l] # h
      BY DEF LockInv, HandlerInv, Arrive, HeldAt, Lockers
    <3>2. pc'[h] = LockPath(o).entry /\ req'[h].op = o
      BY <1>1, <1>2 DEF HandlersOK
    <3>. QED
      BY <2>1, <3>1, <3>2, PathEntry DEF HandlerInv, Needed, HeldAt, Lockers
  <2>2. CASE g # h
    BY <2>2, <1>1 DEF HandlersOK, HandlerInv, LockInv, Arrive
  <2>. QED
    BY <2>1, <2>2
<1>. QED
  BY <1>3, <1>4 DEF LockInv

LEMMA AcquireHandlers ==
    ASSUME HandlersOK, LockInv, NEW h \in Calls, Acquire(h)
    PROVE  HandlersOK' /\ LockInv'
<1>1. req[h].op \in Ops /\ pc[h] \in Needed(req[h].op)
  BY DEF HandlersOK, Request, Acquire, LockInv, HandlerInv
<1> DEFINE q == LockPath(req[h].op)[pc[h]]
<1>2. /\ q \in Needed(req[h].op) \cup {"body"}
      /\ HeldAt(req[h].op, q) = HeldAt(req[h].op, pc[h]) \cup {pc[h]}
  BY <1>1, PathNext
<1>3. q \in PCs
  BY <1>2 DEF PCs, Needed, Lockers
<1> HIDE DEF q
<1>4. pc' = [pc EXCEPT ![h] = q] /\ owner' = [owner EXCEPT ![pc[h]] = h] /\ req' = req
  BY DEF Acquire, q
<1>5. HandlersOK'
  BY <1>3, <1>4 DEF HandlersOK, Acquire
<1>6. ASSUME NEW g \in Calls PROVE HandlerInv(g)'
  <2>1. CASE g = h
    <3>1. \A l \in Lockers : owner'[l] = h <=> l \in HeldAt(req[h].op, q)
      BY <1>2, <1>4 DEF HandlersOK, LockInv, HandlerInv, Acquire
    <3>2. pc'[h] = q /\ q # "opening" /\ q # "stopping" /\ (q \in Lockers => q \in Needed(req[h].op))
      BY <1>2, <1>4 DEF HandlersOK, Needed, Lockers
    <3>. QED
      BY <2>1, <1>4, <3>1, <3>2 DEF HandlerInv
  <2>2. CASE g # h
    <3>1. \A l \in Lockers : owner'[l] = g <=> owner[l] = g
      BY <2>2, <1>4, NoCallAssumption DEF HandlersOK, Acquire
    <3>. QED
      BY <2>2, <1>4, <3>1 DEF HandlersOK, HandlerInv, LockInv
  <2>. QED
    BY <2>1, <2>2
<1>. QED
  BY <1>5, <1>6 DEF LockInv

LEMMA OpenKernelHandlers ==
    ASSUME HandlersOK, LockInv, NEW h \in Calls, OpenKernel(h)
    PROVE  HandlersOK' /\ LockInv'
<1>1. CASE Return(h)
  BY <1>1, ReturnHandlers
<1>2. CASE /\ pc' = [pc EXCEPT ![h] = LockPath(req[h].op).opening]
           /\ UNCHANGED <<owner, req>>
  <2> DEFINE q == LockPath(req[h].op).opening
  <2>1. req[h].op \in {"NewInput", "NewOutput"} /\ pc[h] = "opening"
    BY DEF OpenKernel, LockInv, HandlerInv
  <2>2. q \in Needed(req[h].op) /\ HeldAt(req[h].op, q) = {} /\ q \in Lockers
    BY <2>1, PathOpening, NeededLockers
  <2> HIDE DEF q
  <2>3. pc' = [pc EXCEPT ![h] = q]
    BY <1>2 DEF q
  <2>4. HandlersOK'
    BY <1>2, <2>2, <2>3 DEF HandlersOK, PCs
  <2>5. ASSUME NEW g \in Calls PROVE HandlerInv(g)'
    <3>1. CASE g = h
      <4>1. \A l \in Lockers : owner[l] # h
        BY <2>1 DEF LockInv, HandlerInv, HeldAt, Lockers
      <4>2. pc'[h] = q
        BY <2>3 DEF HandlersOK
      <4>. QED
        BY <1>2, <2>2, <3>1, <4>1, <4>2 DEF HandlerInv, Lockers
    <3>2. CASE g # h
      BY <1>2, <2>3, <3>2 DEF HandlersOK, HandlerInv, LockInv
    <3>. QED
      BY <3>1, <3>2
  <2>. QED
    BY <2>4, <2>5 DEF LockInv
<1>. QED
  BY <1>1, <1>2 DEF OpenKernel

LEMMA ContextOpHolds ==
    ASSUME NEW o \in ContextOps
    PROVE  HeldAt(o, "body") = {"ContextLocker"}
<1>1. Needed(o) = {"ContextLocker"}
  BY DEF Needed, ContextOps, AllLockOps
<1>2. HeldAt(o, "body") = Needed(o)
  BY DEF HeldAt, Lockers
<1>. QED
  BY <1>1, <1>2

LEMMA WatchHandlers ==
    ASSUME HandlersOK, LockInv, NEW h \in Calls, RecodingEndedChan(h)
    PROVE  HandlersOK' /\ LockInv'
<1>1. CASE Panic
  BY <1>1, SameHandlers DEF Panic
<1>2. CASE /\ pc' = [pc EXCEPT ![h] = "waiting"]
           /\ owner' = [owner EXCEPT !["ContextLocker"] = NoCall]
           /\ UNCHANGED req
  <2>1. pc[h] = "body" /\ req[h].op = "RecodingEndedChan"
    BY DEF RecodingEndedChan, InBody
  <2>2. \A l \in Lockers : owner[l] = h <=> l = "ContextLocker"
    <3>1. req[h].op \in ContextOps
      BY <2>1 DEF ContextOps
    <3>2. HeldAt(req[h].op, "body") = {"ContextLocker"}
      BY <3>1, ContextOpHolds
    <3>. QED
      BY <2>1, <3>2 DEF LockInv, HandlerInv
  <2>3. HandlersOK'
    BY <1>2 DEF HandlersOK, PCs, Lockers
  <2>4. ASSUME NEW g \in Calls PROVE HandlerInv(g)'
    <3>1. CASE g = h
      <4>1. \A l \in Lockers : owner'[l] # h
        BY <1>2, <2>2, NoCallAssumption DEF HandlersOK
      <4>2. pc'[h] = "waiting"
        BY <1>2 DEF HandlersOK
      <4>. QED
        BY <1>2, <3>1, <4>1, <4>2 DEF HandlerInv, HeldAt, Lockers
    <3>2. CASE g # h
      <4>1. \A l \in Lockers : owner'[l] = g <=> owner[l] = g
        BY <1>2, <2>2, <3>2, NoCallAssumption DEF HandlersOK, Lockers
      <4>. QED
        BY <1>2, <3>2, <4>1 DEF HandlersOK, HandlerInv, LockInv
    <3>. QED
      BY <3>1, <3>2
  <2>. QED
    BY <2>3, <2>4 DEF LockInv
<1>. QED
  BY <1>1, <1>2 DEF RecodingEndedChan

LEMMA DieHandlers ==
    ASSUME HandlersOK, LockInv, NEW h \in Calls, Die(h)
    PROVE  HandlersOK' /\ LockInv'
<1>1. CASE Panic
  BY <1>1, SameHandlers DEF Panic
<1>2. CASE pc' = [pc EXCEPT ![h] = "stopping"] /\ UNCHANGED <<owner, req>>
  <2>1. pc[h] = "body" /\ req[h].op = "Die"
    BY DEF Die, InBody
  <2>2. HandlersOK'
    BY <1>2 DEF HandlersOK, PCs
  <2>3. ASSUME NEW g \in Calls PROVE HandlerInv(g)'
    <3>1. CASE g = h
      <4>1. pc'[h] = "stopping"
        BY <1>2 DEF HandlersOK
      <4>2. HeldAt("Die", "stopping") = HeldAt("Die", "body")
        BY DEF HeldAt, Lockers
      <4>. QED
        BY <1>2, <2>1, <3>1, <4>1, <4>2 DEF LockInv, HandlerInv, Lockers
    <3>2. CASE g # h
      BY <1>2, <3>2 DEF HandlersOK, HandlerInv, LockInv
    <3>. QED
      BY <3>1, <3>2
  <2>. QED
    BY <2>2, <2>3 DEF LockInv
<1>. QED
  BY <1>1, <1>2 DEF Die

LEMMA HandlersInductive ==
    ASSUME HandlersOK, LockInv, contextNextID \in Nat, inputNextID \in Nat,
           outputNextID \in Nat, [Next]_vars
    PROVE  HandlersOK' /\ LockInv'
<1>1. ASSUME NEW h \in Calls, Arrive(h) PROVE HandlersOK' /\ LockInv'
  BY <1>1, ArriveHandlers
<1>2. ASSUME NEW h \in Calls, OpenKernel(h) PROVE HandlersOK' /\ LockInv'
  BY <1>2, OpenKernelHandlers
<1>3. ASSUME NEW h \in Calls, Acquire(h) PROVE HandlersOK' /\ LockInv'
  BY <1>3, AcquireHandlers
<1>4. ASSUME NEW h \in Calls,
             \/ NewContext(h) \/ CloseContext(h) \/ NewInput(h) \/ CloseInput(h)
             \/ NewOutput(h) \/ CloseOutput(h) \/ StartRecoding(h)
             \/ WaitReleased(h) \/ WaitCancelled(h) \/ Stop(h)
      PROVE  HandlersOK' /\ LockInv'
  <2>1. Return(h)
    BY <1>4 DEF NewContext, CloseContext, NewInput, CloseInput, NewOutput, CloseOutput,
                StartRecoding, WaitReleased, WaitCancelled, Stop
  <2>. QED
    BY <2>1, ReturnHandlers
<1>5. ASSUME NEW h \in Calls, GetStats(h) PROVE HandlersOK' /\ LockInv'
  BY <1>5, ReturnHandlers, SameHandlers DEF GetStats, Panic
<1>6. ASSUME NEW h \in Calls, RecodingEndedChan(h) PROVE HandlersOK' /\ LockInv'
  BY <1>6, WatchHandlers
<1>7. ASSUME NEW h \in Calls, Die(h) PROVE HandlersOK' /\ LockInv'
  BY <1>7, DieHandlers
<1>8. CASE UNCHANGED handlers
  BY <1>8, SameHandlers
<1>9. ASSUME NEW c \in launched, PipelineStep(c) PROVE UNCHANGED handlers
  BY <1>9 DEF PipelineStep, PipelineError, ServeReturns, DeferredCancel, DeferredClose
<1>10. ASSUME ConcurrentMapAccess \/ Exit \/ Terminated \/ UNCHANGED vars
       PROVE  UNCHANGED handlers
  BY <1>10 DEF ConcurrentMapAccess, Panic, Exit, Terminated, vars
<1>. QED
  BY <1>1, <1>2, <1>3, <1>4, <1>5, <1>6, <1>7, <1>8, <1>9, <1>10 DEF Next, HandlerStep

-----------------------------------------------------------------------------
\* Type correctness of everything but the handlers.
RegistriesOK ==
    /\ up \in Alive \cup Down
    /\ contextNextID \in Nat /\ context \in SUBSET (1..contextNextID)
    /\ inputNextID \in Nat   /\ input \in SUBSET (1..inputNextID)
    /\ outputNextID \in Nat  /\ output \in SUBSET (1..outputNextID)
    /\ openInputs \in SUBSET (1..inputNextID)
    /\ openOutputs \in SUBSET (1..outputNextID)

RecodingsOK ==
    /\ started \in SUBSET (1..contextNextID)
    /\ wiring \in SUBSET ((1..contextNextID) \X (1..inputNextID) \X (1..outputNextID))
    /\ ended \in SUBSET (1..contextNextID)
    /\ cancelled \in SUBSET (1..contextNextID)
    /\ launched \in SUBSET (1..contextNextID)
    /\ serving \in SUBSET launched
    /\ unwinding \in SUBSET launched
    /\ closing \in SUBSET launched

LEMMA TypeSplit == TypeOK <=> RegistriesOK /\ RecodingsOK /\ HandlersOK
  BY DEF TypeOK, RegistriesOK, RecodingsOK, HandlersOK

LEMMA TypeInductive ==
    ASSUME RegistriesOK, RecodingsOK, HandlersOK, [Next]_vars
    PROVE  RegistriesOK' /\ RecodingsOK'
<1> USE DEF RegistriesOK, RecodingsOK
<1>1. ASSUME NEW h \in Calls, NewContext(h) PROVE RegistriesOK' /\ RecodingsOK'
  BY <1>1 DEF NewContext, kernels, signals, pipelines
<1>2. ASSUME NEW h \in Calls, NewInput(h) PROVE RegistriesOK' /\ RecodingsOK'
  BY <1>2 DEF NewInput, signals, pipelines
<1>3. ASSUME NEW h \in Calls, NewOutput(h) PROVE RegistriesOK' /\ RecodingsOK'
  BY <1>3 DEF NewOutput, signals, pipelines
<1>4. ASSUME NEW h \in Calls, CloseContext(h) PROVE RegistriesOK' /\ RecodingsOK'
  BY <1>4 DEF CloseContext, CloseEndChan, kernels, pipelines
<1>5. ASSUME NEW h \in Calls, CloseInput(h) PROVE RegistriesOK' /\ RecodingsOK'
  BY <1>5 DEF CloseInput, signals, pipelines
<1>6. ASSUME NEW h \in Calls, CloseOutput(h) PROVE RegistriesOK' /\ RecodingsOK'
  BY <1>6 DEF CloseOutput, signals, pipelines
<1>7. ASSUME NEW h \in Calls, StartRecoding(h) PROVE RegistriesOK' /\ RecodingsOK'
  <2>1. UNCHANGED <<up, registries, kernels, ended, unwinding, closing>>
    BY <1>7 DEF StartRecoding
  <2>2. CASE CanStart(req[h])
    <3>1. req[h].ctx \in 1..contextNextID /\ req[h].in \in 1..inputNextID
          /\ req[h].out \in 1..outputNextID
      BY <2>2 DEF CanStart
    <3>2. /\ started' = started \cup {req[h].ctx}
          /\ wiring' = wiring \cup {<<req[h].ctx, req[h].in, req[h].out>>}
          /\ \/ /\ launched' = launched \cup {req[h].ctx}
                /\ serving' = serving \cup {req[h].ctx}
                /\ cancelled' = cancelled
             \/ /\ cancelled' = cancelled \cup {req[h].ctx}
                /\ launched' = launched /\ serving' = serving
      BY <1>7, <2>2 DEF StartRecoding
    <3>3. wiring' \in SUBSET ((1..contextNextID) \X (1..inputNextID) \X (1..outputNextID))
      BY <3>1, <3>2
    <3>. QED
      BY <2>1, <3>1, <3>2, <3>3 DEF registries, kernels
  <2>3. CASE ~CanStart(req[h])
    BY <1>7, <2>1, <2>3 DEF StartRecoding, registries, kernels
  <2>. QED
    BY <2>2, <2>3
<1>8. ASSUME NEW h \in Calls, Die(h) PROVE RegistriesOK' /\ RecodingsOK'
  BY <1>8 DEF Die, Panic, registries, kernels, signals, pipelines, Down
<1>9. ASSUME NEW c \in launched, PipelineStep(c) PROVE RegistriesOK' /\ RecodingsOK'
  BY <1>9 DEF PipelineStep, PipelineError, ServeReturns, DeferredCancel, DeferredClose,
              CloseEndChan, registries, kernels, signals, pipelines
<1>10. ASSUME up' \in Alive \cup Down, UNCHANGED <<registries, kernels, signals, pipelines>>
       PROVE  RegistriesOK' /\ RecodingsOK'
  BY <1>10 DEF registries, kernels, signals, pipelines
<1>11. ASSUME NEW h \in Calls,
              \/ Arrive(h) \/ OpenKernel(h) \/ Acquire(h) \/ WaitReleased(h)
              \/ WaitCancelled(h) \/ GetStats(h) \/ RecodingEndedChan(h) \/ Stop(h)
       PROVE  up' \in Alive \cup Down /\ UNCHANGED <<registries, kernels, signals, pipelines>>
  BY <1>11 DEF Arrive, OpenKernel, Acquire, WaitReleased, WaitCancelled, GetStats,
               RecodingEndedChan, Stop, Panic, Alive, Down
<1>12. ASSUME ConcurrentMapAccess \/ Exit \/ Terminated \/ UNCHANGED vars
       PROVE  up' \in Alive \cup Down /\ UNCHANGED <<registries, kernels, signals, pipelines>>
  BY <1>12 DEF ConcurrentMapAccess, Panic, Exit, Terminated, vars, Down
<1>. QED
  BY <1>1, <1>2, <1>3, <1>4, <1>5, <1>6, <1>7, <1>8, <1>9, <1>10, <1>11, <1>12
     DEF Next, HandlerStep

\* Every reachable state of the server's registries and handlers has the declared
\* types: an ID in use was assigned, a
\* recoding's goroutine belongs to a recoding that was launched.
THEOREM TypeCorrect == Spec => [](TypeOK /\ LockInv)
<1>1. Init => TypeOK /\ LockInv
  <2>. SUFFICES ASSUME Init PROVE TypeOK /\ LockInv
    OBVIOUS
  <2>1. NoRequest \in Request
    BY DEF NoRequest, Request, Ops, AllLockOps, ContextOps, Configs
  <2>2. TypeOK
    BY <2>1 DEF Init, TypeOK, PCs, Alive, Down
  <2>3. LockInv
    BY NoCallAssumption DEF Init, LockInv, HandlerInv, HeldAt, Lockers
  <2>. QED
    BY <2>2, <2>3
<1>2. TypeOK /\ LockInv /\ [Next]_vars => (TypeOK /\ LockInv)'
  <2>. SUFFICES ASSUME TypeOK, LockInv, [Next]_vars PROVE TypeOK' /\ LockInv'
    OBVIOUS
  <2>1. RegistriesOK /\ RecodingsOK /\ HandlersOK
    BY TypeSplit
  <2>2. HandlersOK' /\ LockInv'
    BY <2>1, HandlersInductive DEF RegistriesOK
  <2>3. RegistriesOK' /\ RecodingsOK'
    BY <2>1, TypeInductive
  <2>. QED
    BY <2>2, <2>3 DEF TypeOK, RegistriesOK, RecodingsOK, HandlersOK
<1>. QED
  BY <1>1, <1>2, PTL DEF Spec

-----------------------------------------------------------------------------
(***************************************************************************)
(* The locking.                                                            *)
(***************************************************************************)

LEMMA TouchedNeeded ==
    ASSUME NEW o \in Ops, NEW q \in Ops, Touched(o) \cap Touched(q) # {}
    PROVE  Needed(o) \cap Needed(q) # {} \/ {o, q} = {"NewOutput", "CloseOutput"}
<1> DEFINE InOps == {"NewInput", "CloseInput"}
           OutOps == {"NewOutput", "CloseOutput"}
<1>1. Ops = ContextOps \cup AllLockOps \cup InOps \cup OutOps
  BY DEF Ops
<1>2. \A r \in ContextOps : Touched(r) = {"Context"} /\ Needed(r) = {"ContextLocker"}
  BY DEF Touched, Needed, ContextOps, AllLockOps
<1>3. \A r \in AllLockOps : Needed(r) = Lockers
  BY DEF Needed, ContextOps, AllLockOps
<1>4. \A r \in InOps : Touched(r) = {"Input"} /\ Needed(r) = {"InputLocker"}
  BY DEF Touched, Needed, ContextOps, AllLockOps
<1>5. \A r \in OutOps : Touched(r) = {"Output"} /\ Needed(r) \subseteq Lockers /\ Needed(r) # {}
  BY DEF Touched, Needed, ContextOps, AllLockOps, Lockers
<1>6. \A r \in Ops : Needed(r) \subseteq Lockers /\ Needed(r) # {}
  BY <1>1, <1>2, <1>3, <1>4, <1>5 DEF Lockers
<1>7. CASE o \in AllLockOps \/ q \in AllLockOps
  BY <1>3, <1>6, <1>7
<1>8. CASE o \notin AllLockOps /\ q \notin AllLockOps
  <2>1. CASE o \in OutOps /\ q \in OutOps
    BY <2>1, <1>5
  <2>2. CASE o \notin OutOps \/ q \notin OutOps
    BY <2>2, <1>1, <1>2, <1>4, <1>5, <1>8
  <2>. QED
    BY <2>1, <2>2
<1>. QED
  BY <1>7, <1>8

LEMMA ExclusiveFromLocks ==
    ASSUME HandlersOK, LockInv PROVE RegistryExclusive
<1> SUFFICES ASSUME NEW h \in Calls, NEW g \in Calls, Conflict(h, g)
             PROVE  {req[h].op, req[g].op} = {"NewOutput", "CloseOutput"}
  BY DEF RegistryExclusive
<1>1. req[h].op \in Ops /\ req[g].op \in Ops
  BY DEF HandlersOK, Request
<1>2. ASSUME NEW f \in Calls, InCriticalSection(f)
      PROVE  \A l \in Lockers : owner[l] = f <=> l \in Needed(req[f].op)
  BY <1>2 DEF InCriticalSection, LockInv, HandlerInv, HeldAt, Lockers
<1>3. Needed(req[h].op) \cap Needed(req[g].op) = {}
  BY <1>2, NeededLockers DEF Conflict
<1>. QED
  BY <1>1, <1>3, TouchedNeeded DEF Conflict

\* No two handlers are in the same registry at once, but for the pair that
\* CloseOutput's choice of a mutex lets in: for any number of handlers.
THEOREM MutualExclusion == Spec => []RegistryExclusive
<1>1. TypeOK /\ LockInv => RegistryExclusive
  BY ExclusiveFromLocks, TypeSplit
<1>. QED
  BY <1>1, TypeCorrect, PTL

LEMMA WaitsUpward ==
    ASSUME HandlersOK, LockInv, NEW h \in Calls, NEW g \in Calls,
           pc[h] \in Lockers, pc[g] \in Lockers, owner[pc[h]] = g
    PROVE  Rank(pc[h]) < Rank(pc[g])
<1>1. pc[h] \in HeldAt(req[g].op, pc[g])
  BY DEF LockInv, HandlerInv
<1>2. HeldAt(req[g].op, pc[g]) = {l \in Needed(req[g].op) : Rank(l) < Rank(pc[g])}
  BY DEF HeldAt, Lockers
<1>. QED
  BY <1>1, <1>2

LEMMA AcyclicFromLocks ==
    ASSUME HandlersOK, LockInv PROVE NoLockCycle
<1> SUFFICES ASSUME NEW S \in SUBSET Calls, S # {},
                    \A h \in S : pc[h] \in Lockers /\ owner[pc[h]] \in S
             PROVE  FALSE
  BY DEF NoLockCycle
<1>1. PICK a \in S : TRUE
  OBVIOUS
<1> DEFINE b == owner[pc[a]]
           c == owner[pc[b]]
           d == owner[pc[c]]
<1>2. b \in S /\ c \in S /\ d \in S
  OBVIOUS
<1>3. /\ Rank(pc[a]) < Rank(pc[b])
      /\ Rank(pc[b]) < Rank(pc[c])
      /\ Rank(pc[c]) < Rank(pc[d])
  BY <1>1, <1>2, WaitsUpward
<1>4. \A l \in Lockers : Rank(l) \in 1..3
  BY DEF Rank, Lockers
<1>5. /\ Rank(pc[a]) \in 1..3 /\ Rank(pc[b]) \in 1..3
      /\ Rank(pc[c]) \in 1..3 /\ Rank(pc[d]) \in 1..3
  BY <1>1, <1>2, <1>4
<1> HIDE DEF b, c, d
<1>. QED
  BY <1>3, <1>5

\* However many handlers run, none of them wait for each other's mutexes.
THEOREM DeadlockFree == Spec => []NoLockCycle
<1>1. TypeOK /\ LockInv => NoLockCycle
  BY AcyclicFromLocks, TypeSplit
<1>. QED
  BY <1>1, TypeCorrect, PTL
=============================================================================
