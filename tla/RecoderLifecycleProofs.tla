----------------------- MODULE RecoderLifecycleProofs -----------------------
(***************************************************************************)
(* What happens to a recoding, proved for any number of handlers, contexts *)
(* and kernels: an inductive invariant of the recodings and their signals, *)
(* one of the shutdown, which rests on the locking, and from the two the   *)
(* refinement of RecodingLifecycle.                                        *)
(***************************************************************************)
EXTENDS RecoderServerProofs

\* The stages of a pipeline's goroutine exclude each other; a context that can
\* be found was cancelled or launched only by way of its start; a pipeline's
\* goroutine cancels before it closes, and closes before it ends.
RecodingInv ==
    /\ serving \cap unwinding = {}
    /\ serving \cap closing = {}
    /\ unwinding \cap closing = {}
    /\ (launched \cup cancelled) \cap context \subseteq started
    /\ closing \subseteq cancelled
    /\ launched \subseteq InPipeline \cup ended
    /\ EndSignalTruthful

recodings == <<contextNextID, context, signals, pipelines>>

\* The steps that leave contexts and recodings alone.
Quiet(h) == \/ Arrive(h) \/ OpenKernel(h) \/ Acquire(h)
            \/ NewInput(h) \/ CloseInput(h) \/ NewOutput(h) \/ CloseOutput(h)
            \/ WaitReleased(h) \/ WaitCancelled(h) \/ GetStats(h)
            \/ RecodingEndedChan(h) \/ Stop(h)

LEMMA QuietSteps ==
    ASSUME NEW h \in Calls, Quiet(h) PROVE UNCHANGED recodings
  BY DEF Quiet, recodings, registries, Arrive, OpenKernel, Acquire, NewInput, CloseInput,
         NewOutput, CloseOutput, WaitReleased, WaitCancelled, GetStats,
         RecodingEndedChan, Stop, Panic

LEMMA QuietProcess ==
    ASSUME ConcurrentMapAccess \/ Exit \/ Terminated \/ UNCHANGED vars
    PROVE  UNCHANGED recodings
  BY DEF ConcurrentMapAccess, Panic, Exit, Terminated, vars, recodings, registries

LEMMA RecodingInductive ==
    ASSUME TypeOK, RecodingInv, [Next]_vars
    PROVE  RecodingInv'
<1> USE DEF RecodingInv, EndSignalTruthful, InPipeline
<1>1. CASE UNCHANGED recodings
  BY <1>1 DEF recodings, signals, pipelines
<1>2. ASSUME NEW h \in Calls, NewContext(h) PROVE RecodingInv'
  BY <1>2 DEF NewContext, signals, pipelines, TypeOK
<1>3. ASSUME NEW h \in Calls, CloseContext(h) PROVE RecodingInv'
  BY <1>3 DEF CloseContext, CloseEndChan, pipelines
<1>4. ASSUME NEW h \in Calls, StartRecoding(h) PROVE RecodingInv'
  BY <1>4 DEF StartRecoding, CanStart, registries, TypeOK
<1>5. ASSUME NEW c \in launched, PipelineError(c) PROVE RecodingInv'
  BY <1>5 DEF PipelineError, registries, pipelines
<1>6. ASSUME NEW c \in launched, ServeReturns(c) PROVE RecodingInv'
  BY <1>6 DEF ServeReturns, registries, signals
<1>7. ASSUME NEW c \in launched, DeferredCancel(c) PROVE RecodingInv'
  BY <1>7 DEF DeferredCancel, registries
<1>8. ASSUME NEW c \in launched, DeferredClose(c) PROVE RecodingInv'
  BY <1>8 DEF DeferredClose, CloseEndChan, registries
<1>9. ASSUME NEW h \in Calls, Die(h) PROVE RecodingInv'
  BY <1>9, <1>1 DEF Die, Panic, recodings, registries, signals, pipelines
<1>10. ASSUME NEW h \in Calls, Quiet(h) PROVE RecodingInv'
  BY <1>10, <1>1, QuietSteps
<1>11. ASSUME ConcurrentMapAccess \/ Exit \/ Terminated \/ UNCHANGED vars PROVE RecodingInv'
  BY <1>11, <1>1, QuietProcess
<1>. QED
  BY <1>2, <1>3, <1>4, <1>5, <1>6, <1>7, <1>8, <1>9, <1>10, <1>11
     DEF Next, HandlerStep, PipelineStep, Quiet

-----------------------------------------------------------------------------
(***************************************************************************)
(* The shutdown.  While a Die is between its body and Stop it owns every   *)
(* mutex, so no context appears; what appears later is too new for the     *)
(* calls that are still in flight to start it.                             *)
(***************************************************************************)
StopInv ==
    /\ \A h \in Calls : pc[h] = "stopping" => context = {}
    /\ \A h \in Calls : req[h].ctx \in 0..contextNextID
    /\ up = "stopped" =>
         /\ context \cap launched = {}
         /\ \A h \in Calls : req[h].op = "StartRecoding" => req[h].ctx \notin context

\* No other handler is in a section with the context mutex while Die stops.
LEMMA StoppingAlone ==
    ASSUME HandlersOK, LockInv, NEW h \in Calls, NEW g \in Calls, h # g,
           pc[g] = "stopping", pc[h] = "body",
           req[h].op \in ContextOps \cup AllLockOps
    PROVE  FALSE
<1>1. req[g].op = "Die"
  BY DEF LockInv, HandlerInv
<1>2. Needed("Die") = Lockers /\ "ContextLocker" \in Needed(req[h].op)
  BY DEF Needed, ContextOps, AllLockOps, Lockers
<1>3. HeldAt("Die", "stopping") = Needed("Die") /\ HeldAt(req[h].op, "body") = Needed(req[h].op)
  BY DEF HeldAt, Lockers
<1>4. owner["ContextLocker"] = h /\ owner["ContextLocker"] = g
  BY <1>1, <1>2, <1>3 DEF LockInv, HandlerInv, Lockers
<1>. QED
  BY <1>4

\* What a step may do to the handlers without disturbing StopInv: nobody gets
\* to Stop, and no request is new.
Settled == \A g \in Calls : /\ pc'[g] = "stopping" => pc[g] = "stopping"
                            /\ req'[g] = req[g] \/ req'[g] = NoRequest

LEMMA ReturnSettles ==
    ASSUME HandlersOK, NEW h \in Calls, Return(h)
    PROVE  Settled /\ pc'[h] # "stopping"
  BY DEF HandlersOK, Return, Settled

LEMMA SettledStop ==
    ASSUME TypeOK, StopInv, Settled, contextNextID' = contextNextID,
           context' \subseteq context, launched' = launched,
           up' = "stopped" => up = "stopped"
    PROVE  StopInv'
<1>1. NoRequest.ctx = 0 /\ NoRequest.op = "Die"
  BY DEF NoRequest
<1>2. contextNextID \in Nat
  BY DEF TypeOK
<1>. QED
  BY <1>1, <1>2 DEF Settled, StopInv

LEMMA StopInductive ==
    ASSUME TypeOK, LockInv, StopInv, [Next]_vars
    PROVE  StopInv'
<1>0. HandlersOK /\ contextNextID \in Nat /\ inputNextID \in Nat /\ outputNextID \in Nat
  BY DEF TypeOK, HandlersOK
<1>1. ASSUME NEW h \in Calls, Arrive(h) PROVE StopInv'
  <2>1. PICK o \in Ops : \E r \in RequestsOf(o) :
           req' = [req EXCEPT ![h] = r] /\ pc' = [pc EXCEPT ![h] = LockPath(o).entry]
    BY <1>1 DEF Arrive
  <2>2. PICK r \in RequestsOf(o) :
           req' = [req EXCEPT ![h] = r] /\ pc' = [pc EXCEPT ![h] = LockPath(o).entry]
    BY <2>1
  <2>3. r.ctx \in 0..contextNextID
    BY <1>0, RequestBounds
  <2>4. LockPath(o).entry # "stopping"
    BY PathEntry, NeededLockers DEF Lockers
  <2>5. up' = "serving" /\ context' = context /\ contextNextID' = contextNextID
    BY <1>1 DEF Arrive, registries
  <2>. QED
    BY <1>0, <2>2, <2>3, <2>4, <2>5 DEF StopInv, HandlersOK
<1>2. ASSUME NEW h \in Calls, OpenKernel(h) PROVE StopInv'
  <2>1. UNCHANGED <<contextNextID, context, launched, up>>
    BY <1>2 DEF OpenKernel, registries, pipelines
  <2>2. CASE Return(h)
    BY <1>0, <2>1, <2>2, ReturnSettles, SettledStop
  <2>3. CASE pc' = [pc EXCEPT ![h] = LockPath(req[h].op).opening] /\ UNCHANGED <<owner, req>>
    <3>1. LockPath(req[h].op).opening # "stopping"
      BY <1>2, PathOpening, NeededLockers DEF OpenKernel, LockInv, HandlerInv, Lockers
    <3>2. Settled
      BY <1>0, <2>3, <3>1 DEF Settled, HandlersOK
    <3>. QED
      BY <2>1, <3>2, SettledStop
  <2>. QED
    BY <1>2, <2>2, <2>3 DEF OpenKernel
<1>3. ASSUME NEW h \in Calls, Acquire(h) PROVE StopInv'
  <2>1. UNCHANGED <<contextNextID, context, launched, up>>
    BY <1>3 DEF Acquire, registries, pipelines
  <2>2. req[h].op \in Ops /\ pc[h] \in Needed(req[h].op)
    BY <1>0, <1>3 DEF HandlersOK, Request, Acquire, LockInv, HandlerInv
  <2>3. LockPath(req[h].op)[pc[h]] # "stopping"
    BY <2>2, PathNext, NeededLockers DEF Lockers
  <2>4. Settled
    BY <1>0, <1>3, <2>3 DEF Settled, HandlersOK, Acquire
  <2>. QED
    BY <2>1, <2>4, SettledStop
<1>4. ASSUME NEW h \in Calls,
             \/ NewInput(h) \/ CloseInput(h) \/ NewOutput(h) \/ CloseOutput(h)
             \/ CloseContext(h) \/ WaitReleased(h) \/ WaitCancelled(h)
      PROVE  StopInv'
  <2>1. /\ Return(h) /\ UNCHANGED <<up, contextNextID, launched>>
        /\ context' \subseteq context
    BY <1>4 DEF NewInput, CloseInput, NewOutput, CloseOutput, CloseContext, WaitReleased,
                WaitCancelled, registries, pipelines
  <2>. QED
    BY <1>0, <2>1, ReturnSettles, SettledStop
<1>5. ASSUME Panic \/ Exit \/ UNCHANGED vars PROVE StopInv'
  <2>1. /\ UNCHANGED <<contextNextID, context, launched, handlers>>
        /\ up' = "stopped" => up = "stopped"
    BY <1>5 DEF Panic, Exit, registries, pipelines, vars
  <2>2. Settled
    BY <2>1 DEF Settled, handlers
  <2>. QED
    BY <2>1, <2>2, SettledStop
<1>6. ASSUME NEW c \in launched, PipelineStep(c) PROVE StopInv'
  <2>1. UNCHANGED <<up, contextNextID, context, launched, handlers>>
    BY <1>6 DEF PipelineStep, PipelineError, ServeReturns, DeferredCancel, DeferredClose,
                registries, pipelines
  <2>2. Settled
    BY <2>1 DEF Settled, handlers
  <2>. QED
    BY <2>1, <2>2, SettledStop
<1>7. ASSUME NEW h \in Calls, GetStats(h) PROVE StopInv'
  <2>1. CASE Return(h) /\ UNCHANGED <<up, registries, kernels, signals, pipelines>>
    BY <1>0, <2>1, ReturnSettles, SettledStop DEF registries, pipelines
  <2>. QED
    BY <1>5, <1>7, <2>1 DEF GetStats
<1>8. ASSUME NEW h \in Calls, RecodingEndedChan(h) PROVE StopInv'
  <2>1. CASE /\ pc' = [pc EXCEPT ![h] = "waiting"]
             /\ UNCHANGED <<up, registries, kernels, signals, pipelines, req>>
    <3>1. Settled
      BY <1>0, <2>1 DEF Settled, HandlersOK
    <3>. QED
      BY <2>1, <3>1, SettledStop DEF registries, pipelines
  <2>. QED
    BY <1>5, <1>8, <2>1 DEF RecodingEndedChan
<1>9. ASSUME NEW h \in Calls, NewContext(h) PROVE StopInv'
  <2>1. /\ Return(h) /\ UNCHANGED <<up, launched>>
        /\ contextNextID' = contextNextID + 1
        /\ context' = context \cup {contextNextID + 1}
        /\ pc[h] = "body" /\ req[h].op = "NewContext"
    BY <1>9 DEF NewContext, InBody, pipelines
  <2>2. \A g \in Calls : pc'[g] # "stopping"
    BY <1>0, <2>1, ReturnSettles, StoppingAlone DEF Settled, ContextOps
  <2>3. \A g \in Calls : req'[g] = req[g] \/ req'[g] = NoRequest
    BY <1>0, <2>1, ReturnSettles DEF Settled
  <2>4. NoRequest.ctx = 0 /\ NoRequest.op = "Die"
    BY DEF NoRequest
  <2>5. contextNextID + 1 \notin launched /\ contextNextID + 1 \notin 0..contextNextID
    BY <1>0 DEF TypeOK
  <2>6. \A g \in Calls : req'[g].ctx \in 0..contextNextID'
    BY <1>0, <2>1, <2>3, <2>4 DEF StopInv
  <2>7. ASSUME up' = "stopped"
        PROVE  /\ context' \cap launched' = {}
               /\ \A g \in Calls : req'[g].op = "StartRecoding" => req'[g].ctx \notin context'
    BY <2>1, <2>3, <2>4, <2>5, <2>7 DEF StopInv
  <2>. QED
    BY <2>2, <2>6, <2>7 DEF StopInv
<1>10. ASSUME NEW h \in Calls, StartRecoding(h) PROVE StopInv'
  <2>1. /\ Return(h) /\ UNCHANGED <<up, contextNextID, context>>
        /\ pc[h] = "body" /\ req[h].op = "StartRecoding"
    BY <1>10 DEF StartRecoding, InBody, registries
  <2>2. up = "stopped" => launched' = launched
    BY <1>10 DEF StartRecoding, CanStart, StopInv, InBody
  <2>3. Settled
    BY <1>0, <2>1, ReturnSettles
  <2>4. NoRequest.ctx = 0 /\ NoRequest.op = "Die"
    BY DEF NoRequest
  <2>. QED
    BY <1>0, <2>1, <2>2, <2>3, <2>4 DEF StopInv, Settled
<1>11. ASSUME NEW h \in Calls, Die(h) PROVE StopInv'
  <2>1. CASE /\ context' = {} /\ UNCHANGED <<contextNextID, req>>
    BY <2>1 DEF StopInv
  <2>. QED
    BY <1>5, <1>11, <2>1 DEF Die
<1>12. ASSUME NEW h \in Calls, Stop(h) PROVE StopInv'
  <2>1. /\ Return(h) /\ UNCHANGED <<contextNextID, context>> /\ context = {}
    BY <1>12 DEF Stop, StopInv, registries
  <2>2. Settled
    BY <1>0, <2>1, ReturnSettles
  <2>3. NoRequest.ctx = 0
    BY DEF NoRequest
  <2>. QED
    BY <1>0, <2>1, <2>2, <2>3 DEF StopInv, Settled
<1>. QED
  BY <1>1, <1>2, <1>3, <1>4, <1>5, <1>6, <1>7, <1>8, <1>9, <1>10, <1>11, <1>12
     DEF Next, HandlerStep, ConcurrentMapAccess, Terminated

-----------------------------------------------------------------------------
(***************************************************************************)
(* Waiters.                                                                *)
(***************************************************************************)

Ending == up # "serving" \/ \E h \in Calls : pc[h] = "stopping"

\* A handler moves alone, and only Stop moves one that stops.
LEMMA EndingStays ==
    ASSUME HandlersOK, Ending, [Next]_vars PROVE Ending'
<1>1. CASE up # "serving"
  <2>1. up' # "serving"
    <3>1. ASSUME NEW h \in Calls, HandlerStep(h) \/ OpenKernel(h) \/ Arrive(h) \/ WaitCancelled(h)
          PROVE  up' # "serving"
      BY <1>1, <3>1 DEF HandlerStep, OpenKernel, Arrive, WaitCancelled, Acquire, NewContext,
            CloseContext, NewInput, CloseInput, NewOutput, CloseOutput, StartRecoding,
            RecodingEndedChan, WaitReleased, GetStats, Die, Stop, Panic
    <3>2. ASSUME NEW c \in launched, PipelineStep(c) PROVE up' # "serving"
      BY <1>1, <3>2 DEF PipelineStep, PipelineError, ServeReturns, DeferredCancel, DeferredClose
    <3>. QED
      BY <1>1, <3>1, <3>2 DEF Next, ConcurrentMapAccess, Panic, Exit, Terminated, vars
  <2>. QED
    BY <2>1 DEF Ending
<1>2. ASSUME NEW g \in Calls, pc[g] = "stopping" PROVE Ending'
  <2>1. ASSUME NEW h \in Calls,
               \/ NewContext(h) \/ CloseContext(h) \/ NewInput(h) \/ CloseInput(h)
               \/ NewOutput(h) \/ CloseOutput(h) \/ StartRecoding(h) \/ RecodingEndedChan(h)
               \/ WaitReleased(h) \/ WaitCancelled(h) \/ GetStats(h) \/ Die(h)
        PROVE  pc'[g] = "stopping"
    <3>1. pc[h] # "stopping"
      BY <2>1 DEF NewContext, CloseContext, NewInput, CloseInput, NewOutput, CloseOutput,
            StartRecoding, RecodingEndedChan, WaitReleased, WaitCancelled, GetStats, Die, InBody
    <3>2. Return(h) \/ Panic \/ pc' = [pc EXCEPT ![h] = "waiting"] \/ pc' = [pc EXCEPT ![h] = "stopping"]
      BY <2>1 DEF NewContext, CloseContext, NewInput, CloseInput, NewOutput, CloseOutput,
            StartRecoding, RecodingEndedChan, WaitReleased, WaitCancelled, GetStats, Die
    <3>. QED
      BY <1>2, <3>1, <3>2 DEF HandlersOK, Return, Panic, handlers
  <2>2. ASSUME NEW h \in Calls, Acquire(h) \/ Arrive(h) \/ OpenKernel(h)
        PROVE  pc'[g] = "stopping"
    <3>1. g # h
      BY <1>2, <2>2 DEF Acquire, Arrive, OpenKernel, Lockers
    <3>2. Return(h) \/ \E q : pc' = [pc EXCEPT ![h] = q]
      BY <2>2 DEF Acquire, Arrive, OpenKernel
    <3>. QED
      BY <1>2, <3>1, <3>2 DEF HandlersOK, Return
  <2>3. ASSUME NEW c \in launched, PipelineStep(c) PROVE pc' = pc
    BY <2>3 DEF PipelineStep, PipelineError, ServeReturns, DeferredCancel, DeferredClose, handlers
  <2>4. ASSUME ConcurrentMapAccess \/ Exit \/ Terminated \/ UNCHANGED vars PROVE pc' = pc
    BY <2>4 DEF ConcurrentMapAccess, Panic, Exit, Terminated, vars, handlers
  <2>5. ASSUME NEW h \in Calls, Stop(h) PROVE up' = "stopped"
    BY <2>5 DEF Stop
  <2>. QED
    BY <1>2, <2>1, <2>2, <2>3, <2>4, <2>5 DEF Next, HandlerStep, Ending
<1>. QED
  BY <1>1, <1>2 DEF Ending

LEMMA WaiterInductive ==
    ASSUME TypeOK, NoAbandonedWaiter, [Next]_vars
    PROVE  NoAbandonedWaiter'
<1> DEFINE Kept(c) == c \in cancelled /\ (c \in InPipeline \/ Ending)
<1>0. NoAbandonedWaiter <=> \A c \in (1..contextNextID) \ (context \cup ended) : Kept(c)
  BY DEF NoAbandonedWaiter, Ending
<1>01. NoAbandonedWaiter' <=> (\A c \in (1..contextNextID) \ (context \cup ended) : Kept(c))'
  BY DEF NoAbandonedWaiter, Ending
<1>02. Ending => Ending'
  BY EndingStays DEF TypeOK, HandlersOK
<1> HIDE DEF NoAbandonedWaiter
<1> USE DEF InPipeline
<1>1. CASE UNCHANGED recodings
  BY <1>0, <1>01, <1>02, <1>1 DEF recodings, signals, pipelines
<1>2. ASSUME NEW h \in Calls, NewContext(h) PROVE NoAbandonedWaiter'
  BY <1>0, <1>01, <1>02, <1>2 DEF NewContext, signals, pipelines, TypeOK
<1>3. ASSUME NEW h \in Calls, CloseContext(h) PROVE NoAbandonedWaiter'
  BY <1>0, <1>01, <1>02, <1>3 DEF CloseContext, CloseEndChan, pipelines
<1>4. ASSUME NEW h \in Calls, StartRecoding(h) PROVE NoAbandonedWaiter'
  BY <1>0, <1>01, <1>02, <1>4 DEF StartRecoding, registries
<1>5. ASSUME NEW c \in launched, PipelineStep(c) PROVE NoAbandonedWaiter'
  BY <1>0, <1>01, <1>02, <1>5 DEF PipelineStep, PipelineError, ServeReturns, DeferredCancel,
     DeferredClose, CloseEndChan, registries, signals, pipelines
<1>6. ASSUME NEW h \in Calls, Die(h) PROVE NoAbandonedWaiter'
  <2>1. CASE Panic
    BY <1>1, <2>1 DEF Panic, recodings, registries
  <2>2. CASE /\ cancelled' = cancelled \cup context /\ context' = {}
             /\ pc' = [pc EXCEPT ![h] = "stopping"]
             /\ UNCHANGED <<contextNextID, ended, pipelines>>
    <3>1. Ending'
      BY <2>2 DEF Ending, TypeOK
    <3>. QED
      BY <1>0, <1>01, <2>2, <3>1 DEF pipelines
  <2>. QED
    BY <1>6, <2>1, <2>2 DEF Die
<1>7. ASSUME NEW h \in Calls, Quiet(h) PROVE NoAbandonedWaiter'
  BY <1>1, <1>7, QuietSteps
<1>8. ASSUME ConcurrentMapAccess \/ Exit \/ Terminated \/ UNCHANGED vars PROVE NoAbandonedWaiter'
  BY <1>1, <1>8, QuietProcess
<1>. QED
  BY <1>2, <1>3, <1>4, <1>5, <1>6, <1>7, <1>8 DEF Next, HandlerStep, Quiet

-----------------------------------------------------------------------------
(***************************************************************************)
(* The theorems.                                                           *)
(***************************************************************************)
LifecycleInv == RecodingInv /\ StopInv /\ NoAbandonedWaiter

\* The inductive invariant of the recodings, with that of the locking.
THEOREM LifecycleInvariant == Spec => []LifecycleInv
<1>1. Init => LifecycleInv
  <2>. SUFFICES ASSUME Init PROVE LifecycleInv
    OBVIOUS
  <2>1. RecodingInv
    BY DEF Init, RecodingInv, EndSignalTruthful, InPipeline
  <2>2. StopInv
    BY DEF Init, StopInv, NoRequest
  <2>3. NoAbandonedWaiter
    BY DEF Init, NoAbandonedWaiter
  <2>. QED
    BY <2>1, <2>2, <2>3 DEF LifecycleInv
<1>2. (TypeOK /\ LockInv) /\ LifecycleInv /\ [Next]_vars => LifecycleInv'
  BY RecodingInductive, StopInductive, WaiterInductive DEF LifecycleInv
<1>. QED
  BY <1>1, <1>2, TypeCorrect, PTL DEF Spec

\* While a context can be found, its end is announced only once its pipeline's
\* goroutine has nothing left to do.
THEOREM EndSignal == Spec => []EndSignalTruthful
<1>1. LifecycleInv => EndSignalTruthful
  BY DEF LifecycleInv, RecodingInv
<1>. QED
  BY <1>1, LifecycleInvariant, PTL

\* Nobody waits on a context that nobody will end.
THEOREM WaitersKept == Spec => []NoAbandonedWaiter
<1>1. LifecycleInv => NoAbandonedWaiter
  BY DEF LifecycleInv
<1>. QED
  BY <1>1, LifecycleInvariant, PTL

LEMMA StoppedCancels ==
    ASSUME TypeOK, LifecycleInv, context \cap launched = {}
    PROVE  InPipeline \subseteq cancelled \cup ended
<1>1. InPipeline \subseteq launched /\ launched \subseteq 1..contextNextID
  BY DEF TypeOK, InPipeline
<1>. QED
  BY <1>1 DEF LifecycleInv, NoAbandonedWaiter

\* Die leaves no recoding it answers for uncancelled.
THEOREM ShutdownComplete == Spec => []ShutdownCancels
<1>1. (TypeOK /\ LockInv) /\ LifecycleInv => ShutdownCancels
  BY StoppedCancels DEF LifecycleInv, StopInv, ShutdownCancels
<1>. QED
  BY <1>1, TypeCorrect, LifecycleInvariant, PTL

\* Die leaves no recoding its input: all inputs that are open are in the map, and
\* as long as Die stops the server, and then for good, nothing can be wired.
InputsCut == \A w \in wiring : w[2] \notin openInputs

CutInv ==
    /\ openInputs \subseteq input
    /\ up = "stopped" \/ (\E h \in Calls : pc[h] = "stopping") => InputsCut

LEMMA NobodyStops ==
    ASSUME Settled, up' = "stopped" \/ \E g \in Calls : pc'[g] = "stopping",
           up' = "stopped" => up = "stopped"
    PROVE  up = "stopped" \/ \E g \in Calls : pc[g] = "stopping"
  BY DEF Settled

\* A step that wires and opens nothing, and in which nobody gets to Stop.
LEMMA CutKept ==
    ASSUME CutInv, Settled, up' = "stopped" => up = "stopped",
           wiring' = wiring, input \ input' \subseteq openInputs \ openInputs',
           openInputs' \subseteq openInputs
    PROVE  CutInv'
  BY NobodyStops DEF CutInv, InputsCut

LEMMA CutInductive ==
    ASSUME TypeOK, LockInv, StopInv, CutInv, [Next]_vars
    PROVE  CutInv'
<1>0. HandlersOK /\ inputNextID \in Nat
  BY DEF TypeOK, HandlersOK
<1>1. ASSUME NEW h \in Calls, Arrive(h) \/ OpenKernel(h) \/ Acquire(h)
      PROVE  CutInv'
  <2>1. /\ UNCHANGED <<wiring, input, openInputs, up>>
        /\ \A g \in Calls : pc'[g] = "stopping" => pc[g] = "stopping"
    <3>1. CASE Arrive(h)
      <4>1. PICK o \in Ops : pc' = [pc EXCEPT ![h] = LockPath(o).entry]
        BY <3>1 DEF Arrive
      <4>2. LockPath(o).entry # "stopping"
        BY PathEntry, NeededLockers DEF Lockers
      <4>. QED  BY <1>0, <3>1, <4>1, <4>2 DEF Arrive, HandlersOK, registries, kernels, signals
    <3>2. CASE OpenKernel(h)
      <4>1. LockPath(req[h].op).opening # "stopping"
        BY <3>2, PathOpening, NeededLockers DEF OpenKernel, LockInv, HandlerInv, Lockers
      <4>. QED  BY <1>0, <3>2, <4>1, ReturnSettles
                DEF OpenKernel, HandlersOK, Settled, registries, kernels, signals
    <3>3. CASE Acquire(h)
      <4>1. req[h].op \in Ops /\ pc[h] \in Needed(req[h].op)
        BY <1>0, <3>3 DEF HandlersOK, Request, Acquire, LockInv, HandlerInv
      <4>2. LockPath(req[h].op)[pc[h]] # "stopping"
        BY <4>1, PathNext, NeededLockers DEF Lockers
      <4>. QED  BY <1>0, <3>3, <4>2 DEF Acquire, HandlersOK, registries, kernels, signals
    <3>. QED  BY <1>1, <3>1, <3>2, <3>3
  <2>. QED  BY <2>1 DEF CutInv, InputsCut
<1>2. ASSUME NEW h \in Calls, NewInput(h) PROVE CutInv'
  <2>1. /\ Return(h) /\ UNCHANGED <<up, wiring>>
        /\ input' = input \cup {inputNextID + 1}
        /\ openInputs' = openInputs \cup {inputNextID + 1}
    BY <1>2 DEF NewInput, signals
  <2>2. \A w \in wiring : w[2] # inputNextID + 1
    BY <1>0 DEF TypeOK
  <2>3. Settled
    BY <1>0, <2>1, ReturnSettles
  <2>. QED  BY <2>1, <2>2, <2>3, NobodyStops DEF CutInv, InputsCut
<1>3. ASSUME NEW h \in Calls, CloseInput(h) PROVE CutInv'
  <2>1. /\ Return(h) /\ UNCHANGED <<up, wiring>>
        /\ \/ UNCHANGED <<input, openInputs>>
           \/ \E i : input' = input \ {i} /\ openInputs' = openInputs \ {i}
    BY <1>3 DEF CloseInput, signals
  <2>2. Settled
    BY <1>0, <2>1, ReturnSettles
  <2>. QED  BY <2>1, <2>2, NobodyStops DEF CutInv, InputsCut
<1>4. ASSUME NEW h \in Calls,
             \/ NewContext(h) \/ CloseContext(h) \/ NewOutput(h) \/ CloseOutput(h)
             \/ WaitReleased(h) \/ WaitCancelled(h)
      PROVE  CutInv'
  <2>1. Return(h) /\ UNCHANGED <<up, wiring, input, openInputs>>
    BY <1>4 DEF NewContext, CloseContext, NewOutput, CloseOutput, WaitReleased,
                WaitCancelled, registries, kernels, signals
  <2>. QED  BY <1>0, <2>1, ReturnSettles, CutKept
<1>5. ASSUME NEW h \in Calls, StartRecoding(h) PROVE CutInv'
  <2>1. /\ Return(h) /\ UNCHANGED <<up, input, openInputs>>
        /\ pc[h] = "body" /\ req[h].op = "StartRecoding"
        /\ wiring' # wiring => req[h].ctx \in context
    BY <1>5 DEF StartRecoding, CanStart, InBody, registries, kernels
  <2>2. Settled
    BY <1>0, <2>1, ReturnSettles
  <2>3. up = "stopped" \/ (\E g \in Calls : pc[g] = "stopping") => wiring' = wiring
    BY <2>1 DEF StopInv
  <2>. QED  BY <2>1, <2>2, <2>3, NobodyStops DEF CutInv, InputsCut
<1>6. ASSUME Panic \/ Exit \/ UNCHANGED vars PROVE CutInv'
  <2>1. /\ UNCHANGED <<wiring, input, openInputs, handlers>>
        /\ up' = "stopped" => up = "stopped"
    BY <1>6 DEF Panic, Exit, registries, kernels, signals, vars
  <2>. QED  BY <2>1, CutKept DEF Settled, handlers
<1>7. ASSUME NEW h \in Calls, GetStats(h) \/ RecodingEndedChan(h) PROVE CutInv'
  <2>1. CASE /\ UNCHANGED <<up, registries, kernels, signals>>
             /\ Return(h) \/ pc' = [pc EXCEPT ![h] = "waiting"]
    <3>1. \A g \in Calls : pc'[g] = "stopping" => pc[g] = "stopping"
      BY <1>0, <2>1, ReturnSettles DEF Settled, HandlersOK
    <3>. QED  BY <2>1, <3>1 DEF CutInv, InputsCut, registries, kernels, signals
  <2>. QED  BY <1>6, <1>7, <2>1 DEF GetStats, RecodingEndedChan
<1>8. ASSUME NEW c \in launched, PipelineStep(c) PROVE CutInv'
  <2>1. UNCHANGED <<up, wiring, input, openInputs, handlers>>
    BY <1>8 DEF PipelineStep, PipelineError, ServeReturns, DeferredCancel, DeferredClose,
                registries, kernels, signals
  <2>. QED  BY <2>1, CutKept DEF Settled, handlers
<1>9. ASSUME NEW h \in Calls, Die(h) PROVE CutInv'
  <2>1. CASE openInputs' = openInputs \ input
    <3>1. openInputs' = {}
      BY <2>1 DEF CutInv
    <3>. QED  BY <3>1 DEF CutInv, InputsCut
  <2>. QED  BY <1>6, <1>9, <2>1 DEF Die
<1>10. ASSUME NEW h \in Calls, Stop(h) PROVE CutInv'
  BY <1>10 DEF Stop, CutInv, InputsCut, registries, kernels, signals
<1>. QED
  BY <1>1, <1>2, <1>3, <1>4, <1>5, <1>6, <1>7, <1>8, <1>9, <1>10
     DEF Next, HandlerStep, ConcurrentMapAccess, Terminated

THEOREM CutInvariant == Spec => []CutInv
<1>1. Init => CutInv
  BY DEF Init, CutInv, InputsCut
<1>2. (TypeOK /\ LockInv) /\ LifecycleInv /\ CutInv /\ [Next]_vars => CutInv'
  BY CutInductive DEF LifecycleInv
<1>. QED
  BY <1>1, <1>2, TypeCorrect, LifecycleInvariant, PTL DEF Spec

\* Whatever goes on in a server that Die stopped has lost its input.
THEOREM ShutdownCuts == Spec => []ShutdownCutsInputs
<1>1. CutInv => ShutdownCutsInputs
  BY DEF CutInv, InputsCut, ShutdownCutsInputs
<1>. QED
  BY <1>1, CutInvariant, PTL

\* The calls that Die overtook start nothing any more.
THEOREM ShutdownFinal == Spec => ShutdownStartsNothing
<1>1. LifecycleInv /\ [Next]_vars => [up = "stopped" => launched' = launched]_vars
  <2>. SUFFICES ASSUME LifecycleInv, [Next]_vars, up = "stopped" PROVE launched' = launched
    OBVIOUS
  <2>1. ASSUME NEW h \in Calls, StartRecoding(h) PROVE launched' = launched
    BY <2>1 DEF StartRecoding, CanStart, InBody, LifecycleInv, StopInv
  <2>2. ASSUME NEW h \in Calls, NewContext(h) \/ CloseContext(h) \/ Die(h) PROVE launched' = launched
    BY <2>2 DEF NewContext, CloseContext, Die, Panic, pipelines
  <2>3. ASSUME NEW c \in launched, PipelineStep(c) PROVE launched' = launched
    BY <2>3 DEF PipelineStep, PipelineError, ServeReturns, DeferredCancel, DeferredClose, pipelines
  <2>4. CASE UNCHANGED recodings
    BY <2>4 DEF recodings, pipelines
  <2>. QED
    BY <2>1, <2>2, <2>3, <2>4, QuietSteps, QuietProcess DEF Next, HandlerStep, Quiet
<1>. QED
  BY <1>1, LifecycleInvariant, PTL DEF Spec, ShutdownStartsNothing

-----------------------------------------------------------------------------
(***************************************************************************)
(* The refinement of RecodingLifecycle, one step per action.               *)
(***************************************************************************)
LcStep == [Lifecycle!LcNext]_(Lifecycle!lcVars)

LEMMA QuietRefines ==
    ASSUME TypeOK, UNCHANGED recodings, up' = up \/ up' \in Down
    PROVE  LcStep
<1>1. CASE up' = up
  BY <1>1 DEF recodings, signals, pipelines, LcStep, Lifecycle!lcVars, Lifecycle!lifecycle,
              InPipeline
<1>2. CASE up' \in Down
  <2>1. Lifecycle!Leave
    BY <1>2 DEF recodings, signals, pipelines, Lifecycle!Leave, Lifecycle!lifecycle, InPipeline
  <2>. QED
    BY <2>1 DEF LcStep, Lifecycle!LcNext
<1>. QED
  BY <1>1, <1>2

LEMMA StepRefines ==
    ASSUME TypeOK, LifecycleInv, [Next]_vars
    PROVE  LcStep
<1> USE DEF InPipeline, Alive, Down
<1>1. ASSUME NEW h \in Calls, NewContext(h) PROVE LcStep
  <2>1. Lifecycle!Create
    BY <1>1 DEF NewContext, InBody, signals, pipelines, Lifecycle!Create
  <2>. QED
    BY <2>1 DEF LcStep, Lifecycle!LcNext
<1>2. ASSUME NEW h \in Calls, CloseContext(h) PROVE LcStep
  <2> DEFINE c == req[h].ctx
  <2>1. CASE c \in context
    <3>1. Lifecycle!Close(c)
      BY <1>2, <2>1 DEF CloseContext, CloseEndChan, InBody, pipelines, Lifecycle!Close
    <3>2. c \in 1..contextNextID
      BY <2>1 DEF TypeOK
    <3>. QED
      BY <3>1, <3>2 DEF LcStep, Lifecycle!LcNext
  <2>2. CASE c \notin context
    BY <1>2, <2>2, QuietRefines DEF CloseContext, recodings, signals
  <2>. QED
    BY <2>1, <2>2
<1>3. ASSUME NEW h \in Calls, StartRecoding(h) PROVE LcStep
  <2> DEFINE c == req[h].ctx
  <2>1. UNCHANGED <<up, contextNextID, context, ended, unwinding, closing>>
    BY <1>3 DEF StartRecoding, registries
  <2>2. CASE ~CanStart(req[h])
    BY <1>3, <2>1, <2>2, QuietRefines DEF StartRecoding, recodings, signals, pipelines
  <2>3. CASE CanStart(req[h])
    <3>1. c \in context /\ c \notin started /\ c \in 1..contextNextID
      BY <2>3 DEF CanStart, TypeOK
    <3>2. c \notin launched /\ c \notin cancelled /\ c \notin ended
      BY <3>1 DEF LifecycleInv, RecodingInv, EndSignalTruthful
    <3>3. up = "serving"
      BY <1>3, <3>1 DEF StartRecoding, InBody, LifecycleInv, StopInv
    <3>4. CASE /\ launched' = launched \cup {c} /\ serving' = serving \cup {c}
               /\ cancelled' = cancelled
      <4>1. Lifecycle!Begin(c)
        BY <2>1, <3>1, <3>2, <3>3, <3>4 DEF Lifecycle!Begin
      <4>. QED
        BY <3>1, <4>1 DEF LcStep, Lifecycle!LcNext
    <3>5. CASE /\ launched' = launched /\ serving' = serving
               /\ cancelled' = cancelled \cup {c}
      <4>1. Lifecycle!Cancel(c)
        BY <2>1, <3>1, <3>3, <3>5 DEF Lifecycle!Cancel
      <4>. QED
        BY <3>1, <4>1 DEF LcStep, Lifecycle!LcNext
    <3>. QED
      BY <1>3, <2>3, <3>4, <3>5 DEF StartRecoding
  <2>. QED
    BY <2>2, <2>3
<1>4. ASSUME NEW c \in launched, PipelineStep(c) PROVE LcStep
  <2>0. c \in 1..contextNextID
    BY DEF TypeOK
  <2>1. CASE PipelineError(c)
    <3>1. Lifecycle!Cancel(c)
      BY <2>1 DEF PipelineError, registries, pipelines, Lifecycle!Cancel
    <3>. QED
      BY <2>0, <3>1 DEF LcStep, Lifecycle!LcNext
  <2>2. CASE ServeReturns(c)
    BY <2>2 DEF ServeReturns, registries, signals, LcStep, Lifecycle!lcVars, Lifecycle!lifecycle
  <2>3. CASE DeferredCancel(c)
    <3>1. Lifecycle!Cancel(c)
      BY <2>3 DEF DeferredCancel, registries, Lifecycle!Cancel
    <3>. QED
      BY <2>0, <3>1 DEF LcStep, Lifecycle!LcNext
  <2>4. CASE DeferredClose(c)
    <3>1. c \in cancelled /\ c \notin serving /\ c \notin unwinding
      BY <2>4 DEF DeferredClose, LifecycleInv, RecodingInv
    <3>2. Lifecycle!End(c)
      BY <2>4, <3>1 DEF DeferredClose, CloseEndChan, registries, Lifecycle!End
    <3>. QED
      BY <2>0, <3>2 DEF LcStep, Lifecycle!LcNext
  <2>. QED
    BY <1>4, <2>1, <2>2, <2>3, <2>4 DEF PipelineStep
<1>5. ASSUME NEW h \in Calls, Die(h) PROVE LcStep
  <2>1. CASE Panic
    BY <2>1, QuietRefines DEF Panic, recodings, registries
  <2>2. CASE ~Panic
    <3>1. Lifecycle!CancelAll
      BY <1>5, <2>2 DEF Die, InBody, pipelines, Lifecycle!CancelAll
    <3>. QED
      BY <3>1 DEF LcStep, Lifecycle!LcNext
  <2>. QED
    BY <2>1, <2>2
<1>6. ASSUME NEW h \in Calls, Stop(h) PROVE LcStep
  <2>1. context = {}
    BY <1>6 DEF Stop, LifecycleInv, StopInv
  <2>2. InPipeline \subseteq cancelled \cup ended
    BY <2>1, StoppedCancels
  <2>3. Lifecycle!StopServer
    BY <1>6, <2>1, <2>2 DEF Stop, registries, signals, pipelines, Lifecycle!StopServer,
                           Lifecycle!lifecycle
  <2>. QED
    BY <2>3 DEF LcStep, Lifecycle!LcNext
<1>7. ASSUME NEW h \in Calls, Quiet(h), ~Stop(h) PROVE LcStep
  <2>1. up' = up \/ up' \in Down
    BY <1>7 DEF Quiet, Arrive, OpenKernel, Acquire, NewInput, CloseInput, NewOutput,
         CloseOutput, WaitReleased, WaitCancelled, GetStats, RecodingEndedChan, Panic
  <2>. QED
    BY <1>7, <2>1, QuietSteps, QuietRefines
<1>8. ASSUME ConcurrentMapAccess \/ Exit \/ Terminated \/ UNCHANGED vars PROVE LcStep
  <2>1. up' = up \/ up' \in Down
    BY <1>8 DEF ConcurrentMapAccess, Panic, Exit, Terminated, vars
  <2>. QED
    BY <1>8, <2>1, QuietProcess, QuietRefines
<1>. QED
  BY <1>1, <1>2, <1>3, <1>4, <1>5, <1>6, <1>7, <1>8 DEF Next, HandlerStep, Quiet

\* The server keeps what RecodingLifecycle promises of its recodings: each
\* begins at most once, never after its end was told, its end is told when it
\* ended, and a stopped server left none uncancelled and begins none.
THEOREM Refinement == Spec => ImplementsLifecycle
<1>1. Init => Lifecycle!LcInit
  BY DEF Init, Lifecycle!LcInit, InPipeline, Down
<1>2. TypeOK /\ LifecycleInv /\ [Next]_vars => [Lifecycle!LcNext]_(Lifecycle!lcVars)
  BY StepRefines DEF LcStep
<1>. QED
  BY <1>1, <1>2, TypeCorrect, LifecycleInvariant, PTL DEF Spec, ImplementsLifecycle, Lifecycle!LcSpec
=============================================================================
