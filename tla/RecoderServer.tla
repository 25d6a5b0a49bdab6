---------------------------- MODULE RecoderServer ----------------------------
(***************************************************************************)
(* The recoder's gRPC server (libav/process/server/server.go): the three   *)
(* registries srv.Context, srv.Input and srv.Output, the mutexes that      *)
(* guard them, the RPC handlers, each in a goroutine of its own, and the   *)
(* pipeline goroutine that a successful StartRecoding leaves behind.       *)
(*                                                                         *)
(* A handler takes its mutexes one step at a time and does its work in one *)
(* step, at pc "body", where it holds all of them.  Objects are known by   *)
(* their IDs.  What the code keeps in a field of a Context is here the set *)
(* of the IDs whose field is set, so that an object outlives its entry in  *)
(* the registry, as it does in the code for whoever holds a pointer to it. *)
(***************************************************************************)
EXTENDS Naturals, FiniteSets

CONSTANTS
    Calls,        \* the handler goroutines, each reusable once it returned
    NoCall,       \* the owner of a mutex nobody holds
    MaxContexts,  \* clients stop asking for new IDs at these bounds
    MaxInputs,
    MaxOutputs

ASSUME NoCallAssumption == NoCall \notin Calls

VARIABLES
    up,                     \* the server process
    contextNextID, context, \* srv.ContextNextID, the keys of srv.Context
    inputNextID, input,     \* srv.InputNextID, the keys of srv.Input
    outputNextID, output,   \* srv.OutputNextID, the keys of srv.Output
    openInputs,             \* the inputs whose kernel is not closed
    openOutputs,            \* the outputs whose kernel is not closed
    started,                \* contexts with a RecoderCancelFn (and both nodes)
    wiring,                 \* <<context, input, output>> of those nodes
    ended,                  \* contexts whose RecordingEndChan is closed
    cancelled,              \* contexts whose pipelineCtx is done
    launched,               \* contexts whose pipeline goroutine was started,
    serving,                \* ... and is inside avpipeline.Serve,
    unwinding,              \* ... and has yet to run the deferred cancelFn,
    closing,                \* ... and has yet to run the deferred Close
    owner,                  \* who holds each mutex
    pc, req                 \* each handler's control point and request

registries == <<contextNextID, context, inputNextID, input, outputNextID, output>>
kernels    == <<openInputs, openOutputs>>
signals    == <<started, wiring, ended, cancelled>>
pipelines  == <<launched, serving, unwinding, closing>>
handlers   == <<owner, pc, req>>
vars == <<up, registries, kernels, signals, pipelines, handlers>>

-----------------------------------------------------------------------------

Lockers == {"ContextLocker", "InputLocker", "OutputLocker"}

ContextOps == {"NewContext", "CloseContext", "RecodingEndedChan", "GetStats"}
AllLockOps == {"StartRecoding", "Die"}
Ops == ContextOps \cup AllLockOps
         \cup {"NewInput", "CloseInput", "NewOutput", "CloseOutput"}

\* Whether StartRecoding can honour the EncoderConfig of a request: it refuses
\* more than one video or audio track.
Configs == {"supported", "unsupported"}

Request == [op : Ops, ctx : Nat, in : Nat, out : Nat, config : Configs]
NoRequest == [op |-> "Die", ctx |-> 0, in |-> 0, out |-> 0, config |-> "supported"]

\* Slips the locking could have: Die takes its mutexes in another order than
\* StartRecoding; both forget the mutex of the inputs.
LockPath_DieReversed(o) ==
    CASE o \in ContextOps -> [entry |-> "ContextLocker", ContextLocker |-> "body"]
      [] o = "Die" ->
            [entry |-> "OutputLocker", OutputLocker |-> "InputLocker",
             InputLocker |-> "ContextLocker", ContextLocker |-> "body"]
      [] o = "StartRecoding" ->
            [entry |-> "ContextLocker", ContextLocker |-> "InputLocker",
             InputLocker |-> "OutputLocker", OutputLocker |-> "body"]
      [] OTHER -> [entry |-> "InputLocker", InputLocker |-> "body"]

LockPath_NoInputLocker(o) ==
    CASE o \in ContextOps -> [entry |-> "ContextLocker", ContextLocker |-> "body"]
      [] o \in AllLockOps ->
            [entry |-> "ContextLocker", ContextLocker |-> "OutputLocker",
             OutputLocker |-> "body"]
      [] OTHER -> [entry |-> "InputLocker", InputLocker |-> "body"]

\* The control points of an RPC, each with its successor, from its entry to
\* its body.  A kernel is opened before any mutex is taken, and CloseOutput
\* runs under the INPUT mutex.
LockPath(o) ==
    CASE o \in ContextOps ->
            [entry |-> "ContextLocker", ContextLocker |-> "body"]
      [] o \in AllLockOps ->
            [entry |-> "ContextLocker", ContextLocker |-> "InputLocker",
             InputLocker |-> "OutputLocker", OutputLocker |-> "body"]
      [] o = "NewInput" ->
            [entry |-> "opening", opening |-> "InputLocker", InputLocker |-> "body"]
      [] o = "NewOutput" ->
            [entry |-> "opening", opening |-> "OutputLocker", OutputLocker |-> "body"]
      [] OTHER ->
            [entry |-> "InputLocker", InputLocker |-> "body"]

PCs == {"idle", "opening", "body", "waiting", "stopping"} \cup Lockers

Alive == {"serving", "stopped"}    \* the process runs
Down  == {"crashed", "exited"}     \* the process is gone

TypeOK ==
    /\ up \in Alive \cup Down
    /\ contextNextID \in Nat /\ context \in SUBSET (1..contextNextID)
    /\ inputNextID \in Nat   /\ input \in SUBSET (1..inputNextID)
    /\ outputNextID \in Nat  /\ output \in SUBSET (1..outputNextID)
    /\ openInputs \in SUBSET (1..inputNextID)
    /\ openOutputs \in SUBSET (1..outputNextID)
    /\ started \in SUBSET (1..contextNextID)
    /\ wiring \in SUBSET ((1..contextNextID) \X (1..inputNextID) \X (1..outputNextID))
    /\ ended \in SUBSET (1..contextNextID)
    /\ cancelled \in SUBSET (1..contextNextID)
    /\ launched \in SUBSET (1..contextNextID)
    /\ serving \in SUBSET launched
    /\ unwinding \in SUBSET launched
    /\ closing \in SUBSET launched
    /\ owner \in [Lockers -> Calls \cup {NoCall}]
    /\ pc \in [Calls -> PCs]
    /\ req \in [Calls -> Request]

Init ==
    /\ up = "serving"
    /\ contextNextID = 0 /\ context = {}
    /\ inputNextID = 0   /\ input = {}  /\ openInputs = {}
    /\ outputNextID = 0  /\ output = {} /\ openOutputs = {}
    /\ started = {} /\ wiring = {} /\ ended = {} /\ cancelled = {}
    /\ launched = {} /\ serving = {} /\ unwinding = {} /\ closing = {}
    /\ owner = [l \in Lockers |-> NoCall]
    /\ pc = [h \in Calls |-> "idle"]
    /\ req = [h \in Calls |-> NoRequest]

-----------------------------------------------------------------------------
(***************************************************************************)
(* A call arrives, takes its mutexes and returns.                          *)
(***************************************************************************)

\* The IDs a client can pass: replies told it of them, so they were assigned,
\* but they may have been closed since.  0 stands for "no such argument".
Arg(used, lastID) == IF used THEN 1..lastID ELSE {0}

RequestsOf(o) ==
    [op : {o},
     ctx : Arg(o \in {"CloseContext", "RecodingEndedChan", "GetStats",
                      "StartRecoding"}, contextNextID),
     in : Arg(o \in {"CloseInput", "StartRecoding"}, inputNextID),
     out : Arg(o \in {"CloseOutput", "StartRecoding"}, outputNextID),
     config : IF o = "StartRecoding" THEN Configs ELSE {"supported"}]

BelowBound(o) ==
    LET inFlight == Cardinality({h \in Calls : req[h].op = o})
    IN  /\ o = "NewContext" => contextNextID + inFlight < MaxContexts
        /\ o = "NewInput" => inputNextID + inFlight < MaxInputs
        /\ o = "NewOutput" => outputNextID + inFlight < MaxOutputs

Arrive(h) ==
    /\ up = "serving"
    /\ pc[h] = "idle"
    /\ \E o \in Ops : \E r \in RequestsOf(o) :
         /\ BelowBound(o)
         /\ req' = [req EXCEPT ![h] = r]
         /\ pc' = [pc EXCEPT ![h] = LockPath(o).entry]
    /\ UNCHANGED <<up, registries, kernels, signals, pipelines, owner>>

\* An RPC leaves: every mutex it holds is unlocked.
Return(h) ==
    /\ pc' = [pc EXCEPT ![h] = "idle"]
    /\ req' = [req EXCEPT ![h] = NoRequest]
    /\ owner' = [l \in Lockers |-> IF owner[l] = h THEN NoCall ELSE owner[l]]

\* kernel.NewInputFromURL / NewOutputFromURL: connects, and may fail.
OpenKernel(h) ==
    /\ up \in Alive
    /\ pc[h] = "opening"
    /\ \/ /\ pc' = [pc EXCEPT ![h] = LockPath(req[h].op).opening]
          /\ UNCHANGED <<owner, req>>
       \/ Return(h)
    /\ UNCHANGED <<up, registries, kernels, signals, pipelines>>

Acquire(h) ==
    /\ up \in Alive
    /\ pc[h] \in Lockers
    /\ owner[pc[h]] = NoCall
    /\ owner' = [owner EXCEPT ![pc[h]] = h]
    /\ pc' = [pc EXCEPT ![h] = LockPath(req[h].op)[pc[h]]]
    /\ UNCHANGED <<up, registries, kernels, signals, pipelines, req>>

\* h is in the body of the RPC o, with all its mutexes.
InBody(h, o) == up \in Alive /\ pc[h] = "body" /\ req[h].op = o

\* A panic in a handler is recovered nowhere: it ends the process.
Panic == /\ up' = "crashed"
         /\ UNCHANGED <<registries, kernels, signals, pipelines, handlers>>

-----------------------------------------------------------------------------
(***************************************************************************)
(* The bodies of the RPCs that create and close objects.                   *)
(***************************************************************************)

\* A slip: the counter is read, not incremented.
NewContext_SameID(h) ==
    /\ InBody(h, "NewContext")
    /\ context' = context \cup {contextNextID + 1}
    /\ Return(h)
    /\ UNCHANGED <<up, contextNextID, inputNextID, input, outputNextID, output,
                   kernels, signals, pipelines>>

NewContext(h) ==
    /\ InBody(h, "NewContext")
    /\ contextNextID' = contextNextID + 1
    /\ context' = context \cup {contextNextID + 1}
    /\ Return(h)
    /\ UNCHANGED <<up, inputNextID, input, outputNextID, output, kernels,
                   signals, pipelines>>

NewInput(h) ==
    /\ InBody(h, "NewInput")
    /\ inputNextID' = inputNextID + 1
    /\ input' = input \cup {inputNextID + 1}
    /\ openInputs' = openInputs \cup {inputNextID + 1}
    /\ Return(h)
    /\ UNCHANGED <<up, contextNextID, context, outputNextID, output,
                   openOutputs, signals, pipelines>>

NewOutput(h) ==
    /\ InBody(h, "NewOutput")
    /\ outputNextID' = outputNextID + 1
    /\ output' = output \cup {outputNextID + 1}
    /\ openOutputs' = openOutputs \cup {outputNextID + 1}
    /\ Return(h)
    /\ UNCHANGED <<up, contextNextID, context, inputNextID, input,
                   openInputs, signals, pipelines>>

\* A slip: the close is forgotten.
CloseEndChan_Forgotten(c) == c \in ended \cup {c} /\ UNCHANGED ended

\* Context.Close: CloseOnce makes the second close of RecordingEndChan a no-op.
CloseEndChan(c) == ended' = ended \cup {c}

\* CloseContext announces the end of the recoding and forgets the context; the
\* pipeline, if there is one, is not cancelled.
CloseContext(h) ==
    /\ InBody(h, "CloseContext")
    /\ LET c == req[h].ctx
       IN  IF c \in context
           THEN CloseEndChan(c) /\ context' = context \ {c}
           ELSE UNCHANGED <<ended, context>>      \* "there is no open context"
    /\ Return(h)
    /\ UNCHANGED <<up, contextNextID, inputNextID, input, outputNextID, output,
                   kernels, started, wiring, cancelled, pipelines>>

CloseInput(h) ==
    /\ InBody(h, "CloseInput")
    /\ LET i == req[h].in
       IN  IF i \in input
           THEN openInputs' = openInputs \ {i} /\ input' = input \ {i}
           ELSE UNCHANGED <<openInputs, input>>   \* "there is no open input"
    /\ Return(h)
    /\ UNCHANGED <<up, contextNextID, context, inputNextID, outputNextID, output,
                   openOutputs, signals, pipelines>>

CloseOutput(h) ==
    /\ InBody(h, "CloseOutput")
    /\ LET k == req[h].out
       IN  IF k \in output
           THEN openOutputs' = openOutputs \ {k} /\ output' = output \ {k}
           ELSE UNCHANGED <<openOutputs, output>> \* "there is no open output"
    /\ Return(h)
    /\ UNCHANGED <<up, contextNextID, context, inputNextID, input, outputNextID,
                   openInputs, signals, pipelines>>

\* CloseOutput and NewOutput hold different mutexes and both touch srv.Output.
\* The Go runtime ends the process when it notices two such accesses at once;
\* when it does not, the two bodies simply follow one another.
ConcurrentMapAccess ==
    /\ \E h, g \in Calls : InBody(h, "CloseOutput") /\ InBody(g, "NewOutput")
    /\ Panic

-----------------------------------------------------------------------------
(***************************************************************************)
(* Recoding.                                                               *)
(***************************************************************************)

\* A slip: a context that was started before is started again.
CanStart_Twice(r) == r.ctx \in context /\ r.in \in input /\ r.out \in output

\* The checks of StartRecoding, made under all three mutexes.
CanStart(r) == /\ r.ctx \in context
               /\ r.ctx \notin started
               /\ r.in \in input
               /\ r.out \in output

\* The cancel function and the nodes are stored before the configuration is
\* checked, and stay when it is refused: such a context is started for ever.
StartRecoding(h) ==
    /\ InBody(h, "StartRecoding")
    /\ LET r == req[h]
       IN  IF CanStart(r)
           THEN /\ started' = started \cup {r.ctx}
                /\ wiring' = wiring \cup {<<r.ctx, r.in, r.out>>}
                /\ IF r.config = "supported"
                   THEN /\ launched' = launched \cup {r.ctx}
                        /\ serving' = serving \cup {r.ctx}
                        /\ UNCHANGED cancelled
                   ELSE /\ cancelled' = cancelled \cup {r.ctx}
                        /\ UNCHANGED <<launched, serving>>
           ELSE UNCHANGED <<started, wiring, launched, serving, cancelled>>
    /\ Return(h)
    /\ UNCHANGED <<up, registries, kernels, ended, unwinding, closing>>

\* The first step of a recoding's end: the errCh listener cancels pipelineCtx
\* when a node of the pipeline reports an error.
PipelineError(c) ==
    /\ up \in Alive
    /\ c \in serving \cup unwinding
    /\ c \notin cancelled
    /\ cancelled' = cancelled \cup {c}
    /\ UNCHANGED <<up, registries, kernels, started, wiring, ended, pipelines,
                   handlers>>

\* avpipeline.Serve returns: it was cancelled, or its input ended.
ServeReturns(c) ==
    /\ up \in Alive
    /\ c \in serving
    /\ serving' = serving \ {c}
    /\ unwinding' = unwinding \cup {c}
    /\ UNCHANGED <<up, registries, kernels, signals, launched, closing, handlers>>

\* The pipeline goroutine's deferred calls, last deferred first.
DeferredCancel(c) ==
    /\ up \in Alive
    /\ c \in unwinding
    /\ unwinding' = unwinding \ {c}
    /\ closing' = closing \cup {c}
    /\ cancelled' = cancelled \cup {c}
    /\ UNCHANGED <<up, registries, kernels, started, wiring, ended, launched,
                   serving, handlers>>

DeferredClose(c) ==
    /\ up \in Alive
    /\ c \in closing
    /\ closing' = closing \ {c}
    /\ CloseEndChan(c)
    /\ UNCHANGED <<up, registries, kernels, started, wiring, cancelled, launched,
                   serving, unwinding, handlers>>

-----------------------------------------------------------------------------
(***************************************************************************)
(* Watching a recoding, and ending the server.                             *)
(***************************************************************************)

\* A slip: the wait happens inside the critical section.
RecodingEndedChan_UnderLock(h) ==
    /\ InBody(h, "RecodingEndedChan")
    /\ IF req[h].ctx \in context
       THEN /\ pc' = [pc EXCEPT ![h] = "waiting"]
            /\ UNCHANGED <<up, registries, kernels, signals, pipelines, owner, req>>
       ELSE Panic

\* The handler keeps the *Context it found and waits outside the mutex; a nil
\* one is dereferenced.
RecodingEndedChan(h) ==
    /\ InBody(h, "RecodingEndedChan")
    /\ IF req[h].ctx \in context
       THEN /\ pc' = [pc EXCEPT ![h] = "waiting"]
            /\ owner' = [owner EXCEPT !["ContextLocker"] = NoCall]
            /\ UNCHANGED <<up, registries, kernels, signals, pipelines, req>>
       ELSE Panic

\* It is released by the channel, or by the end of all streams at Stop.
WaitReleased(h) ==
    /\ up \in Alive
    /\ pc[h] = "waiting"
    /\ req[h].ctx \in ended \/ up = "stopped"
    /\ Return(h)
    /\ UNCHANGED <<up, registries, kernels, signals, pipelines>>

\* The client cancels its stream.
WaitCancelled(h) ==
    /\ up \in Alive
    /\ pc[h] = "waiting"
    /\ Return(h)
    /\ UNCHANGED <<up, registries, kernels, signals, pipelines>>

\* The counters are those of the context's nodes: neither a nil context nor a
\* context that never started is checked for.
GetStats(h) ==
    /\ InBody(h, "GetStats")
    /\ IF req[h].ctx \in context \cap started
       THEN Return(h) /\ UNCHANGED <<up, registries, kernels, signals, pipelines>>
       ELSE Panic

\* A slip: of the two loops, the one over the inputs is forgotten.
Die_KeepsInputs(h) ==
    /\ InBody(h, "Die")
    /\ IF context \subseteq started
       THEN /\ cancelled' = cancelled \cup context
            /\ started' = started \ context
            /\ context' = {}
            /\ pc' = [pc EXCEPT ![h] = "stopping"]
            /\ UNCHANGED <<up, contextNextID, inputNextID, input, outputNextID, output,
                           kernels, wiring, ended, pipelines, owner, req>>
       ELSE Panic

\* Die calls every registered context's cancel function, nil or not, forgets
\* the contexts and closes the inputs; the outputs stay as they are, since its
\* second loop walks srv.Input again.
Die(h) ==
    /\ InBody(h, "Die")
    /\ IF context \subseteq started
       THEN /\ cancelled' = cancelled \cup context
            /\ started' = started \ context
            /\ context' = {}
            /\ input' = {}
            /\ openInputs' = openInputs \ input
            /\ pc' = [pc EXCEPT ![h] = "stopping"]
            /\ UNCHANGED <<up, contextNextID, inputNextID, outputNextID, output,
                           openOutputs, wiring, ended, pipelines, owner, req>>
       ELSE Panic

\* GRPCServer.Stop: no new call arrives, every stream's context is done.
Stop(h) ==
    /\ up \in Alive
    /\ pc[h] = "stopping"
    /\ up' = "stopped"
    /\ Return(h)
    /\ UNCHANGED <<registries, kernels, signals, pipelines>>

\* Serve returns and the encoder process calls os.Exit.
Exit ==
    /\ up = "stopped"
    /\ up' = "exited"
    /\ UNCHANGED <<registries, kernels, signals, pipelines, handlers>>

Terminated == up \in Down /\ UNCHANGED vars

HandlerStep(h) ==
    \/ Acquire(h)
    \/ NewContext(h) \/ CloseContext(h)
    \/ NewInput(h) \/ CloseInput(h)
    \/ NewOutput(h) \/ CloseOutput(h)
    \/ StartRecoding(h) \/ RecodingEndedChan(h) \/ WaitReleased(h)
    \/ GetStats(h) \/ Die(h) \/ Stop(h)

PipelineStep(c) == \/ PipelineError(c) \/ ServeReturns(c)
                   \/ DeferredCancel(c) \/ DeferredClose(c)

Next ==
    \/ \E h \in Calls : Arrive(h) \/ OpenKernel(h) \/ HandlerStep(h) \/ WaitCancelled(h)
    \/ \E c \in launched : PipelineStep(c)
    \/ ConcurrentMapAccess \/ Exit \/ Terminated

Spec == Init /\ [][Next]_vars

\* A kernel of the context's nodes was closed under the pipeline.
KernelClosed(c) ==
    \E w \in wiring : w[1] = c /\ ~(w[2] \in openInputs /\ w[3] \in openOutputs)

(***************************************************************************)
(* Goroutines run.  A Go mutex in its starvation mode goes to a waiter      *)
(* that keeps being passed over (SF).  avpipeline.Serve returns once its    *)
(* context is done, and a node whose kernel is closed reports an error.     *)
(* Nothing is assumed of calls arriving, of kernels being opened, of an     *)
(* input ending by itself, or of a client cancelling.                       *)
(***************************************************************************)
Fairness ==
    /\ \A h \in Calls : WF_vars(HandlerStep(h)) /\ SF_vars(Acquire(h))
    /\ \A c \in 1..MaxContexts :
          /\ WF_vars(c \in cancelled /\ ServeReturns(c))
          /\ WF_vars(KernelClosed(c) /\ PipelineError(c))
          /\ WF_vars(DeferredCancel(c)) /\ WF_vars(DeferredClose(c))

FairSpec == Spec /\ Fairness

-----------------------------------------------------------------------------
(***************************************************************************)
(* Properties.                                                             *)
(***************************************************************************)

\* The registries an RPC's body reads or writes.
Touched(o) ==
    CASE o \in ContextOps -> {"Context"}
      [] o \in AllLockOps -> {"Context", "Input", "Output"}
      [] o \in {"NewInput", "CloseInput"} -> {"Input"}
      [] OTHER -> {"Output"}

InCriticalSection(h) == pc[h] \in {"body", "stopping"}

Conflict(h, g) == /\ h # g
                  /\ InCriticalSection(h) /\ InCriticalSection(g)
                  /\ Touched(req[h].op) \cap Touched(req[g].op) # {}

\* Two handlers never touch the same registry at the same time, whatever
\* mutexes they took, but for a NewOutput and a CloseOutput.
RegistryExclusive ==
    \A h, g \in Calls :
        Conflict(h, g) => {req[h].op, req[g].op} = {"NewOutput", "CloseOutput"}

\* What the declarations of GRPCServer say: OutputLocker guards Output, so
\* that no two handlers touch it at the same time.
OutputMapGuarded ==
    \A h, g \in Calls : ~(Conflict(h, g) /\ req[g].op = "CloseOutput")

\* No set of handlers waits for mutexes which handlers of that set hold: the
\* RPCs that take several mutexes take them in one order.
NoLockCycle ==
    \A S \in SUBSET Calls :
        S # {} => \E h \in S : ~(pc[h] \in Lockers /\ owner[pc[h]] \in S)

InPipeline == serving \cup unwinding \cup closing

\* While a context can still be found by its ID, its RecordingEndChan is closed
\* only after its pipeline started and its goroutine has nothing left to do.
EndSignalTruthful == ended \cap context \subseteq launched \ InPipeline

\* A context that was forgotten has told its waiters so, or a cancelled
\* pipeline is about to, or the server is being stopped (by a Die which found
\* a context whose start had been refused).
NoAbandonedWaiter ==
    \A c \in (1..contextNextID) \ (context \cup ended) :
        /\ c \in cancelled
        /\ \/ c \in InPipeline
           \/ up # "serving"
           \/ \E h \in Calls : pc[h] = "stopping"

\* What the server promises of its recodings: each begins once and never after
\* its end was announced, it is announced when it ended, and a server that was
\* stopped has cancelled every recoding it still answered for and begins none.
Lifecycle == INSTANCE RecodingLifecycle WITH
    server <- IF up \in Down THEN "gone" ELSE up,
    created <- contextNextID, open <- context, begun <- launched,
    running <- InPipeline, announced <- ended

ImplementsLifecycle == Lifecycle!LcSpec

\* Once Die stopped the server, the recodings that go on are those CloseContext
\* had declared ended: every other one was cancelled.
ShutdownCancels == up = "stopped" => InPipeline \subseteq cancelled \cup ended

\* ... and the calls that were in flight start no other.
ShutdownStartsNothing == [][up = "stopped" => launched' = launched]_vars

\* ... and no recoding has its input any more, not even one that CloseContext had
\* declared ended and forgotten: Die closes all inputs there are, and no call that
\* it overtook starts anything on a new one.
ShutdownCutsInputs ==
    up = "stopped" =>
        \A w \in wiring : w[1] \in InPipeline => w[2] \notin openInputs

\* What RecodingEndedChan is for: a recoding whose end was announced is over.
EndedMeansNotServing == ended \cap serving = {}

\* What StartRecoding's refusal says of a context: "the recoder is already
\* started".
AlreadyStartedIsTrue ==
    \A h \in Calls :
        InBody(h, "StartRecoding") /\ req[h].ctx \in context \cap started
            => req[h].ctx \in launched

\* A client that waits for a recoding's end is released once the context is
\* forgotten, or once the input or the output of the recoding is closed.
WaiterReleased ==
    \A h \in Calls :
        ( /\ pc[h] = "waiting"
          /\ \/ req[h].ctx \notin context
             \/ req[h].ctx \in launched /\ KernelClosed(req[h].ctx) )
        ~> (pc[h] # "waiting" \/ up \in Down)

\* Every RPC but RecodingEndedChan returns: no handler waits for a mutex for
\* ever, and a waiting RecodingEndedChan is in nobody's way.
HandlersReturn ==
    \A h \in Calls :
        (pc[h] \in Lockers \cup {"body", "stopping"})
            ~> (pc[h] \in {"idle", "waiting"} \/ up \in Down)
=============================================================================
