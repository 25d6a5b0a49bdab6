---------------------------- MODULE LibavSession ----------------------------
(***************************************************************************)
(* The library an embedding program links (libav/*.go): it runs the        *)
(* recoder's server in a process of its own, or in a goroutine, shakes     *)
(* hands with it, and calls it over gRPC (libav/process/client).  The      *)
(* server is what RecodingLifecycle promises, for the one process of a     *)
(* factory; everything between a caller and that server may fail: a        *)
(* request is answered late, its answer is lost, the process dies.         *)
(*                                                                         *)
(* A caller is a goroutine of the embedding program.  An operation of the  *)
(* library is a list of things to do (`todo'), RPCs mostly.  All recoders  *)
(* of a factory share its one context; an input or an output is its name.  *)
(***************************************************************************)
EXTENDS RecodingLifecycle, Sequences, FiniteSets

CONSTANTS
    Callers,      \* goroutines of the program
    Collector,    \* the goroutine that runs finalizers
    MaxLate,      \* at most so many given up requests are on their way
    Builds        \* the builds considered: "forking", "noforking", "nolibav"

ASSUME CollectorAssumption == Collector \notin Callers
ASSUME BoundAssumption == MaxLate \in Nat
ASSUME BuildsAssumption == Builds \subseteq {"forking", "noforking", "nolibav"}

VARIABLES
    build,    \* how the program was compiled
    owner,    \* the program: "running", "crashed", or "exited"
    child,    \* the server's process: "none", "starting", "listening", "failed"
    factory,  \* "none", "making", "failed", "made", "closing", "closed",
              \* "dropped" (unreachable), "collected"
    handles,  \* the inputs and outputs whose IDs the program was given
    kernels,  \* the inputs and outputs that the server has
    pc, job,  \* what each caller is at
    failed,   \* those whose last operation returned an error
    late,     \* requests whose callers gave up, and which the server has
    waited    \* a Wait returned nil that nobody cancelled

program == <<build, owner, factory, handles>>
calling == <<pc, job, failed, waited>>
vars == <<lcVars, program, child, kernels, calling, late>>

\* The context of the factory, the first of its server.
Context == 1

Threads == Callers \cup {Collector}
Kernels == {"input", "output"}
Rpcs == {"SetLoggingLevel", "NewContext", "CloseContext", "StartRecoding",
         "GetStats", "RecodingEndedChan", "NewInput", "NewOutput",
         "CloseInput", "CloseOutput", "Die"}
\* What a request can change even when nobody waits for its answer.  (A late
\* request that makes the server crash is the action Crash.)
Changes == {"NewContext", "StartRecoding", "NewInput", "NewOutput"}

\* The operations that work with a context.Context of their caller; the
\* others use context.Background() or context.TODO().
Cancellable == {"NewFactory", "NewContext", "StartRecoding", "GetStats",
                "RecodingEndedChan", "NewInput", "NewOutput"}
Operations == Cancellable \cup {"CloseFactory", "CloseContext", "CloseInput",
                                "CloseOutput", "Finalize"}
Idle == [op |-> "Finalize", todo |-> <<>>, ok |-> TRUE]

TypeOK ==
    /\ build \in Builds
    /\ owner \in {"running", "crashed", "exited"}
    /\ child \in {"none", "starting", "listening", "failed"}
    /\ factory \in {"none", "making", "failed", "made", "closing", "closed",
                   "dropped", "collected"}
    /\ server \in {"serving", "stopped", "gone"}
    /\ created \in 0..Context
    /\ open \subseteq 1..created /\ begun \subseteq 1..created
    /\ running \subseteq begun
    /\ cancelled \subseteq 1..created /\ announced \subseteq 1..created
    /\ handles \subseteq Kernels /\ kernels \subseteq Kernels
    /\ pc \in [Threads -> {"idle", "ready", "report", "sent", "watching",
                           "stopping", "answered"}]
    /\ job \in [Threads -> [op : Operations, todo : Seq(Rpcs \cup {"Run", "Kill"}),
                            ok : BOOLEAN]]
    /\ failed \subseteq Threads
    /\ late \subseteq Changes /\ Cardinality(late) <= MaxLate
    /\ waited \in BOOLEAN

Init ==
    /\ LcInit
    /\ build \in Builds /\ owner = "running"
    /\ child = "none"
    /\ factory = "none" /\ handles = {} /\ kernels = {}
    /\ late = {} /\ waited = FALSE
    /\ pc = [t \in Threads |-> "idle"]
    /\ job = [t \in Threads |-> Idle]
    /\ failed = {}

-----------------------------------------------------------------------------
(***************************************************************************)
(* The operations.  Each fits what the program can have at hand.           *)
(***************************************************************************)

\* A request is on its way as soon as it is asked for.
At(what) == IF what \in {"Run", "Kill"} THEN "ready" ELSE "sent"

Invoke(t, op, todo) ==
    /\ owner = "running"
    /\ pc[t] = "idle"
    /\ pc' = [pc EXCEPT ![t] = At(Head(todo))]
    /\ job' = [job EXCEPT ![t] = [op |-> op, todo |-> todo, ok |-> TRUE]]
    /\ failed' = failed \ {t}
    /\ UNCHANGED <<lcVars, build, owner, handles, child, kernels, waited, late>>

NewFactory(t) ==
    /\ factory = "none" /\ factory' = "making"
    /\ Invoke(t, "NewFactory", <<"Run", "SetLoggingLevel", "NewContext">>)

\* Context.Close, then Process.Kill, whatever the former returned.
CloseFactory(t) ==
    /\ factory = "made" /\ factory' = "closing"
    /\ Invoke(t, "CloseFactory", <<"CloseContext", "Kill">>)

\* The program lets go of its factory, and of all that came from it.
DropFactory ==
    /\ owner = "running" /\ factory = "made"
    /\ \A t \in Callers : pc[t] = "idle"
    /\ factory' = "dropped" /\ handles' = {}
    /\ UNCHANGED <<lcVars, build, owner, child, kernels, calling, late>>

\* The finalizer of a Process that nobody can reach any more kills it.
Finalize ==
    /\ factory = "dropped" /\ factory' = "collected"
    /\ Invoke(Collector, "Finalize", <<"Kill">>)

HasClient == factory \in {"made", "closing", "closed"}

Op(t, rpc) == HasClient /\ Invoke(t, rpc, <<rpc>>) /\ UNCHANGED factory

Context_Close(t) == Op(t, "CloseContext")

\* Every recoder of the factory may be started.
Start(t) == handles = Kernels /\ Op(t, "StartRecoding")

GetStats(t) == Op(t, "GetStats")

Wait(t) == Op(t, "RecodingEndedChan")

\* The program opens one input and one output, once.
Opened(k, rpc) ==
    k \in handles \cup kernels \/ rpc \in late \/ \E u \in Callers : job[u].op = rpc

NewInputFromURL(t) == ~Opened("input", "NewInput") /\ Op(t, "NewInput")

NewOutputFromURL(t) == ~Opened("output", "NewOutput") /\ Op(t, "NewOutput")

Input_Close(t) == "input" \in handles /\ Op(t, "CloseInput")

Output_Close(t) == "output" \in handles /\ Op(t, "CloseOutput")

-----------------------------------------------------------------------------
(***************************************************************************)
(* What a caller does next, and what it makes of an answer.                *)
(***************************************************************************)

Doing(t) == Head(job[t].todo)

Does(t, what) == owner = "running" /\ pc[t] = "ready" /\ Doing(t) = what

\* A slip: Factory.Close returns on the first error.
GoesOn_WhenWell(t, ok) == Len(job[t].todo) > 1 /\ ok

\* One thing is done, well or not.  Only Factory.Close goes on after an error.
GoesOn(t, ok) == Len(job[t].todo) > 1 /\ (ok \/ job[t].op = "CloseFactory")

\* A Process without a context is unreachable, and left to its finalizer.
FactoryAfter(t, good) ==
    CASE job[t].op = "CloseFactory" -> "closed"
      [] job[t].op = "NewFactory" /\ good -> "made"
      [] job[t].op = "NewFactory" /\ ~good ->
             IF Doing(t) = "NewContext" THEN "dropped" ELSE "failed"
      [] OTHER -> factory

Advance(t, ok) ==
    LET good == ok /\ job[t].ok IN
    \/ /\ GoesOn(t, ok)
       /\ pc' = [pc EXCEPT ![t] = At(job[t].todo[2])]
       /\ job' = [job EXCEPT ![t].todo = Tail(@), ![t].ok = good]
       /\ UNCHANGED <<failed, factory>>
    \/ /\ ~GoesOn(t, ok)
       /\ pc' = [pc EXCEPT ![t] = "idle"]
       /\ job' = [job EXCEPT ![t] = Idle]
       /\ failed' = IF good THEN failed ELSE failed \cup {t}
       /\ factory' = FactoryAfter(t, good)

\* No operation of a build without libav does anything.
Unsupported(t) ==
    /\ build = "nolibav" /\ owner = "running" /\ pc[t] # "idle"
    /\ Advance(t, FALSE)
    /\ UNCHANGED <<lcVars, build, owner, handles, child, kernels, waited, late>>

-----------------------------------------------------------------------------
(***************************************************************************)
(* run(): the server is started, and reports where it listens.             *)
(***************************************************************************)

RunServer(t) ==
    /\ Does(t, "Run")
    /\ child' = "starting" /\ pc' = [pc EXCEPT ![t] = "report"]
    /\ UNCHANGED <<lcVars, program, kernels, job, failed, waited, late>>

\* A process, if it can be started,
Fork(t) ==
    /\ build = "forking"
    /\ \/ RunServer(t)
       \/ /\ Does(t, "Run") /\ Advance(t, FALSE)
          /\ UNCHANGED <<lcVars, build, owner, handles, child, kernels, waited, late>>

\* ... or a goroutine.
Spawn(t) == build = "noforking" /\ RunServer(t)

RunEncoderServer ==
    /\ owner = "running" /\ child = "starting"
    /\ child' \in {"listening", "failed"}
    /\ UNCHANGED <<lcVars, program, kernels, calling, late>>

Reported(t, ok) ==
    /\ Advance(t, ok)
    /\ UNCHANGED <<lcVars, build, owner, handles, child, kernels, waited, late>>

\* The address comes through the standard output of the child, which others
\* may write to as well.
ReadReport(t) ==
    /\ owner = "running" /\ pc[t] = "report" /\ build = "forking"
    /\ \/ child = "listening" /\ Reported(t, TRUE)
       \/ Reported(t, FALSE)

\* The goroutine closes the channel of the address before that of the error:
\* when both are ready the select may take a nil address from the former.
SelectReport(t) ==
    /\ owner = "running" /\ pc[t] = "report" /\ build = "noforking"
    /\ \/ child = "listening" /\ Reported(t, TRUE)
       \/ Reported(t, FALSE)    \* its context, or an error of the server
       \/ /\ child = "failed" /\ owner' = "crashed"
          /\ UNCHANGED <<lcVars, build, factory, handles, child, kernels,
                         calling, late>>

-----------------------------------------------------------------------------
(***************************************************************************)
(* An RPC, each over a connection of its own.                              *)
(***************************************************************************)

\* Process.Kill: a signal,
Process_Kill(t) ==
    /\ Does(t, "Kill") /\ build = "forking"
    /\ Leave /\ late' = {} /\ Advance(t, TRUE)
    /\ UNCHANGED <<build, owner, handles, child, kernels, waited>>

\* ... or, where there is no process, the RPC Die.
Process_Die(t) ==
    /\ Does(t, "Kill") /\ build = "noforking"
    /\ pc' = [pc EXCEPT ![t] = "sent"]
    /\ job' = [job EXCEPT ![t].todo = <<"Die">>]
    /\ UNCHANGED <<lcVars, program, child, kernels, failed, waited, late>>

\* The server can take a request: Die keeps its mutexes until it stopped.
Serves ==
    /\ owner = "running" /\ child = "listening" /\ server = "serving"
    /\ \A t \in Threads : pc[t] # "stopping"

Started == open \cap (begun \cup cancelled)

\* What the handlers dereference without a check, see RecoderServer.
Panics(rpc) ==
    \/ rpc = "RecodingEndedChan" /\ Context \notin open
    \/ rpc = "GetStats" /\ Context \notin Started
    \/ rpc = "Die" /\ open # Started

\* A server in a goroutine takes the program with it.
Panic ==
    /\ Leave
    /\ owner' = IF build = "noforking" THEN "crashed" ELSE owner
    /\ late' = {}
    /\ UNCHANGED <<build, factory, handles, child, kernels>>

CanStart == Context \in open \ Started /\ kernels = Kernels

\* The effect of a unary RPC, and whether it succeeds.
Effect(rpc, ok) ==
    \/ rpc \in {"SetLoggingLevel", "GetStats"} /\ ok /\ UNCHANGED <<lcVars, kernels>>
    \/ rpc = "NewContext" /\ ok /\ Create /\ UNCHANGED kernels
    \/ rpc = "CloseContext" /\ ok /\ Close(Context) /\ UNCHANGED kernels
    \/ rpc = "CloseContext" /\ ~ok /\ Context \notin open /\ UNCHANGED <<lcVars, kernels>>
    \/ rpc = "StartRecoding" /\ ok /\ CanStart /\ Begin(Context) /\ UNCHANGED kernels
    \/ rpc = "StartRecoding" /\ ~ok /\ CanStart /\ Cancel(Context) /\ UNCHANGED kernels
    \/ rpc = "StartRecoding" /\ ~ok /\ ~CanStart /\ UNCHANGED <<lcVars, kernels>>
    \/ \E k \in Kernels :
          \/ /\ rpc = (IF k = "input" THEN "NewInput" ELSE "NewOutput")
             /\ kernels' = (IF ok THEN kernels \cup {k} ELSE kernels)
             /\ UNCHANGED lcVars
          \/ /\ rpc = (IF k = "input" THEN "CloseInput" ELSE "CloseOutput")
             /\ ok = (k \in kernels)
             /\ kernels' = kernels \ {k}
             /\ UNCHANGED lcVars

Unary == Rpcs \ {"RecodingEndedChan", "Die"}

Handle(t) ==
    /\ Serves /\ pc[t] = "sent" /\ Doing(t) \in Unary
    /\ ~Panics(Doing(t))
    /\ \/ /\ Effect(Doing(t), TRUE)
          /\ pc' = [pc EXCEPT ![t] = "answered"]
          /\ UNCHANGED <<job, factory, failed>>
       \/ Effect(Doing(t), FALSE) /\ Advance(t, FALSE)
    /\ UNCHANGED <<build, owner, handles, child, waited, late>>

Watch(t) ==
    /\ Serves /\ pc[t] = "sent" /\ Doing(t) = "RecodingEndedChan"
    /\ Context \in open
    /\ pc' = [pc EXCEPT ![t] = "watching"]
    /\ UNCHANGED <<lcVars, program, child, kernels, job, failed, waited, late>>

HandlePanic(t) ==
    /\ Serves /\ pc[t] = "sent" /\ Panics(Doing(t))
    /\ Panic /\ UNCHANGED calling

\* A slip: the request is delivered again and again.
HandleLate_Repeated(rpc) ==
    /\ Serves /\ UNCHANGED late
    /\ \E ok \in BOOLEAN : Effect(rpc, ok)
    /\ UNCHANGED <<program, child, calling>>

\* A request whose caller gave up runs all the same.
HandleLate(rpc) ==
    /\ Serves /\ late' = late \ {rpc}
    /\ \E ok \in BOOLEAN : Effect(rpc, ok)
    /\ UNCHANGED <<program, child, calling>>

\* A slip: the inputs stay open.
HandleDie_CancelsOnly(t) ==
    /\ Serves /\ pc[t] = "sent" /\ Doing(t) = "Die" /\ open = Started
    /\ CancelAll
    /\ pc' = [pc EXCEPT ![t] = "stopping"]
    /\ UNCHANGED <<program, child, kernels, job, failed, waited, late>>

\* Die cancels what is registered, closes the inputs, and stops the server.
HandleDie(t) ==
    /\ Serves /\ pc[t] = "sent" /\ Doing(t) = "Die" /\ open = Started
    /\ CancelAll /\ kernels' = kernels \ {"input"}
    /\ pc' = [pc EXCEPT ![t] = "stopping"]
    /\ UNCHANGED <<program, child, job, failed, waited, late>>

\* A slip: the server waits for its handlers, as GracefulStop does.
FinishDie_Graceful(t) ==
    /\ owner = "running" /\ pc[t] = "stopping"
    /\ \A u \in Threads \ {t} : pc[u] \notin {"sent", "watching"}
    /\ StopServer /\ late' = {}
    /\ \E ok \in BOOLEAN : Advance(t, ok)
    /\ UNCHANGED <<build, owner, handles, child, kernels, waited>>

\* The transports are closed before the answer is written.
FinishDie(t) ==
    /\ owner = "running" /\ pc[t] = "stopping"
    /\ StopServer /\ late' = {}
    /\ \E ok \in BOOLEAN : Advance(t, ok)
    /\ UNCHANGED <<build, owner, handles, child, kernels, waited>>

\* A slip: the watchers are told when the recoding is told to end.
AnnounceEnd_TooEarly(t) ==
    /\ Serves /\ pc[t] = "watching" /\ Context \in announced \cup cancelled
    /\ pc' = [pc EXCEPT ![t] = "answered"]
    /\ UNCHANGED <<lcVars, program, child, kernels, job, failed, waited, late>>

AnnounceEnd(t) ==
    /\ Serves /\ pc[t] = "watching" /\ Context \in announced
    /\ pc' = [pc EXCEPT ![t] = "answered"]
    /\ UNCHANGED <<lcVars, program, child, kernels, job, failed, waited, late>>

\* The caller has its answer.
Receive(t) ==
    /\ owner = "running" /\ pc[t] = "answered"
    /\ Advance(t, TRUE)
    /\ handles' = handles \cup {k \in Kernels : Doing(t) =
                     (IF k = "input" THEN "NewInput" ELSE "NewOutput")}
    /\ waited' = (waited \/ Doing(t) = "RecodingEndedChan")
    /\ UNCHANGED <<lcVars, build, owner, child, kernels, late>>

\* The connection breaks, which ends a call with an error but for the stream
\* of RecodingEndedChan: however that ends, the channel it stands for is closed.
Break(t, cancel) ==
    /\ owner = "running" /\ pc[t] \in {"sent", "watching", "answered"}
    /\ \/ /\ Doing(t) = "RecodingEndedChan" /\ Advance(t, TRUE)
          /\ waited' = (waited \/ ~cancel)
       \/ /\ Doing(t) = "RecodingEndedChan" => pc[t] = "sent"
          /\ Advance(t, FALSE) /\ UNCHANGED waited
    /\ UNCHANGED <<lcVars, build, owner, handles, child, kernels>>

\* A slip: an error of the stream is not an end of the loop that reads it.
Lost_StreamGoesOn(t) ==
    /\ server # "serving" /\ pc[t] # "watching"
    /\ Break(t, FALSE) /\ UNCHANGED late

Lost(t) == server # "serving" /\ Break(t, FALSE) /\ UNCHANGED late

\* The context.Context of the caller is cancelled.  It does not wait for the
\* answer any more, but its request may have left.
GiveUp(t) ==
    /\ job[t].op \in Cancellable /\ Break(t, TRUE)
    /\ \/ UNCHANGED late
       \/ /\ server = "serving" /\ pc[t] = "sent" /\ Doing(t) \in Changes
          /\ Cardinality(late) < MaxLate
          /\ late' = late \cup {Doing(t)}

-----------------------------------------------------------------------------
(***************************************************************************)
(* Recodings go on by themselves.  The process of the server may crash.    *)
(***************************************************************************)

Interrupt ==
    /\ owner = "running" /\ Context \in running /\ Cancel(Context)
    /\ UNCHANGED <<program, child, kernels, calling, late>>

Finish ==
    /\ owner = "running" /\ End(Context)
    /\ UNCHANGED <<program, child, kernels, calling, late>>

Crash ==
    /\ owner = "running" /\ child = "listening" /\ server # "gone"
    /\ Panic /\ UNCHANGED calling

Call(t) ==
    \/ NewFactory(t) \/ CloseFactory(t)
    \/ NewInputFromURL(t) \/ NewOutputFromURL(t) \/ Input_Close(t) \/ Output_Close(t)
    \/ Context_Close(t) \/ Start(t) \/ GetStats(t) \/ Wait(t)

Go(t) ==
    \/ Unsupported(t) \/ Fork(t) \/ Spawn(t) \/ ReadReport(t) \/ SelectReport(t)
    \/ Process_Kill(t) \/ Process_Die(t) \/ FinishDie(t) \/ Receive(t)

Serving(t) == Handle(t) \/ Watch(t) \/ HandlePanic(t) \/ HandleDie(t) \/ AnnounceEnd(t)

System ==
    \/ RunEncoderServer \/ Crash
    \/ \E t \in Threads : Go(t) \/ Serving(t) \/ Lost(t)
    \/ \E rpc \in late : HandleLate(rpc)
    \/ Interrupt \/ Finish

\* The program may stop calling.
Quiet == (owner # "running" \/ \A t \in Callers : pc[t] = "idle") /\ UNCHANGED vars

Next ==
    \/ System \/ Quiet
    \/ DropFactory \/ Finalize
    \/ \E t \in Callers : Call(t) \/ GiveUp(t)

Spec == Init /\ [][Next]_vars

-----------------------------------------------------------------------------
(***************************************************************************)
(* Fairness: goroutines, handlers and timers run; the child reports, if it *)
(* was started; a recoding that was told to end does, and one whose input  *)
(* was closed is told so by its own error.  Nothing is promised of an      *)
(* opening (libav may hang), nor of a finalizer, nor of a late request.    *)
(***************************************************************************)

Opens(t) == pc[t] # "idle" /\ Doing(t) \in {"NewInput", "NewOutput"}

Progress(t) ==
    \/ child # "starting" /\ Go(t)
    \/ ~Opens(t) /\ Serving(t)
    \/ Lost(t)

InputClosed == "input" \notin kernels /\ Interrupt

Fairness ==
    /\ \A t \in Threads : WF_vars(Progress(t))
    /\ WF_vars(RunEncoderServer) /\ WF_vars(InputClosed) /\ WF_vars(Finish)

-----------------------------------------------------------------------------
(***************************************************************************)
(* Properties.                                                             *)
(***************************************************************************)

\* Recoder.Wait returns nil to a caller that did not cancel it only when the
\* server has announced the end of the recoding, or serves no more, whatever
\* ended the stream that stands for it.
WaitTruthful == waited => Context \in announced \/ server # "serving"

\* Once Factory.Close returned, its server takes no call any more, whatever
\* became of the context that Close closes first.
CloseStopsServer == factory = "closed" /\ owner = "running" => server # "serving"

\* ... and if its process is not gone, it has no input open any more: the request
\* that made the server stop closed them all, and none that was on its way
\* meanwhile opened another one.
ClosedHasNoInput ==
    factory = "closed" /\ owner = "running" =>
        \/ server = "gone"
        \/ server = "stopped" /\ "input" \notin kernels

\* What a closed factory's server does can only end: no call, late or not,
\* starts a recoding, or opens an input or an output.
ClosedStartsNothing ==
    [][factory = "closed" /\ owner = "running"
          => running' \subseteq running /\ kernels' \subseteq kernels]_vars

\* ... and it is not left encoding, although closing the context dropped the
\* function that cancels its recoding: the process is gone, or Die closed the
\* input.
ClosedIsQuiet ==
    factory = "closed" ~> running = {} \/ server = "gone" \/ owner # "running"

\* Every call of the library returns, Wait and the opening of inputs and
\* outputs excepted, whatever the process of the server does.
CallsReturn ==
    \A t \in Threads :
        pc[t] # "idle" /\ job[t].op \notin {"RecodingEndedChan", "NewInput", "NewOutput"}
            ~> pc[t] = "idle" \/ owner # "running"

\* Wait returns once the recoding is over, or the server is.
WaitReturns ==
    \A t \in Callers :
        (/\ pc[t] # "idle" /\ job[t].op = "RecodingEndedChan"
         /\ Context \in announced \/ server # "serving")
            ~> pc[t] = "idle" \/ owner # "running"
=============================================================================
