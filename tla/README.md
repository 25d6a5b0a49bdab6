# recoder in TLA+

recoder re-encodes a media stream on its way from an input to an output. It is a Go library with
several back ends behind one set of interfaces (`Factory`, `Encoder`, `Recoder`, `Input`, `Output`)
and an RTMP relay that publishers and players connect to. The repository has no documentation of its
own and one test (`config_test.go`); the models are translated from the code, and what the code
promises is read from its names, its error messages and its comments.

Paths below are relative to `src/`; line numbers are those of `PROJECT.json` ("map").

- [Inventory](#inventory): the parts, their state, and what makes each correct
- [Models](#models): how the modules correspond to the code
- [Runs](#runs): what is model-checked, the bounds, the fairness
- [Findings](#findings): where the code does something else than it says
- [Proofs](#proofs): what is proved for every value of the constants, and how
- [What is not modelled](#what-is-not-modelled)
- [Plan](#plan): what comes next, and in which order

## Inventory

| part | files | state | hard behaviour |
|---|---|---|---|
| gRPC recoder server | `libav/process/server/server.go` | three registries with an ID counter and a mutex each; per context a cancel function, two nodes, an end channel | concurrent RPCs, an asynchronous pipeline, shutdown under load |
| RTMP relay registry | `xaionaro-go-rtmp/yutoppgortmp/relay_service.go`, `handler.go`, half of `pubsub.go` | name to Pubsub map, its change channel, publishers, subscribers, per connection `pub`, `sub`, `isClosed` | takeover, unlocked removal, closing in goroutines, lost wake-ups |
| RTMP publish/subscribe path | `yutoppgortmp/pubsub.go`, `callback.go` | cached headers and key-frame group, a send queue for each subscriber | a full queue, a subscriber that joins in mid-stream |
| encoder process | `libav/process/run_libav_*.go`, `init_libav.go`, `process.go` | a forked child and its pipe, or an in-process server | handshake failures, kill against a late reply, a finalizer |
| libav client and session | `libav/process/client/client.go`, `libav/*.go` | a connection for each call; one process and one context per factory | an answer lost when the server stops, a request that outlives its caller, a stream that ends for any reason |
| streamforward command | `cmd/streamforward/main.go` | two goroutines and the context they share | the end of the recoding, the ticker and the cancelled context race |
| RTMP recoder | `xaionaro-go-rtmp/*.go` | the stream and the `Sub` of a recoder | start, close and wait called in any order |
| livego recoder | `livego/*.go` | a relay as a URL pair in an external server | as above |
| encoder configuration, conversions | `config.go`, `libav/grpc/goconv` | a configuration on its way to the encoders | round trips, widths, panics on either side |
| stream index assignment | `server/frame_streams_merger.go` | the numbers of the streams that encoders are fed | numeric edges |

### gRPC recoder server

*State*: `Context`, `Input`, `Output` (maps from IDs), `ContextNextID`, `InputNextID`,
`OutputNextID`, and `ContextLocker`, `InputLocker`, `OutputLocker`. A `Context` has
`RecoderCancelFn`, `RecordingEndChan` (closed once, through `CloseOnce`) and the two nodes of the
pipeline.
*Operations*: `NewContext`, `CloseContext`, `NewInput`, `CloseInput`, `NewOutput`, `CloseOutput`,
`StartRecoding`, `RecodingEndedChan`, `GetStats`, `Die`, `SetLoggingLevel`.
*Interactions*: each RPC runs in a goroutine of grpc-go. `StartRecoding` leaves two goroutines
behind: one runs `avpipeline.Serve` and then, deferred, cancels `pipelineCtx` and closes the end
channel; the other cancels `pipelineCtx` when the pipeline reports an error. `Die` stops the gRPC
server, whose `Serve` then returns to `init_libav.go`, which ends the process.
*Correct when*: no two handlers are in one map together; no handlers wait for one another's
mutexes; the end of a recoding is announced when, and only when, it ended; whoever waits for it is
told; after `Die` nothing goes on and nothing starts.

### RTMP relay registry

*State*: `RelayService.streams`, `RelayService.streamsChanged` (a channel closed at each change and
replaced), `RelayService.m`; for each `Pubsub` its `publisherHandler`, `subs` and `m`; for each
`Handler` `pub`, `sub`, `isClosed`.
*Operations*: `NewPubsub`, `GetPubsub`, `WaitPubsub`, `RemovePubsub`, `Pub.Close`, `Pubsub.Sub`,
`Sub.Close`, `Handler.OnPublish`, `OnPlay`, `OnClose`.
*Interactions*: go-rtmp calls a handler's callbacks from the message loop of its connection, and
`OnClose` when the connection is gone. A second publisher of a name takes it over: `NewPubsub`
deregisters the old `Pubsub` and closes the connection of its publisher. That publisher's `OnClose`
then deregisters the same `Pubsub` again, without `RelayService.m`.
*Correct when*: what is listed has a live publisher or one who is being closed; what is published is
listed; a closed connection leaves nothing behind; a subscriber of a stream that ended is closed;
`WaitPubsub` returns once the stream it waits for is there; every call returns.

### libav client and session, encoder process

*State*: of the program, its factory (one `Process`, one `Context`), the IDs of its inputs and outputs; of
the process, whether it runs and listens; requests and answers on their way.
*Operations*: `NewFactory`, `Factory.Close`, `Context.Close`, `Recoder.Start`, `Wait`, `GetStats`,
`NewInputFromURL`, `NewOutputFromURL`, `Input.Close`, `Output.Close`, the finalizer of `Process`.
*Interactions*: `run()` forks a child, which writes its address to its standard output, or starts the server in
a goroutine; every call dials a connection of its own; `Process.Kill` is a signal, or the RPC `Die`.
*Correct when*: `Wait` returns nil only when the recoding is over; a closed factory leaves nothing that serves
or encodes; every call returns, whatever happens to the process.

### The other parts

*Publish/subscribe path*: `Publish` hands each tag to the queue of each subscriber and caches what a
new subscriber needs (AVC and AAC headers, the last key frame, and was meant to cache the tags since); correct
when each subscriber is sent what it is owed, in order and without repetition, and nothing after a tag it missed.
*streamforward*: correct when it exits only once its recoding is over, and then does. *Configuration and stream
indices*: correct when what the encoders get is what was asked for, when no configuration brings the server down, and
when no stream is fed with packets of two kinds. *RTMP and livego recoders*: correct when a started recoding can be
closed and waited for, and cannot be started twice.

## Models

| module | what it is |
|---|---|
| `RecoderServer` | the gRPC server, its mutexes, handlers and pipelines |
| `RecodingLifecycle` | what that server promises of its recodings; `RecoderServer` implements it |
| `RelayService` | the registry of the relay, its connections and how streams are taken down |
| `StreamLifecycle` | what the registry promises of the streams it lists; `RelayService` implements it |
| `PubSub` | the media path of the relay: the publisher, the queues, the senders |
| `LossyFeed` | what the media path promises each subscriber; `PubSub` implements it |
| `LibavSession` | the library an embedding program links, over `RecodingLifecycle` in the place of the server |
| `StreamForward` | the command `streamforward`, composed with `LibavSession` |
| `EncoderConfig` | a configuration on its way through YAML and gRPC to the encoders and their streams |
| `MCRecoderServer`, `MCRelayService`, `MCPubSub`, `MCStreamForward`, `MCEncoderConfig` | small instances |
| `RecoderServerProofs`, `RecoderLifecycleProofs`, `RelayServiceProofs`, `PubSubProofs`, `PubSubFeedProofs`, `LibavSessionProofs`, `StreamForwardProofs`, `EncoderConfigProofs` | the theorems |

Definitions whose comment begins "A slip" are variants of the definition below them with a mistake
that is easy to make; `Next` does not use them. `PROJECT.json` ("mutants") says which property
notices each.

### RecoderServer

`Calls` are goroutines that handle RPCs; each takes another call when it returned. A handler's `pc`
walks along `LockPath`: a kernel is opened before any mutex is taken (`opening`), each mutex is a
step of its own (`Acquire`), and the work of the RPC is one step at `body`, where all its mutexes are
held, so no other handler can see its intermediate states except through the one pair of RPCs that
takes different mutexes for the same map; that pair is `ConcurrentMapAccess`.
`RecodingEndedChan` unlocks before it waits, and `Die` keeps its mutexes while it stops the server:
both have two steps.

| in the module | in the code |
|---|---|
| `context`, `input`, `output`, `...NextID` | the keys of the maps, the counters |
| `openInputs`, `openOutputs` | kernels that are not closed, in a map or not |
| `started` | contexts with `RecoderCancelFn # nil` |
| `wiring` | the kernels of a context's two nodes |
| `cancelled` | `pipelineCtx` is done |
| `ended` | `RecordingEndChan` is closed |
| `launched`, `serving`, `unwinding`, `closing` | the pipeline goroutine: started; in `Serve`; before its deferred `cancelFn`; before its deferred `Close` |
| `owner`, `pc`, `req` | the mutexes and the handlers |

IDs that clients pass were assigned before (`RequestsOf`) but may have been closed since. A panic in a
handler ends the process (`Panic`): `RecodingEndedChan` and `GetStats` of a context that is gone, `Die`
with a context that was never started, two goroutines in one map.

*Taken from outside `src/`*: grpc-go 1.72.1 does not recover panics of handlers, and `Server.Stop`
cancels streams without waiting for handlers; `avpipeline.Serve` returns when its context is done; a
node whose kernel was closed reports an error; `xsync.Mutex` is not reentrant and its `Do` helpers
unlock by `defer`.

### RecodingLifecycle

The abstract specification knows contexts and recodings only: `Create`, `Begin`, `Cancel`, `End`,
`Close`, `CancelAll`, `StopServer`, `Leave`. A recoding begins at most once, on an open context of
which no end was announced; it ends cancelled and is announced as it ends; a stopped server has
cancelled what it still answered for, and begins nothing. The mapping is in `RecoderServer`
(`Lifecycle`): `running` is the set of contexts whose pipeline goroutine exists, `announced` is
`ended`, and both crash and exit are `"gone"`. Steps on mutexes, inputs and outputs map to
stuttering.

### RelayService

A `Pubsub` is known by its number. Each connection has two threads, its message loop and the
goroutine of `OnClose`; `Admins` call `RemovePubsub` and `Waiters` call `WaitPubsub`. Because
`Pub.Close` works on the registry under the mutex of its own `Pubsub` and not under
`RelayService.m`, `deregister` and `removePubsub` are cut into the steps between which others can
run:

| step | code |
|---|---|
| `Drain` | the subscribers leave the map, the goroutine that is to close them is spawned |
| `Check` | is the name in the map? |
| `Delete` | the entry is deleted, `streamsChanged` is read |
| `Announce` | `streamsChanged` is replaced, the channel that was read is closed |
| `Cut` | `publisherHandler` is closed and cleared; `Pub.Close` goes on to `closedChan` |

`NewPubsub` goes through the same steps when it takes a name over, then `Register` and `Announce`
again. A thread holds `RelayService.m` exactly when `HoldsRegistry` says so, which is a function of
where it is. Two threads that read the same channel both close it: the second panics
(`DoubleClose`), which ends the process, or only the connection when go-rtmp recovers the panic of
a message loop. Maps that are used together without a mutex may end the process
(`ConcurrentMapAccess`), or the accesses follow one another.

| in the module | in the code |
|---|---|
| `streams`, `changed`, `closedChans` | `streams`; the current `streamsChanged`, by number; the channels that are closed |
| `pubsubs[p]` | the name and the `publisherHandler` of a Pubsub |
| `subs` | pairs of a Pubsub and a handler whose `Sub` is in its map |
| `sweeps` | goroutines of `deregister` that are to close subscribers |
| `told` | Pubsubs whose `Pub.closedChan` was closed by `Pub.Close` |
| `closedConns`, `isClosed` | the connection is closed; `OnClose` ran |
| `pub`, `sub` | `Handler.pub`, `Handler.sub` |
| `pc`, `job` | the threads; `job.seen` is the channel a thread read and is about to close |
| `wait` | calls of `WaitPubsub`; `cur` is the Pubsub it wants another one than |

*Taken from outside `src/`*: go-rtmp calls `OnClose` once after a connection is closed, by whichever
side, at any later time and in any goroutine; it may recover a panic of its message loop. A
subscriber's queue can be full whenever the publisher of its stream is sending (`QueueFull`): the
tags themselves belong to `PubSub`.

### StreamLifecycle

The abstract specification knows streams by their numbers and names by the stream listed under each: `List`,
`Unlist`, `End`, `Tell`. A name is given to a new stream, and only where it is free; a stream that was taken off is
never listed again; it loses its publisher only once it is off the list, and that is announced to nobody before it is
so. `RelayService` (`Streams`) maps to it by forgetting everything but `streams`, which Pubsubs there are, which of them
have no `publisherHandler`, and `told`. `Delete` is `Unlist` or, if somebody else deleted the name meanwhile, a
stutter; `Cut` is `End` of the first who cuts and a stutter or `Tell` of the second; only `Register` lists. That it
finds its name free rests on `RelayService.m`: who removes an entry need not hold it, but everybody who adds one does.

### PubSub

One publisher and the subscribers of its `Pubsub`. `RelayService` models how they find one another
and how they are taken down; here `Sub`, `Disconnect` and `Deregister` may happen at any time, and the
tags flow. A tag is its number in the order of publication; its kind is what `Publish` looks at: a
sequence header of either codec, a key frame, anything else.

`Publish` updates the cache and starts a walk over the map, which it reads without `Pubsub.m`: who is
removed before he is met is not met, who is added may be met (`due`, `seen`). Meeting a subscriber
(`Visit`) is `InitSub`; each `Submit` is a step, so that the sender may make room, or a closer close,
between the tags of one burst. `Pull` and `OnEvent` are the two halves of a turn of `senderLoop`.
`Sub.Close` is cut at its mutexes: `Cancel`, `CloseConn` (under `Sub.locker`), `RemoveSub` (under
`Pubsub.m` as well).

| in the module | in the code |
|---|---|
| `cache` | the fields of `Pub`; `sincePrevKeyFrame` is a set of at most one sequence, empty for nil |
| `subs`, `made`, `inited` | `Pubsub.subs`; the Subs created; those whose `initOnce` is used up |
| `burst`, `from` | the `initTags` each one was given, and the tag that was being published then |
| `out`, `cur` | what `Publish` is about to submit, and to whom |
| `queue`, `hand`, `sent` | `sendQueue`; the tag `senderLoop` holds; what was written |
| `dropped`, `unsent` | lost to a full queue; to a closed subscriber or a failed write |
| `ctxDone`, `closed`, `connClosed`, `closer` | the steps of `Sub.Close` and who is at which |

A second goroutine that `Submit` spawns for a subscriber finds it closed and changes nothing, so one
stands for all. `nil[:0]` is nil in Go, so that `sincePrevKeyFrame` stays nil for ever: the model
keeps the code that appends to it, which never does.

### LossyFeed

The abstract specification has a line of tags for each subscriber, between what was published and what arrived. A tag
may be lost from anywhere in the line (`Lose`), but it does not overtake another, is not given twice, and once lost is
not delivered. Only who is in the audience is given anything, first what came before (`Prime`), then each latest
tag (`Offer`); nothing is delivered once the connection is gone. The mapping (`Feed` in `PubSub`) takes for the line what the
sender holds, its queue and what `Publish` is about to submit (`Under`), for what is lost `dropped` and `unsent`, for
who is gone `connClosed`. `Visit` is `Prime` or `Offer`; `Submit` to a subscriber with room and `Pull`
are stutters; a refused `Submit` and a failed write are `Lose`; a write is `Deliver`.

### LibavSession

The server is the abstract one: its variables are those of `RecodingLifecycle`, whose steps (`Create`, `Begin`,
`Cancel`, `Close`, `CancelAll`, `StopServer`, `Leave`) are the effects of the RPCs. That `RecoderServer` is such a
server is what `Refinement` proves, so what holds here holds of the two together, as far as contexts and
recodings go; inputs and outputs are added as a set of kernels.

A caller is a goroutine of the program. An operation is a list of things to do (`todo`), most of them RPCs, and
`Advance` is what the library makes of each answer: it goes on, or returns, and only `Factory.Close` goes on after
an error.

| in the module | in the code |
|---|---|
| `build` | the build tags: a forked process, a goroutine, or no libav at all |
| `child`, `server` | `run()`'s process or goroutine up to its report; the gRPC server behind it |
| `factory` | the `Factory`; `"dropped"` when only its finalizer can reach it |
| `pc[t]` | `"sent"`: the server may have the request; `"watching"`: its handler waits for the end channel; `"answered"`: the answer is on its way; `"report"`: `run()` reads the address; `"stopping"`: `Die` is in `Server.Stop` |
| `late` | requests whose callers gave up, which the server executes all the same |
| `waited` | a `Wait` that nobody cancelled returned nil |
| `kernels`, `handles` | what the server has open, what the program was told of |

What fails: the fork, the handshake, the listener (which may hand the select a nil address and crash the program,
`SelectReport`); any answer, once the server stopped or its process is gone (`Lost`); the process of the server, at
any time (`Crash`); a call that is given up (`GiveUp`). However the stream of `RecodingEndedChan` ends, `Wait`
returns nil, as in the code. A panic of the server is that of `RecoderServer`: `GetStats` of a context that was not
started, `RecodingEndedChan` of one that is not open, `Die` with an open context that was never started. In the
noforking build it takes the program along.

A recoder of the same factory is not distinguished from another: all use the factory's one context. The
program opens one input and one output. Contexts that `RecoderServer` would number higher are not made by a factory.

### StreamForward

`stage` is what `main()` asked for last. `"none"` is any other program, so that one run checks the library under both.
`Open` walks through the calls of `main`, `Wait` runs in a second goroutine whose return calls `cancelFn`,
`Tick` is a turn of the loop that prints counters, and `main` returns (`Return`) or calls `l.Fatal` (`Fatal`).
`Return` and `Tick` are both possible when the context is done: a Go `select` takes either.

### EncoderConfig

A configuration starts as a Go value (`asked`), may be written to YAML, be edited there and read again, and is
sent to the server, which converts it back, checks it and opens encoders. The conversions are operators, named as
the functions they stand for, and do what those do: bitrates and qualities are cut to 32 bits, track IDs go
through an unsigned 64-bit type, codecs are renumbered, a missing quality or codec panics. YAML keeps of a
number its form (`int`, too large for one, a float with or without a fraction), because each quality accepts one
form only, and because the map is marshalled once more on the way, which turns `7.0` into `7`. `StreamIndexAssign`
is what the server's muxer is told of a packet.

Two consequences are in the model as they are in the code: a constant quality that was saved is never loaded again,
unless somebody gave it a fraction, which it then loses; and loading from JSON calls itself without end.

## Runs

| run | instance | what it shows |
|---|---|---|
| `server` | 2 handlers, 1 context, 1 input, 2 outputs | types, `RegistryExclusive`, `NoLockCycle`, `NoAbandonedWaiter`, `ShutdownCutsInputs`, that the server implements `RecodingLifecycle`, `WaiterReleased`, `HandlersReturn` |
| `server_output_map`, `server_ended`, `server_started` | 2 handlers | three [findings](#findings) |
| `relay_safety` | 2 connections, 1 name, 2 Pubsubs, 1 waiter, 1 caller of `RemovePubsub` | types, `NoLostWakeup`, `LeavesNothing`, `ListedIsKnown`, that the registry implements `StreamLifecycle` |
| `relay_liveness` | the same without `RemovePubsub` | `HandlerDetached`, `CallsReturn`, `WaiterServed` |
| `relay_takeover`, `relay_subscribers` | the same without `RemovePubsub` | two [findings](#findings) |
| `pubsub` | 1 subscriber, 3 tags, queue of 2 | types, `NothingForgotten`, `SentInOrder`, `NoSilentGap`, `BurstHasItsHeaders`, `LossIsNoticed`, that the media path implements `LossyFeed`, `PublisherNotBlocked`, `LostIsClosed` |
| `pubsub_gap` | 1 subscriber, 3 tags, queue of 1 | a [finding](#findings) |
| `session` | 2 goroutines and the finalizers', 1 late request, 3 builds, with and without `streamforward` | types, `WaitTruthful`, `ClosedHasNoInput`, `ClosedStartsNothing`, `ExitJustified`, `AsksNothingFatal`, `ClosedIsQuiet`, `CallsReturn`, `WaitReturns`, `ForwardEnds` |
| `encoder_config` | 8 thousand configurations, streams 0 to 2, words of 6 and 7 bits for 32 and 64 | types, `SurvivesTheFile`, `SurvivesTheWire`, `ServerSurvives`, `MediaKeptApart` |

*Why the bounds are enough.* Each conflict of the server is one of two calls, `Die` among them, and involves one context
with its two kernels; a second output is what a `NewOutput` and a `CloseOutput` need to meet. The safety properties
of that run are proved for any number of handlers and objects; two handlers let a liveness property be checked beside
them. `MaxContexts`, `MaxInputs` and `MaxOutputs` stop clients from asking for more and change no handler. In the
relay, two connections and two Pubsubs of one name are a takeover, its victim and the victim's late close; different
names share only `streamsChanged`, which one name exercises as well: each publication changes it up to twice.
`MaxPubsubs` stops connections from publishing. What `relay_safety` checks, its refinement among it, is proved for
any number of each. In `pubsub` each property is about one subscriber at a time; three tags are the fewest with which a header
can follow a key frame after another header preceded it, and a burst of three overflows the queue. `MaxTags`
silences the publisher. Its invariants and its refinement are proved for any number of each, too. In `session` two goroutines are what
`streamforward` has, and what a race needs: one waits or starts while the other closes; `MaxLate` bounds the requests
that nobody waits for, of which one is enough to start a recoding behind everybody's back; its invariants and
`ClosedStartsNothing` are proved for any number of goroutines and of late requests. In `encoder_config` the values lie at, below and beyond
each width and each bound of the code (an int, a word, the exponent form of YAML); the widths are parameters,
and its invariants are proved for all of them. Symmetry (handlers, connections) is used where no liveness is checked:
members of those sets are only compared for equality.

*Deadlock* is checked by every run but one. A server that is gone may stop (`Terminated`), and so may a relay
whose connections are all closed, or a publisher that is silent, or either once its process ended
(`Quiet`); nor need a program that has no call under way make another. A configuration comes to the end of its way,
so that `encoder_config` does not check for deadlock; nothing else may stop.

### Fairness

*Server*: weak fairness of each handler's steps, because goroutines run; strong fairness of taking a
mutex, because a Go mutex in its starvation mode hands itself to a waiter that keeps losing; weak
fairness of `ServeReturns` once the pipeline is cancelled and of `PipelineError` once a kernel of it
is closed, as assumed of avpipeline; weak fairness of the deferred calls. Nothing is assumed of
calls that arrive, kernels that are being opened (a connection attempt may hang), inputs that end, or
clients that cancel.

*Relay*: weak fairness of each thread's step, of `OnClose` of a closed connection, of the goroutines
that close subscribers, and of `WaitPubsub`'s loop. Nothing is assumed of what peers or the embedding
program do, of queues that fill, or of which way a panic ends. `RelayService.m` needs no strong
fairness in the instance: what takes it again and again is a publisher, which `MaxPubsubs` ends.

*Media path*: weak fairness of the publisher's walk, of each sender, each closer and of `OnClose`. A
sender's `select` may prefer the tags that are left to the end of its context, as long as there are any.

*Library*: weak fairness of each goroutine's next step, of the handlers of its requests and of the loss of its
connection once the server stopped, because goroutines run and a broken connection is noticed; of the report of a
process that was started; of the end of a recoding that was cancelled, and of the error that a recoding gets whose
input was closed, both as promised by `RecodingLifecycle` and assumed of avpipeline. Nothing is assumed of a
kernel that is being opened, of finalizers, of late requests, of the program's calls, nor that the process crashes.
For `streamforward`, weak fairness of `Fatal` and strong fairness of `Return`: a select with two ready channels
picks among them at random, so that it does not take the ticker for ever.

### What the properties are about

- `RegistryExclusive` compares what the RPCs *touch* with the mutexes they *took*; the exception it
  names is the finding on `CloseOutput`, and it says there is no other.
- `NoLockCycle` quantifies over all sets of handlers, not over pairs.
- `EndSignalTruthful`, `NoAbandonedWaiter` and `WaiterReleased` are the promise of
  `RecodingEndedChan`: it is not told too early, it is not forgotten, it is told. Each is about the
  order of two deferred calls, a once-only close, and two RPCs that drop contexts.
- `ShutdownCancels` and `ShutdownStartsNothing` are about calls that `Die` overtook: they wait for
  mutexes which `Die` holds, and run after it in a server that stopped. These two and `EndSignalTruthful` are
  theorems; no run checks them on their own, since every behaviour of `RecodingLifecycle` has them
  (`StopServer`, `Begin`, `End` and `Close` have their guards).
- `ShutdownCutsInputs` is about the recodings that nobody can cancel any more, because `CloseContext` disowned them.
  They lose their inputs, and none that `Die` overtook gives them another. With the fairness assumed of a pipeline whose
  input was closed, they end: that is the server's side of `ClosedIsQuiet` below.
- `NoLostWakeup` and `WaiterServed` are about the channel that `removePubsub` and `NewPubsub` read,
  replace and close in three steps under different mutexes.
- `ListedHasPublisher` is what makes a takeover work: the entry goes before `publisherHandler` does. `ListedIsKnown`
  includes it, and goes on to say who answers for a stream: the handler whose `pub` it is, who removes it if he
  is closed. It names the three ways the code leaves to be listed and not known: `OnPublish` has yet to come to
  the assignment, or panicked; the connection was closed before it did, whereupon `OnPublish` answers an error and
  leaves its stream behind (`handler.go:93`); or the connection published a second stream (`handler.go:95`). It says
  that there is no fourth.
- `LeavesNothing` is the converse: whose `OnClose` is done has neither a stream nor a subscription left of those its
  handler knew, and is given none again, though `OnPublish` and `OnPlay` may be under way.
- `HandlerDetached` says that a connection which closes during its own `publish` or `play` leaves
  nothing of the stream it was known by, and that nothing comes back later.
- `CallsReturn` holds although `NewPubsub` deregisters under its own non-reentrant mutex.
- `NothingForgotten` is conservation: what a subscriber was given when it joined and all that was published
  since is with it, under way, or lost for a reason the code gives. `SentInOrder` says that the burst and the
  live tags join without a repetition or an exchange, though the walk meets subscribers in any order and the
  map changes under it.
- `NoSilentGap` follows a subscriber after it left the map, where `NothingForgotten` says nothing: what was due before
  a tag that it was sent was sent as well, or lost for a reason. `LossIsNoticed` says that a reason is noticed: the
  subscriber is closed and forgotten, or one of the two goroutines that may do it has yet to come to it, although
  each leaves it to the other when it finds that the other began.
- `BurstHasItsHeaders` is what the `BeforeKey` and `AfterKey` fields are for.
- `WaitTruthful` and `ExitJustified` say that none of the many ways in which a stream can end makes a goroutine, or
  the command, believe in the end of a recoding that goes on. `WaitReturns` and `ForwardEnds` are their converses.
- `AsksNothingFatal` is why `streamforward` does not run into the handlers that use a context unchecked: it must
  hold through late starts, lost answers and crashes.
- `CloseStopsServer`, `ClosedHasNoInput` (which includes it), `ClosedStartsNothing` and `ClosedIsQuiet`: `Factory.Close` closes the context first, which drops the only function
  that could cancel its recoding. The server stops all the same, and in the noforking build, where no process ends
  with it, the recoding ends only because `Die` closes the inputs. Requests that nobody waits for any more may arrive all the while:
  none opens an input or starts a recoding after `Die` closed them.
- `CallsReturn` of the library covers the handshake, `Die` and its lost reply, and calls that are given up.
- `SurvivesTheFile` and `SurvivesTheWire`: a value arrives as it was, or not at all; the exception the second names
  (bitrates beyond 32 bits) is what the code cuts silently.
- `ServerSurvives` relates the checks of the client's conversion to the panics of the server's.
- `MediaKeptApart` compares the numbers that `StreamIndexAssign` gives to streams of different media, which are offset
  by how many input IDs are mapped, not by how many tracks there are.
- `LostIsClosed` needs the submitter's goroutine, the connection's handler and the sender to agree, whoever of
  the first two comes first.

## Findings

1. **`CloseOutput` takes the mutex of the inputs** (`server.go:302`). It deletes from `srv.Output`
   while `NewOutput`, under `OutputLocker`, writes it. Run `server_output_map`.
2. **`CloseContext` announces the end of a recoding that goes on** (`server.go:184`). The end channel
   is closed, the context is forgotten, its pipeline is not cancelled, and no later call, not even
   `Die`, can reach its cancel function. Run `server_ended`.
3. **A refused configuration leaves the context started** (`server.go:380`). The cancel function is
   stored before the configuration is checked; the context then answers "the recoder is already
   started" for ever, and whoever waits for its end waits until `CloseContext`. Run `server_started`.
4. **A publisher that was taken over removes its successor** (`relay_service.go:131`). The takeover
   closes the old connection, whose `Pub.Close` deletes the name, whatever Pubsub it names by then:
   players are told the stream is not found while it is being published. Run `relay_takeover`.
5. **The subscribers of a stream that ended are not closed** (`pubsub.go:61`). The map is emptied
   before the goroutine that walks it starts. Run `relay_subscribers`.
6. **Tags are sent after a gap** (`pubsub.go:350`). A tag that a full queue refuses closes the subscriber
   "because cannot restore from this", but in a goroutine of its own: until that runs, the sender makes room and
   later tags are queued and sent. Run `pubsub_gap`.

The models also contain crashes that no line of the repository rules out, so that they are hazards
and not findings: a nil context in `RecodingEndedChan` and `GetStats`, a nil cancel function in
`Die`, a channel that `removePubsub` closes twice, maps used by two goroutines at once, a nil address when an
in-process server cannot listen.

## Proofs

Each theorem holds for every value of the constants, from the named assumptions of the modules only
(`NoCallAssumption`, `NoHandlerAssumption`, `KeysAssumption`: a nil is none of the values, there is a
name; `QueueLengthAssumption`: a queue has room for one tag; `CollectorAssumption`, `GoroutinesAssumption`: the finalizers'
goroutine is none of the program's, and `streamforward` has two; `BoundAssumption`, `BuildsAssumption`; the widths of
`EncoderConfig`, one smaller than the other, and what a configuration is).

**`RecoderServerProofs`.** `TypeOK` is not inductive: that a handler's request names assigned IDs is
needed for the bodies. `LockInv` says of each handler that it owns exactly the mutexes its control
point says, in the order `LockPath` lists them. From it follow `TypeCorrect`, `MutualExclusion` (two
bodies that touch one map hold a mutex in common, but for one pair) and `DeadlockFree`: the mutexes
have ranks, every handler waits for one of a higher rank than all it owns, so in any set of handlers
that wait, the one waiting for the highest rank waits for a handler outside the set. TLC shows that for
three handlers, the theorem for any number.

**`RecoderLifecycleProofs`.** `RecodingInv` relates the four stages of a pipeline to the signals: the
stages exclude one another, a recoding past `Serve` has been cancelled, one past its deferred calls has
announced its end. `StopInv` adds what `Die` leaves behind: while a handler is at `stopping` it owns all
three mutexes, so it is alone, and once the server stopped no context is left to start. Together with
`NoAbandonedWaiter` they are inductive (`LifecycleInvariant`) and give `EndSignal`, `WaitersKept`,
`ShutdownComplete`, `ShutdownFinal`. `Refinement` maps each step to a step of `RecodingLifecycle` or to
a stutter under these invariants. `CutInv` is about the inputs that are open: all of them are in the map, so that
`Die`, which walks it, closes them; and while a handler is at `stopping`, or once the server stopped, nothing that is
wired is open. `NewInput` may open another in a stopped server, but no context is left to wire it. `ShutdownCuts`
follows.

**`RelayServiceProofs`.** `RelayInv` does not mention `RelayService.m`: the argument cannot rest on a mutex that
`Pub.Close` does not take. It says that a thread which deregisters a Pubsub knows its name; that from the
removal on (`announce`, `cut`) *no name* is mapped to that Pubsub, which stays so because a Pubsub enters
the registry once, by its own `NewPubsub`; and that every channel but the current one is closed, which each
`Announce` keeps because a thread either closes the channel it replaces or panics. The first two give
`ListedStreamHasPublisher`, the last `WaitPubsubMissesNothing`. `RelayTypeCorrect` includes that no thread, map
or waiter refers to a Pubsub that was never made.

Where the mutex does matter is `StreamRefinement`: `MutexInv` says that one thread at a time holds it, and that from
the removal on a `NewPubsub` finds its name free, since others without the mutex only take entries away. Then each step
is a step of `StreamLifecycle` or a stutter. `HandlerInv` follows each handler from both ends: `Leaves`
ties the goroutine of `OnClose` to the `pub` and `sub` it works on, which no longer change once `isClosed` is set, and says
what is gone at each of its stages; `Knows` says of each Pubsub that its publisher's handler has it as `pub`, is
about to, is past it, panicked or is closed. It needs that a handler is told of its streams in the order of their
numbers. They give `ClosedLeavesNothing` and `ListedAnsweredFor`.

**`PubSubProofs`.** The line of a subscriber is cut into four parts: what was sent to it, the tag its sender holds, its
queue, and what `Publish` is submitting to it. `OrderInv` says that each part is in order and before the next, in terms
of the place (`Place`) that a tag is due at; a step moves the head of one part to the end of the one before it
(`HeadMoves`), or loses it, and only `Visit` adds at the end. `KeptInv` is the account: what a subscriber has (`Have`)
is what it is owed (`Owed`), never more, and no less as long as it is in the map; it needs that the walk still has to meet
everyone who was initialised and is in the map. `HeadersInv` says that the cache holds the latest tag of each kind, and
beside the last key frame the latest headers before it; a burst is made of these, so that its tags are distinct
and in place. Together with the types (`TypeInv`: no closer runs for a subscriber that was never made; a nil slice stays nil)
they are inductive and give `MediaTypeCorrect`, `EverythingInOrder`, `Accounted` and `HeadersInForce`. No part of the
argument uses `Pubsub.m`, which `Publish` does not take.

**`PubSubFeedProofs`.** `FeedRefinement` maps each step to a step of `LossyFeed` or a stutter, from the invariants above: that a
tag which is offered was not given before, and that nobody is given any before his burst, is the account (`KeptInv`); that
the first tags of a line are distinct is `HeadersInv`. `NoticeInv` is what two closers of one subscriber owe each other: whoever set `closed` removes the
subscriber or is about to, and a lost tag has a `Submit` closer (`LossNoticed`). `CompleteInv` says that what a
subscriber has is an initial piece of what is due to it, in terms of places; it is kept when a tag is added at the end, and
when one is lost, since what is lost still counts as had (`NothingSkipped`).

**`LibavSessionProofs`.** What a goroutine has yet to do is one of a few lists, each with its operation and with what
it implies of the factory (the plans of `SessionInvariant`); at most one goroutine makes or closes the factory, and the
first answer of `NewFactory` is the only one to create the context. From this follow the types, that a `Wait` which was
not cancelled returned nil for a reason (`WaitIsTruthful`), and that the last thing `Factory.Close` does leaves no
server serving, whatever the first one returned (`CloseStops`). The steps are sorted by what they do to a
goroutine: `AdvanceStep`, `MoveStep`, `InvokeStep`, `QuietStep`. What a server that stops may still do is in two parts:
`InputInv` says that from `Die`'s walk over the inputs on none is open; it is kept because every step is `Restrained`: only a
server that serves starts or opens anything, it serves as long as nobody is in its `Die`, and whoever comes to stop it
closed the inputs. `ClosedFactoryHasNoInput` and `ClosedFactoryStartsNothing` follow with `CloseStopsServer`.

**`StreamForwardProofs`.** `CommandInv` ties the stage of `main()` to what its goroutines are at and to how far
the context is: past `"start"` the context is open and started, as long as the server serves, and nobody in the command
closes it. Hence no request that would make the server panic is on its way (`AsksSafely`), and the stage `"ended"` is
only reached when the recoding is over or the server is (`ExitIsJustified`). `ForwardSession` carries the promises
of the library over to the composition, and `ForwardRestrained`, that the steps of the command are `Restrained` too,
gives `ForwardClosedHasNoInput` and `ForwardClosedStartsNothing`.

**`EncoderConfigProofs`.** `WayInv` gives, for each stage, what is held there as a function of what was given. The
lemmas follow a quality through a file, and a track through the wire: that `(id % 2^64)` read back as an int is `id`,
for every width. `StreamsKeptApart` rests on the finiteness of the set of mapped IDs and needs, as the property says, that
each track names an input.

*Only model-checked*: liveness (`WaiterReleased`, `HandlersReturn`, `HandlerDetached`, `CallsReturn`,
`WaiterServed`, `PublisherNotBlocked`, `LostIsClosed`, `ClosedIsQuiet`, `WaitReturns`, `ForwardEnds`), which needs fairness
and ENABLED and is out of the prover's reach.

## What is not modelled

- `SetLoggingLevel` and the loggers change nothing but what is logged.
- The generated gRPC code is the transport, which `LibavSession` models from how it is used; the interface declarations
  and finalizer helpers have no state of their own. Flags, profiling and logging of `cmd/streamforward`.
- The RTMP recoder (`xaionaro-go-rtmp/*.go`). There is no protocol to check: `CancelFunc` is never set, so that `Close`
  always answers that the stream was not started (`recoder.go:166`) and nothing refuses a second `Start`;
  `NewInputFromURL` is not implemented and `NewOutputFromURL` stores into a nil pointer; `Start` returns nil for the errors
  of its body (`recoder.go:104`); `Wait` returns only if the queue of its `Sub` overflows. What it is made of, a `Sub` of a
  `Pubsub`, is in `PubSub`.
- The livego recoder wraps a relay that is not in the repository; the checks of its `Close` and `Wait` are inverted
  (`livego/recoder.go:28`), so that both refuse a relay that was started and use one that was not.
- Custom options of encoders, which no conversion keeps, and the names of codecs.
- Frames, codecs and everything inside avpipeline: a recoding either goes on or ends.
- The bytes of tags, and `cloneView`, which keeps subscribers from consuming one another's.
- `Pubsub.ClosedChan`: it makes a new `Pub` at each call and returns a channel that nobody closes; the
  embedding program's use of it is not in the repository.

## Plan

Done, in this order, the most concurrent first: `RecoderServer` and `RecodingLifecycle` (4 runs, 11 theorems);
`RelayService` and `StreamLifecycle` (4 runs, 6 theorems); `PubSub` and `LossyFeed` (2 runs, 8 theorems); `LibavSession`
and `StreamForward` (1 run, 14 theorems); `EncoderConfig` (1 run, 6 theorems).

What could follow: that a session drives its server through steps of `RecodingLifecycle` only, as a theorem; `RelayService` and `PubSub` in one model, so that a stream that is taken over and its subscribers'
queues are seen together; the RTMP and livego recoders against one abstract `Recoder`, once their `Close` can succeed; the
contents of a burst once `sincePrevKeyFrame` keeps anything.
