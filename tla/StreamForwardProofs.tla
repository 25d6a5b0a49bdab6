------------------------- MODULE StreamForwardProofs -------------------------
(***************************************************************************)
(* The command streamforward, proved in every build: it asks for nothing   *)
(* that makes the server crash, and exits, once its recoding started, only *)
(* when that is over or the server is.                                     *)
(*                                                                         *)
(* The invariant ties what main() asked for last (`stage') to what each of *)
(* its two goroutines is at, and to how far the context of the factory is. *)
(***************************************************************************)
EXTENDS StreamForward, LibavSessionProofs

\* What main() asks for at a stage.
MainAsks == {<<"factory", "NewFactory">>, <<"input", "NewInput">>,
             <<"output", "NewOutput">>, <<"start", "StartRecoding">>,
             <<"loop", "GetStats">>}

\* The call of main() has gone well.
Well == pc[Main] = "idle" /\ Main \notin failed

HasContext ==
    \/ stage \in {"input", "output", "start", "loop", "ended"}
    \/ /\ stage = "factory"
       /\ Well \/ (pc[Main] = "answered" /\ Doing(Main) = "NewContext")

HasStarted ==
    stage = "loop" \/ (stage = "start" /\ (Well \/ pc[Main] = "answered"))

\* There is nothing to wait for any more.
Over == Context \in announced \/ server # "serving"

CallsPlaced ==
    /\ \A t \in Threads \ {Main, Waiter} : ~Busy(t)
    /\ Busy(Main) => <<stage, job[Main].op>> \in MainAsks
    /\ Busy(Waiter) => stage \in {"loop", "ended"} /\ job[Waiter].op = "RecodingEndedChan"
    /\ \A t \in {Main, Waiter} : Busy(t) => job[t].ok

CommandInv == stage # "none" =>
    /\ late = {} /\ open = 1..created
    /\ CallsPlaced
    /\ HasContext => created = 1
    /\ HasStarted => Context \in begun \cup cancelled
    /\ stage = "loop" /\ (~Busy(Waiter) \/ Main \in failed) => Over
    /\ stage = "ended" => Over
    /\ stage \in {"ended", "fatal"} => owner # "running"

ForwardInv == SessionInv /\ stage \in Stages /\ CommandInv

-----------------------------------------------------------------------------
(***************************************************************************)
(* A step of a call that is not about the end of the server.               *)
(***************************************************************************)

\* NewContext is what NewFactory does last.
LEMMA FactoryPlan ==
    ASSUME NEW j, PlanOK(j), j.op = "NewFactory"
    PROVE  /\ Head(j.todo) = "NewContext" <=> ~(Len(j.todo) > 1)
           /\ Head(j.todo) \in {"Run", "SetLoggingLevel", "NewContext"}
<1>. DEFINE s == j.todo
<1>1. CASE s = <<"Run", "SetLoggingLevel", "NewContext">>
  <2>1. Len(s) = 3 /\ Head(s) = "Run"
    BY <1>1, Tuples
  <2>. QED  BY <2>1
<1>2. CASE s = <<"SetLoggingLevel", "NewContext">>
  <2>1. Len(s) = 2 /\ Head(s) = "SetLoggingLevel"
    BY <1>2, Tuples
  <2>. QED  BY <2>1
<1>3. CASE s = <<"NewContext">>
  <2>1. Len(s) = 1 /\ Head(s) = "NewContext"
    BY <1>3, Tuples
  <2>. QED  BY <2>1
<1>. QED  BY <1>1, <1>2, <1>3 DEF PlanOK, Singles

\* The other calls of the command are a single RPC each.
LEMMA SinglePlan ==
    ASSUME NEW j, PlanOK(j), j.op \in Singles
    PROVE  Head(j.todo) = j.op /\ Len(j.todo) = 1
<1>1. j.todo = <<j.op>>
  BY DEF PlanOK, Singles
<1>. QED  BY ONLY <1>1, Tuples

\* Whoever does not move.
Still(u) == /\ pc'[u] = pc[u] /\ job'[u] = job[u]
            /\ u \in failed' <=> u \in failed

LEMMA StillBusy ==
    ASSUME NEW u, Still(u)
    PROVE  Busy(u)' = Busy(u) /\ Doing(u)' = Doing(u)
  BY DEF Still, Busy, Doing

LEMMA AdvanceEnds ==
    ASSUME SessionInv, NEW t \in Threads, Busy(t), NEW ok \in BOOLEAN, Advance(t, ok),
           job[t].op \in Singles \cup {"NewFactory"}, job[t].ok
    PROVE  /\ \A u \in Threads : u # t => Still(u)
           /\ IF ok THEN failed' = failed ELSE t \in failed'
           /\ \/ /\ pc'[t] \in {"ready", "sent"} /\ job'[t].op = job[t].op /\ job'[t].ok
                 /\ job[t].op = "NewFactory" /\ Doing(t) # "NewContext" /\ ok
              \/ /\ pc'[t] = "idle"
                 /\ ok /\ job[t].op = "NewFactory" => Doing(t) = "NewContext"
<1>. DEFINE good == ok /\ job[t].ok
            rest == Tail(job[t].todo)
            next == At(job[t].todo[2])
<1>1. PlanOK(job[t])
  BY AtWork
<1>2. job[t].op = "NewFactory" =>
        (Head(job[t].todo) = "NewContext" <=> ~(Len(job[t].todo) > 1))
  BY ONLY <1>1, FactoryPlan
<1>3. job[t].op \in Singles => Len(job[t].todo) = 1
  BY ONLY <1>1, SinglePlan
<1>4. CASE GoesOn(t, ok)
  <2>1. /\ pc' = [pc EXCEPT ![t] = next]
        /\ job' = [job EXCEPT ![t].todo = rest, ![t].ok = good]
        /\ failed' = failed
    BY <1>4 DEF Advance
  <2>2. Len(job[t].todo) > 1
    BY <1>4 DEF GoesOn
  <2>3. job[t].op = "NewFactory"
    <3>1. \A n : n = 1 => ~(n > 1)
      OBVIOUS
    <3>2. job[t].op \notin Singles
      BY ONLY <1>3, <2>2, <3>1
    <3>. QED  BY <3>2
  <2>4. Doing(t) # "NewContext"
    BY <1>2, <2>2, <2>3 DEF Doing
  <2>5. next \in {"ready", "sent"}
    BY DEF At
  <2>6. CallsOK
    BY Parts
  <2>7. ok /\ good
    BY <1>4, <2>3 DEF GoesOn
  <2>. HIDE DEF next, rest, good
  <2>. QED  BY <2>1, <2>3, <2>4, <2>5, <2>6, <2>7 DEF CallsOK, Still
<1>5. CASE ~GoesOn(t, ok)
  <2>1. /\ pc' = [pc EXCEPT ![t] = "idle"]
        /\ job' = [job EXCEPT ![t] = Idle]
        /\ failed' = (IF good THEN failed ELSE failed \cup {t})
    BY <1>5 DEF Advance
  <2>2. ok /\ job[t].op = "NewFactory" => Doing(t) = "NewContext"
    BY <1>2, <1>5 DEF GoesOn, Doing
  <2>3. IF ok THEN failed' = failed ELSE t \in failed'
    BY <2>1
  <2>4. CallsOK
    BY Parts
  <2>. QED  BY <2>1, <2>2, <2>3, <2>4 DEF CallsOK, Still
<1>. QED  BY <1>4, <1>5

\* What becomes of a call of the command by one step of it, or of its handler.
Outcome(t) ==
    \/ /\ pc'[t] = "idle" /\ t \in failed'
       /\ server' # "serving" \/ Doing(t) \notin {"GetStats", "RecodingEndedChan"}
    \/ /\ t \in failed' <=> t \in failed
       /\ \/ pc'[t] \in {"ready", "report", "sent", "watching"} /\ job'[t].ok
          \/ pc'[t] = "answered" /\ Doing(t)' = Doing(t) /\ job'[t].ok
          \/ /\ pc'[t] = "idle" /\ pc[t] = "answered"
             /\ job[t].op = "NewFactory" => Doing(t) = "NewContext"
          \/ pc'[t] = "idle" /\ Doing(t) = "RecodingEndedChan" /\ server' # "serving"

\* What it does to the server: an RPC is executed before it is answered.
Executed(t) ==
    \/ UNCHANGED lcVars
       /\ (pc'[t] = "answered" => Doing(t) = "RecodingEndedChan")
    \/ /\ pc[t] = "sent" /\ Doing(t) # "CloseContext"
       /\ \/ Effect(Doing(t), TRUE) /\ pc'[t] = "answered"
          \/ Effect(Doing(t), FALSE) /\ pc'[t] = "idle"

LEMMA CallMoves ==
    ASSUME SessionInv, NEW t \in Threads, Busy(t),
           job[t].op \in (Singles \ {"CloseContext"}) \cup {"NewFactory"}, job[t].ok,
           Go(t) \/ Serving(t) \/ Lost(t), ~HandlePanic(t)
    PROVE  /\ \A u \in Threads : u # t => Still(u)
           /\ late' = late
           /\ pc'[t] # "idle" => job'[t].op = job[t].op
           /\ Outcome(t) /\ Executed(t)
<1>1. /\ PlanOK(job[t]) /\ Fitting(pc[t], Doing(t)) /\ CallsOK
      /\ job[t].op = "NewFactory" => Doing(t) \in {"Run", "SetLoggingLevel", "NewContext"}
      /\ job[t].op \in Singles => Doing(t) = job[t].op
  <2>1. PlanOK(job[t]) /\ Fitting(pc[t], Doing(t)) /\ CallsOK
    BY AtWork, Parts
  <2>2. job[t].op \in Singles => Head(job[t].todo) = job[t].op
    BY ONLY <2>1, SinglePlan
  <2>3. job[t].op = "NewFactory" =>
            Head(job[t].todo) \in {"Run", "SetLoggingLevel", "NewContext"}
    BY ONLY <2>1, FactoryPlan
  <2>. QED  BY <2>1, <2>2, <2>3 DEF Doing
<1>2. Doing(t) \notin {"Kill", "Die", "CloseContext"}
  BY <1>1 DEF Singles
<1>3. ASSUME NEW ok \in BOOLEAN, Advance(t, ok)
      PROVE  /\ \A u \in Threads : u # t => Still(u)
             /\ pc'[t] # "idle" => job'[t].op = job[t].op /\ job'[t].ok
             /\ pc'[t] \in {"ready", "sent", "idle"}
             /\ IF ok THEN failed' = failed ELSE t \in failed'
             /\ ~ok => pc'[t] = "idle"
             /\ pc'[t] = "idle" /\ ok /\ job[t].op = "NewFactory" => Doing(t) = "NewContext"
  BY <1>3, AdvanceEnds
<1>4. ASSUME NEW x, pc' = [pc EXCEPT ![t] = x], UNCHANGED <<job, failed>>
      PROVE  /\ \A u \in Threads : u # t => Still(u)
             /\ job'[t].op = job[t].op /\ pc'[t] = x /\ Doing(t)' = Doing(t)
             /\ job'[t].ok /\ (t \in failed' <=> t \in failed)
  BY <1>1, <1>4 DEF CallsOK, Still, Doing
<1>5. CASE Unsupported(t)
  <2>1. Advance(t, FALSE) /\ late' = late /\ UNCHANGED lcVars /\ build = "nolibav"
    BY <1>5 DEF Unsupported
  <2>2. Doing(t) = "Run"
    BY <2>1, AtWork
  <2>. QED  BY <1>3, <2>1, <2>2 DEF Outcome, Executed
<1>6. CASE Fork(t) \/ Spawn(t)
  <2>1. Doing(t) = "Run" /\ late' = late /\ UNCHANGED lcVars
    BY <1>6 DEF Fork, Spawn, RunServer, Does
  <2>2. \/ pc' = [pc EXCEPT ![t] = "report"] /\ UNCHANGED <<job, failed>>
        \/ Advance(t, FALSE)
    BY <1>6 DEF Fork, Spawn, RunServer
  <2>. QED  BY <1>3, <1>4, <2>1, <2>2 DEF Outcome, Executed
<1>7. CASE ReadReport(t) \/ SelectReport(t)
  <2>1. pc[t] = "report" /\ late' = late /\ UNCHANGED lcVars
    BY <1>7 DEF ReadReport, SelectReport, Reported
  <2>2. Advance(t, TRUE) \/ Advance(t, FALSE) \/ UNCHANGED calling
    BY <1>7 DEF ReadReport, SelectReport, Reported
  <2>3. Doing(t) = "Run" /\ job[t].op = "NewFactory"
    BY <1>1, <2>1 DEF Fitting, Singles
  <2>4. CASE UNCHANGED calling
    BY <2>1, <2>4 DEF Outcome, Executed, Still, calling
  <2>5. CASE Advance(t, FALSE)
    BY <1>3, <2>1, <2>3, <2>5 DEF Outcome, Executed
  <2>6. CASE Advance(t, TRUE)
    BY <1>3, <2>1, <2>3, <2>6 DEF Outcome, Executed
  <2>. QED  BY <2>2, <2>4, <2>5, <2>6
<1>8. CASE Receive(t)
  <2>1. pc[t] = "answered" /\ Advance(t, TRUE) /\ late' = late /\ UNCHANGED lcVars
    BY <1>8 DEF Receive
  <2>. QED  BY <1>3, <2>1 DEF Outcome, Executed
<1>9. CASE Lost(t)
  <2>1. /\ server # "serving" /\ late' = late /\ UNCHANGED lcVars
        /\ \/ Doing(t) = "RecodingEndedChan" /\ Advance(t, TRUE)
           \/ Advance(t, FALSE)
    BY <1>9 DEF Lost, Break
  <2>2. server' = server
    BY <2>1 DEF lcVars
  <2>. QED  BY <1>3, <2>1, <2>2 DEF Outcome, Executed
<1>10. CASE Handle(t)
  <2>1. late' = late /\ pc[t] = "sent"
    BY <1>10 DEF Handle
  <2>2. CASE /\ Effect(Doing(t), TRUE) /\ pc' = [pc EXCEPT ![t] = "answered"]
             /\ UNCHANGED <<job, failed>>
    BY <1>2, <1>4, <2>1, <2>2 DEF Outcome, Executed
  <2>3. CASE Effect(Doing(t), FALSE) /\ Advance(t, FALSE)
    <3>1. /\ Doing(t) \notin {"GetStats", "RecodingEndedChan", "SetLoggingLevel", "NewContext"}
      BY <2>3 DEF Effect
    <3>2. job[t].op \in Singles
      BY <1>1, <2>1, <3>1 DEF Fitting, Rpcs
    <3>3. pc'[t] = "idle"
      BY <2>3, <3>2, AdvanceEnds DEF Singles
    <3>. QED  BY <1>2, <1>3, <2>1, <2>3, <3>1, <3>3 DEF Outcome, Executed
  <2>. QED  BY <1>10, <2>2, <2>3 DEF Handle
<1>11. CASE Watch(t) \/ AnnounceEnd(t)
  <2>1. late' = late /\ UNCHANGED lcVars /\ UNCHANGED <<job, failed>>
    BY <1>11 DEF Watch, AnnounceEnd
  <2>2. CASE Watch(t)
    <3>1. pc' = [pc EXCEPT ![t] = "watching"]
      BY <2>2 DEF Watch
    <3>. QED  BY <1>4, <2>1, <3>1 DEF Outcome, Executed
  <2>3. CASE AnnounceEnd(t)
    <3>1. pc' = [pc EXCEPT ![t] = "answered"] /\ pc[t] = "watching"
      BY <2>3 DEF AnnounceEnd
    <3>2. Doing(t) = "RecodingEndedChan"
      BY <1>1, <3>1 DEF Fitting
    <3>. QED  BY <1>4, <2>1, <3>1, <3>2 DEF Outcome, Executed
  <2>. QED  BY <1>11, <2>2, <2>3
<1>12. ~Process_Kill(t) /\ ~Process_Die(t) /\ ~HandleDie(t)
  BY <1>2 DEF Process_Kill, Process_Die, HandleDie, Does
<1>13. ~FinishDie(t)
  BY <1>1, <1>2 DEF FinishDie, Fitting
<1>. QED  BY <1>5, <1>6, <1>7, <1>8, <1>9, <1>10, <1>11, <1>12, <1>13 DEF Go, Serving

-----------------------------------------------------------------------------
(***************************************************************************)
(* The invariant of the command.                                           *)
(***************************************************************************)

\* The context stays open: nobody closes it, and only its server can end.
LEMMA LcForward ==
    ASSUME LcOK, open = 1..created,
           \/ Create /\ created = 0
           \/ Begin(Context) \/ Cancel(Context) \/ End(Context) \/ Leave
           \/ UNCHANGED lcVars
    PROVE  /\ open' = 1..created' /\ created' \in {created, 1}
           /\ begun \subseteq begun' /\ cancelled \subseteq cancelled'
           /\ announced \subseteq announced'
           /\ server # "serving" => server' # "serving"
<1>1. CASE Create /\ created = 0
  BY <1>1 DEF Create
<1>2. CASE Begin(Context)
  BY <1>2 DEF Begin
<1>3. CASE Cancel(Context)
  BY <1>3 DEF Cancel
<1>4. CASE End(Context)
  BY <1>4 DEF End
<1>5. CASE Leave
  BY <1>5 DEF Leave, lifecycle
<1>6. CASE UNCHANGED lcVars
  BY <1>6 DEF lcVars, lifecycle
<1>. QED  BY <1>1, <1>2, <1>3, <1>4, <1>5, <1>6

\* What an RPC of the command does to the context.
LEMMA ExecutedStep ==
    ASSUME LcOK, open = 1..created, NEW t, Executed(t),
           pc[t] = "sent" /\ Doing(t) = "NewContext" => created = 0
    PROVE  /\ open' = 1..created' /\ created' \in {created, 1}
           /\ begun \subseteq begun' /\ cancelled \subseteq cancelled'
           /\ announced \subseteq announced'
           /\ server # "serving" => server' # "serving"
           /\ pc'[t] = "answered" /\ Doing(t) = "NewContext" => created' = 1
           /\ pc'[t] = "answered" /\ Doing(t) = "StartRecoding" => Context \in begun'
<1>1. \/ Create /\ created = 0
      \/ Begin(Context) \/ Cancel(Context) \/ UNCHANGED lcVars
  BY DEF Executed, Effect
<1>2. pc'[t] = "answered" /\ Doing(t) = "NewContext" => Create /\ created = 0
  BY DEF Executed, Effect
<1>3. pc'[t] = "answered" /\ Doing(t) = "StartRecoding" => Begin(Context)
  BY DEF Executed, Effect
<1>4. pc'[t] = "answered" /\ Doing(t) = "NewContext" => created' = 1
  BY <1>2 DEF Create
<1>5. pc'[t] = "answered" /\ Doing(t) = "StartRecoding" => Context \in begun'
  BY <1>3 DEF Begin
<1>. QED  BY <1>1, <1>4, <1>5, LcForward

\* The calls of the command ask for nothing fatal.
LEMMA NothingFatal ==
    ASSUME ForwardInv, stage # "none", NEW t \in Threads, pc[t] = "sent"
    PROVE  ~Panics(Doing(t))
<1>1. /\ Busy(t) /\ SessionInv /\ CommandInv /\ CallsPlaced /\ open = 1..created
  BY DEF ForwardInv, CommandInv, Busy
<1>2. PlanOK(job[t])
  BY <1>1, AtWork
<1>3. job[t].op \in Singles => Doing(t) = job[t].op
  <2>1. job[t].op \in Singles => Head(job[t].todo) = job[t].op
    BY ONLY <1>2, SinglePlan
  <2>. QED  BY <2>1 DEF Doing
<1>4. CASE t = Main
  <2>1. <<stage, job[Main].op>> \in MainAsks
    BY <1>1, <1>4 DEF CallsPlaced
  <2>2. CASE job[t].op = "NewFactory"
    <3>1. Doing(t) \notin {"RecodingEndedChan", "GetStats", "Die"}
      <4>1. Head(job[t].todo) \in {"Run", "SetLoggingLevel", "NewContext"}
        BY ONLY <1>2, <2>2, FactoryPlan
      <4>. QED  BY <4>1 DEF Doing
    <3>. QED  BY <3>1 DEF Panics
  <2>3. CASE job[t].op = "GetStats"
    <3>1. stage = "loop" /\ Doing(t) = "GetStats"
      BY <1>3, <1>4, <2>1, <2>3 DEF MainAsks, Singles
    <3>2. created = 1 /\ Context \in begun \cup cancelled
      BY <1>1, <3>1 DEF CommandInv, HasContext, HasStarted
    <3>. QED  BY <1>1, <3>1, <3>2 DEF Panics, Started, Context
  <2>4. CASE job[t].op \in {"NewInput", "NewOutput", "StartRecoding"}
    BY <1>3, <2>4 DEF Panics, Singles
  <2>. QED  BY <1>4, <2>1, <2>2, <2>3, <2>4 DEF MainAsks
<1>5. CASE t = Waiter
  <2>1. stage \in {"loop", "ended"} /\ Doing(t) = "RecodingEndedChan"
    BY <1>1, <1>3, <1>5 DEF CallsPlaced, Singles
  <2>2. created = 1
    BY <1>1, <2>1 DEF CommandInv, HasContext
  <2>. QED  BY <1>1, <2>1, <2>2 DEF Panics, Context
<1>. QED  BY <1>1, <1>4, <1>5 DEF CallsPlaced

\* A step of a call of the command, or of its handler.
LEMMA CommandCallStep ==
    ASSUME ForwardInv, stage # "none", stage' = stage,
           NEW t \in Threads, Go(t) \/ Serving(t) \/ Lost(t),
           owner = "running"
    PROVE  CommandInv'
<1>1. /\ SessionInv /\ CommandInv /\ CallsPlaced /\ late = {} /\ open = 1..created
      /\ stage \notin {"ended", "fatal"} /\ LcOK
  BY Parts DEF ForwardInv, CommandInv
<1>2. Main \in Threads /\ Waiter \in Threads /\ Main # Waiter
  BY GoroutinesAssumption DEF Threads
<1>3. Busy(t)
  BY DEF Go, Serving, Unsupported, Fork, Spawn, RunServer, ReadReport, SelectReport,
         Process_Kill, Process_Die, FinishDie, Receive, Handle, Watch, HandlePanic,
         HandleDie, AnnounceEnd, Lost, Break, Does, Busy
<1>4. ~HandlePanic(t)
  BY NothingFatal DEF HandlePanic
<1>5. t \in {Main, Waiter}
  BY <1>1, <1>3 DEF CallsPlaced
<1>6. job[t].op \in (Singles \ {"CloseContext"}) \cup {"NewFactory"} /\ job[t].ok
  BY <1>1, <1>3, <1>5 DEF CallsPlaced, MainAsks, Singles
<1>7. /\ \A u \in Threads : u # t => Still(u)
      /\ late' = late
      /\ pc'[t] # "idle" => job'[t].op = job[t].op
      /\ Outcome(t) /\ Executed(t)
  BY <1>1, <1>3, <1>4, <1>6, CallMoves
<1>8. /\ open' = 1..created' /\ created' \in {created, 1}
      /\ begun \subseteq begun' /\ cancelled \subseteq cancelled'
      /\ announced \subseteq announced'
      /\ server # "serving" => server' # "serving"
      /\ pc'[t] = "answered" /\ Doing(t) = "NewContext" => created' = 1
      /\ pc'[t] = "answered" /\ Doing(t) = "StartRecoding" => Context \in begun'
  <2>1. pc[t] = "sent" /\ Doing(t) = "NewContext" => created = 0
    BY <1>1, <1>3, AtWork
  <2>. QED  BY <1>1, <1>7, <2>1, ExecutedStep
<1>9. Over => Over'
  BY <1>8 DEF Over
<1>10. CallsPlaced'
  <2>1. \A u \in Threads : Busy(u)' => Busy(u) /\ job'[u].op = job[u].op
    BY <1>3, <1>7 DEF Still, Busy
  <2>2. Busy(t)' => job'[t].ok
    BY <1>7 DEF Outcome, Busy
  <2>3. \A u \in {Main, Waiter} : Busy(u)' => job'[u].ok
    BY <1>1, <1>2, <1>7, <2>1, <2>2 DEF CallsPlaced, Still
  <2>. QED  BY <1>1, <1>2, <2>1, <2>3 DEF CallsPlaced
<1>11. /\ job[t].op \in Singles => Doing(t) = job[t].op
       /\ job[t].op = "NewFactory" => Doing(t) # "RecodingEndedChan"
  <2>1. PlanOK(job[t])
    BY <1>1, <1>3, AtWork
  <2>2. job[t].op \in Singles => Head(job[t].todo) = job[t].op
    BY ONLY <2>1, SinglePlan
  <2>3. job[t].op = "NewFactory" =>
            Head(job[t].todo) \in {"Run", "SetLoggingLevel", "NewContext"}
    BY ONLY <2>1, FactoryPlan
  <2>. QED  BY <2>2, <2>3 DEF Doing
<1>12. CASE t = Main
  <2>1. <<stage, job[Main].op>> \in MainAsks
    BY <1>1, <1>3, <1>12 DEF CallsPlaced
  <2>2. Still(Waiter) /\ Busy(Waiter)' = Busy(Waiter)
    BY <1>2, <1>7, <1>12, StillBusy
  <2>3. HasContext' => created' = 1
    <3>1. CASE stage \in {"input", "output", "start", "loop", "ended"}
      BY <1>1, <1>8, <3>1 DEF CommandInv, HasContext
    <3>2. CASE stage = "factory"
      <4>1. job[t].op = "NewFactory"
        BY <1>12, <2>1, <3>2 DEF MainAsks
      <4>2. CASE pc'[t] = "idle" /\ t \notin failed'
        <5>1. pc[t] = "answered" /\ Doing(t) = "NewContext"
          BY <1>7, <1>11, <4>1, <4>2 DEF Outcome
        <5>. QED  BY <1>1, <1>8, <1>12, <3>2, <5>1 DEF CommandInv, HasContext
      <4>3. CASE pc'[t] = "answered" /\ Doing(t)' = "NewContext"
        BY <1>7, <1>8, <4>3 DEF Outcome
      <4>. QED  BY <1>12, <3>2, <4>2, <4>3 DEF HasContext, Well
    <3>. QED  BY <3>1, <3>2 DEF HasContext
  <2>4. HasStarted' => Context \in begun' \cup cancelled'
    <3>1. CASE stage = "loop"
      BY <1>1, <1>8, <3>1 DEF CommandInv, HasStarted
    <3>2. CASE stage = "start"
      <4>1. job[t].op = "StartRecoding" /\ Doing(t) = "StartRecoding"
        BY <1>11, <1>12, <2>1, <3>2 DEF MainAsks, Singles
      <4>2. CASE pc'[t] = "idle" /\ t \notin failed'
        <5>1. pc[t] = "answered"
          BY <1>7, <4>1, <4>2 DEF Outcome
        <5>. QED  BY <1>1, <1>8, <1>12, <3>2, <5>1 DEF CommandInv, HasStarted
      <4>3. CASE pc'[t] = "answered"
        BY <1>8, <4>1, <4>3
      <4>. QED  BY <1>12, <3>2, <4>2, <4>3 DEF HasStarted, Well
    <3>. QED  BY <3>1, <3>2 DEF HasStarted
  <2>5. ASSUME stage = "loop", ~Busy(Waiter)' \/ Main \in failed'
        PROVE  Over'
    <3>1. CASE ~Busy(Waiter)
      BY <1>1, <1>9, <2>5, <3>1 DEF CommandInv
    <3>2. CASE Busy(Waiter)
      <4>1. Doing(t) = "GetStats"
        BY <1>11, <1>12, <2>1, <2>5 DEF MainAsks, Singles
      <4>2. Main \in failed'
        BY <2>2, <2>5, <3>2
      <4>3. CASE Main \in failed
        BY <1>1, <1>9, <2>5, <4>3 DEF CommandInv
      <4>4. CASE Main \notin failed
        BY <1>3, <1>7, <1>12, <4>1, <4>2, <4>4 DEF Outcome, Over
      <4>. QED  BY <4>3, <4>4
    <3>. QED  BY <3>1, <3>2
  <2>. QED  BY <1>1, <1>7, <1>8, <1>10, <2>3, <2>4, <2>5 DEF CommandInv
<1>13. CASE t = Waiter
  <2>1. stage = "loop" /\ Doing(t) = "RecodingEndedChan" /\ job[t].op = "RecodingEndedChan"
    BY <1>1, <1>3, <1>11, <1>13 DEF CallsPlaced, Singles
  <2>2. Still(Main)
    BY <1>2, <1>7, <1>13
  <2>3. created' = 1 /\ Context \in begun' \cup cancelled'
    BY <1>1, <1>8, <2>1 DEF CommandInv, HasContext, HasStarted
  <2>4. ASSUME ~Busy(Waiter)' \/ Main \in failed'
        PROVE  Over'
    <3>1. CASE Main \in failed'
      BY <1>1, <1>9, <2>1, <2>2, <3>1 DEF CommandInv, Still
    <3>2. CASE ~Busy(Waiter)'
      <4>1. pc'[t] = "idle"
        BY <1>13, <3>2 DEF Busy
      <4>2. server' # "serving" \/ pc[t] = "answered"
        BY <1>7, <2>1, <4>1 DEF Outcome
      <4>3. pc[t] = "answered" => Context \in announced
        BY <1>1, <1>3, <2>1, AtWork
      <4>. QED  BY <1>8, <4>2, <4>3 DEF Over
    <3>. QED  BY <2>4, <3>1, <3>2
  <2>. QED  BY <1>1, <1>7, <1>8, <1>10, <2>1, <2>3, <2>4 DEF CommandInv
<1>. QED  BY <1>5, <1>12, <1>13

\* The recoding and the server by themselves.
LEMMA CommandServerStep ==
    ASSUME ForwardInv, stage # "none", stage' = stage,
           Interrupt \/ Finish \/ RunEncoderServer \/ Crash
    PROVE  CommandInv'
<1>1. /\ SessionInv /\ CommandInv /\ CallsPlaced /\ late = {} /\ open = 1..created
      /\ LcOK
  BY Parts DEF ForwardInv, CommandInv
<1>2. /\ owner = "running" /\ late' = {} /\ UNCHANGED <<pc, job, failed>>
      /\ \/ Cancel(Context) \/ End(Context) \/ Leave \/ UNCHANGED lcVars
  BY <1>1 DEF Interrupt, Finish, RunEncoderServer, Crash, Panic, calling
<1>3. /\ open' = 1..created' /\ created' \in {created, 1}
      /\ begun \subseteq begun' /\ cancelled \subseteq cancelled'
      /\ announced \subseteq announced'
      /\ server # "serving" => server' # "serving"
  BY <1>1, <1>2, LcForward
<1>4. Over => Over'
  BY <1>3 DEF Over
<1>5. /\ HasContext' = HasContext /\ HasStarted' = HasStarted
      /\ CallsPlaced' = CallsPlaced /\ \A t : Busy(t)' = Busy(t)
  BY <1>2 DEF HasContext, HasStarted, CallsPlaced, Well, Doing, Busy
<1>6. /\ (stage = "loop" /\ (~Busy(Waiter) \/ Main \in failed) => Over)
      /\ stage \notin {"ended", "fatal"}
      /\ HasContext => created = 1
      /\ HasStarted => Context \in begun \cup cancelled
  BY <1>1, <1>2 DEF CommandInv
<1>7. HasContext' => created' = 1
  BY <1>3, <1>5, <1>6
<1>8. HasStarted' => Context \in begun' \cup cancelled'
  BY <1>3, <1>5, <1>6
<1>9. (stage' = "loop" /\ (~Busy(Waiter)' \/ Main \in failed')) => Over'
  BY <1>2, <1>4, <1>5, <1>6
<1>. QED  BY <1>1, <1>2, <1>3, <1>5, <1>6, <1>7, <1>8, <1>9 DEF CommandInv

\* What goroutine t asks for, and the stage that main() is at then.
LEMMA CommandAsks ==
    ASSUME ForwardInv, NEW t \in {Main, Waiter}, NEW op, NEW todo,
           Invoke(t, op, todo), stage' \in Stages, stage # "none",
           t = Main => <<stage', op>> \in MainAsks /\ (stage # "loop" => stage' # "loop"),
           t = Waiter => stage' = "loop" /\ op = "RecodingEndedChan",
           Well,
           \/ stage = "begin" /\ stage' = "factory" /\ Head(todo) = "Run"
           \/ stage = "factory" /\ stage' = "input"
           \/ stage = "input" /\ stage' = "output"
           \/ stage = "output" /\ stage' = "start"
           \/ stage = "start" /\ stage' = "loop" /\ t = Waiter
           \/ stage = "loop" /\ stage' = "loop" /\ t = Main
    PROVE  CommandInv'
<1>1. /\ SessionInv /\ CommandInv /\ CallsPlaced /\ late = {} /\ open = 1..created
      /\ CallsOK
  BY Parts DEF ForwardInv, CommandInv
<1>2. /\ pc[t] = "idle" /\ pc' = [pc EXCEPT ![t] = At(Head(todo))]
      /\ job' = [job EXCEPT ![t] = [op |-> op, todo |-> todo, ok |-> TRUE]]
      /\ failed' = failed \ {t}
      /\ UNCHANGED <<lcVars, build, owner, handles, child, kernels, waited, late>>
  BY DEF Invoke
<1>3. Main \in Threads /\ Waiter \in Threads /\ Main # Waiter /\ t \in Threads
  BY GoroutinesAssumption DEF Threads
<1>4. /\ pc'[t] \in {"ready", "sent"} /\ job'[t].op = op /\ job'[t].ok /\ Busy(t)'
      /\ \A u \in Threads : u # t => Still(u)
  BY <1>1, <1>2, <1>3 DEF CallsOK, Still, At, Busy
<1>5. \A u \in Threads : u # t => Busy(u)' = Busy(u) /\ job'[u] = job[u]
  BY <1>4, StillBusy DEF Still
<1>6. CallsPlaced'
  <2>1. t = Waiter => ~Busy(Main)'
    BY <1>3, <1>5 DEF Well, Busy
  <2>2. stage # "loop" => ~Busy(Waiter)
    BY <1>1 DEF CallsPlaced
  <2>. QED  BY <1>1, <1>3, <1>4, <1>5, <2>1, <2>2 DEF CallsPlaced
<1>7. HasContext' => created' = 1
  <2>1. created' = created
    BY <1>2 DEF lcVars, lifecycle
  <2>2. stage' = "factory" => ~HasContext'
    BY <1>4 DEF HasContext, Well
  <2>3. stage' # "factory" => HasContext
    BY DEF HasContext
  <2>. QED  BY <1>1, <2>1, <2>2, <2>3 DEF CommandInv
<1>8. HasStarted' => Context \in begun' \cup cancelled'
  <2>1. UNCHANGED <<begun, cancelled>>
    BY <1>2 DEF lcVars, lifecycle
  <2>2. stage' = "start" => ~HasStarted'
    BY <1>4 DEF HasStarted, Well
  <2>3. stage' = "loop" => HasStarted
    BY DEF HasStarted
  <2>. QED  BY <1>1, <2>1, <2>2, <2>3 DEF CommandInv, HasStarted
<1>9. (stage' = "loop" /\ (~Busy(Waiter)' \/ Main \in failed')) => Over'
  <2>1. Over' = Over
    BY <1>2 DEF Over, lcVars, lifecycle
  <2>2. CASE t = Waiter
    BY <1>2, <1>3, <1>4, <2>2 DEF Well
  <2>3. CASE t = Main
    BY <1>1, <1>2, <1>3, <1>5, <2>1, <2>3 DEF CommandInv
  <2>. QED  BY <2>2, <2>3
<1>10. late' = {} /\ open' = 1..created'
  BY <1>1, <1>2 DEF lcVars, lifecycle
<1>11. stage' \notin {"ended", "fatal"}
  OBVIOUS
<1>. QED  BY <1>6, <1>7, <1>8, <1>9, <1>10, <1>11 DEF CommandInv

LEMMA OpenStep ==
    ASSUME ForwardInv, stage # "none", Open \/ Tick
    PROVE  CommandInv' /\ SessionInv' /\ stage' \in Stages
<1>1. SessionInv /\ Main \in Callers /\ Waiter \in Callers
  BY GoroutinesAssumption DEF ForwardInv
<1>2. stage' \in Stages /\ Well
  BY DEF Open, Tick, After, Well, Stages
<1>3. Call(Main) \/ Call(Waiter)
  BY DEF Open, Tick, Call
<1>4. SessionInv'
  BY <1>1, <1>3, CallStep
<1>5. CASE After("begin", "factory") /\ NewFactory(Main)
  <2>. DEFINE todo == <<"Run", "SetLoggingLevel", "NewContext">>
  <2>1. Invoke(Main, "NewFactory", todo) /\ Head(todo) = "Run"
    BY <1>5, Tuples DEF NewFactory
  <2>. HIDE DEF todo
  <2>. QED  BY <1>2, <1>4, <1>5, <2>1, GoroutinesAssumption, CommandAsks
            DEF After, MainAsks
<1>6. CASE After("factory", "input") /\ NewInputFromURL(Main)
  <2>1. Invoke(Main, "NewInput", <<"NewInput">>)
    BY <1>6 DEF NewInputFromURL, Op
  <2>. QED  BY <1>2, <1>4, <1>6, <2>1, GoroutinesAssumption, CommandAsks
            DEF After, MainAsks
<1>7. CASE After("input", "output") /\ NewOutputFromURL(Main)
  <2>1. Invoke(Main, "NewOutput", <<"NewOutput">>)
    BY <1>7 DEF NewOutputFromURL, Op
  <2>. QED  BY <1>2, <1>4, <1>7, <2>1, GoroutinesAssumption, CommandAsks
            DEF After, MainAsks
<1>8. CASE After("output", "start") /\ Start(Main)
  <2>1. Invoke(Main, "StartRecoding", <<"StartRecoding">>)
    BY <1>8 DEF Start, Op
  <2>. QED  BY <1>2, <1>4, <1>8, <2>1, GoroutinesAssumption, CommandAsks
            DEF After, MainAsks
<1>9. CASE After("start", "loop") /\ Wait(Waiter)
  <2>1. Invoke(Waiter, "RecodingEndedChan", <<"RecodingEndedChan">>)
    BY <1>9 DEF Wait, Op
  <2>. QED  BY <1>2, <1>4, <1>9, <2>1, GoroutinesAssumption, CommandAsks
            DEF After, MainAsks
<1>10. CASE After("loop", "loop") /\ GetStats(Main)
  <2>1. Invoke(Main, "GetStats", <<"GetStats">>)
    BY <1>10 DEF GetStats, Op
  <2>. QED  BY <1>2, <1>4, <1>10, <2>1, GoroutinesAssumption, CommandAsks
            DEF After, MainAsks
<1>. QED  BY <1>5, <1>6, <1>7, <1>8, <1>9, <1>10 DEF Open, Tick

LEMMA ExitStep ==
    ASSUME ForwardInv, stage # "none", Return \/ Fatal
    PROVE  CommandInv' /\ SessionInv' /\ stage' \in Stages
<1>1. /\ SessionInv /\ CommandInv /\ CallsPlaced /\ late = {} /\ open = 1..created
  BY DEF ForwardInv, CommandInv
<1>2. /\ owner = "running" /\ owner' = "exited" /\ pc[Main] = "idle"
      /\ UNCHANGED <<lcVars, build, factory, handles, child, kernels, calling, late>>
      /\ \/ /\ stage = "loop" /\ stage' = "ended"
            /\ pc[Waiter] = "idle" \/ Main \in failed
         \/ stage # "loop" /\ stage' = "fatal"
  BY DEF Return, Fatal, Exit, Cancelled
<1>3. Steady
  BY <1>1, <1>2, SteadyKept DEF calling
<1>4. LateOK' /\ ProgramOK'
  BY <1>1, <1>2, Parts, LateKept DEF ProgramOK, calling
<1>5. SessionInv'
  BY <1>1, <1>2, <1>3, <1>4, QuietStep DEF calling, lcVars, lifecycle
<1>6. UNCHANGED <<server, created, open, begun, cancelled, announced, pc, job, failed, late>>
  BY <1>2 DEF lcVars, lifecycle, calling
<1>7. stage # "ended"
  BY <1>1, <1>2 DEF CommandInv
<1>8. CallsPlaced'
  BY <1>1, <1>2, <1>6, <1>7 DEF CallsPlaced, Busy
<1>9. HasContext' => created' = 1
  BY <1>1, <1>2, <1>6 DEF CommandInv, HasContext
<1>10. stage' = "ended" => Over'
  BY <1>1, <1>2, <1>6 DEF CommandInv, Over, Busy
<1>11. ~HasStarted'
  BY <1>2 DEF HasStarted
<1>. QED  BY <1>1, <1>2, <1>5, <1>6, <1>8, <1>9, <1>10, <1>11 DEF CommandInv, Stages

\* The ticker's call is given up when the context is done.
LEMMA CancelStep ==
    ASSUME ForwardInv, Cancelled, GiveUp(Main), stage' = stage
    PROVE  CommandInv' /\ SessionInv'
<1>1. /\ SessionInv /\ CommandInv /\ CallsPlaced /\ late = {} /\ open = 1..created
      /\ stage = "loop" /\ ~Busy(Waiter)
  BY DEF ForwardInv, CommandInv, Cancelled, Busy
<1>2. Main \in Threads /\ Waiter \in Threads /\ Main # Waiter
  BY GoroutinesAssumption DEF Threads
<1>3. SessionInv'
  BY <1>1, <1>2, GiveUpStep
<1>4. /\ Break(Main, TRUE) /\ Busy(Main)
      /\ late' = late \/ (late' = late \cup {Doing(Main)} /\ Doing(Main) \in Changes)
  BY DEF GiveUp, Break, Busy
<1>5. job[Main].op = "GetStats" /\ job[Main].ok
  BY <1>1, <1>4 DEF CallsPlaced, MainAsks
<1>6. Doing(Main) = "GetStats"
  <2>1. PlanOK(job[Main])
    BY <1>1, <1>2, <1>4, AtWork
  <2>2. Head(job[Main].todo) = job[Main].op
    BY ONLY <1>5, <2>1, SinglePlan DEF Singles
  <2>. QED  BY <1>5, <2>2 DEF Doing
<1>7. Advance(Main, FALSE) /\ late' = {} /\ UNCHANGED lcVars
  BY <1>1, <1>4, <1>6 DEF Break, Changes
<1>8. pc'[Main] = "idle" /\ \A u \in Threads : u # Main => Still(u)
  BY <1>1, <1>2, <1>4, <1>5, <1>7, AdvanceEnds DEF Singles
<1>9. \A u \in Threads : u # Main => Busy(u)' = Busy(u) /\ job'[u] = job[u]
  BY <1>8, StillBusy DEF Still
<1>10. CallsPlaced'
  BY <1>1, <1>2, <1>8, <1>9 DEF CallsPlaced, Busy
<1>11. UNCHANGED <<server, created, open, begun, cancelled, announced>>
  BY <1>7 DEF lcVars, lifecycle
<1>12. created = 1 /\ Context \in begun \cup cancelled /\ Over
  BY <1>1 DEF CommandInv, HasContext, HasStarted
<1>. QED  BY <1>1, <1>3, <1>7, <1>10, <1>11, <1>12 DEF CommandInv, Over

LEMMA ForwardInitial == ForwardInit => ForwardInv
<1>. SUFFICES ASSUME ForwardInit PROVE ForwardInv
  OBVIOUS
<1>1. SessionInv
  BY SessionInit DEF ForwardInit
<1>2. stage \in Stages /\ stage \in {"none", "begin"}
  BY DEF ForwardInit, Stages
<1>3. \A t \in Threads : ~Busy(t)
  BY DEF ForwardInit, Init, Busy
<1>4. Main \in Threads /\ Waiter \in Threads
  BY GoroutinesAssumption DEF Threads
<1>5. CallsPlaced
  BY <1>3, <1>4 DEF CallsPlaced
<1>6. late = {} /\ open = 1..created
  BY DEF ForwardInit, Init, LcInit
<1>7. ~HasContext /\ ~HasStarted
  BY <1>2 DEF HasContext, HasStarted
<1>. QED  BY <1>1, <1>2, <1>5, <1>6, <1>7 DEF ForwardInv, CommandInv

\* Nothing moves in a program that has ended.
LEMMA SystemRuns ==
    ASSUME System
    PROVE  owner = "running"
  BY DEF System, RunEncoderServer, Crash, Interrupt, Finish, HandleLate, Serves,
         Go, Serving, Unsupported, Fork, Spawn, RunServer, ReadReport, SelectReport,
         Process_Kill, Process_Die, FinishDie, Receive, Handle, Watch, HandlePanic,
         HandleDie, AnnounceEnd, Lost, Break, Does

LEMMA CommandStutter ==
    ASSUME ForwardInv, UNCHANGED allVars
    PROVE  ForwardInv'
<1>1. UNCHANGED vars /\ stage' = stage
  BY DEF allVars
<1>2. SessionInv'
  BY <1>1, StutterStep DEF ForwardInv
<1>3. UNCHANGED <<server, created, open, begun, cancelled, announced, owner, pc, job,
                  failed, late>>
  BY <1>1 DEF vars, lcVars, lifecycle, program, calling
<1>4. /\ HasContext' = HasContext /\ HasStarted' = HasStarted
      /\ CallsPlaced' = CallsPlaced /\ Over' = Over /\ Busy(Waiter)' = Busy(Waiter)
  BY <1>1, <1>3 DEF HasContext, HasStarted, CallsPlaced, Over, Well, Doing, Busy
<1>5. CommandInv'
  BY <1>1, <1>3, <1>4 DEF ForwardInv, CommandInv
<1>. QED  BY <1>1, <1>2, <1>5 DEF ForwardInv

LEMMA ForwardStep ==
    ASSUME ForwardInv, [ForwardNext]_allVars
    PROVE  ForwardInv'
<1>. USE DEF ForwardInv
<1>1. CASE UNCHANGED allVars
  BY <1>1, CommandStutter
<1>2. CASE stage = "none" /\ Next /\ UNCHANGED stage
  <2>1. SessionInv'
    BY <1>2, SessionNext
  <2>. QED  BY <1>2, <2>1 DEF CommandInv
<1>3. CASE stage # "none" /\ System /\ UNCHANGED stage
  <2>1. SessionInv' /\ owner = "running"
    BY <1>3, SystemStep, SystemRuns
  <2>2. late = {}
    BY <1>3 DEF CommandInv
  <2>3. CASE Interrupt \/ Finish \/ RunEncoderServer \/ Crash
    BY <1>3, <2>1, <2>3, CommandServerStep
  <2>4. CASE \E t \in Threads : Go(t) \/ Serving(t) \/ Lost(t)
    BY <1>3, <2>1, <2>4, CommandCallStep
  <2>. QED  BY <1>3, <2>2, <2>3, <2>4 DEF System
<1>4. CASE Quiet /\ UNCHANGED stage
  BY <1>4, CommandStutter DEF Quiet, allVars
<1>5. CASE stage # "none" /\ Command
  BY <1>5, OpenStep, ExitStep DEF Command
<1>6. CASE Cancelled /\ GiveUp(Main) /\ UNCHANGED stage
  BY <1>6, CancelStep
<1>. QED  BY <1>1, <1>2, <1>3, <1>4, <1>5, <1>6 DEF ForwardNext

\* The invariant of the command, and of any other program.
THEOREM ForwardInvariant == ForwardSpec => []ForwardInv
<1>. QED  BY ForwardInitial, ForwardStep, PTL DEF ForwardSpec

\* The types.
THEOREM ForwardTypeCorrect == ForwardSpec => []ForwardTypeOK
<1>1. ForwardInv => ForwardTypeOK
  BY DEF ForwardInv, SessionInv, ForwardTypeOK
<1>. QED  BY <1>1, ForwardInvariant, PTL

\* A Wait that nobody cancelled returns nil truthfully, and a closed factory
\* leaves no server serving, in the command as in any other program.
THEOREM ForwardSession == ForwardSpec => [](WaitTruthful /\ CloseStopsServer)
<1>1. ForwardInv => WaitTruthful /\ CloseStopsServer
  BY DEF ForwardInv, SessionInv
<1>. QED  BY <1>1, ForwardInvariant, PTL

\* Once its recoding started the command exits only when that is over, or the
\* server is.
THEOREM ExitIsJustified == ForwardSpec => []ExitJustified
<1>1. ForwardInv => ExitJustified
  BY DEF ForwardInv, CommandInv, ExitJustified, Over
<1>. QED  BY <1>1, ForwardInvariant, PTL

\* The command never asks what would make its server crash.
THEOREM AsksSafely == ForwardSpec => []AsksNothingFatal
<1>1. ForwardInv => AsksNothingFatal
  BY NothingFatal DEF AsksNothingFatal
<1>. QED  BY <1>1, ForwardInvariant, PTL

-----------------------------------------------------------------------------
(***************************************************************************)
(* What a closed factory leaves behind, whatever the program is.           *)
(***************************************************************************)

LEMMA CommandRestrained ==
    ASSUME SessionInv, Command
    PROVE  Restrained
<1>1. Main \in Threads /\ Waiter \in Threads
  BY GoroutinesAssumption DEF Threads
<1>2. CASE Open \/ Tick
  <2>1. Call(Main) \/ Call(Waiter)
    BY <1>2 DEF Open, Tick, Call
  <2>. QED  BY <1>1, <2>1, CallRestrained
<1>3. CASE Return \/ Fatal
  BY <1>3 DEF Return, Fatal, Exit, calling, lcVars, lifecycle, Restrained, Stopping
<1>. QED  BY <1>2, <1>3 DEF Command

LEMMA ForwardRestrained ==
    ASSUME ForwardInv, [ForwardNext]_allVars
    PROVE  Restrained
<1>1. SessionInv /\ Main \in Threads
  BY GoroutinesAssumption DEF ForwardInv, Threads
<1>. QED  BY <1>1, SessionRestrained, SystemRestrained, StutterRestrained,
             CommandRestrained, BreakRestrained
          DEF ForwardNext, Quiet, GiveUp, allVars

\* The server of a closed factory has no input open, unless its process is gone.
THEOREM ForwardClosedHasNoInput == ForwardSpec => []ClosedHasNoInput
<1>1. ForwardInit => InputInv
  BY InputInit DEF ForwardInit
<1>2. ForwardInv /\ InputInv /\ [ForwardNext]_allVars => InputInv'
  BY ForwardRestrained, RestrainedKeeps
<1>3. ForwardInv /\ InputInv => ClosedHasNoInput
  BY ClosedNoInput DEF ForwardInv
<1>. QED  BY <1>1, <1>2, <1>3, ForwardInvariant, PTL DEF ForwardSpec

\* Nothing starts, and nothing is opened, in the server of a closed factory.
THEOREM ForwardClosedStartsNothing == ForwardSpec => ClosedStartsNothing
<1>1. ForwardInv /\ [ForwardNext]_allVars
        => [factory = "closed" /\ owner = "running"
              => running' \subseteq running /\ kernels' \subseteq kernels]_vars
  BY ForwardRestrained, ClosedStartsNoStep DEF ForwardInv
<1>. QED  BY <1>1, ForwardInvariant, PTL DEF ForwardSpec, ClosedStartsNothing
=============================================================================
