---------------------------- MODULE StreamForward ----------------------------
(***************************************************************************)
(* The command streamforward (cmd/streamforward/main.go), a program that   *)
(* embeds the library: its main goroutine opens everything and then prints *)
(* the counters every second, another one waits for the end of the         *)
(* recoding and cancels the context they share.  Where `stage' is "none"   *)
(* the program is any other one.                                           *)
(***************************************************************************)
EXTENDS LibavSession

CONSTANTS Main, Waiter   \* its goroutines

ASSUME GoroutinesAssumption == Main \in Callers /\ Waiter \in Callers /\ Main # Waiter

VARIABLE stage   \* what main() has asked for last, or how it ended

allVars == <<vars, stage>>

Stages == {"none", "begin", "factory", "input", "output", "start", "loop",
           "ended", "fatal"}

ForwardTypeOK == TypeOK /\ stage \in Stages

ForwardInit == Init /\ stage \in {"none", "begin"}

\* main() goes on when the call before went well.
After(here, there) ==
    /\ stage = here /\ stage' = there
    /\ pc[Main] = "idle" /\ Main \notin failed

Open ==
    \/ After("begin", "factory") /\ NewFactory(Main)
    \/ After("factory", "input") /\ NewInputFromURL(Main)
    \/ After("input", "output") /\ NewOutputFromURL(Main)
    \/ After("output", "start") /\ Start(Main)
    \/ After("start", "loop") /\ Wait(Waiter)

\* A slip: main() does not wait for the goroutine.
Cancelled_AtOnce == stage = "loop"

\* A slip: cancelFn is called only where Wait went well.
Cancelled_AfterSuccess ==
    stage = "loop" /\ pc[Waiter] = "idle" /\ Waiter \notin failed

\* The waiting goroutine returned, and has called cancelFn.
Cancelled == stage = "loop" /\ pc[Waiter] = "idle"

\* A slip: the counters are printed before the recoding is started.
Tick_TooEarly ==
    (After("output", "output") \/ After("loop", "loop")) /\ GetStats(Main)

\* The select takes the ticker, even when the context is done as well.
Tick == After("loop", "loop") /\ GetStats(Main)

Exit(how) ==
    /\ owner = "running" /\ owner' = "exited"
    /\ stage' = how
    /\ UNCHANGED <<lcVars, build, factory, handles, child, kernels, calling, late>>

\* main() returns, or calls l.Fatal: nothing is closed in either case.
Return == Cancelled /\ pc[Main] = "idle" /\ Main \notin failed /\ Exit("ended")

Fatal ==
    /\ owner = "running" /\ pc[Main] = "idle" /\ Main \in failed
    /\ Exit(IF stage = "loop" THEN "ended" ELSE "fatal")

Command == Open \/ Tick \/ Return \/ Fatal

ForwardNext ==
    \/ stage = "none" /\ Next /\ UNCHANGED stage
    \/ stage # "none" /\ (System \/ Quiet) /\ UNCHANGED stage
    \/ stage # "none" /\ Command
    \/ Cancelled /\ GiveUp(Main) /\ UNCHANGED stage

\* The select takes neither of two ready channels for ever.
ForwardSpec ==
    /\ ForwardInit /\ [][ForwardNext]_allVars
    /\ Fairness
    /\ WF_allVars(Fatal) /\ SF_allVars(Return)

-----------------------------------------------------------------------------
(***************************************************************************)
(* Properties.                                                             *)
(***************************************************************************)

\* Once the recoding started the command exits only when the recoding is over
\* or the server is: no answer that comes late or in another order than it was
\* asked for ends a recoding that goes on.
ExitJustified ==
    stage = "ended" => Context \in announced \/ server # "serving"

\* The command asks the server nothing that would make it crash: GetStats and
\* RecodingEndedChan look a context up and use it unchecked.
AsksNothingFatal ==
    stage # "none" =>
        \A t \in Threads : pc[t] = "sent" => ~Panics(Doing(t))

\* The command ends once its recoding is over, or the server is.
ForwardEnds ==
    stage = "loop" /\ (Context \in announced \/ server # "serving")
        ~> owner # "running"
=============================================================================
