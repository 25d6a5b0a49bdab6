-------------------------- MODULE LibavSessionProofs -------------------------
(***************************************************************************)
(* The library, proved for any number of goroutines that call it and of    *)
(* requests on their way, in every build: a Wait that returns nil is       *)
(* truthful, and a closed factory leaves no server serving.                *)
(*                                                                         *)
(* The invariant rests on what an operation has yet to do: it is one of a  *)
(* few plans, and only one goroutine makes or closes the factory.          *)
(***************************************************************************)
EXTENDS LibavSession, FiniteSetTheorems, TLAPS

Singles == {"CloseContext", "StartRecoding", "GetStats", "RecodingEndedChan",
            "NewInput", "NewOutput", "CloseInput", "CloseOutput"}

PlanOK(j) ==
    \/ /\ j.op = "NewFactory"
       /\ \/ j.todo = <<"Run", "SetLoggingLevel", "NewContext">>
          \/ j.todo = <<"SetLoggingLevel", "NewContext">>
          \/ j.todo = <<"NewContext">>
    \/ /\ j.op = "CloseFactory"
       /\ j.todo = <<"CloseContext", "Kill">> \/ j.todo = <<"Kill">> \/ j.todo = <<"Die">>
    \/ j.op = "Finalize" /\ (j.todo = <<"Kill">> \/ j.todo = <<"Die">>)
    \/ j.op \in Singles /\ j.todo = <<j.op>>

Todos == Seq(Rpcs \cup {"Run", "Kill"})

Fitting(p, what) ==
    /\ p \in {"ready", "report", "sent", "watching", "stopping", "answered"}
    /\ p = "ready" => what \in {"Run", "Kill"}
    /\ p = "report" => what = "Run"
    /\ p = "sent" => what \in Rpcs
    /\ p = "watching" => what = "RecodingEndedChan"
    /\ p = "stopping" => what = "Die"
    /\ p = "answered" => what \in Rpcs \ {"Die"}

Busy(t) == pc[t] # "idle"

\* Who makes or closes the factory.
Maker(t) == Busy(t) /\ job[t].op \in {"NewFactory", "CloseFactory"}

ThreadOK(t) == Busy(t) =>
    /\ PlanOK(job[t]) /\ Fitting(pc[t], Doing(t))
    /\ job[t].op = "NewFactory" => factory = "making"
    /\ job[t].op = "CloseFactory" => factory = "closing"
    /\ job[t].op = "NewFactory" =>
          created = 0 \/ (pc[t] = "answered" /\ Doing(t) = "NewContext")
    /\ build = "nolibav" => pc[t] = "ready" /\ Doing(t) = "Run"
    /\ pc[t] = "answered" /\ Doing(t) = "RecodingEndedChan" => Context \in announced

\* The one context of the factory is asked for once.
FactoryOK ==
    /\ \A t, u \in Threads : Maker(t) /\ Maker(u) => t = u
    /\ factory = "none" => created = 0
    /\ "NewContext" \in late => created = 0 /\ factory \notin {"none", "making"}
    /\ build = "nolibav" => factory \in {"none", "making", "failed"}

SessionInv ==
    /\ TypeOK
    /\ \A t \in Threads : ThreadOK(t)
    /\ FactoryOK
    /\ CloseStopsServer
    /\ WaitTruthful

\* The parts of TypeOK.
LcOK ==
    /\ server \in {"serving", "stopped", "gone"}
    /\ created \in 0..Context
    /\ open \subseteq 1..created /\ begun \subseteq 1..created
    /\ running \subseteq begun
    /\ cancelled \subseteq 1..created /\ announced \subseteq 1..created

ProgramOK ==
    /\ build \in Builds
    /\ owner \in {"running", "crashed", "exited"}
    /\ child \in {"none", "starting", "listening", "failed"}
    /\ factory \in {"none", "making", "failed", "made", "closing", "closed",
                   "dropped", "collected"}
    /\ handles \subseteq Kernels /\ kernels \subseteq Kernels
    /\ waited \in BOOLEAN

CallsOK ==
    /\ pc \in [Threads -> {"idle", "ready", "report", "sent", "watching",
                           "stopping", "answered"}]
    /\ job \in [Threads -> [op : Operations, todo : Todos, ok : BOOLEAN]]
    /\ failed \subseteq Threads

LateOK == late \subseteq Changes /\ Cardinality(late) <= MaxLate

\* What no step undoes.
Steady ==
    /\ LcOK' /\ build' = build
    /\ announced \subseteq announced'
    /\ server # "serving" => server' # "serving"
    /\ owner' = "running" => owner = "running"
    /\ waited' => waited \/ Context \in announced' \/ server' # "serving"

-----------------------------------------------------------------------------
(***************************************************************************)
(* Plans.                                                                  *)
(***************************************************************************)

LEMMA Tuples ==
    /\ \A a : Len(<<a>>) = 1 /\ Head(<<a>>) = a
    /\ \A a, b : Len(<<a, b>>) = 2 /\ Head(<<a, b>>) = a /\ <<a, b>>[2] = b
                /\ Tail(<<a, b>>) = <<b>>
    /\ \A a, b, c : Len(<<a, b, c>>) = 3 /\ Head(<<a, b, c>>) = a /\ <<a, b, c>>[2] = b
                   /\ Tail(<<a, b, c>>) = <<b, c>>
  OBVIOUS

LEMMA TupleTypes ==
    ASSUME NEW S
    PROVE  /\ \A a \in S : <<a>> \in Seq(S)
           /\ \A a, b \in S : <<a, b>> \in Seq(S)
           /\ \A a, b, c \in S : <<a, b, c>> \in Seq(S)
  OBVIOUS

\* A plan is a sequence of things to do, and what is left of it is a plan.
LEMMA PlanFacts ==
    ASSUME NEW j, PlanOK(j)
    PROVE  /\ j.op \in Operations
           /\ j.todo \in Todos
           /\ Len(j.todo) \in Nat \ {0}
           /\ Head(j.todo) \in Rpcs \cup {"Run", "Kill"}
           /\ Len(j.todo) <= 1 /\ j.op = "CloseFactory" => Head(j.todo) \in {"Kill", "Die"}
           /\ Head(j.todo) = "Run" => j.op = "NewFactory"
           /\ Head(j.todo) = "NewContext" => j.op = "NewFactory" /\ Len(j.todo) = 1
           /\ Len(j.todo) > 1 => j.op \in {"NewFactory", "CloseFactory"}
<1>. DEFINE o == j.op
            s == j.todo
            T == Rpcs \cup {"Run", "Kill"}
<1>. USE DEF PlanOK, Rpcs, Operations, Cancellable, Singles
<1>1. o \in Operations
  OBVIOUS
<1>2. s \in Seq(T)
  <2>2. {"Run", "SetLoggingLevel", "NewContext", "CloseContext", "Kill"} \subseteq T
    OBVIOUS
  <2>. HIDE DEF s
  <2>1. \/ s = <<"Run", "SetLoggingLevel", "NewContext">>
        \/ s = <<"SetLoggingLevel", "NewContext">> \/ s = <<"CloseContext", "Kill">>
        \/ \E r \in T : s = <<r>>
    BY DEF s
  <2>. HIDE DEF T
  <2>. QED  BY ONLY <2>1, <2>2, TupleTypes
<1>3. CASE s = <<"Run", "SetLoggingLevel", "NewContext">>
  <2>1. Len(s) = 3 /\ Head(s) = "Run"
    BY <1>3, Tuples
  <2>2. o = "NewFactory"
    BY <1>3, <2>1, Tuples
  <2>. QED  BY <1>1, <1>2, <2>1, <2>2 DEF Todos
<1>4. CASE \/ s = <<"SetLoggingLevel", "NewContext">> /\ o = "NewFactory"
           \/ s = <<"CloseContext", "Kill">> /\ o = "CloseFactory"
  <2>1. Len(s) = 2 /\ Head(s) \in {"SetLoggingLevel", "CloseContext"}
    BY <1>4, Tuples
  <2>. QED  BY <1>1, <1>2, <1>4, <2>1 DEF Todos
<1>5. CASE \E r : s = <<r>>
  <2>1. PICK r : s = <<r>>
    BY <1>5
  <2>2. Len(s) = 1 /\ Head(s) = r
    BY <2>1, Tuples
  <2>3. \/ r = "NewContext" /\ o = "NewFactory"
        \/ r \in {"Kill", "Die"} /\ o \in {"CloseFactory", "Finalize"}
        \/ r \in Singles /\ o = r
    BY <2>1, <2>2, Tuples
  <2>. QED  BY <1>1, <1>2, <2>2, <2>3 DEF Todos
<1>. QED  BY <1>3, <1>4, <1>5

LEMMA PlanTail ==
    ASSUME NEW j, PlanOK(j), Len(j.todo) > 1,
           NEW k, k.op = j.op, k.todo = Tail(j.todo)
    PROVE  /\ PlanOK(k)
           /\ Fitting(At(j.todo[2]), Head(k.todo))
           /\ Head(k.todo) \notin {"RecodingEndedChan", "Run"}
<1>. DEFINE s == j.todo
<1>1. CASE s = <<"Run", "SetLoggingLevel", "NewContext">>
  <2>1. j.op = "NewFactory"
    BY <1>1, Tuples DEF PlanOK
  <2>2. k.todo = <<"SetLoggingLevel", "NewContext">> /\ s[2] = "SetLoggingLevel"
    BY <1>1, Tuples
  <2>3. Head(k.todo) = "SetLoggingLevel" /\ At(s[2]) = "sent"
    BY <2>2, Tuples DEF At
  <2>. QED  BY <2>1, <2>2, <2>3 DEF PlanOK, Fitting, Rpcs
<1>2. CASE s = <<"SetLoggingLevel", "NewContext">> /\ j.op = "NewFactory"
  <2>1. k.todo = <<"NewContext">> /\ s[2] = "NewContext"
    BY <1>2, Tuples
  <2>2. Head(k.todo) = "NewContext" /\ At(s[2]) = "sent"
    BY <2>1, Tuples DEF At
  <2>. QED  BY <1>2, <2>1, <2>2 DEF PlanOK, Fitting, Rpcs
<1>3. CASE s = <<"CloseContext", "Kill">> /\ j.op = "CloseFactory"
  <2>1. k.todo = <<"Kill">> /\ s[2] = "Kill"
    BY <1>3, Tuples
  <2>2. Head(k.todo) = "Kill" /\ At(s[2]) = "ready"
    BY <2>1, Tuples DEF At
  <2>. QED  BY <1>3, <2>1, <2>2 DEF PlanOK, Fitting, Rpcs
<1>4. CASE \E r : s = <<r>>
  <2>1. Len(s) = 1
    BY <1>4, Tuples
  <2>. QED  BY <2>1
<1>. QED  BY <1>1, <1>2, <1>3, <1>4 DEF PlanOK
-----------------------------------------------------------------------------
(***************************************************************************)
(* Steps: a call begins, goes on to its next thing to do, or moves while   *)
(* one thing is done; or nothing of the calls changes.                     *)
(***************************************************************************)

LEMMA TypeParts == TypeOK <=> LcOK /\ ProgramOK /\ CallsOK /\ LateOK
  BY DEF TypeOK, LcOK, ProgramOK, CallsOK, LateOK, Todos

LEMMA TypePartsNext == TypeOK' <=> LcOK' /\ ProgramOK' /\ CallsOK' /\ LateOK'
  BY DEF TypeOK, LcOK, ProgramOK, CallsOK, LateOK, Todos

\* What does not move stays as it should be.
LEMMA OthersKeep ==
    ASSUME SessionInv, Steady, NEW u \in Threads,
           pc'[u] = pc[u], job'[u] = job[u],
           Maker(u) => factory' = factory,
           Maker(u) /\ factory = "making" => created' = created
    PROVE  ThreadOK(u)'
  BY DEF SessionInv, Steady, ThreadOK, Maker, Busy, Doing

LEMMA TruthKept ==
    ASSUME SessionInv, Steady,
           factory' = "closed" => factory = "closed" \/ server' # "serving"
    PROVE  CloseStopsServer' /\ WaitTruthful'
  BY DEF SessionInv, Steady, CloseStopsServer, WaitTruthful

\* No call changes.
LEMMA QuietStep ==
    ASSUME SessionInv, Steady, ProgramOK', LateOK',
           pc' = pc, job' = job, failed' = failed, late' \subseteq late,
           \/ factory' = factory
           \/ factory = "made" /\ factory' = "dropped",
           created' = created \/ "NewContext" \in late \ late'
    PROVE  SessionInv'
<1>1. TypeOK'
  <2>1. CallsOK'
    BY TypeParts DEF SessionInv, CallsOK
  <2>. QED  BY <2>1, TypePartsNext DEF Steady
<1>2. ASSUME NEW u \in Threads PROVE ThreadOK(u)'
  <2>1. Maker(u) => factory \in {"making", "closing"}
    BY DEF SessionInv, ThreadOK, Maker
  <2>2. factory = "making" => created' = created
    BY DEF SessionInv, FactoryOK
  <2>. QED  BY <2>1, <2>2, OthersKeep
<1>3. FactoryOK'
  BY DEF SessionInv, FactoryOK, Steady, Maker, Busy, TypeOK
<1>4. CloseStopsServer' /\ WaitTruthful'
  BY TruthKept
<1>. QED  BY <1>1, <1>2, <1>3, <1>4 DEF SessionInv

\* Setting fields of one caller's job.
LEMMA JobStep ==
    ASSUME CallsOK, NEW t \in Threads, NEW s \in Todos, NEW b \in BOOLEAN,
           NEW f, f = [job EXCEPT ![t].todo = s, ![t].ok = b]
    PROVE  /\ f \in [Threads -> [op : Operations, todo : Todos, ok : BOOLEAN]]
           /\ f[t].op = job[t].op /\ f[t].todo = s
           /\ \A u \in Threads : u # t => f[u] = job[u]
  BY DEF CallsOK

\* One thing is done, and the call goes on or ends.
LEMMA AdvanceStep ==
    ASSUME SessionInv, Steady, NEW t \in Threads, NEW ok \in BOOLEAN,
           Busy(t), Advance(t, ok),
           build = "nolibav" => ~ok,
           created' = created,
           Doing(t) \in {"Kill", "Die"} => server' # "serving",
           owner' \in {"running", "crashed", "exited"},
           child' \in {"none", "starting", "listening", "failed"},
           handles' \subseteq Kernels, kernels' \subseteq Kernels,
           waited' \in BOOLEAN,
           LateOK', late' \subseteq late \cup {Doing(t)},
           "NewContext" \in late' \ late => pc[t] = "sent" /\ ~ok
    PROVE  SessionInv'
<1>. DEFINE good == ok /\ job[t].ok
<1>1. /\ CallsOK /\ ProgramOK /\ LcOK /\ ThreadOK(t) /\ PlanOK(job[t])
      /\ good \in BOOLEAN
  BY TypeParts DEF SessionInv, ThreadOK, CallsOK
<1>2. CASE GoesOn(t, ok)
  <2>. DEFINE rest == Tail(job[t].todo)
              next == At(job[t].todo[2])
  <2>1. /\ pc' = [pc EXCEPT ![t] = next]
        /\ job' = [job EXCEPT ![t].todo = rest, ![t].ok = good]
        /\ failed' = failed /\ factory' = factory
    BY <1>2 DEF Advance
  <2>2. Len(job[t].todo) > 1 /\ job[t].op \in {"NewFactory", "CloseFactory"}
    BY <1>1, <1>2, PlanFacts DEF GoesOn
  <2>3. rest \in Todos
    BY <1>1, <2>2, PlanFacts DEF Todos
  <2>a. next \in {"ready", "sent"}
    BY DEF At
  <2>. HIDE DEF rest, next, good
  <2>4. /\ job' \in [Threads -> [op : Operations, todo : Todos, ok : BOOLEAN]]
        /\ job'[t].op = job[t].op /\ job'[t].todo = rest
        /\ \A u \in Threads : u # t => job'[u] = job[u]
    BY ONLY <1>1, <2>1, <2>3, JobStep, t \in Threads
  <2>5. /\ PlanOK(job'[t]) /\ Fitting(next, Head(job'[t].todo))
        /\ Head(job'[t].todo) \notin {"RecodingEndedChan", "Run"}
    BY <1>1, <2>2, <2>4, PlanTail DEF rest, next
  <2>6. /\ pc' \in [Threads -> {"idle", "ready", "report", "sent", "watching",
                                "stopping", "answered"}]
        /\ pc'[t] = next
        /\ \A u \in Threads : u # t => pc'[u] = pc[u]
    BY <1>1, <2>1, <2>a DEF CallsOK
  <2>7. build # "nolibav"
    BY <1>1, <1>2, PlanFacts DEF ThreadOK, Doing, GoesOn
  <2>b. Doing(t) # "NewContext"
    <3>1. PlanOK(job[t])
      BY <1>1
    <3>2. Len(job[t].todo) \in Nat
      BY ONLY <3>1, PlanFacts
    <3>3. Head(job[t].todo) = "NewContext" => Len(job[t].todo) = 1
      BY ONLY <3>1, PlanFacts
    <3>4. \A n \in Nat : n > 1 => n # 1
      OBVIOUS
    <3>5. Len(job[t].todo) > 1
      BY <2>2
    <3>6. Len(job[t].todo) # 1
      BY ONLY <3>2, <3>4, <3>5
    <3>. QED  BY ONLY <3>6, <3>3 DEF Doing
  <2>8. job[t].op = "NewFactory" => created = 0
    BY <1>1, <2>b DEF ThreadOK
  <2>9. TypeOK'
    <3>1. CallsOK'
      BY <1>1, <2>1, <2>4, <2>6 DEF CallsOK
    <3>2. ProgramOK'
      BY <1>1, <2>1 DEF ProgramOK, Steady
    <3>. QED  BY <3>1, <3>2, TypePartsNext DEF Steady
  <2>10. ThreadOK(t)'
    <3>1. /\ job[t].op = "NewFactory" => factory = "making"
          /\ job[t].op = "CloseFactory" => factory = "closing"
      BY <1>1 DEF ThreadOK
    <3>2. Doing(t)' = Head(job'[t].todo) /\ (PlanOK(job[t]))' = PlanOK(job'[t])
      BY DEF Doing, PlanOK
    <3>3. (build = "nolibav")' = FALSE
      BY <2>7 DEF Steady
    <3>. QED  BY <1>1, <2>1, <2>a, <2>4, <2>5, <2>6, <2>8, <3>1, <3>2, <3>3
              DEF ThreadOK
  <2>11. \A u \in Threads : ThreadOK(u)'
    BY <2>1, <2>4, <2>6, <2>10, OthersKeep
  <2>12. FactoryOK'
    <3>1. \A u \in Threads : Maker(u)' => Maker(u)
      BY <2>4, <2>6 DEF Maker, Busy
    <3>2. "NewContext" \in late' => "NewContext" \in late
      BY <2>b
    <3>. QED  BY <2>1, <2>7, <3>1, <3>2 DEF SessionInv, FactoryOK, Steady
  <2>13. CloseStopsServer' /\ WaitTruthful'
    BY <2>1, TruthKept
  <2>. QED  BY <2>9, <2>11, <2>12, <2>13 DEF SessionInv
<1>3. CASE ~GoesOn(t, ok)
  <2>1. /\ pc' = [pc EXCEPT ![t] = "idle"] /\ job' = [job EXCEPT ![t] = Idle]
        /\ failed' = (IF good THEN failed ELSE failed \cup {t})
        /\ factory' = FactoryAfter(t, good)
    BY <1>3 DEF Advance
  <2>2. Idle \in [op : Operations, todo : Todos, ok : BOOLEAN]
    BY DEF Idle, Operations, Todos
  <2>3. CallsOK'
    BY <1>1, <2>1, <2>2 DEF CallsOK
  <2>4. /\ factory' \in {"none", "making", "failed", "made", "closing", "closed",
                         "dropped", "collected"}
        /\ ~Maker(t) => factory' = factory
        /\ Maker(t) => factory' \in {"closed", "made", "dropped", "failed"}
        /\ factory' = "closed" => factory = "closed" \/ job[t].op = "CloseFactory"
    <3>. HIDE DEF good
    <3>a. good \in BOOLEAN
      BY <1>1
    <3>1. CASE job[t].op = "CloseFactory"
      BY <1>1, <2>1, <3>1 DEF FactoryAfter, Maker, ProgramOK
    <3>2. CASE job[t].op = "NewFactory"
      <4>1. FactoryAfter(t, good) \in {"made", "dropped", "failed"}
        BY <3>2, <3>a DEF FactoryAfter
      <4>. QED  BY <2>1, <3>2, <4>1 DEF Maker
    <3>3. CASE job[t].op \notin {"CloseFactory", "NewFactory"}
      <4>1. FactoryAfter(t, good) = factory
        BY <3>3 DEF FactoryAfter
      <4>. QED  BY <1>1, <2>1, <3>3, <4>1 DEF Maker, ProgramOK
    <3>. QED  BY <3>1, <3>2, <3>3
  <2>5. factory' = "closed" => factory = "closed" \/ server' # "serving"
    BY <1>1, <1>3, <2>4, PlanFacts DEF GoesOn, Doing
  <2>6. /\ pc'[t] = "idle"
        /\ \A u \in Threads : u # t => pc'[u] = pc[u] /\ job'[u] = job[u]
    BY <1>1, <2>1 DEF CallsOK
  <2>7. TypeOK'
    <3>1. ProgramOK'
      BY <1>1, <2>4 DEF ProgramOK, Steady
    <3>. QED  BY <2>3, <3>1, TypePartsNext DEF Steady
  <2>8. ASSUME NEW u \in Threads PROVE ThreadOK(u)'
    <3>1. CASE u = t
      BY <2>6, <3>1 DEF ThreadOK, Busy
    <3>2. CASE u # t
      <4>1. Maker(u) => factory' = factory
        BY <2>4, <3>2 DEF SessionInv, FactoryOK
      <4>. QED  BY <2>6, <3>2, <4>1, OthersKeep
    <3>. QED  BY <3>1, <3>2
  <2>9. FactoryOK'
    <3>1. \A u, v \in Threads : (Maker(u) /\ Maker(v))' => u = v
      BY <2>6 DEF SessionInv, FactoryOK, Maker, Busy
    <3>2. factory' = "none" => created' = 0
      BY <2>4 DEF SessionInv, FactoryOK
    <3>3. build' = "nolibav" => factory' \in {"none", "making", "failed"}
      <4>1. build = "nolibav" => Doing(t) = "Run" /\ ~good
        BY <1>1 DEF ThreadOK
      <4>2. Doing(t) = "Run" => job[t].op = "NewFactory"
        BY <1>1, PlanFacts DEF Doing
      <4>3. build = "nolibav" => factory' = "failed"
        BY <2>1, <4>1, <4>2 DEF FactoryAfter
      <4>. QED  BY <4>3 DEF Steady
    <3>4. ASSUME "NewContext" \in late'
          PROVE  created' = 0 /\ factory' \notin {"none", "making"}
      <4>1. CASE "NewContext" \in late
        BY <2>4, <4>1 DEF SessionInv, FactoryOK
      <4>2. CASE "NewContext" \notin late
        <5>1. Doing(t) = "NewContext" /\ pc[t] = "sent" /\ ~ok
          BY <3>4, <4>2
        <5>2. job[t].op = "NewFactory"
          BY <1>1, <5>1, PlanFacts DEF Doing
        <5>3. Maker(t) /\ created = 0
          BY <1>1, <5>1, <5>2 DEF Maker, ThreadOK
        <5>. QED  BY <2>4, <5>3
      <4>. QED  BY <4>1, <4>2
    <3>. QED  BY <3>1, <3>2, <3>3, <3>4 DEF FactoryOK
  <2>10. CloseStopsServer' /\ WaitTruthful'
    BY <2>5, TruthKept
  <2>. QED  BY <2>7, <2>8, <2>9, <2>10 DEF SessionInv
<1>. QED  BY <1>2, <1>3

\* One caller's call moves on within the one thing it does.
LEMMA MoveStep ==
    ASSUME SessionInv, Steady, ProgramOK', CallsOK', LateOK',
           NEW t \in Threads, Busy(t), Busy(t)', build # "nolibav",
           job'[t].op = job[t].op,
           \A u \in Threads : u # t => pc'[u] = pc[u] /\ job'[u] = job[u],
           PlanOK(job'[t]), Fitting(pc'[t], Head(job'[t].todo)),
           pc'[t] = "answered" /\ Head(job'[t].todo) = "RecodingEndedChan"
               => Context \in announced',
           factory' = factory, late' \subseteq late,
           created' = created \/ job[t].op = "NewFactory",
           job[t].op = "NewFactory" =>
               created' = 0 \/ (pc'[t] = "answered" /\ Head(job'[t].todo) = "NewContext")
    PROVE  SessionInv'
<1>1. ThreadOK(t) /\ TypeOK /\ FactoryOK
  BY DEF SessionInv
<1>2. job[t].op = "NewFactory" => factory = "making" /\ Maker(t)
  BY <1>1 DEF ThreadOK, Maker
<1>3. job[t].op = "CloseFactory" => factory = "closing"
  BY <1>1 DEF ThreadOK
<1>4. TypeOK'
  BY TypePartsNext DEF Steady
<1>5. ThreadOK(t)'
  <2>1. Doing(t)' = Head(job'[t].todo) /\ (PlanOK(job[t]))' = PlanOK(job'[t])
    BY DEF Doing, PlanOK
  <2>2. (build = "nolibav")' = FALSE
    BY DEF Steady
  <2>. QED  BY <1>2, <1>3, <2>1, <2>2 DEF ThreadOK
<1>6. ASSUME NEW u \in Threads, u # t PROVE ThreadOK(u)'
  <2>1. Maker(u) /\ factory = "making" => created' = created
    BY <1>1, <1>2, <1>6 DEF FactoryOK
  <2>. QED  BY <1>6, <2>1, OthersKeep
<1>7. FactoryOK'
  <2>1. \A u \in Threads : Maker(u)' => Maker(u)
    BY DEF Maker, Busy
  <2>2. factory \notin {"none", "making"} => created' = created
    BY <1>2
  <2>3. factory = "none" => created' = created
    BY <1>2
  <2>. QED  BY <1>1, <2>1, <2>2, <2>3 DEF FactoryOK, Steady
<1>8. CloseStopsServer' /\ WaitTruthful'
  BY TruthKept
<1>. QED  BY <1>4, <1>5, <1>6, <1>7, <1>8 DEF SessionInv

\* A call begins.
LEMMA InvokeStep ==
    ASSUME SessionInv, NEW t \in Threads, NEW op, NEW todo, Invoke(t, op, todo),
           PlanOK([op |-> op, todo |-> todo, ok |-> TRUE]),
           op = "NewFactory" => /\ factory = "none" /\ factory' = "making"
                                /\ Head(todo) = "Run",
           op = "CloseFactory" => factory = "made" /\ factory' = "closing",
           op = "Finalize" => factory = "dropped" /\ factory' = "collected",
           op \in Singles => factory' = factory /\ factory \notin {"none", "making", "failed"}
    PROVE  SessionInv'
<1>. DEFINE j == [op |-> op, todo |-> todo, ok |-> TRUE]
<1>1. /\ pc[t] = "idle" /\ pc' = [pc EXCEPT ![t] = At(Head(todo))]
      /\ job' = [job EXCEPT ![t] = j]
      /\ failed' = failed \ {t}
      /\ UNCHANGED <<lcVars, build, owner, handles, child, kernels, waited, late>>
  BY DEF Invoke
<1>2. /\ j.op = op /\ j.todo = todo /\ op \in Operations /\ todo \in Todos
      /\ Head(todo) \in Rpcs \cup {"Run", "Kill"}
  BY PlanFacts
<1>3. TypeOK /\ FactoryOK /\ CallsOK /\ LcOK /\ ProgramOK /\ LateOK
  BY TypeParts DEF SessionInv
<1>4. op \in Singles \cup {"NewFactory", "CloseFactory", "Finalize"}
  BY <1>2 DEF PlanOK
<1>5. /\ At(Head(todo)) \in {"ready", "sent"}
      /\ Fitting(At(Head(todo)), Head(todo))
  BY <1>2 DEF At, Fitting
<1>6. Steady
  BY <1>1, <1>3 DEF Steady, LcOK, lcVars, lifecycle, Context
<1>7. /\ pc'[t] = At(Head(todo)) /\ job'[t] = j
      /\ \A u \in Threads : u # t => pc'[u] = pc[u] /\ job'[u] = job[u]
  BY <1>1, <1>3 DEF CallsOK
<1>8. TypeOK'
  <2>1. j \in [op : Operations, todo : Todos, ok : BOOLEAN]
    BY <1>2
  <2>2. CallsOK'
    <3>. HIDE DEF j
    <3>. QED  BY <1>1, <1>3, <1>5, <2>1 DEF CallsOK
  <2>3. factory' \in {"none", "making", "failed", "made", "closing", "closed",
                      "dropped", "collected"}
    BY <1>3, <1>4 DEF ProgramOK
  <2>4. ProgramOK' /\ LateOK'
    BY <1>1, <1>3, <2>3 DEF ProgramOK, LateOK
  <2>. QED  BY <1>6, <2>2, <2>4, TypePartsNext DEF Steady
<1>9. \A u \in Threads : Maker(u) => op \in Singles \cup {"Finalize"} /\ factory' = factory
  BY <1>3, <1>4 DEF SessionInv, ThreadOK, Maker
<1>10. created' = created
  BY <1>1 DEF lcVars, lifecycle
<1>11. ThreadOK(t)'
  <2>1. build = "nolibav" => op = "NewFactory"
    BY <1>3, <1>4 DEF FactoryOK
  <2>2. op = "NewFactory" => created = 0 /\ At(Head(todo)) = "ready" /\ Head(todo) = "Run"
    BY <1>3 DEF FactoryOK, At
  <2>3. Doing(t)' = Head(todo) /\ (PlanOK(job[t]))' = PlanOK(j)
    BY <1>2, <1>7 DEF Doing, PlanOK
  <2>4. job'[t].op = op
    BY <1>2, <1>7
  <2>5. build' = build
    BY <1>1
  <2>. HIDE DEF j
  <2>6. PlanOK(j)
    BY DEF j
  <2>. QED  BY <1>5, <1>7, <1>10, <2>1, <2>2, <2>3, <2>4, <2>5, <2>6 DEF ThreadOK
<1>12. ASSUME NEW u \in Threads, u # t PROVE ThreadOK(u)'
  BY <1>6, <1>7, <1>9, <1>10, <1>12, OthersKeep
<1>13. FactoryOK'
  <2>1. \A u \in Threads : u # t /\ Maker(u)' => Maker(u) /\ ~Maker(t)'
    <3>1. Maker(t)' => op \in {"NewFactory", "CloseFactory"}
      BY <1>2, <1>7 DEF Maker
    <3>2. \A u \in Threads : u # t /\ Maker(u)' => Maker(u)
      BY <1>7 DEF Maker, Busy
    <3>. QED  BY <1>9, <3>1, <3>2 DEF Singles
  <2>2. \A u, v \in Threads : (Maker(u) /\ Maker(v))' => u = v
    BY <1>3, <2>1 DEF FactoryOK
  <2>3. build' = build /\ late' = late
    BY <1>1
  <2>. QED  BY <1>3, <1>4, <1>10, <2>2, <2>3 DEF FactoryOK
<1>14. CloseStopsServer' /\ WaitTruthful'
  BY <1>4, <1>6, TruthKept
<1>. QED  BY <1>8, <1>11, <1>12, <1>13, <1>14 DEF SessionInv

-----------------------------------------------------------------------------
(***************************************************************************)
(* What the server does keeps its own state in order.                      *)
(***************************************************************************)

LEMMA LcStep ==
    ASSUME LcOK,
           \/ Create /\ created = 0
           \/ Begin(Context) \/ Cancel(Context) \/ End(Context) \/ Close(Context)
           \/ CancelAll \/ StopServer \/ Leave \/ UNCHANGED lcVars
    PROVE  /\ LcOK' /\ announced \subseteq announced'
           /\ server # "serving" => server' # "serving"
           /\ created' = created \/ Create
<1>. USE DEF LcOK, Context, lifecycle, lcVars
<1>1. CASE Create /\ created = 0
  BY <1>1 DEF Create
<1>2. CASE Begin(Context)
  BY <1>2 DEF Begin
<1>3. CASE Cancel(Context)
  BY <1>3 DEF Cancel
<1>4. CASE End(Context)
  BY <1>4 DEF End
<1>5. CASE Close(Context)
  BY <1>5 DEF Close
<1>6. CASE CancelAll
  BY <1>6 DEF CancelAll
<1>7. CASE StopServer
  BY <1>7 DEF StopServer
<1>8. CASE Leave
  BY <1>8 DEF Leave
<1>9. CASE UNCHANGED lcVars
  BY <1>9
<1>. QED  BY <1>1, <1>2, <1>3, <1>4, <1>5, <1>6, <1>7, <1>8, <1>9

LEMMA EffectStep ==
    ASSUME LcOK, ProgramOK, NEW rpc, NEW ok \in BOOLEAN, Effect(rpc, ok),
           rpc = "NewContext" => created = 0
    PROVE  /\ LcOK' /\ announced \subseteq announced'
           /\ server # "serving" => server' # "serving"
           /\ created' = created \/ (rpc = "NewContext" /\ ok)
           /\ kernels' \subseteq Kernels
<1>1. kernels' \subseteq Kernels
  BY DEF Effect, ProgramOK
<1>2. \/ rpc = "NewContext" /\ ok /\ Create
      \/ Begin(Context) \/ Cancel(Context) \/ Close(Context) \/ UNCHANGED lcVars
  BY DEF Effect
<1>3. CASE rpc = "NewContext" /\ ok /\ Create
  BY <1>1, <1>3, LcStep
<1>4. CASE Begin(Context) \/ Cancel(Context) \/ Close(Context) \/ UNCHANGED lcVars
  <2>1. ~Create \/ created' = created
    BY <1>4 DEF Begin, Cancel, Close, lcVars, lifecycle
  <2>. QED  BY <1>1, <1>4, <2>1, LcStep
<1>. QED  BY <1>2, <1>3, <1>4

LEMMA FiniteChanges == IsFiniteSet(Changes)
<1>1. IsFiniteSet({"NewContext"})
  BY FS_Singleton
<1>2. IsFiniteSet({"NewContext"} \cup {"StartRecoding"})
  BY <1>1, FS_AddElement
<1>3. IsFiniteSet(({"NewContext"} \cup {"StartRecoding"}) \cup {"NewInput"})
  BY <1>2, FS_AddElement
<1>4. IsFiniteSet((({"NewContext"} \cup {"StartRecoding"}) \cup {"NewInput"}) \cup {"NewOutput"})
  BY <1>3, FS_AddElement
<1>5. Changes = (({"NewContext"} \cup {"StartRecoding"}) \cup {"NewInput"}) \cup {"NewOutput"}
  BY DEF Changes
<1>. QED  BY <1>4, <1>5

LEMMA LateKept ==
    ASSUME LateOK, late' = late \/ late' = {} \/ \E r : late' = late \ {r}
    PROVE  LateOK'
<1>1. IsFiniteSet(Changes)
  BY FiniteChanges
<1>2. IsFiniteSet(late)
  BY <1>1, FS_Subset DEF LateOK
<1>3. late' \subseteq late
  OBVIOUS
<1>4. /\ Cardinality(late') <= Cardinality(late) /\ Cardinality(late) \in Nat
      /\ Cardinality(late') \in Nat
  BY <1>2, <1>3, FS_Subset, FS_CardinalityType
<1>. QED  BY <1>3, <1>4, BoundAssumption DEF LateOK

LEMMA LateAdded ==
    ASSUME LateOK, NEW r \in Changes, Cardinality(late) < MaxLate,
           late' = late \cup {r}
    PROVE  LateOK'
<1>1. IsFiniteSet(Changes)
  BY FiniteChanges
<1>2. IsFiniteSet(late) /\ Cardinality(late) \in Nat
  BY <1>1, FS_Subset, FS_CardinalityType DEF LateOK
<1>3. Cardinality(late') = Cardinality(late) \/ Cardinality(late') = Cardinality(late) + 1
  BY <1>2, FS_AddElement
<1>. QED  BY <1>2, <1>3, BoundAssumption DEF LateOK

LEMMA Parts ==
    ASSUME SessionInv
    PROVE  /\ LcOK /\ ProgramOK /\ CallsOK /\ LateOK /\ FactoryOK
           /\ \A t \in Threads : ThreadOK(t)
           /\ CloseStopsServer /\ WaitTruthful
  BY TypeParts DEF SessionInv

LEMMA SteadyKept ==
    ASSUME SessionInv, UNCHANGED <<lcVars, build>>,
           owner' = "running" => owner = "running",
           waited' => waited \/ Context \in announced \/ server # "serving"
    PROVE  Steady
<1>1. LcOK
  BY Parts
<1>. QED  BY <1>1 DEF Steady, LcOK, Context, lcVars, lifecycle

-----------------------------------------------------------------------------
(***************************************************************************)
(* The actions.                                                            *)
(***************************************************************************)

LEMMA OpStep ==
    ASSUME SessionInv, NEW t \in Threads, NEW rpc \in Singles, Op(t, rpc)
    PROVE  SessionInv'
<1>1. /\ Invoke(t, rpc, <<rpc>>) /\ factory' = factory
      /\ factory \in {"made", "closing", "closed"}
  BY DEF Op, HasClient
<1>2. PlanOK([op |-> rpc, todo |-> <<rpc>>, ok |-> TRUE])
  BY DEF PlanOK
<1>. QED  BY <1>1, <1>2, InvokeStep DEF Singles

LEMMA CallStep ==
    ASSUME SessionInv, NEW t \in Callers, Call(t)
    PROVE  SessionInv'
<1>1. t \in Threads
  BY DEF Threads
<1>2. CASE NewFactory(t)
  <2>. DEFINE todo == <<"Run", "SetLoggingLevel", "NewContext">>
  <2>1. /\ Invoke(t, "NewFactory", todo)
        /\ factory = "none" /\ factory' = "making" /\ Head(todo) = "Run"
    BY <1>2, Tuples DEF NewFactory
  <2>2. PlanOK([op |-> "NewFactory", todo |-> todo, ok |-> TRUE])
    BY DEF PlanOK
  <2>. QED  BY <1>1, <2>1, <2>2, InvokeStep DEF Singles
<1>3. CASE CloseFactory(t)
  <2>. DEFINE todo == <<"CloseContext", "Kill">>
  <2>1. Invoke(t, "CloseFactory", todo) /\ factory = "made" /\ factory' = "closing"
    BY <1>3 DEF CloseFactory
  <2>2. PlanOK([op |-> "CloseFactory", todo |-> todo, ok |-> TRUE])
    BY DEF PlanOK
  <2>. QED  BY <1>1, <2>1, <2>2, InvokeStep DEF Singles
<1>4. CASE \E rpc \in Singles : Op(t, rpc)
  BY <1>1, <1>4, OpStep
<1>5. \/ NewFactory(t) \/ CloseFactory(t)
      \/ Op(t, "CloseContext") \/ Op(t, "StartRecoding") \/ Op(t, "GetStats")
      \/ Op(t, "RecodingEndedChan") \/ Op(t, "NewInput") \/ Op(t, "NewOutput")
      \/ Op(t, "CloseInput") \/ Op(t, "CloseOutput")
  BY DEF Call, Context_Close, Start, GetStats, Wait, NewInputFromURL,
         NewOutputFromURL, Input_Close, Output_Close
<1>. QED  BY <1>2, <1>3, <1>4, <1>5 DEF Singles

LEMMA FinalizeStep ==
    ASSUME SessionInv, Finalize
    PROVE  SessionInv'
<1>1. Collector \in Threads
  BY DEF Threads
<1>2. /\ Invoke(Collector, "Finalize", <<"Kill">>)
      /\ factory = "dropped" /\ factory' = "collected"
  BY DEF Finalize
<1>3. PlanOK([op |-> "Finalize", todo |-> <<"Kill">>, ok |-> TRUE])
  BY DEF PlanOK
<1>. QED  BY <1>1, <1>2, <1>3, InvokeStep DEF Singles

LEMMA DropStep ==
    ASSUME SessionInv, DropFactory
    PROVE  SessionInv'
<1>1. /\ factory = "made" /\ factory' = "dropped" /\ handles' = {}
      /\ UNCHANGED <<lcVars, build, owner, child, kernels, calling, late>>
  BY DEF DropFactory
<1>2. LateOK' /\ ProgramOK'
  BY <1>1, Parts, LateKept DEF ProgramOK, calling
<1>3. Steady
  BY <1>1, SteadyKept DEF calling
<1>. QED  BY <1>1, <1>2, <1>3, QuietStep DEF calling, lcVars, lifecycle

\* A process that crashes, by itself or in a handler.
LEMMA PanicStep ==
    ASSUME SessionInv, Panic, UNCHANGED calling
    PROVE  SessionInv'
<1>1. /\ Leave /\ late' = {} /\ owner' \in {owner, "crashed"}
      /\ UNCHANGED <<build, factory, handles, child, kernels>>
  BY DEF Panic
<1>2. LateOK' /\ ProgramOK'
  BY <1>1, Parts, LateKept DEF ProgramOK, calling
<1>3. /\ LcOK' /\ announced \subseteq announced' /\ created' = created
      /\ server' = "gone"
  BY <1>1, Parts, LcStep DEF Leave, lifecycle
<1>4. Steady
  BY <1>1, <1>3 DEF Steady, calling
<1>. QED  BY <1>1, <1>2, <1>3, <1>4, QuietStep DEF calling

LEMMA RecodingStep ==
    ASSUME SessionInv, Interrupt \/ Finish \/ RunEncoderServer
    PROVE  SessionInv'
<1>1. /\ Cancel(Context) \/ End(Context) \/ UNCHANGED lcVars
      /\ UNCHANGED <<program, kernels, calling, late>>
      /\ child' \in {child, "listening", "failed"}
  BY DEF Interrupt, Finish, RunEncoderServer
<1>2. LateOK' /\ ProgramOK'
  BY <1>1, Parts, LateKept DEF ProgramOK, program, calling
<1>3. created' = created
  BY <1>1 DEF Cancel, End, lcVars, lifecycle
<1>4. /\ LcOK' /\ announced \subseteq announced'
      /\ server # "serving" => server' # "serving"
  BY <1>1, Parts, LcStep
<1>5. Steady
  BY <1>1, <1>4, Parts DEF Steady, WaitTruthful, program, calling
<1>. QED  BY <1>1, <1>2, <1>3, <1>5, QuietStep DEF program, calling

LEMMA LateStep ==
    ASSUME SessionInv, NEW rpc \in late, HandleLate(rpc)
    PROVE  SessionInv'
<1>1. /\ late' = late \ {rpc} /\ UNCHANGED <<program, child, calling>>
  BY DEF HandleLate
<1>2. PICK ok \in BOOLEAN : Effect(rpc, ok)
  BY DEF HandleLate
<1>3. rpc = "NewContext" => created = 0
  BY Parts DEF FactoryOK
<1>4. /\ LcOK' /\ announced \subseteq announced'
      /\ server # "serving" => server' # "serving"
      /\ created' = created \/ rpc = "NewContext"
      /\ kernels' \subseteq Kernels
  BY <1>2, <1>3, Parts, EffectStep
<1>5. LateOK' /\ ProgramOK'
  BY <1>1, <1>4, Parts, LateKept DEF ProgramOK, program, calling
<1>6. Steady
  BY <1>1, <1>4, Parts DEF Steady, WaitTruthful, program, calling
<1>7. created' = created \/ "NewContext" \in late \ late'
  BY <1>1, <1>4
<1>. QED  BY <1>1, <1>5, <1>6, <1>7, QuietStep DEF program, calling

-----------------------------------------------------------------------------
(***************************************************************************)
(* What one caller does next.                                              *)
(***************************************************************************)

\* What a caller that is busy can be at.
LEMMA AtWork ==
    ASSUME SessionInv, NEW t \in Threads, Busy(t)
    PROVE  /\ PlanOK(job[t]) /\ Fitting(pc[t], Doing(t))
           /\ job[t].op \in Operations
           /\ Doing(t) \in Rpcs \cup {"Run", "Kill"}
           /\ Doing(t) = "NewContext" => job[t].op = "NewFactory"
           /\ job[t].op = "NewFactory" => factory = "making"
           /\ job[t].op = "NewFactory" =>
                 created = 0 \/ (pc[t] = "answered" /\ Doing(t) = "NewContext")
           /\ build = "nolibav" => pc[t] = "ready" /\ Doing(t) = "Run"
           /\ pc[t] = "answered" /\ Doing(t) = "RecodingEndedChan"
                => Context \in announced
<1>1. ThreadOK(t)
  BY Parts
<1>2. PlanOK(job[t])
  BY <1>1 DEF ThreadOK
<1>3. /\ job[t].op \in Operations
      /\ Head(job[t].todo) \in Rpcs \cup {"Run", "Kill"}
      /\ Head(job[t].todo) = "NewContext" => job[t].op = "NewFactory"
  BY ONLY <1>2, PlanFacts
<1>. QED  BY <1>1, <1>3 DEF ThreadOK, Doing

\* One thing is done, and nothing but the call changes.
LEMMA DoneStep ==
    ASSUME SessionInv, NEW t \in Threads, NEW ok \in BOOLEAN,
           Busy(t), Advance(t, ok), Doing(t) \notin {"Kill", "Die"},
           build = "nolibav" => ~ok,
           UNCHANGED <<lcVars, build, owner, handles, child, kernels, waited, late>>
    PROVE  SessionInv'
<1>1. Steady
  BY SteadyKept
<1>2. LateOK' /\ created' = created
  BY Parts, LateKept DEF lcVars, lifecycle
<1>3. /\ owner' \in {"running", "crashed", "exited"}
      /\ child' \in {"none", "starting", "listening", "failed"}
      /\ handles' \subseteq Kernels /\ kernels' \subseteq Kernels
      /\ waited' \in BOOLEAN
  BY Parts DEF ProgramOK
<1>. QED  BY <1>1, <1>2, <1>3, AdvanceStep

LEMMA UnsupportedStep ==
    ASSUME SessionInv, NEW t \in Threads, Unsupported(t)
    PROVE  SessionInv'
<1>1. /\ build = "nolibav" /\ Busy(t) /\ Advance(t, FALSE)
      /\ UNCHANGED <<lcVars, build, owner, handles, child, kernels, waited, late>>
  BY DEF Unsupported, Busy
<1>. QED  BY <1>1, AtWork, DoneStep

\* Only where the caller stands changes.
LEMMA GoStep ==
    ASSUME SessionInv, NEW t \in Threads, NEW x, Busy(t), build # "nolibav",
           pc' = [pc EXCEPT ![t] = x], Fitting(x, Doing(t)),
           job[t].op = "NewFactory" => created = 0,
           x = "answered" /\ Doing(t) = "RecodingEndedChan" => Context \in announced,
           child' \in {child, "starting"},
           UNCHANGED <<lcVars, program, kernels, job, failed, waited, late>>
    PROVE  SessionInv'
<1>1. Steady
  BY SteadyKept DEF program
<1>2. LateOK' /\ ProgramOK'
  BY Parts, LateKept DEF ProgramOK, program
<1>3. /\ x # "idle"
      /\ x \in {"idle", "ready", "report", "sent", "watching", "stopping", "answered"}
  BY DEF Fitting
<1>4. CallsOK'
  BY <1>3, Parts DEF CallsOK
<1>5. pc'[t] = x /\ \A u \in Threads : u # t => pc'[u] = pc[u]
  BY Parts DEF CallsOK
<1>6. Busy(t)'
  BY <1>3, <1>5 DEF Busy
<1>7. PlanOK(job[t])
  BY AtWork
<1>. QED  BY <1>1, <1>2, <1>4, <1>5, <1>6, <1>7, MoveStep
          DEF Doing, program, lcVars, lifecycle

LEMMA RunStep ==
    ASSUME SessionInv, NEW t \in Threads, Fork(t) \/ Spawn(t)
    PROVE  SessionInv'
<1>1. Does(t, "Run") /\ build # "nolibav"
  BY DEF Fork, Spawn, RunServer
<1>2. Busy(t) /\ Doing(t) = "Run"
  BY <1>1 DEF Does, Busy
<1>3. CASE RunServer(t)
  <2>1. /\ child' = "starting" /\ pc' = [pc EXCEPT ![t] = "report"]
        /\ UNCHANGED <<lcVars, program, kernels, job, failed, waited, late>>
    BY <1>3 DEF RunServer
  <2>2. job[t].op = "NewFactory" => created = 0
    BY <1>2, AtWork
  <2>3. Fitting("report", Doing(t))
    BY <1>2 DEF Fitting
  <2>. QED  BY <1>1, <1>2, <2>1, <2>2, <2>3, GoStep
<1>4. CASE ~RunServer(t)
  <2>1. /\ Advance(t, FALSE)
        /\ UNCHANGED <<lcVars, build, owner, handles, child, kernels, waited, late>>
    BY <1>4 DEF Fork, Spawn
  <2>. QED  BY <1>2, <2>1, DoneStep
<1>. QED  BY <1>3, <1>4

LEMMA ReportStep ==
    ASSUME SessionInv, NEW t \in Threads, ReadReport(t) \/ SelectReport(t)
    PROVE  SessionInv'
<1>1. Busy(t) /\ pc[t] = "report" /\ build # "nolibav" /\ owner = "running"
  BY DEF ReadReport, SelectReport, Busy
<1>2. Doing(t) = "Run"
  BY <1>1, AtWork DEF Fitting
<1>3. CASE \E ok \in BOOLEAN : Reported(t, ok)
  <2>1. PICK ok \in BOOLEAN : Reported(t, ok)
    BY <1>3
  <2>. QED  BY <1>1, <1>2, <2>1, DoneStep DEF Reported
<1>4. CASE ~\E ok \in BOOLEAN : Reported(t, ok)
  <2>1. /\ owner' = "crashed"
        /\ UNCHANGED <<lcVars, build, factory, handles, child, kernels, calling, late>>
    BY <1>4 DEF ReadReport, SelectReport
  <2>2. Steady
    BY <2>1, SteadyKept DEF calling
  <2>3. LateOK' /\ ProgramOK'
    BY <2>1, Parts, LateKept DEF ProgramOK, calling
  <2>. QED  BY <2>1, <2>2, <2>3, QuietStep DEF calling, lcVars, lifecycle
<1>. QED  BY <1>3, <1>4

LEMMA KillStep ==
    ASSUME SessionInv, NEW t \in Threads, Process_Kill(t)
    PROVE  SessionInv'
<1>1. /\ Busy(t) /\ Doing(t) = "Kill" /\ Leave /\ late' = {} /\ Advance(t, TRUE)
      /\ UNCHANGED <<build, owner, handles, child, kernels, waited>>
      /\ build # "nolibav"
  BY DEF Process_Kill, Does, Busy
<1>2. /\ LcOK' /\ announced \subseteq announced' /\ created' = created
      /\ server' = "gone"
  BY <1>1, Parts, LcStep DEF Leave, lifecycle
<1>3. Steady
  BY <1>1, <1>2 DEF Steady
<1>4. LateOK' /\ waited' \in BOOLEAN
  BY <1>1, Parts, LateKept DEF ProgramOK
<1>5. /\ owner' \in {"running", "crashed", "exited"}
      /\ child' \in {"none", "starting", "listening", "failed"}
      /\ handles' \subseteq Kernels /\ kernels' \subseteq Kernels
  BY <1>1, Parts DEF ProgramOK
<1>. QED  BY <1>1, <1>2, <1>3, <1>4, <1>5, AdvanceStep

LEMMA AskToDieStep ==
    ASSUME SessionInv, NEW t \in Threads, Process_Die(t)
    PROVE  SessionInv'
<1>. DEFINE rest == <<"Die">>
<1>1. /\ Busy(t) /\ Doing(t) = "Kill" /\ build # "nolibav"
      /\ pc' = [pc EXCEPT ![t] = "sent"]
      /\ job' = [job EXCEPT ![t].todo = rest]
      /\ UNCHANGED <<lcVars, program, child, kernels, failed, waited, late>>
  BY DEF Process_Die, Does, Busy
<1>2. PlanOK(job[t]) /\ CallsOK /\ (job[t].op = "NewFactory" => created = 0)
  BY <1>1, AtWork, Parts
<1>3. job[t].op \in {"CloseFactory", "Finalize"}
  <2>. DEFINE s == job[t].todo
  <2>1. Head(s) = "Kill"
    BY <1>1 DEF Doing
  <2>2. s # <<"Run", "SetLoggingLevel", "NewContext">> /\ s # <<"SetLoggingLevel", "NewContext">>
    BY <2>1, Tuples
  <2>3. \A r : s = <<r>> => r = "Kill"
    BY <2>1, Tuples
  <2>. HIDE DEF s
  <2>. QED  BY <1>2, <2>2, <2>3 DEF PlanOK, Singles, s
<1>4. rest \in Todos /\ Head(rest) = "Die"
  <2>1. "Die" \in Rpcs \cup {"Run", "Kill"}
    BY DEF Rpcs
  <2>. QED  BY <2>1, TupleTypes, Tuples DEF Todos
<1>5. /\ job' \in [Threads -> [op : Operations, todo : Todos, ok : BOOLEAN]]
      /\ job'[t].op = job[t].op /\ job'[t].todo = rest
      /\ \A u \in Threads : u # t => job'[u] = job[u]
  <2>. HIDE DEF rest
  <2>. QED  BY <1>1, <1>2, <1>4 DEF CallsOK
<1>6. PlanOK(job'[t])
  BY <1>3, <1>5 DEF PlanOK
<1>7. /\ pc'[t] = "sent" /\ CallsOK' /\ Busy(t)'
      /\ \A u \in Threads : u # t => pc'[u] = pc[u]
  <2>. HIDE DEF rest
  <2>. QED  BY <1>1, <1>2, <1>5 DEF CallsOK, Busy
<1>8. Steady
  BY <1>1, SteadyKept DEF program
<1>9. LateOK' /\ ProgramOK'
  BY <1>1, Parts, LateKept DEF ProgramOK, program
<1>10. Fitting("sent", Head(job'[t].todo)) /\ Head(job'[t].todo) = "Die"
  BY <1>4, <1>5 DEF Fitting, Rpcs
<1>. HIDE DEF rest
<1>. QED  BY <1>1, <1>2, <1>3, <1>5, <1>6, <1>7, <1>8, <1>9, <1>10, MoveStep
          DEF program, lcVars, lifecycle

LEMMA ReceiveStep ==
    ASSUME SessionInv, NEW t \in Threads, Receive(t)
    PROVE  SessionInv'
<1>1. /\ Busy(t) /\ pc[t] = "answered" /\ Advance(t, TRUE)
      /\ waited' = (waited \/ Doing(t) = "RecodingEndedChan")
      /\ handles' \subseteq handles \cup Kernels
      /\ UNCHANGED <<lcVars, build, owner, child, kernels, late>>
  BY DEF Receive, Busy
<1>2. /\ Doing(t) \notin {"Kill", "Die"} /\ build # "nolibav"
      /\ Doing(t) = "RecodingEndedChan" => Context \in announced
  BY <1>1, AtWork DEF Fitting, Rpcs
<1>3. Steady
  BY <1>1, <1>2, SteadyKept
<1>4. /\ owner' \in {"running", "crashed", "exited"}
      /\ child' \in {"none", "starting", "listening", "failed"}
      /\ handles' \subseteq Kernels /\ kernels' \subseteq Kernels
      /\ LateOK' /\ created' = created
  BY <1>1, Parts, LateKept DEF ProgramOK, lcVars, lifecycle
<1>5. waited' \in BOOLEAN
  BY <1>1, Parts DEF ProgramOK
<1>. QED  BY <1>1, <1>2, <1>3, <1>4, <1>5, AdvanceStep

LEMMA StoppedStep ==
    ASSUME SessionInv, NEW t \in Threads, FinishDie(t)
    PROVE  SessionInv'
<1>1. /\ Busy(t) /\ pc[t] = "stopping" /\ StopServer /\ late' = {}
      /\ UNCHANGED <<build, owner, handles, child, kernels, waited>>
  BY DEF FinishDie, Busy
<1>2. PICK ok \in BOOLEAN : Advance(t, ok)
  BY DEF FinishDie
<1>3. build # "nolibav"
  BY <1>1, AtWork
<1>4. /\ LcOK' /\ announced \subseteq announced' /\ created' = created
      /\ server' = "stopped"
  BY <1>1, Parts, LcStep DEF StopServer, lifecycle
<1>5. Steady
  BY <1>1, <1>4 DEF Steady
<1>6. /\ owner' \in {"running", "crashed", "exited"}
      /\ child' \in {"none", "starting", "listening", "failed"}
      /\ handles' \subseteq Kernels /\ kernels' \subseteq Kernels
      /\ LateOK' /\ waited' \in BOOLEAN
  BY <1>1, Parts, LateKept DEF ProgramOK
<1>. QED  BY <1>1, <1>2, <1>3, <1>4, <1>5, <1>6, AdvanceStep

\* A call that loses its connection, because the server is gone or because its
\* caller gave up.
LEMMA BreakStep ==
    ASSUME SessionInv, NEW t \in Threads, NEW cancel \in BOOLEAN,
           Break(t, cancel), LateOK',
           cancel \/ server # "serving",
           Doing(t) \in {"Kill", "Die"} => server # "serving",
           \/ late' = late
           \/ /\ pc[t] = "sent" /\ late' = late \cup {Doing(t)}
              /\ Doing(t) # "RecodingEndedChan"
    PROVE  SessionInv'
<1>1. /\ Busy(t) /\ pc[t] \in {"sent", "watching", "answered"}
      /\ UNCHANGED <<lcVars, build, owner, handles, child, kernels>>
      /\ waited' \in {waited, waited \/ ~cancel}
  BY DEF Break, Busy
<1>2. (Doing(t) = "RecodingEndedChan" /\ Advance(t, TRUE)) \/ Advance(t, FALSE)
  BY DEF Break
<1>3. build # "nolibav"
  BY <1>1, AtWork
<1>4. Steady
  BY <1>1, SteadyKept
<1>5. /\ owner' \in {"running", "crashed", "exited"}
      /\ child' \in {"none", "starting", "listening", "failed"}
      /\ handles' \subseteq Kernels /\ kernels' \subseteq Kernels
      /\ created' = created /\ server' = server
  BY <1>1, Parts DEF ProgramOK, lcVars, lifecycle
<1>6. waited' \in BOOLEAN
  BY <1>1, Parts DEF ProgramOK
<1>7. /\ late' \subseteq late \cup {Doing(t)}
      /\ "NewContext" \in late' \ late => Doing(t) = "NewContext" /\ pc[t] = "sent"
  OBVIOUS
<1>8. Doing(t) \in {"Kill", "Die"} => server' # "serving"
  BY <1>5
<1>9. CASE Doing(t) = "RecodingEndedChan" /\ Advance(t, TRUE)
  <2>1. "NewContext" \notin late' \ late
    BY <1>7, <1>9
  <2>. QED  BY <1>1, <1>3, <1>4, <1>5, <1>6, <1>7, <1>8, <1>9, <2>1, AdvanceStep
<1>10. CASE Advance(t, FALSE)
  BY <1>1, <1>4, <1>5, <1>6, <1>7, <1>8, <1>10, AdvanceStep
<1>. QED  BY <1>2, <1>9, <1>10

LEMMA LostStep ==
    ASSUME SessionInv, NEW t \in Threads, Lost(t)
    PROVE  SessionInv'
<1>1. server # "serving" /\ Break(t, FALSE) /\ late' = late
  BY DEF Lost
<1>. QED  BY <1>1, Parts, LateKept, BreakStep

LEMMA GiveUpStep ==
    ASSUME SessionInv, NEW t \in Threads, GiveUp(t)
    PROVE  SessionInv'
<1>1. /\ job[t].op \in Cancellable /\ Break(t, TRUE) /\ Busy(t)
      /\ \/ late' = late
         \/ /\ server = "serving" /\ pc[t] = "sent" /\ Doing(t) \in Changes
            /\ Cardinality(late) < MaxLate
            /\ late' = late \cup {Doing(t)}
  BY DEF GiveUp, Break, Busy
<1>2. Doing(t) \notin {"Kill", "Die"}
  <2>. DEFINE s == job[t].todo
  <2>1. PlanOK(job[t]) /\ job[t].op \notin {"CloseFactory", "Finalize"}
    BY <1>1, AtWork DEF Cancellable
  <2>2. CASE \E r \in Singles : s = <<r>>
    BY <2>2, Tuples DEF Doing, Singles
  <2>3. CASE s \in {<<"Run", "SetLoggingLevel", "NewContext">>,
                   <<"SetLoggingLevel", "NewContext">>, <<"NewContext">>}
    BY <2>3, Tuples DEF Doing
  <2>. HIDE DEF s
  <2>. QED  BY <2>1, <2>2, <2>3 DEF PlanOK, s
<1>3. LateOK'
  BY <1>1, Parts, LateKept, LateAdded
<1>4. Doing(t) \in Changes => Doing(t) # "RecodingEndedChan"
  BY DEF Changes
<1>. QED  BY <1>1, <1>2, <1>3, <1>4, BreakStep

LEMMA HandleStep ==
    ASSUME SessionInv, NEW t \in Threads, Handle(t)
    PROVE  SessionInv'
<1>1. /\ Busy(t) /\ pc[t] = "sent" /\ Doing(t) \in Unary
      /\ UNCHANGED <<build, owner, handles, child, waited, late>>
      /\ \/ /\ Effect(Doing(t), TRUE)
            /\ pc' = [pc EXCEPT ![t] = "answered"]
            /\ UNCHANGED <<job, factory, failed>>
         \/ Effect(Doing(t), FALSE) /\ Advance(t, FALSE)
  BY DEF Handle, Busy
<1>2. /\ PlanOK(job[t]) /\ build # "nolibav"
      /\ Doing(t) = "NewContext" => job[t].op = "NewFactory"
      /\ job[t].op = "NewFactory" => created = 0
  BY <1>1, AtWork
<1>3. /\ owner' \in {"running", "crashed", "exited"}
      /\ child' \in {"none", "starting", "listening", "failed"}
      /\ handles' \subseteq Kernels
      /\ waited' \in BOOLEAN /\ LateOK'
  BY <1>1, Parts, LateKept DEF ProgramOK
<1>4. PICK ok \in BOOLEAN :
        /\ Effect(Doing(t), ok)
        /\ ok => /\ pc' = [pc EXCEPT ![t] = "answered"]
                 /\ UNCHANGED <<job, factory, failed>>
        /\ ~ok => Advance(t, FALSE)
  BY <1>1
<1>5. /\ LcOK' /\ announced \subseteq announced'
      /\ server # "serving" => server' # "serving"
      /\ created' = created \/ (Doing(t) = "NewContext" /\ ok)
      /\ kernels' \subseteq Kernels
  BY <1>2, <1>4, Parts, EffectStep
<1>6. Steady
  BY <1>1, <1>5, Parts DEF Steady, WaitTruthful
<1>7. Doing(t) \notin {"Kill", "Die", "RecodingEndedChan"} /\ Doing(t) \in Rpcs
  BY <1>1 DEF Unary, Rpcs
<1>8. CASE ok
  <2>1. pc' = [pc EXCEPT ![t] = "answered"] /\ UNCHANGED <<job, factory, failed>>
    BY <1>4, <1>8
  <2>2. /\ CallsOK' /\ pc'[t] = "answered" /\ Busy(t)'
        /\ \A u \in Threads : u # t => pc'[u] = pc[u]
    BY <2>1, Parts DEF CallsOK, Busy
  <2>3. ProgramOK'
    BY <1>1, <1>3, <1>5, <2>1, Parts DEF ProgramOK
  <2>4. Fitting("answered", Head(job'[t].todo)) /\ Head(job'[t].todo) = Doing(t)
    BY <1>7, <2>1 DEF Fitting, Doing
  <2>5. job[t].op = "NewFactory" => created' = 0 \/ Doing(t) = "NewContext"
    BY <1>2, <1>5
  <2>6. created' = created \/ job[t].op = "NewFactory"
    BY <1>2, <1>5
  <2>. QED  BY <1>1, <1>2, <1>3, <1>6, <1>7, <2>1, <2>2, <2>3, <2>4, <2>5, <2>6, MoveStep
<1>9. CASE ~ok
  <2>1. Advance(t, FALSE) /\ created' = created
    BY <1>4, <1>5, <1>9
  <2>. QED  BY <1>1, <1>3, <1>5, <1>6, <1>7, <2>1, AdvanceStep
<1>. QED  BY <1>8, <1>9

LEMMA HandleDieStep ==
    ASSUME SessionInv, NEW t \in Threads, HandleDie(t)
    PROVE  SessionInv'
<1>1. /\ Busy(t) /\ pc[t] = "sent" /\ Doing(t) = "Die" /\ CancelAll
      /\ kernels' \subseteq kernels
      /\ pc' = [pc EXCEPT ![t] = "stopping"]
      /\ UNCHANGED <<program, child, job, failed, waited, late>>
  BY DEF HandleDie, Busy
<1>2. /\ PlanOK(job[t]) /\ build # "nolibav"
      /\ job[t].op = "NewFactory" => created = 0
  BY <1>1, AtWork
<1>3. /\ LcOK' /\ announced \subseteq announced' /\ created' = created
      /\ server' = server
  BY <1>1, Parts, LcStep DEF CancelAll
<1>4. Steady
  BY <1>1, <1>3, Parts DEF Steady, WaitTruthful, program
<1>5. LateOK' /\ ProgramOK'
  BY <1>1, Parts, LateKept DEF ProgramOK, program
<1>6. /\ CallsOK' /\ pc'[t] = "stopping" /\ Busy(t)'
      /\ \A u \in Threads : u # t => pc'[u] = pc[u]
  BY <1>1, Parts DEF CallsOK, Busy
<1>7. Fitting("stopping", Head(job'[t].todo))
  BY <1>1 DEF Fitting, Doing
<1>. QED  BY <1>1, <1>2, <1>3, <1>4, <1>5, <1>6, <1>7, MoveStep DEF program

LEMMA StreamStep ==
    ASSUME SessionInv, NEW t \in Threads, Watch(t) \/ AnnounceEnd(t)
    PROVE  SessionInv'
<1>. DEFINE x == IF Watch(t) THEN "watching" ELSE "answered"
<1>1. /\ Busy(t) /\ pc[t] \in {"sent", "watching"}
      /\ UNCHANGED <<lcVars, program, child, kernels, job, failed, waited, late>>
  BY DEF Watch, AnnounceEnd, Busy
<1>2. /\ PlanOK(job[t]) /\ Fitting(pc[t], Doing(t)) /\ build # "nolibav"
      /\ job[t].op = "NewFactory" => created = 0
  BY <1>1, AtWork
<1>3. Doing(t) = "RecodingEndedChan"
  BY <1>2 DEF Watch, AnnounceEnd, Fitting
<1>4. /\ pc' = [pc EXCEPT ![t] = x] /\ x \in {"watching", "answered"}
      /\ x = "answered" => Context \in announced
  BY DEF Watch, AnnounceEnd
<1>5. Fitting(x, Doing(t))
  BY <1>3, <1>4 DEF Fitting, Rpcs
<1>. HIDE DEF x
<1>. QED  BY <1>1, <1>2, <1>3, <1>4, <1>5, GoStep

LEMMA SystemStep ==
    ASSUME SessionInv, System
    PROVE  SessionInv'
<1>1. CASE RunEncoderServer \/ Interrupt \/ Finish
  BY <1>1, RecodingStep
<1>2. CASE Crash
  BY <1>2, PanicStep DEF Crash
<1>3. ASSUME NEW t \in Threads, Go(t) PROVE SessionInv'
  BY <1>3, UnsupportedStep, RunStep, ReportStep, KillStep, AskToDieStep,
     StoppedStep, ReceiveStep DEF Go
<1>4. ASSUME NEW t \in Threads, Serving(t) PROVE SessionInv'
  BY <1>4, HandleStep, StreamStep, HandleDieStep, PanicStep DEF Serving, HandlePanic
<1>5. ASSUME NEW t \in Threads, Lost(t) PROVE SessionInv'
  BY <1>5, LostStep
<1>6. ASSUME NEW rpc \in late, HandleLate(rpc) PROVE SessionInv'
  BY <1>6, LateStep
<1>. QED  BY <1>1, <1>2, <1>3, <1>4, <1>5, <1>6 DEF System

LEMMA StutterStep ==
    ASSUME SessionInv, UNCHANGED vars
    PROVE  SessionInv'
<1>1. UNCHANGED <<lcVars, build, owner, factory, handles, child, kernels, pc, job,
                  failed, waited, late>>
  BY DEF vars, program, calling
<1>2. Steady /\ LateOK'
  BY <1>1, SteadyKept, Parts, LateKept
<1>3. ProgramOK'
  BY <1>1, Parts DEF ProgramOK
<1>. QED  BY <1>1, <1>2, <1>3, QuietStep DEF lcVars, lifecycle

LEMMA SessionInit == Init => SessionInv
<1>. SUFFICES ASSUME Init PROVE SessionInv
  OBVIOUS
<1>1. LcOK
  BY DEF Init, LcInit, LcOK, Context
<1>2. ProgramOK
  BY DEF Init, ProgramOK, Kernels
<1>3. CallsOK
  <2>1. Idle \in [op : Operations, todo : Todos, ok : BOOLEAN]
    BY DEF Idle, Operations, Todos
  <2>. QED  BY <2>1 DEF Init, CallsOK
<1>4. LateOK
  BY FS_EmptySet, BoundAssumption DEF Init, LateOK
<1>5. \A t \in Threads : ~Busy(t)
  BY DEF Init, Busy
<1>6. (\A t \in Threads : ThreadOK(t)) /\ FactoryOK
  BY <1>5 DEF Init, LcInit, ThreadOK, FactoryOK, Maker
<1>7. CloseStopsServer /\ WaitTruthful
  BY DEF Init, CloseStopsServer, WaitTruthful
<1>. QED  BY <1>1, <1>2, <1>3, <1>4, <1>6, <1>7, TypeParts DEF SessionInv

LEMMA SessionNext ==
    ASSUME SessionInv, [Next]_vars
    PROVE  SessionInv'
<1>1. CASE UNCHANGED vars
  BY <1>1, StutterStep
<1>2. CASE Next
  <2>1. \A t \in Callers : t \in Threads
    BY DEF Threads
  <2>. QED  BY <1>1, <1>2, <2>1, SystemStep, DropStep, FinalizeStep, CallStep, GiveUpStep
            DEF Next, Quiet
<1>. QED  BY <1>1, <1>2

\* Any program that uses the library, by any number of its goroutines: the
\* invariant, and what it says of types, of Wait and of Factory.Close.
THEOREM SessionInvariant == Spec => []SessionInv
<1>. QED  BY SessionInit, SessionNext, PTL DEF Spec

THEOREM SessionTypeCorrect == Spec => []TypeOK
<1>1. SessionInv => TypeOK
  BY DEF SessionInv
<1>. QED  BY <1>1, SessionInvariant, PTL

\* A Wait that returns nil to a caller who did not cancel it is truthful.
THEOREM WaitIsTruthful == Spec => []WaitTruthful
<1>1. SessionInv => WaitTruthful
  BY DEF SessionInv
<1>. QED  BY <1>1, SessionInvariant, PTL

\* A closed factory leaves no server that serves.
THEOREM CloseStops == Spec => []CloseStopsServer
<1>1. SessionInv => CloseStopsServer
  BY DEF SessionInv
<1>. QED  BY <1>1, SessionInvariant, PTL

-----------------------------------------------------------------------------
(***************************************************************************)
(* What a closed factory leaves behind.  Only a server that serves starts  *)
(* or opens anything, and none stops but by Die, which closes the inputs   *)
(* and keeps the handlers out until it is done.                            *)
(***************************************************************************)

Stopping == server = "stopped" \/ \E t \in Threads : pc[t] = "stopping"

InputInv == Stopping => "input" \notin kernels

\* What every step of a session keeps to.
Restrained ==
    /\ Serves \/ (kernels' \subseteq kernels /\ running' \subseteq running)
    /\ server' = "stopped" => Stopping
    /\ \A t \in Threads :
          pc'[t] = "stopping" => pc[t] = "stopping" \/ "input" \notin kernels'

LEMMA RestrainedKeeps ==
    ASSUME InputInv, Restrained
    PROVE  InputInv'
  BY DEF InputInv, Restrained, Stopping, Serves

\* Nobody is let into the server's exit by what follows an answer.
LEMMA AdvanceRestrained ==
    ASSUME CallsOK, NEW t \in Threads, NEW ok, Advance(t, ok), NEW u \in Threads,
           pc'[u] = "stopping"
    PROVE  pc[u] = "stopping"
<1>1. \A what : At(what) # "stopping"
  BY DEF At
<1>. QED  BY <1>1 DEF Advance, CallsOK

LEMMA InvokeRestrained ==
    ASSUME CallsOK, NEW t \in Threads, NEW op, NEW todo, Invoke(t, op, todo)
    PROVE  Restrained
<1>1. At(Head(todo)) # "stopping"
  BY DEF At
<1>. QED  BY <1>1 DEF Invoke, CallsOK, Restrained, Stopping, lcVars, lifecycle

LEMMA CallRestrained ==
    ASSUME SessionInv, NEW t \in Threads, Call(t)
    PROVE  Restrained
  BY Parts, InvokeRestrained
     DEF Call, NewFactory, CloseFactory, Context_Close, Start, GetStats, Wait,
         NewInputFromURL, NewOutputFromURL, Input_Close, Output_Close, Op

LEMMA BreakRestrained ==
    ASSUME SessionInv, NEW t \in Threads, NEW cancel, Break(t, cancel)
    PROVE  Restrained
<1>1. /\ Advance(t, TRUE) \/ Advance(t, FALSE)
      /\ UNCHANGED <<lcVars, kernels>>
  BY DEF Break
<1>. QED  BY <1>1, Parts, AdvanceRestrained
          DEF Restrained, Stopping, lcVars, lifecycle

LEMMA GoRestrained ==
    ASSUME SessionInv, NEW t \in Threads, Go(t)
    PROVE  Restrained
<1>. USE DEF Restrained, Stopping
<1>1. CASE /\ \E ok \in BOOLEAN : Advance(t, ok)
           /\ UNCHANGED kernels
           /\ UNCHANGED lcVars \/ Leave \/ (StopServer /\ pc[t] = "stopping")
  BY <1>1, Parts, AdvanceRestrained DEF lcVars, lifecycle, Leave, StopServer
<1>2. CASE /\ UNCHANGED <<lcVars, kernels>>
           /\ pc' = pc \/ \E x \in {"report", "sent"} : pc' = [pc EXCEPT ![t] = x]
  BY <1>2, Parts DEF lcVars, lifecycle, CallsOK
<1>3. CASE Unsupported(t) \/ Fork(t) \/ Spawn(t)
  BY <1>1, <1>2, <1>3 DEF Unsupported, Fork, Spawn, RunServer
<1>4. CASE ReadReport(t) \/ SelectReport(t)
  BY <1>1, <1>2, <1>4 DEF ReadReport, SelectReport, Reported, calling
<1>5. CASE Process_Kill(t) \/ Process_Die(t)
  BY <1>1, <1>2, <1>5 DEF Process_Kill, Process_Die
<1>6. CASE FinishDie(t) \/ Receive(t)
  BY <1>1, <1>6 DEF FinishDie, Receive
<1>. QED  BY <1>3, <1>4, <1>5, <1>6 DEF Go

LEMMA ServingRestrained ==
    ASSUME SessionInv, NEW t \in Threads, Serving(t)
    PROVE  Restrained
<1>. USE DEF Restrained, Stopping
<1>1. CASE Handle(t)
  <2>1. /\ Serves
        /\ \/ pc' = [pc EXCEPT ![t] = "answered"]
           \/ Advance(t, FALSE)
        /\ \E ok \in BOOLEAN : Effect(Doing(t), ok)
    BY <1>1 DEF Handle
  <2>2. server' = server
    BY <2>1 DEF Effect, Create, Close, Begin, Cancel, lcVars
  <2>. QED  BY <2>1, <2>2, Parts, AdvanceRestrained DEF CallsOK, Serves
<1>2. CASE Watch(t) \/ AnnounceEnd(t)
  BY <1>2, Parts DEF Watch, AnnounceEnd, CallsOK, lcVars
<1>3. CASE HandlePanic(t)
  BY <1>3 DEF HandlePanic, Panic, Leave, calling
<1>4. CASE HandleDie(t)
  BY <1>4 DEF HandleDie, CancelAll
<1>. QED  BY <1>1, <1>2, <1>3, <1>4 DEF Serving

LEMMA SystemRestrained ==
    ASSUME SessionInv, System
    PROVE  Restrained
<1>1. CASE RunEncoderServer \/ Interrupt \/ Finish
  <2>1. /\ UNCHANGED <<pc, kernels, server>> /\ running' \subseteq running
    BY <1>1 DEF RunEncoderServer, Interrupt, Finish, Cancel, End, calling, lcVars, lifecycle
  <2>. QED  BY <2>1 DEF Restrained, Stopping
<1>2. CASE Crash
  BY <1>2 DEF Crash, Panic, Leave, calling, lifecycle, Restrained, Stopping
<1>3. ASSUME NEW rpc \in late, HandleLate(rpc) PROVE Restrained
  <2>1. Serves /\ pc' = pc /\ \E ok \in BOOLEAN : Effect(rpc, ok)
    BY <1>3 DEF HandleLate, calling
  <2>2. server' = server
    BY <2>1 DEF Effect, Create, Close, Begin, Cancel, lcVars
  <2>. QED  BY <2>1, <2>2 DEF Restrained, Stopping, Serves
<1>. QED  BY <1>1, <1>2, <1>3, GoRestrained, ServingRestrained, BreakRestrained
          DEF System, Lost

LEMMA StutterRestrained ==
    ASSUME UNCHANGED vars
    PROVE  Restrained
  BY DEF vars, lcVars, lifecycle, calling, Restrained, Stopping

LEMMA SessionRestrained ==
    ASSUME SessionInv, [Next]_vars
    PROVE  Restrained
<1>1. CASE DropFactory
  BY <1>1 DEF DropFactory, calling, lcVars, lifecycle, Restrained, Stopping
<1>2. CASE Finalize
  BY <1>2, Parts, InvokeRestrained DEF Finalize, Threads
<1>3. ASSUME NEW t \in Callers, Call(t) \/ GiveUp(t) PROVE Restrained
  BY <1>3, CallRestrained, BreakRestrained DEF GiveUp, Threads
<1>. QED  BY <1>1, <1>2, <1>3, SystemRestrained, StutterRestrained DEF Next, Quiet

\* The server of a closed factory serves no more, so that none of this happens.
LEMMA ClosedStartsNoStep ==
    ASSUME SessionInv, Restrained, factory = "closed", owner = "running"
    PROVE  running' \subseteq running /\ kernels' \subseteq kernels
  BY DEF SessionInv, CloseStopsServer, Restrained, Serves

LEMMA ClosedNoInput ==
    ASSUME SessionInv, InputInv
    PROVE  ClosedHasNoInput
  BY Parts DEF LcOK, CloseStopsServer, ClosedHasNoInput, InputInv, Stopping

LEMMA InputInit == Init => InputInv
  BY DEF Init, InputInv

THEOREM InputInvariant == Spec => []InputInv
<1>1. SessionInv /\ InputInv /\ [Next]_vars => InputInv'
  BY SessionRestrained, RestrainedKeeps
<1>. QED  BY <1>1, InputInit, SessionInvariant, PTL DEF Spec

\* The server of a closed factory has no input open, unless its process is gone.
THEOREM ClosedFactoryHasNoInput == Spec => []ClosedHasNoInput
<1>1. SessionInv /\ InputInv => ClosedHasNoInput
  BY ClosedNoInput
<1>. QED  BY <1>1, SessionInvariant, InputInvariant, PTL

\* Nothing starts, and nothing is opened, in the server of a closed factory.
THEOREM ClosedFactoryStartsNothing == Spec => ClosedStartsNothing
<1>1. SessionInv /\ [Next]_vars
        => [factory = "closed" /\ owner = "running"
              => running' \subseteq running /\ kernels' \subseteq kernels]_vars
  BY SessionRestrained, ClosedStartsNoStep
<1>. QED  BY <1>1, SessionInvariant, PTL DEF Spec, ClosedStartsNothing
=============================================================================
