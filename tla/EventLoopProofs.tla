-------------------------- MODULE EventLoopProofs --------------------------
(* Proofs about EventLoop, for every set of requests, every application    *)
(* and every value of the bounds.                                          *)
EXTENDS EventLoop, TLAPS

(* The round counter stays below FullEvery.                                *)
LEMMA NextRoundInRange == round \in Nat => NextRound \in 0..(FullEvery - 1)
  BY BoundAssumption DEF BoundAssumption, NextRound

(* The types of all variables are right in every reachable state.          *)
LEMMA TypeCorrect == Spec => []TypeOK
<1>1. Init => TypeOK
  <2> SUFFICES ASSUME Init PROVE TypeOK
    OBVIOUS
  <2>1. listening \in BOOLEAN /\ acceptEdge \in BOOLEAN /\ stdinReg \in BOOLEAN
    BY Zenon DEF Init
  <2>2. sleeping \in [Req -> BOOLEAN]
    BY Zenon DEF Init
  <2> QED BY <2>1, <2>2, BoundAssumption DEF BoundAssumption, Init, TypeOK
<1>2. TypeOK /\ [Next]_vars => TypeOK'
  <2> SUFFICES ASSUME TypeOK, [Next]_vars PROVE TypeOK'
    OBVIOUS
  <2> USE BoundAssumption DEF BoundAssumption, TypeOK
  <2>1. CASE BeginSelectRound
    <3>1. round' \in 0..(FullEvery - 1)
      BY <2>1, NextRoundInRange DEF BeginSelectRound
    <3>2. acceptEdge' \in BOOLEAN
      BY <2>1, Zenon DEF BeginSelectRound
    <3> QED BY <2>1, <3>1, <3>2 DEF BeginSelectRound, reqVars, clientVars
  <2>2. CASE BeginFullRound
    <3>1. round' \in 0..(FullEvery - 1)
      BY <2>2, NextRoundInRange DEF BeginFullRound
    <3> QED BY <2>2, <3>1 DEF BeginFullRound, TimedOut, ToResumeFull, FullAccepts,
                               reqVars, clientVars, kernelVars
  <2>3. ASSUME NEW r \in Req, HandleNext(r) PROVE TypeOK'
    <3>1. ReadAll(r) /\ ~ReadRaises(r) => got' \in [Req -> 0..2]
      BY DEF ReadAll, ReadRaises
    <3> QED BY <2>3, <3>1 DEF HandleNext, Handle, Touch, ReadAll, Resume, reqVars, kernelVars
  <2>4. ASSUME NEW r \in Req, Accept(r) PROVE TypeOK'
    <3>1. ReadAll(r) /\ ~ReadRaises(r) => got' \in [Req -> 0..2]
      BY DEF ReadAll, ReadRaises
    <3> QED BY <2>4, <3>1 DEF Accept, AddE, Handle, Touch, ReadAll, Resume
  <2>5. ASSUME NEW r \in Req, WakeNext(r) PROVE TypeOK'
    BY <2>5 DEF WakeNext, Resume, clientVars, kernelVars
  <2>6. CASE EndAccepts
    BY <2>6 DEF EndAccepts, reqVars, clientVars, kernelVars
  <2>7. CASE BeginWake
    BY <2>7 DEF BeginWake, reqVars, clientVars, kernelVars
  <2>8. CASE EndWake
    BY <2>8 DEF EndWake, ClearResumed, loopVars, reqVars, clientVars, kernelVars
  <2>9. ASSUME NEW r \in Req, ReadBody(r) PROVE TypeOK'
    BY <2>9 DEF ReadBody, Yield, AddE, loopVars, clientVars
  <2>10. ASSUME NEW r \in Req, WriteDone(r) PROVE TypeOK'
    BY <2>10 DEF WriteDone, loopVars, kernelVars
  <2>11. ASSUME NEW r \in Req, WriteBlocks(r) PROVE TypeOK'
    BY <2>11 DEF WriteBlocks, Yield, AddE, loopVars
  <2>12. ASSUME NEW r \in Req, Sleep(r) PROVE TypeOK'
    BY <2>12 DEF Sleep, Deregister, loopVars, clientVars
  <2>13. ASSUME NEW r \in Req, Finish(r) PROVE TypeOK'
    BY <2>13 DEF Finish, Detach, Deregister, loopVars, clientVars
  <2>14. ASSUME NEW r \in Req, Die(r) PROVE TypeOK'
    BY <2>14 DEF Die, loopVars, reqVars, clientVars, kernelVars
  <2>15. ASSUME NEW r \in Req, SleeperWakes(r) PROVE TypeOK'
    BY <2>15 DEF SleeperWakes, loopVars, reqVars, clientVars, kernelVars
  <2>16. CASE GracefulQuit
    <3>1. listening' \in BOOLEAN /\ acceptEdge' \in BOOLEAN
      BY <2>16, Zenon DEF GracefulQuit
    <3> QED BY <2>16, <3>1 DEF GracefulQuit, loopVars, reqVars, clientVars
  <2>17. ASSUME NEW r \in Req, Connect(r) PROVE TypeOK'
    BY <2>17 DEF Connect, loopVars, reqVars, clientVars
  <2>18. ASSUME NEW r \in Req, Steal(r) PROVE TypeOK'
    BY <2>18 DEF Steal, loopVars, reqVars, clientVars, kernelVars
  <2>19. ASSUME NEW r \in Req, ClientSend(r) PROVE TypeOK'
    BY <2>19 DEF ClientSend, Edge, loopVars, reqVars
  <2>20. ASSUME NEW r \in Req, ClientCloses(r) PROVE TypeOK'
    BY <2>20 DEF ClientCloses, Edge, loopVars, reqVars
  <2>21. ASSUME NEW r \in Req, Drain(r) PROVE TypeOK'
    BY <2>21 DEF Drain, Edge, loopVars, reqVars
  <2>22. CASE Tick
    BY <2>22 DEF Tick, Older, loopVars, clientVars, kernelVars
  <2>23. CASE UNCHANGED vars
    BY <2>23 DEF vars, loopVars, reqVars, clientVars, kernelVars
  <2> QED
    BY <2>1, <2>2, <2>3, <2>4, <2>5, <2>6, <2>7, <2>8, <2>9, <2>10, <2>11, <2>12,
       <2>13, <2>14, <2>15, <2>16, <2>17, <2>18, <2>19, <2>20, <2>21, <2>22, <2>23
    DEF Next, Loop, Action, Env, Terminated
<1>3. QED
  BY <1>1, <1>2, PTL DEF Spec

(* The inductive invariant: the checked invariants of EventLoop, of which  *)
(* none is inductive without the others.                                   *)
IInv == /\ MapTracksOpen
        /\ NoLostInput
        /\ WaitsRegistered
        /\ WakesAreForSleepers
        /\ LoopConsistent

LEMMA InitIInv == Init => IInv
  BY NoneAssumption DEF NoneAssumption, Init, IInv, MapTracksOpen, NoLostInput,
     WaitsRegistered, WakesAreForSleepers, WakePending, LoopConsistent

LEMMA NextIInv == TypeOK /\ TypeOK' /\ IInv /\ [Next]_vars => IInv'
<1> SUFFICES ASSUME TypeOK, TypeOK', IInv, [Next]_vars PROVE IInv'
  OBVIOUS
<1> USE NoneAssumption DEF NoneAssumption, TypeOK, Running, Unread, Pollable, Backlog,
        IInv, MapTracksOpen, NoLostInput, WaitsRegistered, WakesAreForSleepers,
        WakePending, LoopConsistent
<1>1. CASE BeginSelectRound
  BY <1>1 DEF BeginSelectRound, reqVars, clientVars
<1>2. CASE BeginFullRound
  BY <1>2 DEF BeginFullRound, TimedOut, ToResumeFull, reqVars, clientVars, kernelVars
<1>3. ASSUME NEW r \in Req, HandleNext(r) PROVE IInv'
  <2>1. CASE pc = "events" /\ r \notin map
    BY <1>3, <2>1 DEF HandleNext, reqVars, kernelVars
  <2>2. CASE r \in map /\ sleeping[r]
    BY <1>3, <2>2 DEF HandleNext, Handle, Touch, kernelVars
  <2>3. CASE r \in map /\ ~sleeping[r] /\ ReadRaises(r)
    BY <1>3, <2>3 DEF HandleNext, Handle, Touch, kernelVars
  <2>4. CASE r \in map /\ ~sleeping[r] /\ ~ReadRaises(r)
    <3>1. /\ pc \in {"events", "full"} /\ run = None /\ r \in work /\ work' = work \ {r}
          /\ UNCHANGED <<batch, map, toResume, quits, conn, sleeping, sent, blocked,
                         interest, ready, sleepers>>
          /\ age' = [age EXCEPT ![r] = 0] /\ ReadAll(r)
      BY <1>3, <2>4 DEF HandleNext, Handle, Touch, kernelVars
    <3>2. CASE ReadFails(r) \/ got'[r] = 0
      <4>1. UNCHANGED <<pc, run, fiber>>
        BY <1>3, <2>4, <3>2 DEF HandleNext, Handle
      <4> QED BY <2>4, <3>1, <3>2, <4>1 DEF ReadAll, ReadFails, ReadRaises
    <3>3. CASE ~(ReadFails(r) \/ got'[r] = 0)
      <4>1. fiber[r] # "dead"
        BY <2>4
      <4>2. /\ run' = r /\ pc' = pc
            /\ fiber' = [fiber EXCEPT ![r] = IF @ \in {"none", "sleep"} THEN "active" ELSE @]
        BY <1>3, <2>4, <3>3, <4>1 DEF HandleNext, Handle, Resume
      <4>3. fiber[r] # "sleep" /\ r \notin sleepers \cup batch
        BY <2>4
      <4>4. MapTracksOpen' /\ WaitsRegistered'
        BY <2>4, <3>1, <4>2
      <4>5. NoLostInput'
        BY <2>4, <3>1, <4>2 DEF ReadAll, ReadRaises
      <4>6. WakesAreForSleepers'
        BY <2>4, <3>1, <4>2, <4>3
      <4>7. LoopConsistent'
        BY <2>4, <3>1, <4>1, <4>2 DEF ReadAll, ReadRaises
      <4> QED BY <4>4, <4>5, <4>6, <4>7
    <3> QED BY <3>2, <3>3
  <2>5. \/ pc = "events" /\ r \notin map
        \/ r \in map /\ (sleeping[r] \/ ~sleeping[r])
    BY <1>3 DEF HandleNext
  <2> QED BY <2>1, <2>2, <2>3, <2>4, <2>5
<1>4. ASSUME NEW r \in Req, Accept(r) PROVE IInv'
  BY <1>4 DEF Accept, AddE, Handle, Touch, ReadAll, ReadFails, ReadRaises, Resume
<1>5. ASSUME NEW r \in Req, WakeNext(r) PROVE IInv'
  \* a wake up is pending for r: it is open and asleep, so it is resumed
  <2>1. r \in map /\ sleeping[r] /\ fiber[r] = "sleep" /\ r \notin interest
    BY <1>5 DEF WakeNext
  <2>2. /\ pc = "wake" /\ run = None /\ run' = r /\ batch' = batch \ {r}
        /\ fiber' = [fiber EXCEPT ![r] = "active"]
        /\ sleeping' = [sleeping EXCEPT ![r] = FALSE]
        /\ UNCHANGED <<pc, work, map, toResume, quits, conn, got, age, sent, peer,
                       blocked, interest, ready, sleepers>>
    BY <1>5, <2>1 DEF WakeNext, Resume, clientVars, kernelVars
  <2>3. MapTracksOpen' /\ NoLostInput' /\ WaitsRegistered'
    BY <2>1, <2>2
  <2>4. r \notin sleepers
    <3>1. r \in toResume
      BY <1>5 DEF WakeNext
    <3>2. sleepers \cap toResume = {}
      BY <2>2
    <3> QED BY <3>1, <3>2
  <2>5. WakesAreForSleepers'
    BY <2>1, <2>2, <2>4
  <2>6. LoopConsistent'
    BY <2>1, <2>2
  <2> QED BY <2>3, <2>5, <2>6
<1>6. CASE EndAccepts
  BY <1>6 DEF EndAccepts, reqVars, clientVars, kernelVars
<1>7. CASE BeginWake
  BY <1>7 DEF BeginWake, reqVars, clientVars, kernelVars
<1>8. CASE EndWake
  BY <1>8 DEF EndWake, ClearResumed, QuitDone, loopVars, reqVars, clientVars, kernelVars
<1>9. ASSUME NEW r \in Req, ReadBody(r) PROVE IInv'
  BY <1>9 DEF ReadBody, BodyRead, Yield, AddE, loopVars, clientVars
<1>10. ASSUME NEW r \in Req, WriteDone(r) PROVE IInv'
  BY <1>10 DEF WriteDone, CanWrite, loopVars, kernelVars
<1>11. ASSUME NEW r \in Req, WriteBlocks(r) PROVE IInv'
  BY <1>11 DEF WriteBlocks, CanWrite, Yield, AddE, loopVars
<1>12. ASSUME NEW r \in Req, Sleep(r) PROVE IInv'
  BY <1>12 DEF Sleep, Active, Deregister, loopVars, clientVars
<1>13. ASSUME NEW r \in Req, Finish(r) PROVE IInv'
  BY <1>13 DEF Finish, Active, Detach, Deregister, loopVars, clientVars
<1>14. ASSUME NEW r \in Req, Die(r) PROVE IInv'
  BY <1>14 DEF Die, Active, loopVars, reqVars, clientVars, kernelVars
<1>15. ASSUME NEW r \in Req, SleeperWakes(r) PROVE IInv'
  BY <1>15 DEF SleeperWakes, OthersMayRun, loopVars, reqVars, clientVars, kernelVars
<1>16. CASE GracefulQuit
  BY <1>16 DEF GracefulQuit, OthersMayRun, loopVars, reqVars, clientVars
<1>17. ASSUME NEW r \in Req, Connect(r) PROVE IInv'
  BY <1>17 DEF Connect, loopVars, reqVars, clientVars
<1>18. ASSUME NEW r \in Req, Steal(r) PROVE IInv'
  BY <1>18 DEF Steal, loopVars, reqVars, clientVars, kernelVars
<1>19. ASSUME NEW r \in Req, ClientSend(r) PROVE IInv'
  BY <1>19 DEF ClientSend, Connected, Edge, loopVars, reqVars
<1>20. ASSUME NEW r \in Req, ClientCloses(r) PROVE IInv'
  BY <1>20 DEF ClientCloses, Connected, Edge, loopVars, reqVars
<1>21. ASSUME NEW r \in Req, Drain(r) PROVE IInv'
  BY <1>21 DEF Drain, Connected, Edge, loopVars, reqVars
<1>22. CASE Tick
  BY <1>22 DEF Tick, Older, loopVars, clientVars, kernelVars
<1>23. CASE UNCHANGED vars
  BY <1>23 DEF vars, loopVars, reqVars, clientVars, kernelVars
<1> QED
  BY <1>1, <1>2, <1>3, <1>4, <1>5, <1>6, <1>7, <1>8, <1>9, <1>10, <1>11, <1>12, <1>13, <1>14, <1>15, <1>16, <1>17, <1>18, <1>19, <1>20, <1>21, <1>22, <1>23
  DEF Next, Loop, Action, Env, Terminated

(* Everything above in one invariant.                                      *)
LEMMA Invariant == Spec => [](TypeOK /\ IInv)
  BY TypeCorrect, InitIInv, NextIInv, PTL DEF Spec

(* rid_request_map holds exactly the open connections the sweep has not    *)
(* timed out, with their actions unfinished.                               *)
THEOREM MapTracksOpenAlways == Spec => []MapTracksOpen
  BY Invariant, PTL DEF IInv

(* Edge-triggered reading loses no input: unread input is always announced *)
(* by an edge still to be handled, or will be when the action is woken.    *)
THEOREM NoLostInputAlways == Spec => [](NoLostInput /\ WaitsRegistered)
  BY Invariant, PTL DEF IInv

(* Wake ups are pending only for parked actions, one at a time.            *)
THEOREM WakesAreForSleepersAlways == Spec => []WakesAreForSleepers
  BY Invariant, PTL DEF IInv

(* The worker exits only when no accepted connection is in progress.       *)
THEOREM QuitLosesNothingAlways == Spec => []QuitLosesNothing
<1>1. IInv => QuitLosesNothing
  BY DEF IInv, LoopConsistent, MapTracksOpen, QuitLosesNothing
<1>2. QED
  BY Invariant, <1>1, PTL

(* No sweep takes a request whose action sleeps.                           *)
THEOREM SleepersSpared == Spec => SweepSparesSleepers
<1>1. TypeOK /\ IInv /\ [Next]_vars =>
        [\A r \in map : fiber[r] = "sleep" => r \in map']_vars
  <2> SUFFICES ASSUME TypeOK, IInv, Next, NEW r \in map, fiber[r] = "sleep"
               PROVE  r \in map'
    OBVIOUS
  <2>1. r \in Req /\ run # r
    <3>1. r \in Req
      BY DEF TypeOK
    <3>2. run # r
      BY <3>1, NoneAssumption DEF NoneAssumption, IInv, LoopConsistent
    <3> QED BY <3>1, <3>2
  <2>2. sleeping[r]
    BY <2>1 DEF IInv, LoopConsistent
  <2>3. CASE BeginFullRound
    BY <2>2, <2>3 DEF BeginFullRound, TimedOut
  <2>4. ASSUME NEW s \in Req, Finish(s) PROVE r \in map'
    BY <2>1, <2>4 DEF Finish, Active, Detach
  <2>5. ASSUME NEW s \in Req, Accept(s) PROVE r \in map'
    BY <2>5 DEF Accept
  <2> QED
    BY <2>3, <2>4, <2>5
    DEF Next, Loop, Action, Env, BeginSelectRound, HandleNext, WakeNext, EndAccepts,
        BeginWake, EndWake, ReadBody, WriteDone, WriteBlocks, Sleep, Die, SleeperWakes,
        GracefulQuit, Connect, Steal, ClientSend, ClientCloses, Drain, Tick, Terminated, vars
<1>2. QED
  BY Invariant, <1>1, PTL DEF SweepSparesSleepers, Spec

(* The server socket is registered until the first QUIT.                   *)
Listens == quits = 0 => listening

LEMMA ListensUntilQuit == Spec => []Listens
<1>1. Init => Listens
  BY DEF Init, Listens
<1>2. TypeOK /\ Listens /\ [Next]_vars => Listens'
  <2> SUFFICES ASSUME TypeOK, Listens, [Next]_vars, quits' = 0
               PROVE  listening'
    BY DEF Listens
  <2>1. ~GracefulQuit
    BY BoundAssumption DEF BoundAssumption, TypeOK, GracefulQuit
  <2>2. UNCHANGED <<quits, listening>>
    BY <2>1
    DEF Next, Loop, Action, Env, BeginSelectRound, BeginFullRound, HandleNext, Accept,
        WakeNext, EndAccepts, BeginWake, EndWake, ReadBody, WriteDone, WriteBlocks, Sleep,
        Finish, Die, SleeperWakes, Connect, Steal, ClientSend, ClientCloses, Drain, Tick,
        Terminated, vars, kernelVars
  <2> QED BY <2>2 DEF Listens
<1>3. QED
  BY TypeCorrect, <1>1, <1>2, PTL DEF Spec

(* Nothing ends the worker but the four things that WorkerSurvives names:  *)
(* what a round handles is in the map, so its fiber has not ended, and what*)
(* the wake loop runs is not in epoll, so that ADD_E succeeds.             *)
THEOREM WorkerSurvivesAlways == Spec => WorkerSurvives
<1>1. TypeOK /\ IInv /\ Listens /\ [Next]_vars =>
        [Running /\ pc' = "dead" => Breaks]_vars
  <2> SUFFICES ASSUME TypeOK, IInv, Listens, Next, Running, pc' = "dead"
               PROVE  Breaks
    OBVIOUS
  <2>1. ASSUME NEW r \in Req, HandleNext(r) PROVE Breaks
    <3>1. fiber[r] # "dead"
      BY <2>1 DEF HandleNext, IInv, MapTracksOpen, LoopConsistent
    <3>2. ReadRaises(r)
      BY <2>1, <3>1 DEF HandleNext, Handle, Resume, Running
    <3> QED BY <2>1, <3>2 DEF Breaks
  <2>2. ASSUME NEW r \in Req, Accept(r) PROVE Breaks
    <3>1. fiber[r] # "dead"
      BY <2>2 DEF Accept, IInv, LoopConsistent
    <3>2. ReadRaises(r)
      BY <2>2, <3>1 DEF Accept, Handle, Resume, Running
    <3> QED BY <2>2, <3>2 DEF Breaks
  <2>3. ASSUME NEW r \in Req, WakeNext(r) PROVE FALSE
    BY <2>3 DEF WakeNext, Resume, Running
  <2>4. ASSUME NEW r \in Req, ReadBody(r) \/ WriteBlocks(r) PROVE FALSE
    BY <2>4, NoneAssumption
    DEF NoneAssumption, ReadBody, WriteBlocks, CanWrite, Yield, Running, IInv, LoopConsistent
  <2>5. ASSUME NEW r \in Req, Die(r) PROVE Breaks
    BY <2>5 DEF Breaks
  <2>6. ASSUME NEW r \in Req, Finish(r) PROVE Breaks
    BY <2>6 DEF Finish, Running, Breaks
  <2>7. CASE GracefulQuit
    BY <2>7, BoundAssumption DEF BoundAssumption, GracefulQuit, Running, TypeOK, Listens, Breaks
  <2> QED
    BY <2>1, <2>2, <2>3, <2>4, <2>5, <2>6, <2>7
    DEF Next, Loop, Action, Env, BeginSelectRound, BeginFullRound, EndAccepts, BeginWake,
        EndWake, WriteDone, Sleep, SleeperWakes, Connect, Steal, ClientSend,
        ClientCloses, Drain, Tick, Terminated, vars, Running
<1>2. QED
  BY Invariant, ListensUntilQuit, <1>1, PTL DEF WorkerSurvives, Spec

-----------------------------------------------------------------------------
(* The refinement: every step is a step of WorkerService or changes nothing*)
(* that it shows.                                                          *)

(* A step that leaves connections, the map and the process alone.          *)
LEMMA Stutter ==
  ASSUME UNCHANGED <<conn, map, quits>>, pc' = pc \/ (Running /\ Running')
  PROVE  UNCHANGED Service!vars
<1>1. Life' = Life
  BY DEF Life
<1>2. Worker' = Worker
  BY DEF Worker, Running
<1> QED BY <1>1, <1>2 DEF Service!vars

LEMMA WorkerIsAlive == Running => Service!Alive
<1> SUFFICES ASSUME Running PROVE Worker \in {"up", "quitting"}
  BY DEF Service!Alive
<1>1. pc # "dead" /\ pc # "exited"
  BY DEF Running
<1>2. Worker = IF quits > 0 THEN "quitting" ELSE "up"
  BY <1>1 DEF Worker
<1> QED BY <1>2

(* What breaks the worker without touching a connection.                   *)
LEMMA CrashStep ==
  ASSUME Running, pc' = "dead", UNCHANGED <<conn, map>>
  PROVE  Service!Crash
<1>1. Life' = Life
  BY DEF Life
<1>2. Worker' = "crashed"
  BY DEF Worker, Running
<1>3. Service!Alive
  BY WorkerIsAlive, Zenon
<1> QED BY <1>1, <1>2, <1>3 DEF Service!Crash

LEMMA ServiceStep ==
  TypeOK /\ TypeOK' /\ IInv /\ [Next]_vars => [Service!Next]_(Service!vars)
<1> SUFFICES ASSUME TypeOK, TypeOK', IInv, [Next]_vars
             PROVE  Service!Next \/ UNCHANGED Service!vars
  OBVIOUS
<1> USE DEF TypeOK
<1>1. CASE BeginSelectRound \/ EndAccepts \/ BeginWake \/ Tick
  BY <1>1, Stutter DEF BeginSelectRound, EndAccepts, BeginWake, Tick, Running
<1>2. CASE BeginFullRound
  <2>1. Running /\ Running' /\ UNCHANGED <<conn, quits>> /\ map' = map \ TimedOut
    BY <1>2 DEF BeginFullRound, Running
  <2>2. Worker' = Worker
    BY <2>1 DEF Worker, Running
  <2>3. CASE TimedOut = {}
    <3>1. map' = map
      BY <2>1, <2>3
    <3> QED BY <2>1, <3>1, Stutter
  <2>4. CASE TimedOut # {}
    <3>1. TimedOut \in (SUBSET Service!Serving) \ {{}}
      BY <2>4 DEF TimedOut, Service!Serving, Life, IInv, MapTracksOpen
    <3>2. Life' = [c \in Req |-> IF c \in TimedOut THEN "dropped" ELSE Life[c]]
      BY <2>1 DEF Life, TimedOut, IInv, MapTracksOpen
    <3>3. Service!Drop
      BY <2>1, <2>2, <3>1, <3>2, WorkerIsAlive DEF Service!Drop
    <3> QED BY <3>3 DEF Service!Next
  <2> QED BY <2>3, <2>4
<1>3. ASSUME NEW r \in Req, HandleNext(r) \/ WakeNext(r)
      PROVE  Service!Next \/ UNCHANGED Service!vars
  <2>1. Running /\ UNCHANGED <<conn, map, quits>> /\ pc' \in {pc, "dead"}
    BY <1>3 DEF HandleNext, WakeNext, Handle, Resume, Running
  <2> QED BY <2>1, Stutter, CrashStep DEF Service!Next
<1>4. ASSUME NEW r \in Req, Accept(r) PROVE Service!Next
  <2>1. Running /\ conn[r] = "backlog" /\ conn' = [conn EXCEPT ![r] = "open"]
        /\ map' = map \cup {r} /\ quits' = quits
    BY <1>4 DEF Accept, Running
  <2>2. pc' \in {pc, "dead"}
    BY <1>4 DEF Accept, Handle, Resume
  <2>3. Life' = [Life EXCEPT ![r] = "serving"] /\ Life[r] = "waiting"
    BY <2>1, ZenonT(30) DEF Life
  <2>4. Worker' \in {Worker, "crashed"}
    BY <2>1, <2>2 DEF Worker, Running
  <2>5. Service!Take(r)
    BY <2>1, <2>3, <2>4, WorkerIsAlive DEF Service!Take, Service!Move
  <2> QED BY <2>5 DEF Service!Next
<1>5. CASE EndWake
  <2>1. CASE QuitDone
    <3>1. Running /\ pc' = "exited" /\ quits > 0 /\ map = {} /\ UNCHANGED <<conn, map, quits>>
      BY <1>5, <2>1 DEF EndWake, QuitDone, Running
    <3>2. Worker = "quitting" /\ Worker' = "left" /\ Life' = Life
      BY <3>1 DEF Worker, Life, Running
    <3>3. Service!Serving = {}
      BY <3>1 DEF Service!Serving, Life
    <3>4. Service!Leave
      BY <3>2, <3>3 DEF Service!Leave
    <3> QED BY <3>4 DEF Service!Next
  <2>2. CASE ~QuitDone
    BY <1>5, <2>2, Stutter DEF EndWake, Running
  <2> QED BY <2>1, <2>2
<1>6. ASSUME NEW r \in Req, ReadBody(r) \/ WriteDone(r) \/ WriteBlocks(r) \/ Sleep(r) \/ Die(r)
      PROVE  Service!Next \/ UNCHANGED Service!vars
  <2>1. Running /\ UNCHANGED <<conn, map, quits>> /\ pc' \in {pc, "dead"}
    BY <1>6 DEF ReadBody, WriteDone, WriteBlocks, CanWrite, Sleep, Die, Active, Yield
  <2> QED BY <2>1, Stutter, CrashStep DEF Service!Next
<1>7. ASSUME NEW r \in Req, Finish(r) PROVE Service!Next
  <2>1. Running /\ r \in map /\ conn[r] = "open"
    BY <1>7, NoneAssumption DEF NoneAssumption, Finish, Active, IInv, LoopConsistent, MapTracksOpen
  <2>2. conn' = [conn EXCEPT ![r] = "closed"] /\ map' = map \ {r} /\ quits' = quits
        /\ pc' \in {pc, "dead"}
    BY <1>7 DEF Finish, Detach
  <2>3. Life' = [Life EXCEPT ![r] = "done"] /\ Life[r] = "serving"
    BY <2>1, <2>2, ZenonT(30) DEF Life
  <2>4. Worker' \in {Worker, "crashed"}
    BY <2>1, <2>2 DEF Worker, Running
  <2>5. Service!Done(r)
    BY <2>1, <2>3, <2>4, WorkerIsAlive DEF Service!Done, Service!Move
  <2> QED BY <2>5 DEF Service!Next
<1>8. ASSUME NEW r \in Req, SleeperWakes(r) \/ ClientSend(r) \/ ClientCloses(r) \/ Drain(r)
      PROVE  UNCHANGED Service!vars
  BY <1>8, Stutter DEF SleeperWakes, ClientSend, ClientCloses, Drain
<1>9. CASE GracefulQuit
  <2>1. Running /\ quits' = quits + 1 /\ quits \in Nat /\ UNCHANGED <<conn, map>>
        /\ pc' \in {pc, "dead"}
    BY <1>9, BoundAssumption DEF BoundAssumption, GracefulQuit, OthersMayRun
  <2>2. CASE pc' = "dead"
    BY <2>1, <2>2, CrashStep DEF Service!Next
  <2>3. CASE pc' = pc
    <3>1. Life' = Life
      BY <2>1 DEF Life
    <3>2. Worker' = "quitting" /\ Worker \in {"up", "quitting"}
      BY <2>1, <2>3 DEF Worker, Running
    <3> QED BY <3>1, <3>2 DEF Service!Next, Service!Quit, Service!vars
  <2> QED BY <2>1, <2>2, <2>3
<1>10. ASSUME NEW r \in Req, Connect(r) \/ Steal(r) PROVE Service!Next
  <2>1. Running /\ UNCHANGED <<map, quits, pc>>
    BY <1>10 DEF Connect, Steal
  <2>2. Worker' = Worker
    BY <2>1 DEF Worker, Running
  <2>3. CASE Connect(r)
    <3>1. Life' = [Life EXCEPT ![r] = "waiting"] /\ Life[r] = "none"
      BY <2>1, <2>3, ZenonT(30) DEF Connect, Life
    <3>2. Service!Arrive(r)
      BY <2>1, <2>2, <3>1, WorkerIsAlive DEF Service!Arrive, Service!Move
    <3> QED BY <3>2 DEF Service!Next
  <2>4. CASE Steal(r)
    <3>1. Life' = [Life EXCEPT ![r] = "elsewhere"] /\ Life[r] = "waiting"
      BY <2>1, <2>4, ZenonT(30) DEF Steal, Life
    <3>2. Service!Lose(r)
      BY <2>1, <2>2, <3>1, WorkerIsAlive DEF Service!Lose, Service!Move
    <3> QED BY <3>2 DEF Service!Next
  <2> QED BY <1>10, <2>3, <2>4
<1>11. CASE UNCHANGED vars
  BY <1>11, Stutter DEF vars
<1> QED
  BY <1>1, <1>2, <1>3, <1>4, <1>5, <1>6, <1>7, <1>8, <1>9, <1>10, <1>11
  DEF Next, Loop, Action, Env, Terminated

(* The event loop implements WorkerService: each connection is served once *)
(* and finished or dropped for good, and a quit leaves nobody unserved.    *)
THEOREM LoopImplementsService == Spec => ImplementsService
<1>1. Init => Service!Init
  BY DEF Init, Life, Worker, Running, Service!Init
<1> QED BY <1>1, Invariant, ServiceStep, PTL DEF Spec, ImplementsService, Service!Spec

=============================================================================
