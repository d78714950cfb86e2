---------------------------- MODULE MasterProofs ----------------------------
(* Proofs about Master, for every set of masters and worker processes, any *)
(* selection of signals, and every value of the bounds.                    *)
EXTENDS Master, TLAPS, FiniteSetTheorems

(* The types of all variables are right in every reachable state.          *)
LEMMA MasterTypeCorrect == Spec => []TypeOK
<1>1. Init => TypeOK
  BY MastersAssumption, WorkersAssumption
  DEF MastersAssumption, WorkersAssumption, Init, TypeOK
<1>2. TypeOK /\ [Next]_vars => TypeOK'
  <2> SUFFICES ASSUME TypeOK, [Next]_vars PROVE TypeOK'
    OBVIOUS
  <2> USE WorkersAssumption DEF WorkersAssumption, TypeOK
  <2>1. ASSUME NEW m \in Masters, Boot(m) PROVE TypeOK'
    BY <2>1 DEF Boot, Fork, Unborn
  <2>2. ASSUME NEW m \in Masters, EarlySignal(m) PROVE TypeOK'
    BY <2>2 DEF EarlySignal, EndMaster
  <2>3. ASSUME NEW m \in Masters, QuitAll(m) PROVE TypeOK'
    <3>1. CASE Reaped(m) = {}
      BY <2>3, <3>1 DEF QuitAll, Signal, Tell
    <3>2. CASE Reaped(m) # {}
      BY <2>3, <3>2 DEF QuitAll, Signal, TellUntil, EndMaster
    <3> QED BY <3>1, <3>2
  <2>4. ASSUME NEW m \in Masters, KillAll(m) PROVE TypeOK'
    BY <2>4 DEF KillAll, Signal, EndMaster
  <2>5. ASSUME NEW m \in Masters, Ttin(m) PROVE TypeOK'
    BY <2>5 DEF Ttin, Signal, MayShrink, Tell, TellUntil, EndMaster
  <2>6. ASSUME NEW m \in Masters, Ttou(m) PROVE TypeOK'
    BY <2>6 DEF Ttou, Signal, Fork, Unborn
  <2>7. ASSUME NEW m \in Masters, RestoreWorkers(m) PROVE TypeOK'
    BY <2>7 DEF RestoreWorkers, Signal, Fork, Unborn
  <2>8. ASSUME NEW m \in Masters, SpawnNewMaster(m) PROVE TypeOK'
    BY <2>8 DEF SpawnNewMaster, Signal
  <2>9. ASSUME NEW m \in Masters, WaitallReturns(m) PROVE TypeOK'
    BY <2>9 DEF WaitallReturns, EndMaster
  <2>10. ASSUME NEW p \in Pids, WorkerQuit(p) PROVE TypeOK'
    BY <2>10 DEF WorkerQuit
  <2>11. ASSUME NEW p \in Pids, WorkerDone(p) \/ Crash(p) \/ Reap(p) PROVE TypeOK'
    BY <2>11 DEF WorkerDone, Crash, Reap
  <2>12. CASE UNCHANGED vars
    BY <2>12 DEF vars
  <2> QED
    BY <2>1, <2>2, <2>3, <2>4, <2>5, <2>6, <2>7, <2>8, <2>9, <2>10, <2>11, <2>12
    DEF Next, Operator, Process, Rest
<1> QED BY <1>1, <1>2, PTL DEF Spec

-----------------------------------------------------------------------------
(* The inductive invariant: what a process that is not forked yet looks    *)
(* like, that only told workers are sent a QUIT, and that the workers of a *)
(* master that boots are all its children.                                 *)
UnbornFresh == \A p \in Pids : proc[p] = "unborn" => parent[p] = None /\ told[p] = 0
QuittingTold == \A p \in quitting : told[p] > 0
BootingHasAll ==
  \A m \in Masters : master[m] \in {"none", "boot"} =>
    workers[m] = Children(m) /\ target[m] = InitWorkers
IInv == /\ TypeOK
        /\ Listed
        /\ QuitOnce
        /\ UnbornFresh
        /\ QuittingTold
        /\ BootingHasAll

(* A fork adds fresh pids to the list of the master that forks.            *)
LEMMA ForkKeeps ==
  ASSUME IInv, NEW m \in Masters, NEW new \in SUBSET Unborn, Fork(m, new),
         UNCHANGED <<told, quitting>>
  PROVE  Listed' /\ QuitOnce' /\ UnbornFresh' /\ QuittingTold'
<1> USE MastersAssumption DEF MastersAssumption, IInv, TypeOK
<1>1. \A p \in new : /\ parent[p] = None /\ told[p] = 0
                     /\ \A n \in Masters : p \notin workers[n]
  BY DEF Unborn, UnbornFresh, Listed
<1>2. Listed'
  <2>1. ASSUME NEW n \in Masters, NEW p \in workers'[n]
        PROVE  parent'[p] = n /\ told'[p] = 0
    BY <1>1, <2>1 DEF Fork, Unborn, Listed
  <2>2. ASSUME NEW n \in Masters, NEW p \in Pids, parent'[p] = n, told'[p] = 0, Alive(p)'
        PROVE  p \in workers'[n]
    BY <1>1, <2>2 DEF Fork, Unborn, Listed, Children, Alive
  <2> QED BY <2>1, <2>2 DEF Listed, Children
<1> QED BY <1>2 DEF Fork, Unborn, QuitOnce, UnbornFresh, QuittingTold

(* decr_workers sends QUIT to workers that it takes off the list.          *)
LEMMA TellKeeps ==
  ASSUME IInv, NEW m \in Masters, NEW ws \in SUBSET workers[m], NEW gone \in SUBSET workers[m],
         \A p \in gone : p \in ws \/ ~Alive(p),
         told' = [p \in Pids |-> IF p \in ws THEN told[p] + 1 ELSE told[p]],
         quitting' = quitting \cup ws,
         workers' = [workers EXCEPT ![m] = @ \ (ws \cup gone)],
         UNCHANGED <<proc, parent>>
  PROVE  Listed' /\ QuitOnce' /\ UnbornFresh' /\ QuittingTold'
<1> USE MastersAssumption DEF MastersAssumption, IInv, TypeOK
<1>1. \A p \in ws : parent[p] = m /\ told[p] = 0 /\ told'[p] = 1 /\ p \in Pids
  BY DEF Listed
<1>2. \A p \in Pids \ ws : told'[p] = told[p]
  OBVIOUS
<1>3. Listed'
  <2>1. ASSUME NEW n \in Masters, NEW p \in workers'[n]
        PROVE  parent'[p] = n /\ told'[p] = 0
    BY <1>1, <1>2, <2>1 DEF Listed
  <2>2. ASSUME NEW n \in Masters, NEW p \in Pids, parent'[p] = n, told'[p] = 0, Alive(p)'
        PROVE  p \in workers'[n]
    BY <1>1, <1>2, <2>2 DEF Listed, Children, Alive
  <2> QED BY <2>1, <2>2 DEF Listed, Children
<1>4. QuitOnce'
  <2>1. ASSUME NEW p \in Pids PROVE told'[p] <= 1
    <3>1. CASE p \in ws
      BY <1>1, <3>1
    <3>2. CASE p \notin ws
      BY <1>2, <3>2 DEF QuitOnce
    <3> QED BY <3>1, <3>2
  <2> QED BY <2>1 DEF QuitOnce
<1>5. UnbornFresh'
  BY <1>1, <1>2 DEF UnbornFresh
<1>6. QuittingTold'
  BY <1>1, <1>2 DEF QuittingTold
<1> QED BY <1>3, <1>4, <1>5, <1>6

(* A step of a worker leaves the books alone and revives nobody.           *)
LEMMA WorkerKeeps ==
  ASSUME IInv, \A p \in Pids : /\ Alive(p)' => Alive(p)
                               /\ proc'[p] = "unborn" => proc[p] = "unborn",
         UNCHANGED <<parent, told, workers>>, quitting' \subseteq quitting
  PROVE  Listed' /\ QuitOnce' /\ UnbornFresh' /\ QuittingTold'
  BY DEF IInv, TypeOK, Listed, Children, QuitOnce, UnbornFresh, QuittingTold

LEMMA MasterNextIInv == IInv /\ TypeOK' /\ [Next]_vars => IInv'
<1> SUFFICES ASSUME IInv, TypeOK', [Next]_vars PROVE IInv'
  OBVIOUS
<1> DEFINE Books == Listed' /\ QuitOnce' /\ UnbornFresh' /\ QuittingTold'
<1> USE MastersAssumption DEF MastersAssumption
<1>1. ASSUME NEW m \in Masters, Boot(m) PROVE Books /\ BootingHasAll'
  <2>1. CASE Cardinality(Children(m)) < InitWorkers
    <3>1. PICK p \in Unborn : Fork(m, {p})
      BY <1>1, <2>1 DEF Boot
    <3>2. {p} \in SUBSET Unborn /\ UNCHANGED <<told, quitting, master, target>>
      BY <1>1, <2>1, <3>1 DEF Boot
    <3>3. Books
      BY <3>1, <3>2, ForkKeeps
    <3>4. BootingHasAll'
      BY <3>1, <3>2 DEF Fork, Unborn, UnbornFresh, IInv, TypeOK, BootingHasAll, Children
    <3> QED BY <3>3, <3>4
  <2>2. CASE ~(Cardinality(Children(m)) < InitWorkers)
    BY <1>1, <2>2 DEF Boot, IInv, TypeOK, BootingHasAll, Children,
                      Listed, QuitOnce, UnbornFresh, QuittingTold, Alive
  <2> QED BY <2>1, <2>2
<1>2. ASSUME NEW m \in Masters, EarlySignal(m) \/ SpawnNewMaster(m) \/ WaitallReturns(m)
      PROVE Books /\ BootingHasAll'
  <2>1. Books
    BY <1>2 DEF EarlySignal, SpawnNewMaster, WaitallReturns, Signal, EndMaster, IInv,
                Listed, QuitOnce, UnbornFresh, QuittingTold, Alive, Children
  <2>2. BootingHasAll'
    BY <1>2 DEF EarlySignal, SpawnNewMaster, WaitallReturns, Signal, EndMaster, IInv,
                TypeOK, BootingHasAll, Children
  <2> QED BY <2>1, <2>2
<1>3. ASSUME NEW m \in Masters, QuitAll(m) PROVE Books /\ BootingHasAll'
  <2>1. CASE Reaped(m) = {}
    <3>1. Books
      BY <1>3, <2>1, TellKeeps, workers[m] \in SUBSET workers[m], {} \in SUBSET workers[m]
      DEF QuitAll, Tell
    <3>2. BootingHasAll'
      BY <1>3, <2>1 DEF QuitAll, Signal, Tell, IInv, TypeOK, BootingHasAll, Children
    <3> QED BY <3>1, <3>2
  <2>2. CASE Reaped(m) # {}
    <3>1. PICK ws \in SUBSET (workers[m] \ Reaped(m)), p \in Reaped(m) : TellUntil(m, ws, p)
      BY <1>3, <2>2 DEF QuitAll
    <3>2. ws \in SUBSET workers[m] /\ {p} \in SUBSET workers[m] /\ ~Alive(p)
      BY <3>1 DEF Reaped, Alive
    <3>3. \A q \in {p} : q \in ws \/ ~Alive(q)
      BY <3>2
    <3>4. /\ told' = [q \in Pids |-> IF q \in ws THEN told[q] + 1 ELSE told[q]]
          /\ quitting' = quitting \cup ws
          /\ workers' = [workers EXCEPT ![m] = @ \ (ws \cup {p})]
          /\ UNCHANGED <<proc, parent>>
      BY <1>3, <3>1 DEF QuitAll, TellUntil
    <3>5. Books
      BY <3>2, <3>3, <3>4, TellKeeps
    <3>6. BootingHasAll'
      BY <1>3, <3>1 DEF QuitAll, Signal, TellUntil, EndMaster, IInv, TypeOK, BootingHasAll, Children
    <3> QED BY <3>5, <3>6
  <2> QED BY <2>1, <2>2
<1>4. ASSUME NEW m \in Masters, KillAll(m) PROVE Books /\ BootingHasAll'
  <2>1. Books
    BY <1>4, WorkerKeeps DEF KillAll, Alive, IInv, TypeOK
  <2>2. BootingHasAll'
    BY <1>4 DEF KillAll, Signal, EndMaster, IInv, TypeOK, BootingHasAll, Children
  <2> QED BY <2>1, <2>2
<1>5. ASSUME NEW m \in Masters, Ttin(m) PROVE Books /\ BootingHasAll'
  <2>1. BootingHasAll'
    BY <1>5 DEF Ttin, Signal, Tell, TellUntil, EndMaster, IInv, TypeOK, BootingHasAll, Children
  <2>2. CASE UNCHANGED <<told, quitting, workers>>
    BY <1>5, <2>1, <2>2, WorkerKeeps DEF Ttin, Alive
  <2>3. ASSUME NEW p \in Reaped(m), TellUntil(m, {}, p) PROVE Books
    <3>1. {p} \in SUBSET workers[m] /\ {} \in SUBSET workers[m] /\ ~Alive(p)
      BY DEF Reaped, Alive
    <3> QED BY <1>5, <2>3, <3>1, TellKeeps, ZenonT(30) DEF Ttin, TellUntil
  <2>4. ASSUME NEW p \in workers[m], Tell(m, {p}) PROVE Books
    <3>1. {p} \in SUBSET workers[m] /\ {} \in SUBSET workers[m]
      OBVIOUS
    <3> QED BY <1>5, <2>4, <3>1, TellKeeps, ZenonT(30) DEF Ttin, Tell
  <2> QED BY <1>5, <2>1, <2>2, <2>3, <2>4 DEF Ttin
<1>6. ASSUME NEW m \in Masters, Ttou(m) \/ RestoreWorkers(m) PROVE Books /\ BootingHasAll'
  <2>1. PICK new \in SUBSET Unborn : Fork(m, new)
    BY <1>6 DEF Ttou, RestoreWorkers
  <2>2. Books
    BY <1>6, <2>1, ForkKeeps DEF Ttou, RestoreWorkers
  <2>3. BootingHasAll'
    BY <1>6, <2>1 DEF Ttou, RestoreWorkers, Signal, Fork, Unborn, UnbornFresh, IInv, TypeOK,
                      BootingHasAll, Children
  <2> QED BY <2>2, <2>3
<1>7. ASSUME NEW p \in Pids, Process(p) \/ Crash(p) PROVE Books /\ BootingHasAll'
  <2>1. Books
    BY <1>7, WorkerKeeps DEF Process, WorkerQuit, WorkerDone, Reap, Crash, Alive, IInv, TypeOK
  <2>2. BootingHasAll'
    BY <1>7 DEF Process, WorkerQuit, WorkerDone, Reap, Crash, IInv, BootingHasAll, Children
  <2> QED BY <2>1, <2>2
<1>8. ASSUME UNCHANGED vars PROVE Books /\ BootingHasAll'
  BY <1>8 DEF vars, IInv, Listed, QuitOnce, UnbornFresh, QuittingTold, BootingHasAll,
              Alive, Children
<1> HIDE DEF Books
<1>9. Books /\ BootingHasAll'
  <2>1. ASSUME NEW m \in Masters, Boot(m) \/ Operator(m) \/ WaitallReturns(m)
        PROVE  Books /\ BootingHasAll'
    BY <2>1, <1>1, <1>2, <1>3, <1>4, <1>5, <1>6 DEF Operator
  <2>2. CASE Rest
    BY <2>2, <1>8 DEF Rest
  <2> QED BY <2>1, <2>2, <1>7, <1>8 DEF Next
<1>10. Listed' /\ QuitOnce' /\ UnbornFresh' /\ QuittingTold'
  BY <1>9 DEF Books
<1> QED BY <1>9, <1>10 DEF IInv

LEMMA MasterInvariant == Spec => []IInv
<1>1. Init => IInv
  <2> SUFFICES ASSUME Init PROVE IInv
    OBVIOUS
  <2>1. TypeOK
    BY MastersAssumption, WorkersAssumption
    DEF MastersAssumption, WorkersAssumption, Init, TypeOK
  <2> QED
    BY <2>1, MastersAssumption
    DEF MastersAssumption, Init, IInv, Listed, QuitOnce, UnbornFresh, QuittingTold,
        BootingHasAll, Alive, Children
<1> QED BY <1>1, MasterNextIInv, MasterTypeCorrect, PTL DEF Spec

-----------------------------------------------------------------------------
(* What adding and removing an element does to a finite set's size.        *)
LEMMA SizeAdd ==
  ASSUME NEW S, IsFiniteSet(S), NEW x
  PROVE  /\ Cardinality(S \cup {x}) \in Nat
         /\ Cardinality(S \cup {x}) <= Cardinality(S) + 1
<1>1. Cardinality(S) \in Nat
  BY FS_CardinalityType
<1>2. Cardinality(S \cup {x}) = IF x \in S THEN Cardinality(S) ELSE Cardinality(S) + 1
  BY FS_AddElement, Zenon
<1> QED BY <1>1, <1>2

LEMMA SizeRemove ==
  ASSUME NEW S, IsFiniteSet(S), NEW x \in S
  PROVE  Cardinality(S \ {x}) = Cardinality(S) - 1
  BY FS_RemoveElement, x \in S, Zenon

(* The size of the list is at most the configured number: shown from the   *)
(* invariant above, one fact on cardinalities per way the list changes.    *)
LEMMA CountStep == IInv /\ CountBounded /\ [Next]_vars => CountBounded'
<1> SUFFICES ASSUME IInv, CountBounded, [Next]_vars, NEW n \in Masters
             PROVE  Cardinality(workers'[n]) <= target'[n]
  BY DEF CountBounded
<1> USE WorkersAssumption DEF WorkersAssumption, IInv, TypeOK
<1>1. IsFiniteSet(workers[n]) /\ Cardinality(workers[n]) \in Nat
  BY FS_Subset, FS_CardinalityType
<1>2. Cardinality(workers[n]) <= target[n] /\ target[n] \in Nat
  BY DEF CountBounded
<1>3. CASE workers'[n] \subseteq workers[n] /\ target'[n] = target[n]
  <2>1. IsFiniteSet(workers'[n]) /\ Cardinality(workers'[n]) <= Cardinality(workers[n])
    BY <1>1, <1>3, FS_Subset
  <2>2. Cardinality(workers'[n]) \in Nat
    BY <2>1, FS_CardinalityType
  <2> QED BY <1>1, <1>2, <1>3, <2>1, <2>2
<1>4. ASSUME NEW m \in Masters, Boot(m) PROVE Cardinality(workers'[n]) <= target'[n]
  <2>1. CASE Cardinality(Children(m)) < InitWorkers
    <3>1. PICK p \in Unborn : Fork(m, {p})
      BY <1>4, <2>1 DEF Boot
    <3>2. CASE n # m
      BY <1>3, <1>4, <3>1, <3>2 DEF Boot, Fork
    <3>3. CASE n = m
      <4>1. workers[n] = Children(n) /\ target[n] = InitWorkers /\ target'[n] = target[n]
        BY <1>4, <3>3 DEF Boot, BootingHasAll
      <4>2. workers'[n] = workers[n] \cup {p}
        BY <3>1, <3>3 DEF Fork
      <4>3. /\ Cardinality(workers[n] \cup {p}) \in Nat
            /\ Cardinality(workers[n] \cup {p}) <= Cardinality(workers[n]) + 1
        BY <1>1, SizeAdd, Zenon
      <4> QED BY <1>1, <2>1, <3>3, <4>1, <4>2, <4>3
    <3> QED BY <3>2, <3>3
  <2>2. CASE ~(Cardinality(Children(m)) < InitWorkers)
    BY <1>3, <1>4, <2>2 DEF Boot
  <2> QED BY <2>1, <2>2
<1>5. ASSUME NEW m \in Masters, QuitAll(m) PROVE Cardinality(workers'[n]) <= target'[n]
  <2>1. workers'[n] \subseteq workers[n] /\ target'[n] = target[n]
    <3>1. CASE Reaped(m) = {}
      BY <1>5, <3>1 DEF QuitAll, Tell
    <3>2. CASE Reaped(m) # {}
      BY <1>5, <3>2 DEF QuitAll, TellUntil
    <3> QED BY <3>1, <3>2
  <2> QED BY <1>3, <2>1
<1>6. ASSUME NEW m \in Masters, Ttin(m) PROVE Cardinality(workers'[n]) <= target'[n]
  <2>1. CASE n # m
    <3>1. workers'[n] = workers[n] /\ target'[n] = target[n]
      BY <1>6, <2>1 DEF Ttin, Tell, TellUntil
    <3> QED BY <1>3, <3>1
  <2>2. CASE n = m
    <3>1. target'[n] = target[n] - 1 /\ target[n] > 1
      BY <1>6, <2>2 DEF Ttin, MayShrink
    <3>2. CASE workers[n] = {} /\ workers'[n] = {}
      BY <1>2, <3>1, <3>2, FS_EmptySet
    <3>3. ASSUME NEW p \in workers[n], workers'[n] = workers[n] \ {p}
          PROVE  Cardinality(workers'[n]) <= target'[n]
      <4>1. Cardinality(workers[n] \ {p}) = Cardinality(workers[n]) - 1
        BY <1>1, SizeRemove, Zenon
      <4> QED BY <1>1, <1>2, <3>1, <3>3, <4>1
    <3>4. \/ workers[n] = {} /\ workers'[n] = {}
          \/ \E p \in workers[n] : workers'[n] = workers[n] \ {p}
      BY <1>6, <2>2 DEF Ttin, Tell, TellUntil, Reaped
    <3> QED BY <3>2, <3>3, <3>4
  <2> QED BY <2>1, <2>2
<1>7. ASSUME NEW m \in Masters, Ttou(m) PROVE Cardinality(workers'[n]) <= target'[n]
  <2>1. CASE n # m
    BY <1>3, <1>7, <2>1 DEF Ttou, Fork
  <2>2. CASE n = m
    <3>1. PICK p \in Unborn : workers'[n] = workers[n] \cup {p}
      BY <1>7, <2>2 DEF Ttou, Fork
    <3>2. target'[n] = target[n] + 1
      BY <1>7, <2>2 DEF Ttou
    <3>3. /\ Cardinality(workers[n] \cup {p}) \in Nat
          /\ Cardinality(workers[n] \cup {p}) <= Cardinality(workers[n]) + 1
      BY <1>1, SizeAdd, Zenon
    <3> QED BY <1>1, <1>2, <3>1, <3>2, <3>3
  <2> QED BY <2>1, <2>2
<1>8. ASSUME NEW m \in Masters, RestoreWorkers(m) PROVE Cardinality(workers'[n]) <= target'[n]
  <2>1. CASE n # m
    BY <1>3, <1>8, <2>1 DEF RestoreWorkers, Fork
  <2>2. CASE n = m
    <3>1. PICK new \in SUBSET Unborn :
            /\ Cardinality(new) = (IF Missing(n) > 0 THEN Missing(n) ELSE 0)
            /\ workers'[n] = workers[n] \cup new
      BY <1>8, <2>2 DEF RestoreWorkers, Fork
    <3>2. target'[n] = target[n]
      BY <1>8 DEF RestoreWorkers
    <3>3. IsFiniteSet(new)
      BY FS_Subset DEF Unborn
    <3>4. IsFiniteSet(workers[n] \cap new)
      BY <1>1, FS_Subset
    <3>5. Cardinality(new) \in Nat /\ Cardinality(workers[n] \cap new) \in Nat
      BY <3>3, <3>4, FS_CardinalityType
    <3>6. Cardinality(workers'[n])
            = Cardinality(workers[n]) + Cardinality(new) - Cardinality(workers[n] \cap new)
      BY <1>1, <3>1, <3>3, FS_Union
    <3> QED BY <1>1, <1>2, <3>1, <3>2, <3>5, <3>6 DEF Missing
  <2> QED BY <2>1, <2>2
<1>9. CASE UNCHANGED <<workers, target>>
  BY <1>2, <1>9
<1> QED
  BY <1>4, <1>5, <1>6, <1>7, <1>8, <1>9
  DEF Next, Operator, Process, Rest, EarlySignal, KillAll, SpawnNewMaster, WaitallReturns,
      WorkerQuit, WorkerDone, Reap, Crash, vars

LEMMA CountInvariant == Spec => []CountBounded
<1>1. Init => CountBounded
  BY WorkersAssumption, FS_EmptySet DEF WorkersAssumption, Init, CountBounded
<1> QED BY <1>1, CountStep, MasterInvariant, PTL DEF Spec

(* nyara.rb's @workers is exactly the workers the master still has to tell *)
(* to quit, none is told twice, and they are never more than configured,   *)
(* whatever the order of the signals: restore_workers and the TTIN and TTOU*)
(* handlers never push a master over the number.                           *)
THEOREM WorkersTrackedAlways == Spec => []WorkersTracked
<1>1. IInv /\ CountBounded => WorkersTracked
  BY DEF IInv, WorkersTracked
<1> QED BY <1>1, MasterInvariant, CountInvariant, PTL

-----------------------------------------------------------------------------
(* As long as workers end only when told, none on a living master's list   *)
(* has ended, so that no kill fails.                                       *)
ListedServe == \A m \in Masters : \A p \in workers[m] :
                 proc[p] = "serving" \/ master[m] = "gone"

LEMMA ListedServeStep == ~Crashes /\ IInv /\ ListedServe /\ [Next]_vars => ListedServe'
<1> SUFFICES ASSUME ~Crashes, IInv, ListedServe, [Next]_vars,
                    NEW n \in Masters, NEW p \in workers'[n], master'[n] # "gone"
             PROVE  proc'[p] = "serving"
  BY DEF ListedServe
<1> USE DEF IInv, TypeOK
<1>1. CASE p \notin workers[n]
  BY <1>1 DEF Next, Operator, Process, Rest, Boot, EarlySignal, QuitAll, KillAll, Ttin, Ttou,
      RestoreWorkers, SpawnNewMaster, WaitallReturns, WorkerQuit, WorkerDone, Reap, Crash,
      Fork, Tell, TellUntil, Unborn, vars
<1>2. CASE p \in workers[n]
  <2>1. master[n] # "gone"
    BY DEF Next, Operator, Process, Rest, Boot, EarlySignal, QuitAll, KillAll, Ttin, Ttou, Signal,
      RestoreWorkers, SpawnNewMaster, WaitallReturns, WorkerQuit, WorkerDone, Reap, Crash,
      TellUntil, EndMaster, vars
  <2>2. proc[p] = "serving" /\ p \in Pids /\ told[p] = 0 /\ parent[p] = n /\ p \notin quitting
    BY <1>2, <2>1 DEF ListedServe, Listed, QuittingTold
  <2>3. ASSUME NEW m \in Masters, KillAll(m) PROVE proc'[p] = "serving"
    <3>1. m # n
      BY <2>3 DEF KillAll, EndMaster
    <3>2. p \notin workers[m]
      BY <2>2, <3>1 DEF Listed
    <3> QED BY <2>2, <2>3, <3>2 DEF KillAll
  <2>4. ASSUME NEW m \in Masters, Boot(m) \/ Ttou(m) \/ RestoreWorkers(m)
        PROVE  proc'[p] = "serving"
    BY <2>2, <2>4 DEF Boot, Ttou, RestoreWorkers, Fork
  <2>5. ASSUME NEW q \in Pids, Process(q) PROVE proc'[p] = "serving"
    BY <2>2, <2>5 DEF Process, WorkerQuit, WorkerDone, Reap
  <2> QED
    BY <2>2, <2>3, <2>4, <2>5
    DEF Next, Operator, Rest, Crash, EarlySignal, QuitAll, Ttin, SpawnNewMaster, WaitallReturns,
        vars
<1> QED BY <1>1, <1>2

(* As long as no worker ends by itself, a QUIT to the master reaches every *)
(* worker that serves.  (Master_quit_dead shows that a dead worker on the  *)
(* list breaks this.)                                                      *)
THEOREM QuitReachesAllWithoutCrash == ~Crashes /\ Spec => QuitReachesAll
<1> SUFFICES ASSUME ~Crashes PROVE Spec => QuitReachesAll
  OBVIOUS
<1>1. Init => ListedServe
  BY DEF Init, ListedServe
<1>2. IInv /\ ListedServe /\ [Next]_vars
        => [\A m \in Masters : QuitAll(m) =>
              \A p \in Children(m) : proc[p] = "serving" => told'[p] > 0]_vars
  <2> SUFFICES ASSUME IInv, ListedServe, NEW m \in Masters, QuitAll(m),
                      NEW p \in Children(m), proc[p] = "serving"
               PROVE  told'[p] > 0
    OBVIOUS
  <2> USE DEF IInv, TypeOK
  <2>1. Reaped(m) = {}
    BY DEF QuitAll, Signal, Reaped, ListedServe
  <2>2. Tell(m, workers[m])
    BY <2>1 DEF QuitAll
  <2>3. CASE told[p] = 0
    <3>1. p \in workers[m]
      BY <2>3 DEF Listed, Alive
    <3> QED BY <2>2, <2>3, <3>1 DEF Tell, Children
  <2>4. CASE told[p] # 0
    BY <2>2, <2>4 DEF Tell, Children
  <2> QED BY <2>3, <2>4
<1>3. IInv /\ ListedServe /\ [Next]_vars => ListedServe'
  BY ListedServeStep
<1> QED BY <1>1, <1>2, <1>3, MasterInvariant, PTL DEF Spec, QuitReachesAll

(* A QUIT to the master reaches every worker that serves, whatever has     *)
(* crashed, if no worker on the list was reaped.                           *)
THEOREM QuitReachesLivingAlways == Spec => QuitReachesLiving
<1>1. IInv /\ [Next]_vars
        => [\A m \in Masters : QuitAll(m) /\ Reaped(m) = {} =>
              \A p \in Children(m) : proc[p] = "serving" => told'[p] > 0]_vars
  <2> SUFFICES ASSUME IInv, NEW m \in Masters, QuitAll(m), Reaped(m) = {},
                      NEW p \in Children(m), proc[p] = "serving"
               PROVE  told'[p] > 0
    OBVIOUS
  <2> USE DEF IInv, TypeOK
  <2>1. Tell(m, workers[m])
    BY DEF QuitAll
  <2>2. CASE told[p] = 0
    <3>1. p \in workers[m]
      BY <2>2 DEF Listed, Alive
    <3> QED BY <2>1, <2>2, <3>1 DEF Tell, Children
  <2>3. CASE told[p] # 0
    BY <2>1, <2>3 DEF Tell, Children
  <2> QED BY <2>2, <2>3
<1> QED BY <1>1, MasterInvariant, PTL DEF Spec, QuitReachesLiving

(* No master that ends strands a worker, unless a signal ends it before its*)
(* traps are set or one on its list was reaped.                            *)
THEOREM NoStrandedWorkerAlways == Spec => NoStrandedWorker
<1>1. IInv /\ [Next]_vars
        => [\A m \in Masters : master[m] # "gone" /\ master'[m] = "gone" =>
              \/ EarlySignal(m)
              \/ Reaped(m) # {}
              \/ \A p \in Children(m) : ~(proc'[p] = "serving" /\ told'[p] = 0)]_vars
  <2> SUFFICES ASSUME IInv, [Next]_vars, NEW m \in Masters, master[m] # "gone",
                      master'[m] = "gone", ~EarlySignal(m), Reaped(m) = {},
                      NEW p \in Children(m), proc'[p] = "serving", told'[p] = 0
               PROVE  FALSE
    OBVIOUS
  <2> USE DEF IInv, TypeOK
  <2>1. \/ QuitAll(m) \/ KillAll(m) \/ Ttin(m) \/ WaitallReturns(m)
    <3>1. ASSUME NEW n \in Masters,
                 Boot(n) \/ Ttou(n) \/ RestoreWorkers(n) \/ SpawnNewMaster(n) PROVE FALSE
      BY <3>1 DEF Boot, Ttou, RestoreWorkers, SpawnNewMaster
    <3>2. ASSUME NEW n \in Masters, n # m, EarlySignal(n) \/ QuitAll(n) \/ KillAll(n)
                                          \/ Ttin(n) \/ WaitallReturns(n) PROVE FALSE
      BY <3>2 DEF EarlySignal, QuitAll, KillAll, Ttin, WaitallReturns, TellUntil, EndMaster
    <3>3. ~EarlySignal(m)
      OBVIOUS
    <3>4. ASSUME UNCHANGED master PROVE FALSE
      BY <3>4
    <3> QED
      BY <3>1, <3>2, <3>3, <3>4
      DEF Next, Operator, Process, Rest, WorkerQuit, WorkerDone, Reap, Crash, vars
  <2>2. ~QuitAll(m)
    BY DEF QuitAll
  <2>3. CASE KillAll(m)
    <3>1. told[p] = 0 /\ (proc[p] = "serving" => p \in workers[m])
      BY <2>3 DEF KillAll, Listed, Alive
    <3>2. \A w \in workers[m] : proc'[w] # "serving"
      BY <2>3 DEF KillAll, Alive
    <3> QED BY <2>3, <3>1, <3>2 DEF KillAll, Children
  <2>4. CASE Ttin(m)
    <3>1. workers[m] = {} /\ proc' = proc /\ told' = told
      BY <2>4 DEF Ttin
    <3> QED BY <3>1 DEF Listed, Alive
  <2>5. CASE WaitallReturns(m)
    BY <2>5 DEF WaitallReturns, Childless
  <2> QED BY <2>1, <2>2, <2>3, <2>4, <2>5
<1> QED BY <1>1, MasterInvariant, PTL DEF Spec, NoStrandedWorker

-----------------------------------------------------------------------------
(* A worker that drains was told to.                                       *)
DrainingTold == \A p \in Pids : proc[p] = "draining" => told[p] > 0

LEMMA DrainingToldStep == IInv /\ DrainingTold /\ [Next]_vars => DrainingTold'
<1> SUFFICES ASSUME IInv, DrainingTold, [Next]_vars, NEW p \in Pids, proc'[p] = "draining"
             PROVE  told'[p] > 0
  BY DEF DrainingTold
<1> USE DEF IInv, TypeOK
<1>1. told'[p] >= told[p] /\ told[p] \in Nat /\ told'[p] \in Nat
  <2>1. ASSUME NEW m \in Masters, QuitAll(m) \/ Ttin(m) PROVE told'[p] \in {told[p], told[p] + 1}
    BY <2>1 DEF QuitAll, Ttin, Tell, TellUntil
  <2>2. CASE UNCHANGED told
    BY <2>2
  <2> QED
    BY <2>1, <2>2
    DEF Next, Operator, Process, Rest, Boot, EarlySignal, KillAll, Ttou, RestoreWorkers,
        SpawnNewMaster, WaitallReturns, WorkerQuit, WorkerDone, Reap, Crash, vars
<1>2. proc[p] = "draining" \/ p \in quitting
  <2>1. ASSUME NEW m \in Masters, Boot(m) \/ Ttou(m) \/ RestoreWorkers(m) \/ KillAll(m)
        PROVE  proc[p] = "draining"
    BY <2>1 DEF Boot, Ttou, RestoreWorkers, KillAll, Fork
  <2>2. ASSUME NEW w \in Pids, Process(w) \/ Crash(w) PROVE proc[p] = "draining" \/ p \in quitting
    BY <2>2 DEF Process, WorkerQuit, WorkerDone, Reap, Crash
  <2>3. CASE UNCHANGED proc
    BY <2>3
  <2> QED
    BY <2>1, <2>2, <2>3
    DEF Next, Operator, Rest, EarlySignal, QuitAll, Ttin, SpawnNewMaster, WaitallReturns, vars
<1>3. told[p] > 0
  BY <1>2 DEF DrainingTold, QuittingTold
<1> QED BY <1>1, <1>3

(* After USR1 the configured number of workers serves, untold, unless one  *)
(* that has ended is still on the list (nyara.rb:258).                     *)
THEOREM RestoreCompletesAlways == Spec => RestoreCompletes
<1>1. IInv /\ CountBounded /\ DrainingTold /\ [Next]_vars
        => [\A m \in Masters : RestoreWorkers(m) /\ (\A p \in workers[m] : Alive(p)) =>
              Cardinality({p \in Pids : parent'[p] = m /\ proc'[p] = "serving" /\ told'[p] = 0})
                = target[m]]_vars
  <2> SUFFICES ASSUME IInv, CountBounded, DrainingTold, NEW m \in Masters, RestoreWorkers(m),
                      \A p \in workers[m] : Alive(p)
               PROVE  Cardinality({p \in Pids : /\ parent'[p] = m /\ proc'[p] = "serving"
                                                /\ told'[p] = 0}) = target[m]
    OBVIOUS
  <2> USE WorkersAssumption DEF WorkersAssumption, IInv, TypeOK
  <2>1. PICK new \in SUBSET Unborn :
          /\ Cardinality(new) = (IF Missing(m) > 0 THEN Missing(m) ELSE 0)
          /\ Fork(m, new)
    BY DEF RestoreWorkers
  <2>2. told' = told
    BY DEF RestoreWorkers
  <2>3. \A p \in workers[m] : parent[p] = m /\ told[p] = 0 /\ proc[p] = "serving"
    BY DEF Listed, DrainingTold, Alive
  <2>4. \A p \in new : told[p] = 0 /\ proc[p] = "unborn"
    BY DEF Unborn, UnbornFresh
  <2>5. \A p \in Pids : parent[p] = m /\ proc[p] = "serving" /\ told[p] = 0 => p \in workers[m]
    BY DEF Listed, Children, Alive
  <2>6. {p \in Pids : parent'[p] = m /\ proc'[p] = "serving" /\ told'[p] = 0} = workers[m] \cup new
    BY <2>1, <2>2, <2>3, <2>4, <2>5 DEF Fork, Unborn
  <2>7. IsFiniteSet(workers[m]) /\ IsFiniteSet(new) /\ workers[m] \cap new = {}
    <3>1. workers[m] \subseteq Pids /\ new \subseteq Pids
      BY DEF Unborn
    <3>2. IsFiniteSet(workers[m]) /\ IsFiniteSet(new)
      BY <3>1, FS_Subset
    <3> QED BY <2>3, <2>4, <3>2
  <2>8. Cardinality(workers[m]) \in Nat /\ Cardinality(new) \in Nat
    BY <2>7, FS_CardinalityType
  <2>9. Cardinality(workers[m] \cup new) = Cardinality(workers[m]) + Cardinality(new)
    <3>1. Cardinality(workers[m] \cup new)
            = Cardinality(workers[m]) + Cardinality(new) - Cardinality(workers[m] \cap new)
      BY <2>7, FS_Union
    <3>2. Cardinality(workers[m] \cap new) = 0
      BY <2>7, FS_EmptySet
    <3> QED BY <2>8, <3>1, <3>2
  <2>10. Cardinality(workers[m]) <= target[m] /\ target[m] \in Nat
    BY DEF CountBounded
  <2>11. Cardinality(workers[m]) + Cardinality(new) = target[m]
    BY <2>1, <2>8, <2>10 DEF Missing
  <2> QED BY <2>6, <2>9, <2>11
<1>2. Init => DrainingTold
  BY DEF Init, DrainingTold
<1>3. IInv /\ DrainingTold /\ [Next]_vars => DrainingTold'
  BY DrainingToldStep
<1> QED BY <1>1, <1>2, <1>3, MasterInvariant, CountInvariant, PTL DEF Spec, RestoreCompletes
=============================================================================
