------------------------------- MODULE Master -------------------------------
(***************************************************************************)
(* The production server's master process, lib/nyara/nyara.rb: it forks    *)
(* workers, and signals make it quit, kill, add, remove or restore workers *)
(* or fork a new master that replaces it (the hot restart).  Both masters  *)
(* run the same code on the same listening socket.                         *)
(*                                                                         *)
(* @workers is the set of its elements: a fork never returns a pid twice,  *)
(* and which worker `shift` takes is left open.  A handler runs as a whole *)
(* in the master's main thread, which otherwise sits in Process.waitall.   *)
(* A worker is what EventLoop describes: a QUIT makes it drain, a second   *)
(* one ends it.  TERM is the same as QUIT and is not written separately.   *)
(***************************************************************************)
EXTENDS Integers, FiniteSets

CONSTANTS Masters,     \* the first master and those USR2 may spawn
          First,       \* the first one
          Pids,        \* worker processes that may be forked
          None,        \* no parent: the pid is not used yet
          InitWorkers, \* the configured worker number
          MaxWorkers,  \* bound: TTOU does not go above it
          MaxSignals,  \* bound: how many signals the masters get
          Signals,     \* the signals the operator uses; EARLY is any signal
                       \* a new master gets before its traps are set
          Crashes      \* workers may end by themselves

ASSUME MastersAssumption == First \in Masters /\ None \notin Masters
ASSUME WorkersAssumption == /\ IsFiniteSet(Pids)
                            /\ InitWorkers \in Nat \ {0}
                            /\ MaxWorkers \in Nat
                            /\ MaxSignals \in Nat
ASSUME SignalsAssumption ==
  /\ Signals \subseteq {"INT", "QUIT", "TTIN", "TTOU", "USR1", "USR2", "EARLY"}
  /\ Crashes \in BOOLEAN

VARIABLES
  master,    \* state of each master process
  spawner,   \* the master whose USR2 handler forked it
  workers,   \* @workers of each master
  target,    \* Config[:workers] of each master
  proc,      \* state of each worker process
  parent,    \* the master that forked it
  told,      \* ghost: how many QUITs masters sent to it
  quitting,  \* workers with a QUIT not handled yet
  signals    \* signals delivered so far

vars == <<master, spawner, workers, target, proc, parent, told, quitting, signals>>

Alive(p) == proc[p] \in {"serving", "draining"}
Children(m) == {p \in Pids : parent[p] = m}
Unborn == {p \in Pids : proc[p] = "unborn"}

TypeOK ==
  /\ master \in [Masters -> {"none", "boot", "up", "gone"}]
  /\ spawner \in [Masters -> Masters \cup {None}]
  /\ workers \in [Masters -> SUBSET Pids]
  /\ target \in [Masters -> Nat]
  /\ proc \in [Pids -> {"unborn", "serving", "draining", "zombie", "reaped"}]
  /\ parent \in [Pids -> Masters \cup {None}]
  /\ told \in [Pids -> Nat]
  /\ quitting \subseteq Pids
  /\ signals \in 0..MaxSignals

Init ==
  /\ master = [m \in Masters |-> IF m = First THEN "boot" ELSE "none"]
  /\ spawner = [m \in Masters |-> None]
  /\ workers = [m \in Masters |-> {}]
  /\ target = [m \in Masters |-> InitWorkers]
  /\ proc = [p \in Pids |-> "unborn"]
  /\ parent = [p \in Pids |-> None]
  /\ told = [p \in Pids |-> 0]
  /\ quitting = {}
  /\ signals = 0

-----------------------------------------------------------------------------
(* What the handlers are made of                                           *)

(* incr_workers for every pid in new: fork, and push it to @workers.       *)
ForkUnlisted(m, new) ==                             \* bug: pid not remembered
  /\ proc' = [p \in Pids |-> IF p \in new THEN "serving" ELSE proc[p]]
  /\ parent' = [p \in Pids |-> IF p \in new THEN m ELSE parent[p]]
  /\ UNCHANGED workers
Fork(m, new) ==
  /\ proc' = [p \in Pids |-> IF p \in new THEN "serving" ELSE proc[p]]
  /\ parent' = [p \in Pids |-> IF p \in new THEN m ELSE parent[p]]
  /\ workers' = [workers EXCEPT ![m] = @ \cup new]

(* decr_workers for every worker in ws: shift it and send it QUIT.         *)
TellSilently(m, ws) ==                              \* bug: kill forgotten
  /\ workers' = [workers EXCEPT ![m] = @ \ ws]
  /\ UNCHANGED <<told, quitting>>
Tell(m, ws) ==
  /\ told' = [p \in Pids |-> IF p \in ws THEN told[p] + 1 ELSE told[p]]
  /\ quitting' = quitting \cup ws
  /\ workers' = [workers EXCEPT ![m] = @ \ ws]

(* Process.kill raises ESRCH for a worker that was reaped; the exception   *)
(* leaves the handler and ends the master.  The worker is shifted already. *)
Reaped(m) == {p \in workers[m] : proc[p] = "reaped"}
EndMaster(m) == master' = [master EXCEPT ![m] = "gone"]
TellUntil(m, ws, failed) ==
  /\ EndMaster(m)
  /\ told' = [p \in Pids |-> IF p \in ws THEN told[p] + 1 ELSE told[p]]
  /\ quitting' = quitting \cup ws
  /\ workers' = [workers EXCEPT ![m] = @ \ (ws \cup {failed})]

Signal(m, s) == /\ s \in Signals
                /\ master[m] = "up"
                /\ signals < MaxSignals
                /\ signals' = signals + 1

-----------------------------------------------------------------------------
(* The masters                                                             *)

(* start_production_server forks the configured number, then sets traps.   *)
Boot(m) ==
  /\ master[m] = "boot"
  /\ IF Cardinality(Children(m)) < InitWorkers
     THEN /\ \E p \in Unborn : Fork(m, {p})
          /\ UNCHANGED master
     ELSE /\ master' = [master EXCEPT ![m] = "up"]
          /\ UNCHANGED <<proc, parent, workers>>
  /\ UNCHANGED <<spawner, target, told, quitting, signals>>

(* Before that, a signal has its default effect: the process ends.         *)
EarlySignal(m) ==
  /\ "EARLY" \in Signals /\ signals < MaxSignals
  /\ master[m] = "boot"
  /\ signals' = signals + 1
  /\ EndMaster(m)
  /\ UNCHANGED <<spawner, workers, target, proc, parent, told, quitting>>

(* quit_all: decr_workers until @workers is empty, or a kill fails.        *)
QuitAll(m) ==
  /\ Signal(m, "QUIT")
  /\ IF Reaped(m) = {}
     THEN Tell(m, workers[m]) /\ UNCHANGED master
     ELSE \E ws \in SUBSET (workers[m] \ Reaped(m)), p \in Reaped(m) :
            TellUntil(m, ws, p)
  /\ UNCHANGED <<spawner, target, proc, parent>>

(* kill_all: KILL every worker, until a kill fails, and exit.              *)
KillAll(m) ==
  /\ Signal(m, "INT")
  /\ EndMaster(m)
  /\ \E ws \in SUBSET (workers[m] \ Reaped(m)) :
       /\ Reaped(m) = {} => ws = workers[m]
       /\ proc' = [p \in Pids |-> IF p \in ws /\ Alive(p) THEN "zombie" ELSE proc[p]]
  /\ UNCHANGED <<spawner, workers, target, parent, told, quitting>>

MayShrink(m) == target[m] > 1

(* The TTIN handler: one worker less, unless only one is configured; with  *)
(* @workers empty the pid to kill is nil, which raises.                    *)
Ttin(m) ==
  /\ Signal(m, "TTIN")
  /\ MayShrink(m)
  /\ target' = [target EXCEPT ![m] = @ - 1]
  /\ \/ /\ workers[m] = {}
        /\ EndMaster(m)
        /\ UNCHANGED <<told, quitting, workers>>
     \/ \E p \in workers[m] :
          IF p \in Reaped(m)
          THEN TellUntil(m, {}, p)
          ELSE Tell(m, {p}) /\ UNCHANGED master
  /\ UNCHANGED <<spawner, proc, parent>>

(* The TTOU handler: one worker more.                                      *)
Ttou(m) ==
  /\ Signal(m, "TTOU")
  /\ target[m] < MaxWorkers
  /\ target' = [target EXCEPT ![m] = @ + 1]
  /\ \E p \in Unborn : Fork(m, {p})
  /\ UNCHANGED <<master, spawner, told, quitting>>

(* restore_workers forks what @workers lacks.                              *)
MissingAlways(m) == target[m]                       \* bug: size not subtracted
Missing(m) == target[m] - Cardinality(workers[m])
RestoreWorkers(m) ==
  /\ Signal(m, "USR1")
  /\ \E new \in SUBSET Unborn :
       /\ Cardinality(new) = (IF Missing(m) > 0 THEN Missing(m) ELSE 0)
       /\ Fork(m, new)
  /\ UNCHANGED <<master, spawner, target, told, quitting>>

(* spawn_new_master forks a process that executes the program again; it    *)
(* reads its configuration and boots on the inherited socket.              *)
SpawnNewMaster(m) ==
  /\ Signal(m, "USR2")
  /\ \E n \in Masters :
       /\ master[n] = "none"
       /\ master' = [master EXCEPT ![n] = "boot"]
       /\ spawner' = [spawner EXCEPT ![n] = m]
  /\ UNCHANGED <<workers, target, proc, parent, told, quitting>>

(* Process.waitall returns when no child is left, and the program ends.    *)
Childless(m) == /\ \A p \in Children(m) : proc[p] = "reaped"
                /\ \A n \in Masters : spawner[n] = m => master[n] = "gone"
WaitallReturns(m) ==
  /\ master[m] = "up"
  /\ Childless(m)
  /\ EndMaster(m)
  /\ UNCHANGED <<spawner, workers, target, proc, parent, told, quitting, signals>>

-----------------------------------------------------------------------------
(* The workers                                                             *)

(* Ext.graceful_quit in the worker: drain, or end at the second call.      *)
WorkerQuit(p) ==
  /\ p \in quitting
  /\ quitting' = quitting \ {p}
  /\ proc' = [proc EXCEPT ![p] = CASE @ = "serving" -> "draining"
                                   [] @ = "draining" -> "zombie"
                                   [] OTHER -> @]
  /\ UNCHANGED <<master, spawner, workers, target, parent, told, signals>>

(* The last request of a draining worker is finished.                      *)
WorkerDone(p) ==
  /\ proc[p] = "draining"
  /\ proc' = [proc EXCEPT ![p] = "zombie"]
  /\ UNCHANGED <<master, spawner, workers, target, parent, told, quitting, signals>>

Crash(p) ==
  /\ Crashes /\ Alive(p)
  /\ proc' = [proc EXCEPT ![p] = "zombie"]
  /\ UNCHANGED <<master, spawner, workers, target, parent, told, quitting, signals>>

(* waitall collects a child; init does so for a master that is gone.       *)
Reap(p) ==
  /\ proc[p] = "zombie" /\ master[parent[p]] # "boot"
  /\ proc' = [proc EXCEPT ![p] = "reaped"]
  /\ UNCHANGED <<master, spawner, workers, target, parent, told, quitting, signals>>

Process(p) == WorkerQuit(p) \/ WorkerDone(p) \/ Reap(p)
Operator(m) == \/ EarlySignal(m) \/ QuitAll(m) \/ KillAll(m) \/ Ttin(m) \/ Ttou(m)
               \/ RestoreWorkers(m) \/ SpawnNewMaster(m)

(* Every process has ended or only waits: nothing more need happen.  (Or   *)
(* the instance has no pid left for a master that boots.)                  *)
Rest == /\ Unborn = {} \/ \A m \in Masters : master[m] # "boot"
        /\ UNCHANGED vars

Next == \/ \E m \in Masters : Boot(m) \/ Operator(m) \/ WaitallReturns(m)
        \/ \E p \in Pids : Process(p) \/ Crash(p)
        \/ Rest

Spec == Init /\ [][Next]_vars

(* Masters and workers run; a draining worker ends (EventLoop's QuitExits).*)
FairSpec == /\ Spec
            /\ \A m \in Masters : WF_vars(Boot(m)) /\ WF_vars(WaitallReturns(m))
            /\ \A p \in Pids : WF_vars(Process(p))

-----------------------------------------------------------------------------
(* Properties                                                              *)

(* @workers is exactly what the master is responsible for: its own workers *)
(* it has not told to quit, so no worker that serves is forgotten, and none*)
(* is told twice (a second QUIT would end it with requests in progress).   *)
(* Through any sequence of signals it never counts more workers than       *)
(* configured, so that restore_workers adds up to the number.              *)
Listed ==
  \A m \in Masters :
    /\ \A p \in workers[m] : parent[p] = m /\ told[p] = 0
    /\ \A p \in Children(m) :
         told[p] = 0 /\ Alive(p) => p \in workers[m]
QuitOnce == \A p \in Pids : told[p] <= 1
CountBounded == \A m \in Masters : Cardinality(workers[m]) <= target[m]
WorkersTracked == Listed /\ QuitOnce /\ CountBounded

(* A master that ends leaves no worker behind that serves on and was not   *)
(* told to quit: nobody would ever tell it.  In two cases it does: a signal*)
(* ended it while it was still forking, before its traps were set, or one  *)
(* on its list was reaped, which makes a kill fail (see QuitReachesAll).   *)
NoStrandedWorker ==
  [][\A m \in Masters : master[m] # "gone" /\ master'[m] = "gone" =>
       \/ EarlySignal(m)
       \/ Reaped(m) # {}
       \/ \A p \in Children(m) : ~(proc'[p] = "serving" /\ told'[p] = 0)]_vars

(* QUIT reaches every worker the master has: "graceful quit all workers".  *)
QuitReachesAll ==
  [][\A m \in Masters : QuitAll(m) =>
       \A p \in Children(m) : proc[p] = "serving" => told'[p] > 0]_vars

(* So it does as long as none of those on the list was reaped.             *)
QuitReachesLiving ==
  [][\A m \in Masters : QuitAll(m) /\ Reaped(m) = {} =>
       \A p \in Children(m) : proc[p] = "serving" => told'[p] > 0]_vars

(* ... "and exit if all children terminated": a master that has told all   *)
(* its workers ends, unless it forks new ones or a new master it spawned,  *)
(* which is its child too, lives on.                                       *)
QuitEnds ==
  \A m \in Masters :
    (master[m] = "up" /\ workers[m] = {}) ~>
      \/ master[m] = "gone" \/ workers[m] # {}
      \/ \E n \in Masters : spawner[n] = m /\ master[n] # "gone"

(* USR1 brings the workers that serve back to the configured number, unless*)
(* one that has ended is still on the list.                                *)
RestoreCompletes ==
  [][\A m \in Masters : RestoreWorkers(m) /\ (\A p \in workers[m] : Alive(p)) =>
       Cardinality({p \in Pids : parent'[p] = m /\ proc'[p] = "serving" /\ told'[p] = 0})
         = target[m]]_vars

=============================================================================
