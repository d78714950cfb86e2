----------------------------- MODULE EventLoop -----------------------------
(***************************************************************************)
(* The event loop of one Nyara worker: ext/event.c on epoll (ext/epoll.h), *)
(* with the request object of ext/request.c.                               *)
(*                                                                         *)
(* The loop runs in one Ruby thread.  A round is either a SELECT round     *)
(* (_loop_body: handle the ready requests, accept, let other threads run,  *)
(* wake the actions that finished sleeping) or, every FullEvery-th time, a *)
(* full round (_loop_body_full: sweep the timed out requests, resume all   *)
(* the others, accept some more).  Every request runs its action in a      *)
(* fiber, which yields :reading, :writing or :sleep, or ends.  While Ruby  *)
(* code runs, the threads that `sleep` started and the signal handlers of  *)
(* the main thread may be scheduled in between.                            *)
(*                                                                         *)
(* A request is identified with its connection, so rid, fd and Request are *)
(* one element of Req.  The definitions marked "bug" are not part of the   *)
(* model: each is a plausible mistake in the definition after it, which    *)
(* one of the properties must notice.                                      *)
(***************************************************************************)
EXTENDS Naturals, FiniteSets

CONSTANTS Req,           \* the connections clients may open
          None,          \* no request: no fiber is running
          FullEvery,     \* every how many rounds the full body runs (10)
          AcceptBurst,   \* how many accepts a full round tries (5)
          Timeout,       \* inactive_timeout, in clock ticks
          AppOps,        \* what the actions of the application call
          EnvOps,        \* what clients, other workers and the clock do
          StdinPollable, \* epoll accepts fd 0 (false for a daemon's /dev/null)
          MaxQuits       \* bound: how many QUIT signals the worker gets

ASSUME NoneAssumption == None \notin Req
ASSUME BoundAssumption == /\ FullEvery \in Nat \ {0}
                          /\ AcceptBurst \in Nat \ {0}
                          /\ Timeout \in Nat
                          /\ MaxQuits \in Nat
ASSUME OpsAssumption ==
  /\ AppOps \subseteq {"body", "send", "sleep", "die"}
  /\ EnvOps \subseteq {"stall", "eof", "reset", "break", "steal", "time"}
  /\ StdinPollable \in BOOLEAN

VARIABLES
  \* the loop
  pc,         \* the part of the round the loop is in
  round,      \* round_counter
  work,       \* requests still to handle in this round
  accepts,    \* accept(2) calls this round may still make
  batch,      \* to_resume_requests[i ..< len], len read once
  run,        \* the request whose fiber is running, or None
  \* the queue q
  map,        \* keys of q.rid_request_map
  toResume,   \* q.to_resume_requests (order and position abstracted)
  quits,      \* calls of ext_graceful_quit: q.graceful_quit is quits > 0
  \* the requests
  conn,       \* where the connection is; "open" is p->fd # 0
  got,        \* p->parse_state: 0 init, 1 headers, 2 message complete
  fiber,      \* p->fiber: none, active, dead or what it last yielded
  sleeping,   \* p->sleeping
  age,        \* ticks since p->updated_at, at most Timeout + 1
  \* the kernel, the clients and the other threads
  sent,       \* how much of its message the client has sent, as got; or 3:
              \* headers and a body that the multipart parser refuses
  peer,       \* the client's side of the connection
  blocked,    \* requests whose send buffer is full
  interest,   \* registered in epoll
  ready,      \* in epoll's ready list: an edge was seen and not reported
  listening,  \* the server socket is registered in epoll
  acceptEdge, \* an edge of the server socket not reported yet
  stdinReg,   \* fd 0 is registered in epoll
  sleepers    \* requests with a thread in Kernel.sleep for them

loopVars   == <<round, work, accepts, batch>>
reqVars    == <<got, fiber, sleeping, age>>
kernelVars == <<interest, ready, listening, acceptEdge, stdinReg>>
clientVars == <<sent, peer, blocked>>
vars == <<pc, loopVars, run, map, toResume, quits, conn, reqVars,
          clientVars, kernelVars, sleepers>>

Running == pc \notin {"exited", "dead"}
Backlog == {r \in Req : conn[r] = "backlog"}

(* Some Ruby thread other than the loop's may run now: an action is running*)
(* Ruby code, or the loop is in rb_thread_schedule.  epoll_wait keeps the  *)
(* lock.                                                                   *)
OthersMayRunOnlyInRuby == Running /\ run # None       \* bug: no schedule point
OthersMayRun == Running /\ (run # None \/ pc = "schedule")

TypeOK ==
  /\ pc \in {"top", "events", "schedule", "wake", "full", "exited", "dead"}
  /\ round \in 0..(FullEvery - 1)
  /\ work \subseteq Req
  /\ accepts \in 0..AcceptBurst
  /\ batch \subseteq Req
  /\ run \in Req \cup {None}
  /\ map \subseteq Req
  /\ toResume \subseteq Req
  /\ quits \in 0..MaxQuits
  /\ conn \in [Req -> {"none", "backlog", "open", "closed", "stolen"}]
  /\ got \in [Req -> 0..2]
  /\ fiber \in [Req -> {"none", "active", "reading", "writing", "sleep", "dead"}]
  /\ sleeping \in [Req -> BOOLEAN]
  /\ age \in [Req -> 0..(Timeout + 1)]
  /\ sent \in [Req -> 0..3]
  /\ peer \in [Req -> {"open", "eof", "reset", "gone"}]
  /\ blocked \subseteq Req
  /\ interest \subseteq Req
  /\ ready \subseteq Req
  /\ listening \in BOOLEAN
  /\ acceptEdge \in BOOLEAN
  /\ stdinReg \in BOOLEAN
  /\ sleepers \subseteq Req

Init ==
  /\ pc = "top" /\ round = 0 /\ work = {} /\ accepts = 0 /\ batch = {}
  /\ run = None /\ map = {} /\ toResume = {} /\ quits = 0
  /\ conn = [r \in Req |-> "none"]
  /\ got = [r \in Req |-> 0]
  /\ fiber = [r \in Req |-> "none"]
  /\ sleeping = [r \in Req |-> FALSE]
  /\ age = [r \in Req |-> 0]
  /\ sent = [r \in Req |-> 0]
  /\ peer = [r \in Req |-> "open"]
  /\ blocked = {} /\ interest = {} /\ ready = {}
  /\ listening = TRUE /\ acceptEdge = FALSE
  /\ stdinReg = FALSE /\ sleepers = {}

-----------------------------------------------------------------------------
(* epoll                                                                   *)

Unread(r) == got[r] < sent[r]

(* EPOLLIN or EPOLLOUT holds for the socket: there is something to read    *)
(* (data, end of file or an error), or room to write.                      *)
Pollable(r) == Unread(r) \/ peer[r] # "open" \/ r \notin blocked

(* ADD_E of a fresh registration, which reports the socket's present state *)
(* as an edge.                                                             *)
AddEMissing(r) == UNCHANGED <<interest, ready>>      \* bug: not registered
AddE(r) == /\ interest' = interest \cup {r}
           /\ ready' = IF Pollable(r) THEN ready \cup {r} ELSE ready

(* The kernel saw the socket change; EPOLLET queues it once.               *)
Edge(r) == ready' = IF r \in interest THEN ready \cup {r} ELSE ready

(* Leaving epoll, by DEL_E or by close(2).                                 *)
Deregister(r) == /\ interest' = interest \ {r}
                 /\ ready' = ready \ {r}

-----------------------------------------------------------------------------
(* Handling a request                                                      *)

Touch(r) == age' = [age EXCEPT ![r] = 0]

(* rb_fiber_resume: a fiber that ended raises FiberError, which nothing    *)
(* above the loop rescues; else its action goes on from where it yielded.  *)
Resume(r) ==
  IF fiber[r] = "dead"
  THEN pc' = "dead" /\ UNCHANGED <<run, fiber>>
  ELSE /\ run' = r
       /\ fiber' = [fiber EXCEPT ![r] = IF @ \in {"none", "sleep"} THEN "active" ELSE @]
       /\ UNCHANGED pc

(* The read loop of _handle_request: until EAGAIN, end of file or an error,*)
(* nothing at all once the message is complete.                            *)
ReadOnce(r) ==                                       \* bug: not until EAGAIN
  /\ got' = [got EXCEPT ![r] = IF Unread(r) THEN @ + 1 ELSE @]
  /\ UNCHANGED peer
ReadAll(r) ==
  IF got[r] = 2
  THEN UNCHANGED <<got, peer>>
  ELSE /\ got' = [got EXCEPT ![r] = sent[r]]
       /\ peer' = [peer EXCEPT ![r] = IF @ = "reset" THEN "gone" ELSE @]

ReadFails(r) == got[r] < 2 /\ peer[r] = "reset"

(* What was sent makes on_body raise: the exception leaves the parser, the *)
(* read loop and the event loop, before the action is resumed.             *)
ReadRaises(r) == got[r] < 2 /\ sent[r] = 3

(* _handle_request: touch, ignore a sleeping request, read and parse, and  *)
(* resume the action (created on the first time) once headers are known.   *)
Handle(r) ==
  /\ Touch(r)
  /\ \/ /\ sleeping[r]
        /\ UNCHANGED <<pc, got, peer, run, fiber>>
     \/ /\ ~sleeping[r] /\ ReadRaises(r)
        /\ pc' = "dead"
        /\ UNCHANGED <<got, peer, run, fiber>>
     \/ /\ ~sleeping[r] /\ ~ReadRaises(r)
        /\ ReadAll(r)
        /\ IF ReadFails(r) \/ got'[r] = 0
           THEN UNCHANGED <<pc, run, fiber>>
           ELSE Resume(r)

-----------------------------------------------------------------------------
(* The loop                                                                *)

(* round_counter counts to FullEvery and starts again at 0.                *)
NextRound == (round + 1) % FullEvery

(* SELECT_E: take the reported edges; the server socket counts once.       *)
BeginSelectRound ==
  /\ pc = "top"
  /\ NextRound # 0
  /\ round' = NextRound
  /\ work' = {r \in ready : Pollable(r)}
  /\ ready' = {}
  /\ accepts' = IF acceptEdge THEN 1 ELSE 0
  /\ acceptEdge' = FALSE
  /\ pc' = "events"
  /\ UNCHANGED <<batch, run, map, toResume, quits, conn, reqVars, clientVars,
                 interest, listening, stdinReg, sleepers>>

TimedOutAsleep == {r \in map : age[r] > Timeout}     \* bug: sleepers included
TimedOutStarted == {r \in map : ~sleeping[r] /\ age[r] > Timeout /\ fiber[r] # "none"}
                                                     \* bug: as for the resumed
TimedOut == {r \in map : ~sleeping[r] /\ age[r] > Timeout}
ToResumeFull == {r \in map \ TimedOut : ~sleeping[r] /\ fiber[r] # "none"}

NoAccepts == 0                                       \* bug: no accept at all
FullAccepts == AcceptBurst

(* The sweep of _loop_body_full: forget the timed out requests (their fds  *)
(* stay open) and collect the others that have a fiber.                    *)
BeginFullRound ==
  /\ pc = "top"
  /\ NextRound = 0
  /\ round' = NextRound
  /\ map' = map \ TimedOut
  /\ work' = ToResumeFull
  /\ accepts' = FullAccepts
  /\ pc' = "full"
  /\ UNCHANGED <<batch, run, toResume, quits, conn, reqVars, clientVars,
                 kernelVars, sleepers>>

(* _handle_request_cb looks the rid up; a full round has the requests.     *)
HandleNext(r) ==
  /\ pc \in {"events", "full"} /\ run = None
  /\ r \in work
  /\ work' = work \ {r}
  /\ IF pc = "events" /\ r \notin map
     THEN UNCHANGED <<pc, run, reqVars, peer>>
     ELSE Handle(r) /\ UNCHANGED sleeping
  /\ UNCHANGED <<round, accepts, batch, map, toResume, quits, conn, sent,
                 blocked, kernelVars, sleepers>>

(* accept(2), register, and handle at once.                                *)
Accept(r) ==
  /\ pc \in {"events", "full"} /\ run = None /\ work = {}
  /\ accepts > 0
  /\ conn[r] = "backlog"
  /\ accepts' = accepts - 1
  /\ conn' = [conn EXCEPT ![r] = "open"]
  /\ map' = map \cup {r}
  /\ AddE(r)
  /\ Handle(r)
  /\ UNCHANGED <<round, work, batch, toResume, quits, sleeping, sent, blocked,
                 listening, acceptEdge, stdinReg, sleepers>>

(* The accept loop ends: by its count, or since nothing is pending.        *)
EndAccepts ==
  /\ pc \in {"events", "full"} /\ run = None /\ work = {}
  /\ accepts = 0 \/ Backlog = {}
  /\ accepts' = 0
  /\ pc' = IF pc = "events" THEN "schedule" ELSE "top"
  /\ UNCHANGED <<round, work, batch, run, map, toResume, quits, conn, reqVars,
                 clientVars, kernelVars, sleepers>>

(* rb_thread_schedule returns; the length of to_resume_requests is read.   *)
BeginWake ==
  /\ pc = "schedule"
  /\ batch' = toResume
  /\ pc' = "wake"
  /\ UNCHANGED <<round, work, accepts, run, map, toResume, quits, conn, reqVars,
                 clientVars, kernelVars, sleepers>>

WakeNext(r) ==
  /\ pc = "wake" /\ run = None
  /\ r \in batch
  /\ batch' = batch \ {r}
  /\ sleeping' = [sleeping EXCEPT ![r] = FALSE]
  /\ IF fiber[r] = "dead" \/ conn[r] # "open"
     THEN UNCHANGED <<pc, run, fiber>>
     ELSE Resume(r)
  /\ UNCHANGED <<round, work, accepts, map, toResume, quits, conn, got, age,
                 clientVars, kernelVars, sleepers>>

(* rb_ary_clear drops the whole array.  An empty one is not cleared, which *)
(* is the same: no other thread ran since its length was read.             *)
KeepResumed == UNCHANGED toResume                    \* bug: not cleared
ClearResumed == toResume' = {}

(* The exit condition at the end of a SELECT round.                        *)
QuitAtOnce == quits > 0                              \* bug: map not looked at
QuitDone == quits > 0 /\ map = {}

EndWake ==
  /\ pc = "wake" /\ run = None /\ batch = {}
  /\ ClearResumed
  /\ pc' = IF QuitDone THEN "exited" ELSE "top"
  /\ UNCHANGED <<loopVars, run, map, quits, conn, reqVars, clientVars,
                 kernelVars, sleepers>>

Loop ==
  \/ BeginSelectRound \/ BeginFullRound
  \/ \E r \in Req : HandleNext(r) \/ Accept(r) \/ WakeNext(r)
  \/ EndAccepts \/ BeginWake \/ EndWake

-----------------------------------------------------------------------------
(* The running action, until its fiber yields                              *)

Active(r) == Running /\ run = r /\ fiber[r] = "active"

(* The fiber yields.  A woken one was deregistered by its sleep, and the   *)
(* wake loop registers it again; epoll_ctl fails if it still was.          *)
Yield(r, state) ==
  /\ run' = None
  /\ fiber' = [fiber EXCEPT ![r] = state]
  /\ IF pc = "wake"
     THEN AddE(r) /\ pc' = (IF r \in interest THEN "dead" ELSE pc)
     ELSE UNCHANGED <<interest, ready, pc>>

(* request_body: yields :reading until the message is complete.            *)
BodyRead(r) == got[r] = 2

ReadBody(r) ==
  /\ "body" \in AppOps
  /\ Running /\ run = r /\ fiber[r] \in {"active", "reading"}
  /\ IF BodyRead(r)
     THEN fiber' = [fiber EXCEPT ![r] = "active"] /\ UNCHANGED <<run, interest, ready, pc>>
     ELSE Yield(r, "reading")
  /\ UNCHANGED <<loopVars, map, toResume, quits, conn, got, sleeping, age,
                 clientVars, listening, acceptEdge, stdinReg, sleepers>>

CanWrite(r) == "send" \in AppOps /\ Running /\ run = r /\ fiber[r] \in {"active", "writing"}

(* nyara_send_data writes everything, or fails for good: send_data ignores *)
(* a failure, send_chunk raises one that the action may rescue.            *)
WriteDone(r) ==
  /\ CanWrite(r)
  /\ r \notin blocked \/ peer[r] \in {"reset", "gone"}
  /\ fiber' = [fiber EXCEPT ![r] = "active"]
  /\ peer' = [peer EXCEPT ![r] = IF @ = "reset" THEN "gone" ELSE @]
  /\ UNCHANGED <<pc, loopVars, run, map, toResume, quits, conn, got, sleeping,
                 age, sent, blocked, kernelVars, sleepers>>

(* write(2) returns EAGAIN or a part: yield :writing, and try again later. *)
WriteBlocks(r) ==
  /\ CanWrite(r)
  /\ peer[r] \in {"open", "eof"}
  /\ r \in blocked \/ "stall" \in EnvOps
  /\ blocked' = blocked \cup {r}
  /\ Yield(r, "writing")
  /\ UNCHANGED <<loopVars, map, toResume, quits, conn, got, sleeping, age,
                 sent, peer, listening, acceptEdge, stdinReg, sleepers>>

(* Controller#sleep: ext_request_sleep sets the flag, then deregisters the *)
(* fd; epoll_ctl fails if it is not registered, and the SystemCallError is *)
(* raised in the action.  Else a thread starts and the fiber yields :sleep.*)
Sleep(r) ==
  /\ "sleep" \in AppOps
  /\ Active(r)
  /\ sleeping' = [sleeping EXCEPT ![r] = TRUE]
  /\ IF r \in interest
     THEN /\ Deregister(r)
          /\ sleepers' = sleepers \cup {r}
          /\ run' = None
          /\ fiber' = [fiber EXCEPT ![r] = "sleep"]
     ELSE UNCHANGED <<interest, ready, sleepers, run, fiber>>
  /\ UNCHANGED <<pc, loopVars, map, toResume, quits, conn, got, age,
                 clientVars, listening, acceptEdge, stdinReg>>

(* nyara_detach_rid: forget the request and close its fd.                  *)
DetachKept(r) == /\ conn' = [conn EXCEPT ![r] = "closed"]  \* bug: rid kept
                 /\ Deregister(r) /\ UNCHANGED map
Detach(r) == /\ map' = map \ {r}
             /\ conn' = [conn EXCEPT ![r] = "closed"]
             /\ Deregister(r)

(* The action returns or yields :term_close, and the request is closed     *)
(* ("dead" stands for both).  In the wake loop ADD_E(p->fd) follows, with  *)
(* the fd that is 0 by now: standard input, if epoll accepts it.           *)
Finish(r) ==
  /\ Active(r)
  /\ run' = None
  /\ fiber' = [fiber EXCEPT ![r] = "dead"]
  /\ Detach(r)
  /\ IF pc = "wake"
     THEN IF StdinPollable /\ ~stdinReg
          THEN stdinReg' = TRUE /\ UNCHANGED pc
          ELSE pc' = "dead" /\ UNCHANGED stdinReg
     ELSE UNCHANGED <<pc, stdinReg>>
  /\ UNCHANGED <<loopVars, toResume, quits, got, sleeping, age, clientVars,
                 listening, acceptEdge, sleepers>>

(* handle_error itself raises: the exception leaves the fiber and the loop.*)
Die(r) ==
  /\ "die" \in AppOps
  /\ Active(r)
  /\ pc' = "dead"
  /\ UNCHANGED <<loopVars, run, map, toResume, quits, conn, reqVars, clientVars,
                 kernelVars, sleepers>>

Action(r) == ReadBody(r) \/ WriteDone(r) \/ WriteBlocks(r) \/ Sleep(r)
             \/ Finish(r) \/ Die(r)

-----------------------------------------------------------------------------
(* Other threads, the main thread's signal handlers, clients, the clock    *)

(* ext_request_wakeup, called by the thread that slept.                    *)
SleeperWakes(r) ==
  /\ OthersMayRun
  /\ r \in sleepers
  /\ sleepers' = sleepers \ {r}
  /\ toResume' = toResume \cup {r}
  /\ UNCHANGED <<pc, loopVars, run, map, quits, conn, reqVars, clientVars,
                 kernelVars>>

(* ext_graceful_quit from the QUIT or TERM handler: DEL_E of the server fd *)
(* fails the second time, which ends the main thread and the process.      *)
GracefulQuit ==
  /\ OthersMayRun
  /\ quits < MaxQuits
  /\ quits' = quits + 1
  /\ listening' = FALSE
  /\ acceptEdge' = FALSE
  /\ pc' = IF listening THEN pc ELSE "dead"
  /\ UNCHANGED <<loopVars, run, map, toResume, conn, reqVars, clientVars,
                 interest, ready, stdinReg, sleepers>>

Connect(r) ==
  /\ Running
  /\ conn[r] = "none"
  /\ conn' = [conn EXCEPT ![r] = "backlog"]
  /\ acceptEdge' = listening
  /\ UNCHANGED <<pc, loopVars, run, map, toResume, quits, reqVars, clientVars,
                 interest, ready, listening, stdinReg, sleepers>>

(* Another worker accepts from the shared server socket first.             *)
Steal(r) ==
  /\ Running /\ "steal" \in EnvOps
  /\ conn[r] = "backlog"
  /\ conn' = [conn EXCEPT ![r] = "stolen"]
  /\ UNCHANGED <<pc, loopVars, run, map, toResume, quits, reqVars, clientVars,
                 kernelVars, sleepers>>

Connected(r) == Running /\ conn[r] \in {"backlog", "open"}

(* The rest of the headers, the rest of the message, or both arrive; or a  *)
(* body that is no multipart although the headers say so.                  *)
ClientSend(r) ==
  /\ Connected(r) /\ peer[r] = "open" /\ sent[r] < 2
  /\ \E n \in 1..3 : /\ n > sent[r] /\ (n = 3 => "break" \in EnvOps)
                     /\ sent' = [sent EXCEPT ![r] = n]
  /\ Edge(r)
  /\ UNCHANGED <<pc, loopVars, run, map, toResume, quits, conn, reqVars, peer,
                 blocked, interest, listening, acceptEdge, stdinReg, sleepers>>

(* The client ends its side, or resets the connection.                     *)
ClientCloses(r) ==
  /\ Connected(r)
  /\ \E how \in EnvOps \cap {"eof", "reset"} :
       /\ peer[r] = "open" \/ (peer[r] = "eof" /\ how = "reset")
       /\ peer' = [peer EXCEPT ![r] = how]
  /\ Edge(r)
  /\ UNCHANGED <<pc, loopVars, run, map, toResume, quits, conn, reqVars, sent,
                 blocked, interest, listening, acceptEdge, stdinReg, sleepers>>

(* A client that stalled reads on: there is room to write again.           *)
Drain(r) ==
  /\ Connected(r) /\ r \in blocked
  /\ blocked' = blocked \ {r}
  /\ Edge(r)
  /\ UNCHANGED <<pc, loopVars, run, map, toResume, quits, conn, reqVars, sent,
                 peer, interest, listening, acceptEdge, stdinReg, sleepers>>

Older(clock) == [r \in Req |-> IF r \in map /\ clock[r] <= Timeout
                               THEN clock[r] + 1 ELSE clock[r]]

(* Time passes while an action runs, or between two rounds (epoll_wait).   *)
Tick ==
  /\ "time" \in EnvOps
  /\ Running /\ (run # None \/ pc = "top")
  /\ age' = Older(age)
  /\ UNCHANGED <<pc, loopVars, run, map, toResume, quits, conn, got, fiber,
                 sleeping, clientVars, kernelVars, sleepers>>

Env ==
  \/ \E r \in Req : \/ SleeperWakes(r) \/ Connect(r) \/ Steal(r)
                    \/ ClientSend(r) \/ ClientCloses(r) \/ Drain(r)
  \/ GracefulQuit \/ Tick

(* The process has ended: nothing happens any more.                        *)
Terminated == ~Running /\ UNCHANGED vars

Next == \/ Loop
        \/ \E r \in Req : Action(r)
        \/ Env
        \/ Terminated

Spec == Init /\ [][Next]_vars

(* What the scheduling of one worker provides: the loop and the action it  *)
(* resumes go on, an action that is resumed again and again ends, threads  *)
(* in Kernel.sleep get the interpreter's lock, the clock runs, and a client*)
(* that stalled reads on in the end.                                       *)
Fairness ==
  /\ WF_vars(Loop \/ \E r \in Req : Action(r))
  /\ \A r \in Req : /\ SF_vars(WriteDone(r))
                    /\ SF_vars(Finish(r))
                    /\ SF_vars(SleeperWakes(r))
                    /\ WF_vars(Drain(r))
  /\ SF_vars(Tick)

FairSpec == Spec /\ Fairness

-----------------------------------------------------------------------------
(* Properties                                                              *)

(* A request in rid_request_map is an open connection whose action has not *)
(* ended, and an open connection outside it was timed out by the sweep: no *)
(* path through accept, sleep, wake and close forgets a live request or    *)
(* keeps an ended one, which the next full round would resume.             *)
MapTracksOpen ==
  /\ \A r \in map : conn[r] = "open" /\ fiber[r] # "dead"
  /\ \A r \in Req \ map : conn[r] = "open" => age[r] > Timeout

(* Edge triggering never loses input: what a client sent and the loop has  *)
(* not read is announced by an edge that epoll still holds or this round   *)
(* still handles, unless the action sleeps or is just being woken (ADD_E   *)
(* then reports it).                                                       *)
NoLostInput ==
  Running => \A r \in map :
    Unread(r) /\ ~sleeping[r] =>
      \/ r \in ready
      \/ pc = "events" /\ r \in work
      \/ pc = "wake" /\ run = r

(* A request that waits for its client is registered in epoll, whatever    *)
(* sleeps and wakes it went through; only while it sleeps, or in the wake  *)
(* loop until its action yields, is it not.                                *)
WaitsRegistered ==
  Running => \A r \in map : r \in interest \/ sleeping[r] \/ (pc = "wake" /\ run = r)

(* The pending wake ups: in the snapshot, or in the array and not part of  *)
(* what this wake loop has already resumed.                                *)
WakePending(r) == r \in sleepers \cup batch \/ (pc \notin {"wake", "dead"} /\ r \in toResume)

(* A wake up is only ever pending for a request whose action is parked in  *)
(* sleep, and a request has one at a time (so toResume may be a set).      *)
WakesAreForSleepers ==
  /\ \A r \in Req : WakePending(r) =>
       r \in map /\ sleeping[r] /\ fiber[r] = "sleep" /\ r \notin interest
  /\ Running => sleepers \cap toResume = {}

(* What the parts of the loop rely on about each other.  The running action*)
(* belongs to a request of the map, and to a part of the round that resumes*)
(* actions; work and batch are spent when their part ends; the snapshot is *)
(* part of the array; a full round only has requests of the map to go; a   *)
(* connection not accepted yet has touched nothing; what was read as       *)
(* complete was sent so; the worker exits with an empty map.               *)
LoopConsistent ==
  /\ run # None => /\ run \in map
                   /\ fiber[run] \in {"active", "reading", "writing"}
                   /\ pc \in {"events", "full", "wake", "dead"}
                   /\ pc = "wake" => run \notin interest
  /\ pc \notin {"events", "full", "dead"} => work = {}
  /\ pc = "full" => work \subseteq map \ {run}
  /\ pc \notin {"wake", "dead"} => batch = {}
  /\ batch \subseteq toResume
  /\ pc = "exited" => quits > 0 /\ map = {}
  /\ \A r \in Req :
       /\ conn[r] \in {"none", "backlog", "stolen"} =>
            fiber[r] = "none" /\ ~sleeping[r] /\ r \notin interest
       /\ fiber[r] = "dead" => conn[r] = "closed"
       /\ fiber[r] = "sleep" => sleeping[r]
       /\ got[r] = 2 => sent[r] = 2

(* The worker leaves by graceful quit only when every connection it        *)
(* accepted is finished, or was timed out.                                 *)
QuitLosesNothing ==
  pc = "exited" => /\ quits > 0
                   /\ \A r \in Req : conn[r] = "open" => age[r] > Timeout

(* What can end the worker while it serves is one of four things, each a   *)
(* defect of its own: a body that the multipart parser refuses, an error   *)
(* handler that raises, an action that ends in the wake loop, and a second *)
(* QUIT.  No other order of rounds, sleeps, wakes and clients does: no     *)
(* ended fiber is resumed and no descriptor registered twice.              *)
Breaks == \/ \E r \in Req : \/ ReadRaises(r) /\ (HandleNext(r) \/ Accept(r))
                            \/ Die(r)
                            \/ pc = "wake" /\ Finish(r)
          \/ quits > 0 /\ GracefulQuit

WorkerSurvives == [][Running /\ pc' = "dead" => Breaks]_vars

(* The sweep never takes a request whose action sleeps, however long.      *)
SweepSparesSleepers ==
  [][\A r \in map : fiber[r] = "sleep" => r \in map']_vars

(* A connection in the shared backlog is accepted by somebody, although    *)
(* one edge may stand for several of them.                                 *)
BacklogServed ==
  \A r \in Req : conn[r] = "backlog" ~> conn[r] # "backlog"

(* A request whose message has arrived leaves the loop: its action runs to *)
(* the end, through every suspension, unless its client resets.            *)
CompleteAnswered ==
  \A r \in Req : (r \in map /\ sent[r] = 2) ~> (r \notin map \/ peer[r] \in {"reset", "gone"})

(* The requests that the loop can neither finish nor sweep.  One waits for *)
(* a body that never comes: every full round resumes it, which touches it. *)
(* One slept again while the wake loop ran it, so that DEL_E raised and    *)
(* left the flag set, and then had to wait, for its body or for room for   *)
(* its answer: it is neither handled nor swept any more.  One sleeps, and  *)
(* no thread will wake it: its wake up was lost.                           *)
WaitsForClient(r) == fiber[r] = "reading" /\ sent[r] = 1
MarkedAsleep(r)   == fiber[r] \in {"reading", "writing"} /\ sleeping[r]
WakeupLost(r)     == fiber[r] = "sleep" /\ r \notin sleepers \cup toResume
Held(r) == r \in map /\ (WaitsForClient(r) \/ MarkedAsleep(r) \/ WakeupLost(r))

(* Every other request leaves the loop, whatever its client does: its      *)
(* action ends, or the sweep forgets it, or the worker has ended.          *)
RequestsLeave ==
  \A r \in Req : r \in map ~> (r \notin map \/ ~Running \/ [](Held(r)))

(* A graceful quit ends the worker, unless such a request stays for ever.  *)
QuitExits == quits > 0 ~> (~Running \/ \E r \in Req : [](Held(r)))

(* The thread of a sleep and the loop do not lose a wake up: an action that*)
(* sleeps has a thread that will wake it, or is about to be resumed.       *)
NoLostWakeup == \A r \in map : ~WakeupLost(r)

-----------------------------------------------------------------------------
(* The service the loop implements                                         *)

Life == [r \in Req |-> CASE conn[r] = "open" -> IF r \in map THEN "serving" ELSE "dropped"
                         [] conn[r] = "none" -> "none"
                         [] conn[r] = "backlog" -> "waiting"
                         [] conn[r] = "stolen" -> "elsewhere"
                         [] conn[r] = "closed" -> "done"]
Worker == CASE pc = "dead" -> "crashed"
            [] pc = "exited" -> "left"
            [] Running -> IF quits > 0 THEN "quitting" ELSE "up"

Service == INSTANCE WorkerService WITH Conn <- Req, life <- Life, worker <- Worker

(* The rounds, fibers, edges, sleeps and sweeps of the loop together keep  *)
(* the promise of WorkerService: no connection is answered twice, forgotten*)
(* and answered later, or taken again, and a quit loses none.              *)
ImplementsService == Service!Spec
=============================================================================
