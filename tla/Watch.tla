------------------------------- MODULE Watch -------------------------------
(***************************************************************************)
(* The descriptors that actions watch: the TCPSocket of Ruby, as a worker  *)
(* patches it (lib/nyara/patches/tcp_socket.rb), on fd_watch, fd_send and  *)
(* fd_recv of ext/event.c, within the parts of the loop that register and  *)
(* close descriptors.                                                      *)
(*                                                                         *)
(* A descriptor is a number, and the kernel gives out the least one that   *)
(* is free.  A request remembers the numbers of its sockets in watched_fds *)
(* but never forgets one: nothing calls fd_unwatch, and the close of a     *)
(* socket is Ruby's own.  What a request reads itself, and the clock, are  *)
(* in EventLoop: here a request is complete when it is accepted, and the   *)
(* sweep may take any request that is not asleep.                          *)
(***************************************************************************)
EXTENDS Naturals, FiniteSets, SequencesExt

CONSTANTS Req,           \* the connections of clients
          None,          \* no request
          MaxFd,         \* bound: the greatest number of a descriptor
          MaxOpens,      \* bound: how many sockets the actions open in all
          StdinPollable  \* epoll accepts fd 0 (false for a daemon's /dev/null)

ASSUME NoneAssumption == Req \cap {None, "free", "stdin"} = {}
ASSUME BoundAssumption == MaxFd \in Nat /\ MaxOpens \in Nat /\ StdinPollable \in BOOLEAN

VARIABLES
  pc,       \* the part of the round the loop is in
  work,     \* requests still to handle in this round
  batch,    \* to_resume_requests, as the wake loop found it
  woken,    \* the request that the wake loop resumed and has not added again
  run,      \* the request whose fiber is running, or None
  curr,     \* q.curr_request
  map,      \* keys of q.rid_request_map
  toResume, \* q.to_resume_requests
  sleepers, \* the requests for which a thread of Controller#sleep runs
  owner,    \* of each number: who opened it, "free" or "stdin"
  rid,      \* of each number: the data of its registration in epoll, or None
  ready,    \* the numbers whose edge epoll has not reported yet
  able,     \* the sockets that can be read, or written, now
  fd,       \* p->fd
  watched,  \* p->watched_fds
  sockets,  \* the numbers of the sockets an action holds and did not close
  fiber,    \* p->fiber: none, active, reading, sleep or dead
  sleeping, \* p->sleeping
  waits,    \* the socket a fiber waits for in fd_recv or fd_send, or 0
  opens,    \* how many sockets the actions have opened
  astray    \* ghost: the requests that opened a socket in the wake loop

loopVars == <<pc, work, batch, woken, run, curr, map, toResume, sleepers>>
kernelVars == <<owner, rid, ready, able>>
reqVars == <<fd, watched, sockets, fiber, sleeping, waits, opens, astray>>
vars == <<loopVars, kernelVars, reqVars>>

Numbers == 0..MaxFd
Init ==
  /\ pc = "top" /\ work = {} /\ batch = {} /\ woken = None /\ run = None /\ curr = None
  /\ map = {} /\ toResume = {} /\ sleepers = {}
  /\ owner = [n \in Numbers |-> IF n = 0 THEN "stdin" ELSE "free"]
  /\ rid = [n \in Numbers |-> None] /\ ready = {} /\ able = {}
  /\ fd = [r \in Req |-> 0] /\ watched = [r \in Req |-> <<>>]
  /\ sockets = [r \in Req |-> {}] /\ fiber = [r \in Req |-> "none"]
  /\ sleeping = [r \in Req |-> FALSE] /\ waits = [r \in Req |-> 0]
  /\ opens = 0 /\ astray = {}

-----------------------------------------------------------------------------
(* Kernel                                                                  *)

Free == {n \in Numbers : owner[n] = "free"}
Least == {n \in Free : \A o \in Free : n <= o}
DescriptorsOf(r) == Append(watched[r], fd[r])

(* ADD_E of all numbers of a sequence; it fails with the first one that is *)
(* not open, is registered, or cannot be polled.                           *)
Added(ns) ==
  /\ IsInjective(ns)
  /\ \A n \in ToSet(ns) : owner[n] # "free" /\ rid[n] = None /\ (n = 0 => StdinPollable)
(* Every descriptor can be written when it is registered: an edge.         *)
AddE(ns, r) == /\ rid' = [n \in Numbers |-> IF n \in ToSet(ns) THEN r ELSE rid[n]]
               /\ ready' = ready \cup ToSet(ns)

(* DEL_E of the numbers of a sequence up to the first that is not there.   *)
Deleted(ns) ==
  {ns[i] : i \in {i \in DOMAIN ns : \A j \in 1..i : /\ rid[ns[j]] # None
                                                   /\ \A h \in 1..j - 1 : ns[h] # ns[j]}}
Registered(ns) == IsInjective(ns) /\ \A n \in ToSet(ns) : rid[n] # None

(* close(2), which takes a descriptor out of epoll; and what it leaves of  *)
(* registrations that lost those in del before.                            *)
CloseAfter(ns, del) ==
  /\ owner' = [n \in Numbers |-> IF n \in ns THEN "free" ELSE owner[n]]
  /\ rid' = [n \in Numbers |-> IF n \in ns \cup del THEN None ELSE rid[n]]
  /\ ready' = ready \ (ns \cup del)
  /\ able' = able \ ns

(* A socket of an action becomes readable, or writable again.              *)
Arrives(n) ==
  /\ owner[n] \in Req /\ fd[owner[n]] # n /\ n \notin able /\ pc # "dead"
  /\ able' = able \cup {n}
  /\ ready' = IF rid[n] = None THEN ready ELSE ready \cup {n}
  /\ UNCHANGED <<loopVars, reqVars, owner, rid>>

-----------------------------------------------------------------------------
(* The loop                                                                *)

BeginSelectRound ==
  /\ pc = "top"
  /\ pc' = "events" /\ work' = {rid[n] : n \in ready} /\ ready' = {}
  /\ UNCHANGED <<batch, woken, run, curr, map, toResume, sleepers, owner, rid, able, reqVars>>

(* Any request that is awake may have timed out; its descriptors stay open.*)
BeginFullRound ==
  /\ pc = "top"
  /\ \E timedOut \in SUBSET {r \in map : ~sleeping[r]} :
       /\ map' = map \ timedOut
       /\ work' = {r \in map' : ~sleeping[r] /\ fiber[r] # "none"}
  /\ pc' = "full"
  /\ UNCHANGED <<batch, woken, run, curr, toResume, sleepers, kernelVars, reqVars>>

Resume(r) == run' = r /\ fiber' = [fiber EXCEPT ![r] = "active"]

(* _handle_request_cb: the request of an event, unless it left the map or  *)
(* sleeps; whatever descriptor the event was about.                        *)
HandleNext(r) ==
  /\ pc \in {"events", "full"} /\ run = None /\ r \in work
  /\ work' = work \ {r}
  /\ IF r \in map /\ ~sleeping[r]
     THEN curr' = r /\ Resume(r)
     ELSE UNCHANGED <<curr, run, fiber>>
  /\ UNCHANGED <<pc, batch, woken, map, toResume, sleepers, kernelVars,
                 fd, watched, sockets, sleeping, waits, opens, astray>>

Accept(r) ==
  /\ pc \in {"events", "full"} /\ run = None /\ work = {}
  /\ fiber[r] = "none"
  /\ \E n \in Least :
        /\ owner' = [owner EXCEPT ![n] = r]
        /\ fd' = [fd EXCEPT ![r] = n]
        /\ AddE(<<n>>, r)
  /\ map' = map \cup {r} /\ curr' = r /\ Resume(r)
  /\ UNCHANGED <<pc, work, batch, woken, toResume, sleepers, able,
                 watched, sockets, sleeping, waits, opens, astray>>

(* No more events and connections: a SELECT round goes on to the wake loop.*)
EndEvents ==
  /\ pc \in {"events", "full"} /\ run = None /\ work = {}
  /\ IF pc = "events" THEN pc' = "wake" /\ batch' = toResume
                      ELSE pc' = "top" /\ UNCHANGED batch
  /\ UNCHANGED <<work, woken, run, curr, map, toResume, sleepers, kernelVars, reqVars>>

(* The wake loop resumes an action without making its request curr_request.*)
WakeNext(r) ==
  /\ pc = "wake" /\ run = None /\ woken = None /\ r \in batch
  /\ batch' = batch \ {r}
  /\ sleeping' = [sleeping EXCEPT ![r] = FALSE]
  /\ IF fiber[r] # "dead" /\ fd[r] # 0
     THEN Resume(r) /\ woken' = r
     ELSE UNCHANGED <<run, fiber, woken>>
  /\ UNCHANGED <<pc, work, curr, map, toResume, sleepers, kernelVars,
                 fd, watched, sockets, waits, opens, astray>>

(* Its fiber has yielded or ended: its descriptors are added again, and    *)
(* what ADD_E raises leaves the loop and ends the worker.                  *)
ConnectionOf(r) == <<fd[r]>>                         \* bug: without watched_fds
AddedAgain(r) == DescriptorsOf(r)
Rewatch ==
  /\ pc = "wake" /\ run = None /\ woken # None
  /\ IF Added(AddedAgain(woken))
     THEN AddE(AddedAgain(woken), woken) /\ woken' = None /\ UNCHANGED pc
     ELSE pc' = "dead" /\ UNCHANGED <<rid, ready, woken>>
  /\ UNCHANGED <<work, batch, run, curr, map, toResume, sleepers, owner, able, reqVars>>

EndWake ==
  /\ pc = "wake" /\ run = None /\ woken = None /\ batch = {}
  /\ pc' = "top" /\ toResume' = {}
  /\ UNCHANGED <<work, batch, woken, run, curr, map, sleepers, kernelVars, reqVars>>

Loop ==
  \/ BeginSelectRound \/ BeginFullRound \/ EndEvents \/ Rewatch \/ EndWake
  \/ \E r \in Req : HandleNext(r) \/ Accept(r) \/ WakeNext(r)

-----------------------------------------------------------------------------
(* The running action                                                      *)

(* TCPSocket.new: connect, then fd_watch, which takes the current request  *)
(* for the one that runs.  That one may have ended and been collected.     *)
OpenSocket(r) ==
  /\ run = r /\ waits[r] = 0 /\ opens < MaxOpens /\ pc # "dead"
  /\ \E n \in Least :
        /\ owner' = [owner EXCEPT ![n] = r]
        /\ sockets' = [sockets EXCEPT ![r] = @ \cup {n}]
        /\ watched' = [watched EXCEPT ![curr] = Append(@, n)]
        /\ AddE(<<n>>, curr)
  /\ opens' = opens + 1
  /\ astray' = IF pc = "wake" THEN astray \cup {r} ELSE astray
  /\ pc' \in {pc} \cup (IF fiber[curr] = "dead" THEN {"dead"} ELSE {})
  /\ UNCHANGED <<work, batch, woken, run, curr, map, toResume, sleepers, able,
                 fd, fiber, sleeping, waits>>

(* BasicSocket#close, which Nyara does not know of.                        *)
CloseSocket(r, n) ==
  /\ run = r /\ waits[r] = 0 /\ n \in sockets[r] /\ pc # "dead"
  /\ sockets' = [sockets EXCEPT ![r] = @ \ {n}]
  /\ CloseAfter({n}, {})
  /\ UNCHANGED <<loopVars, fd, watched, fiber, sleeping, waits, opens, astray>>

(* fd_recv and fd_send: the socket is used up, or more is left than was    *)
(* asked for, or EAGAIN: the fiber yields, and tries again when resumed.   *)
(* A socket closed under the action raises in it.                          *)
Transfer(r, n) ==
  /\ run = r /\ waits[r] \in {0, n} /\ n \in sockets[r] /\ pc # "dead"
  /\ IF n \in able \/ owner[n] = "free"
     THEN /\ able' \in {able, able \ {n}}
          /\ waits' = [waits EXCEPT ![r] = 0]
          /\ UNCHANGED <<run, fiber>>
     ELSE /\ waits' = [waits EXCEPT ![r] = n]
          /\ run' = None
          /\ fiber' = [fiber EXCEPT ![r] = "reading"]
          /\ UNCHANGED able
  /\ UNCHANGED <<pc, work, batch, woken, curr, map, toResume, sleepers, owner, rid, ready,
                 fd, watched, sockets, sleeping, opens, astray>>

(* The action ends, and nyara_detach_rid closes all that was watched for   *)
(* it, by number, those registrations in del being gone already.           *)
OnlyConnection(r) == {fd[r]}                         \* bug: sockets left open
Detached(r) == ToSet(DescriptorsOf(r))
Ends(r, del) ==
  /\ CloseAfter(Detached(r), del)
  /\ map' = map \ {r}
  /\ fd' = [fd EXCEPT ![r] = 0]
  /\ fiber' = [fiber EXCEPT ![r] = "dead"]
  /\ run' = None
  /\ UNCHANGED <<pc, work, batch, woken, curr, toResume, watched, sockets, waits, opens, astray>>

Finish(r) ==
  /\ run = r /\ waits[r] = 0 /\ pc # "dead"
  /\ Ends(r, {})
  /\ UNCHANGED <<sleepers, sleeping>>

(* Controller#sleep: request_sleep removes the descriptors from epoll; it  *)
(* raises, and so ends the action, if one is not there.                    *)
Unwatched(r) == <<fd[r]>>                            \* bug: without watched_fds
Removed(r) == DescriptorsOf(r)
Sleep(r) ==
  /\ run = r /\ waits[r] = 0 /\ pc # "dead"
  /\ sleeping' = [sleeping EXCEPT ![r] = TRUE]
  /\ IF Registered(Removed(r))
     THEN /\ CloseAfter({}, ToSet(Removed(r)))
          /\ sleepers' = sleepers \cup {r}
          /\ fiber' = [fiber EXCEPT ![r] = "sleep"]
          /\ run' = None
          /\ UNCHANGED <<pc, work, batch, woken, curr, map, toResume, fd, watched, sockets, waits, opens, astray>>
     ELSE Ends(r, Deleted(Removed(r))) /\ UNCHANGED sleepers

Action == \E r \in Req :
  \/ OpenSocket(r) \/ Finish(r) \/ Sleep(r)
  \/ \E n \in sockets[r] : CloseSocket(r, n) \/ Transfer(r, n)

-----------------------------------------------------------------------------
(* Other threads and Ruby itself                                           *)

(* request_wakeup, when the wake loop does not run: what is lost while it  *)
(* does is in EventLoop.                                                   *)
SleeperWakes(r) ==
  /\ r \in sleepers /\ pc \in {"top", "events", "full"}
  /\ sleepers' = sleepers \ {r} /\ toResume' = toResume \cup {r}
  /\ UNCHANGED <<pc, work, batch, woken, run, curr, map, kernelVars, reqVars>>

(* Ruby closes a socket that is collected, by its number, although         *)
(* nyara_detach_rid may have closed it before.                             *)
Collect(r, n) ==
  /\ fiber[r] = "dead" /\ n \in sockets[r] /\ pc # "dead"
  /\ sockets' = [sockets EXCEPT ![r] = @ \ {n}]
  /\ CloseAfter({n}, {})
  /\ UNCHANGED <<loopVars, fd, watched, fiber, sleeping, waits, opens, astray>>

Dead == pc = "dead" /\ UNCHANGED vars

Next ==
  \/ Loop \/ Action \/ Dead
  \/ \E r \in Req : SleeperWakes(r) \/ \E n \in sockets[r] : Collect(r, n)
  \/ \E n \in Numbers : Arrives(n)
Spec == Init /\ [][Next]_vars

-----------------------------------------------------------------------------
(* Properties                                                              *)

(* A request has the descriptors it thinks it has, and shares none.  It    *)
(* loses that when it ends, when a socket of its is closed, by its action  *)
(* or another, or when one is opened after a sleep, since watched_fds is   *)
(* not told.                                                               *)
Tidy(r) ==
  /\ IsInjective(DescriptorsOf(r))
  /\ ToSet(watched[r]) = sockets[r]
  /\ \A n \in ToSet(DescriptorsOf(r)) : owner[n] = r
  /\ \A s \in Req \ {r} : ToSet(watched[s]) \cap ToSet(DescriptorsOf(r)) = {}

(* While a tidy request is not asleep, epoll has all its descriptors, and  *)
(* their events resume its action; none while it sleeps (event.c:246,340). *)
WatchedByOwner ==
  \A r \in map \ {woken} : Tidy(r) => \A n \in ToSet(DescriptorsOf(r)) :
    rid[n] = IF fiber[r] = "sleep" THEN None ELSE r

(* "patch TCPSocket so client libraries in Ruby won't stuck": an action    *)
(* that waits for a socket which can be used is about to be resumed, though*)
(* it may have slept in between and the edge may have come while it did.   *)
WaitingIsResumed ==
  \A r \in map : fiber[r] = "reading" /\ waits[r] \in able /\ Tidy(r) /\ pc # "dead" =>
    \/ waits[r] \in ready /\ rid[waits[r]] = r
    \/ r \in work \/ woken = r
NotStuck == WatchedByOwner /\ WaitingIsResumed

(* No descriptor is left open by an action that has ended, be it that an   *)
(* exception or a second sleep ended it: but those that it opened in the   *)
(* wake loop, which are another request's (event.c:271).                   *)
NothingLeft ==
  \A r \in Req \ astray : fiber[r] = "dead" => \A n \in Numbers : owner[n] # r

(* The worker outlives an action that sleeps with open sockets and goes on *)
(* waiting when it is woken: what ADD_E raises (event.c:246) needs one that*)
(* ends at once, or opens a socket, or has had a socket closed.            *)
WokenSurvives ==
  [][pc # "dead" /\ pc' = "dead" =>
       \/ run # None /\ fiber[curr] = "dead"
       \/ /\ woken # None /\ run = None
          /\ woken \in astray \/ ~Tidy(woken)]_vars
=============================================================================
