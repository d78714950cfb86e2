---------------------------- MODULE WatchProofs ----------------------------
(* What Watch promises, for any number of requests and descriptors: an     *)
(* action that ended leaves no descriptor open, the worker survives an     *)
(* action that sleeps with sockets and waits again, and no action is stuck *)
(* because epoll does not have its sockets.                                *)
EXTENDS Watch, SequenceTheorems, TLAPS

D(r) == ToSet(DescriptorsOf(r))

WType ==
  /\ pc \in {"top", "events", "full", "wake", "dead"}
  /\ run \in Req \cup {None} /\ woken \in Req \cup {None} /\ curr \in Req \cup {None}
  /\ map \subseteq Req /\ batch \subseteq Req /\ toResume \subseteq Req /\ sleepers \subseteq Req
  /\ owner \in [Numbers -> Req \cup {"free", "stdin"}]
  /\ rid \in [Numbers -> Req \cup {None}]
  /\ fd \in [Req -> Numbers] /\ watched \in [Req -> Seq(Numbers)]
  /\ sockets \in [Req -> SUBSET Numbers]
  /\ fiber \in [Req -> {"none", "active", "reading", "sleep", "dead"}]
  /\ sleeping \in [Req -> BOOLEAN] /\ astray \subseteq Req

(* Descriptor 0 is never an action's.                                      *)
ZeroKept ==
  /\ owner[0] = "stdin"
  /\ \A r \in Req : 0 \notin ToSet(watched[r]) /\ 0 \notin sockets[r]

(* Who runs, and for whom fd_watch would take it.                          *)
Running ==
  /\ run # None => fiber[run] = "active" /\ pc # "top"
  /\ run # None /\ pc \in {"events", "full"} => curr = run
  /\ woken # None => pc \in {"wake", "dead"}
  /\ \A r \in Req : fiber[r] # "none" => curr \in Req
  /\ \A r \in Req : fd[r] # 0 <=> fiber[r] \in {"active", "reading", "sleep"}
  /\ \A r \in map : fd[r] # 0

(* A wake up is for an action that sleeps.                                 *)
Sleepers ==
  /\ \A r \in Req : fiber[r] = "sleep" => sleeping[r]
  /\ \A r \in sleepers : fiber[r] = "sleep"
  /\ pc \in {"top", "events", "full"} =>
       \A r \in toResume : fiber[r] = "sleep" /\ r \notin sleepers
  /\ pc = "wake" => \A r \in batch : fiber[r] = "sleep" /\ r \notin sleepers

(* What an action owns is known to its request, which closes it.           *)
OwnedIsKnown ==
  /\ \A r \in Req \ astray : \A n \in Numbers : owner[n] = r => n \in D(r)
  /\ \A r \in Req \ astray : sockets[r] \subseteq ToSet(watched[r])
  /\ \A r \in Req : fiber[r] = "none" => \A n \in Numbers : owner[n] # r

(* Who may close a number is known to have watched it.                     *)
SomebodyWatches(n) == \E r \in Req : n \in ToSet(watched[r])
ClosersKnown ==
  /\ \A r \in Req : \A n \in sockets[r] : SomebodyWatches(n)
  /\ \A r \in Req : fd[r] # 0 /\ owner[fd[r]] # r => SomebodyWatches(fd[r])

(* No other connection has a number of a tidy request.                     *)
TidyApart ==
  \A r \in Req \ astray : Tidy(r) => \A s \in Req \ {r} : fd[s] \notin D(r)

(* Asleep, or woken and not added again: epoll has none of them.           *)
Out(r) == fiber[r] = "sleep" \/ woken = r
TidyOut ==
  /\ \A r \in Req \ astray : Out(r) /\ Tidy(r) => \A n \in D(r) : rid[n] = None
  /\ \A r \in Req \ astray : woken = r /\ fiber[r] = "sleep" => ~Tidy(r)

IInv == /\ WType /\ ZeroKept /\ Running /\ Sleepers /\ OwnedIsKnown /\ NothingLeft
        /\ ClosersKnown /\ TidyApart /\ TidyOut

-----------------------------------------------------------------------------
(* Sequences of descriptors                                                *)

LEMMA Appended ==
  ASSUME NEW S, NEW s \in Seq(S), NEW n \in S
  PROVE  /\ ToSet(Append(s, n)) = ToSet(s) \cup {n}
         /\ ToSet(s) \subseteq S
         /\ Append(s, n) \in Seq(S)
         /\ n \in ToSet(s) => ~IsInjective(Append(s, n))
<1>1. /\ Append(s, n) \in Seq(S) /\ Len(Append(s, n)) = Len(s) + 1
      /\ \A i \in 1..Len(s) : Append(s, n)[i] = s[i]
      /\ Append(s, n)[Len(s) + 1] = n
  BY AppendProperties
<1>2. /\ Len(s) \in Nat /\ DOMAIN s = 1..Len(s) /\ DOMAIN Append(s, n) = 1..(Len(s) + 1)
      /\ \A i \in 1..Len(s) : s[i] \in S
  BY <1>1
<1>3. ToSet(Append(s, n)) = ToSet(s) \cup {n} /\ ToSet(s) \subseteq S
  BY <1>1, <1>2 DEF ToSet
<1>4. ASSUME n \in ToSet(s) PROVE ~IsInjective(Append(s, n))
  <2>1. PICK i \in 1..Len(s) : s[i] = n
    BY <1>4, <1>2 DEF ToSet
  <2>2. i \in DOMAIN Append(s, n) /\ Len(s) + 1 \in DOMAIN Append(s, n) /\ i # Len(s) + 1
    BY <1>2
  <2> QED BY <1>1, <2>1, <2>2 DEF IsInjective
<1> QED BY <1>1, <1>3, <1>4

LEMMA Inserted ==
  ASSUME NEW S, NEW s \in Seq(S), NEW n \in S, NEW f \in S, IsInjective(Append(Append(s, n), f))
  PROVE  n \notin ToSet(s) /\ n # f /\ IsInjective(Append(s, f))
<1> DEFINE t == Append(s, n)
           u == Append(t, f)
           v == Append(s, f)
<1>1. /\ t \in Seq(S) /\ Len(t) = Len(s) + 1 /\ t[Len(s) + 1] = n
      /\ \A i \in 1..Len(s) : t[i] = s[i]
  BY AppendProperties
<1>2. /\ u \in Seq(S) /\ Len(u) = Len(t) + 1 /\ u[Len(t) + 1] = f
      /\ \A i \in 1..Len(t) : u[i] = t[i]
  BY <1>1, AppendProperties
<1>3. /\ v \in Seq(S) /\ Len(v) = Len(s) + 1 /\ v[Len(s) + 1] = f
      /\ \A i \in 1..Len(s) : v[i] = s[i]
  BY AppendProperties
<1>4. /\ Len(s) \in Nat /\ DOMAIN s = 1..Len(s)
      /\ DOMAIN u = 1..(Len(s) + 2) /\ DOMAIN v = 1..(Len(s) + 1)
  BY <1>1, <1>2, <1>3
<1>5. \A i, j \in 1..(Len(s) + 2) : u[i] = u[j] => i = j
  BY <1>4 DEF IsInjective
<1> HIDE DEF t, u, v
<1>6. /\ \A i \in 1..Len(s) : u[i] = s[i]
      /\ u[Len(s) + 1] = n /\ u[Len(s) + 2] = f
  BY <1>1, <1>2, <1>4
<1>7. n # f
  BY <1>4, <1>5, <1>6
<1>8. n \notin ToSet(s)
  BY <1>4, <1>5, <1>6 DEF ToSet
<1>9. \A i, j \in 1..(Len(s) + 1) : v[i] = v[j] => i = j
  BY <1>3, <1>4, <1>5, <1>6
<1>10. IsInjective(v)
  BY <1>4, <1>9 DEF IsInjective
<1> QED BY <1>7, <1>8, <1>10 DEF v

LEMMA Descriptors ==
  ASSUME WType, NEW r \in Req
  PROVE  /\ D(r) = ToSet(watched[r]) \cup {fd[r]}
         /\ D(r) \subseteq Numbers
         /\ fd[r] \in ToSet(watched[r]) => ~Tidy(r)
<1>1. watched[r] \in Seq(Numbers) /\ fd[r] \in Numbers
  BY DEF WType
<1>2. /\ D(r) = ToSet(watched[r]) \cup {fd[r]}
      /\ ToSet(watched[r]) \subseteq Numbers
      /\ fd[r] \in ToSet(watched[r]) => ~IsInjective(DescriptorsOf(r))
  BY <1>1, Appended DEF D, DescriptorsOf
<1> QED BY <1>1, <1>2 DEF Tidy

LEMMA DescriptorsPrimed ==
  ASSUME WType'
  PROVE  \A r \in Req : D(r)' = ToSet(watched'[r]) \cup {fd'[r]}
<1> SUFFICES ASSUME NEW r \in Req
             PROVE  ToSet(Append(watched'[r], fd'[r])) = ToSet(watched'[r]) \cup {fd'[r]}
  BY DEF D, DescriptorsOf
<1>1. watched'[r] \in Seq(Numbers) /\ fd'[r] \in Numbers
  BY DEF WType
<1> QED BY <1>1, Appended

(* Steps that neither open nor close, and register nothing.                *)
LEMMA QuietStep ==
  ASSUME IInv, UNCHANGED <<owner, rid, fd, watched, sockets, astray>>,
         \A r \in Req : fiber'[r] \in {"none", "sleep", "dead"} => fiber'[r] = fiber[r],
         \A r \in Req : woken' = r => woken = r \/ (fiber[r] = "sleep" /\ fiber'[r] # "sleep")
  PROVE  /\ ZeroKept' /\ OwnedIsKnown' /\ NothingLeft' /\ ClosersKnown'
         /\ TidyApart' /\ TidyOut'
<1>1. \A r \in Req : D(r)' = D(r) /\ (Tidy(r)' <=> Tidy(r))
  BY DEF D, DescriptorsOf, Tidy
<1>2. ZeroKept' /\ ClosersKnown'
  BY DEF IInv, ZeroKept, ClosersKnown, SomebodyWatches
<1>3. OwnedIsKnown' /\ NothingLeft'
  BY <1>1 DEF IInv, OwnedIsKnown, NothingLeft
<1>4. TidyApart'
  BY <1>1 DEF IInv, TidyApart
<1>5. TidyOut'
  BY <1>1 DEF IInv, TidyOut, Out
<1> QED BY <1>2, <1>3, <1>4, <1>5

-----------------------------------------------------------------------------
(* Types                                                                   *)

LEMMA LeastFree ==
  ASSUME WType, NEW n \in Least
  PROVE  n \in Numbers /\ owner[n] = "free" /\ (owner[0] = "stdin" => n # 0)
BY DEF Least, Free, WType

LEMMA ClosedTypes ==
  ASSUME WType, NEW ns, NEW del, CloseAfter(ns, del)
  PROVE  /\ owner' \in [Numbers -> Req \cup {"free", "stdin"}]
         /\ rid' \in [Numbers -> Req \cup {None}]
BY DEF WType, CloseAfter

LEMMA WTypeStep ==
  ASSUME IInv, [Next]_vars
  PROVE  WType'
<1> USE DEF WType, IInv
<1>1. CASE BeginSelectRound \/ EndWake \/ EndEvents
  BY <1>1 DEF BeginSelectRound, EndWake, EndEvents, reqVars, kernelVars
<1>2. CASE BeginFullRound
  BY <1>2 DEF BeginFullRound, reqVars, kernelVars
<1>3. CASE Rewatch
  BY <1>3 DEF Rewatch, AddE, reqVars
<1>4. ASSUME NEW r \in Req, HandleNext(r) PROVE WType'
  BY <1>4 DEF HandleNext, Resume, kernelVars
<1>5. ASSUME NEW r \in Req, WakeNext(r) PROVE WType'
  BY <1>5 DEF WakeNext, Resume, kernelVars
<1>6. ASSUME NEW r \in Req, Accept(r) PROVE WType'
  BY <1>6 DEF Accept, Resume, AddE, Least, Free
<1>7. ASSUME NEW r \in Req, OpenSocket(r) PROVE WType'
  <2>1. r # None /\ (curr \in Req => fiber[curr] \in {"none", "active", "reading", "sleep", "dead"})
    BY NoneAssumption
  <2>2. curr \in Req
    BY <1>7, <2>1 DEF OpenSocket, Running
  <2>3. PICK n \in Least : /\ owner' = [owner EXCEPT ![n] = r]
        /\ sockets' = [sockets EXCEPT ![r] = @ \cup {n}]
        /\ watched' = [watched EXCEPT ![curr] = Append(@, n)]
        /\ AddE(<<n>>, curr)
    BY <1>7 DEF OpenSocket
  <2>4. n \in Numbers /\ watched[curr] \in Seq(Numbers)
    BY <2>2 DEF Least, Free
  <2>5. Append(watched[curr], n) \in Seq(Numbers)
    BY <2>4, Appended
  <2>6. watched' \in [Req -> Seq(Numbers)]
    BY <2>2, <2>3, <2>5
  <2>7. owner' \in [Numbers -> Req \cup {"free", "stdin"}] /\ sockets' \in [Req -> SUBSET Numbers]
    BY <2>3, <2>4
  <2>8. rid' \in [Numbers -> Req \cup {None}]
    BY <2>2, <2>3 DEF AddE
  <2> QED BY <1>7, <2>6, <2>7, <2>8 DEF OpenSocket
<1>8. ASSUME NEW r \in Req, Finish(r) PROVE WType'
  <2>1. 0 \in Numbers
    BY BoundAssumption DEF Numbers
  <2> QED BY <1>8, <2>1, ClosedTypes DEF Finish, Ends
<1>9. ASSUME NEW r \in Req, Sleep(r) PROVE WType'
  <2>1. 0 \in Numbers
    BY BoundAssumption DEF Numbers
  <2>2. CASE Registered(Removed(r))
    <3>1. /\ CloseAfter({}, ToSet(Removed(r)))
          /\ sleepers' = sleepers \cup {r} /\ run' = None
          /\ sleeping' = [sleeping EXCEPT ![r] = TRUE]
          /\ fiber' = [fiber EXCEPT ![r] = "sleep"]
          /\ UNCHANGED <<pc, woken, curr, map, batch, toResume, fd, watched, sockets, astray>>
      BY <1>9, <2>2 DEF Sleep
    <3>2. /\ owner' \in [Numbers -> Req \cup {"free", "stdin"}]
          /\ rid' \in [Numbers -> Req \cup {None}]
      BY <3>1, ClosedTypes
    <3> QED BY <3>1, <3>2
  <2>3. CASE ~Registered(Removed(r))
    <3>1. /\ CloseAfter(Detached(r), Deleted(Removed(r)))
          /\ map' = map \ {r} /\ run' = None
          /\ sleeping' = [sleeping EXCEPT ![r] = TRUE]
          /\ fd' = [fd EXCEPT ![r] = 0] /\ fiber' = [fiber EXCEPT ![r] = "dead"]
          /\ UNCHANGED <<pc, woken, curr, sleepers, batch, toResume, watched, sockets, astray>>
      BY <1>9, <2>3 DEF Sleep, Ends
    <3>2. /\ owner' \in [Numbers -> Req \cup {"free", "stdin"}]
          /\ rid' \in [Numbers -> Req \cup {None}]
      BY <3>1, ClosedTypes
    <3> QED BY <2>1, <3>1, <3>2
  <2> QED BY <2>2, <2>3
<1>10. ASSUME NEW r \in Req, NEW n \in sockets[r], CloseSocket(r, n) \/ Collect(r, n) PROVE WType'
  <2>1. /\ sockets' \in [Req -> SUBSET Numbers] /\ CloseAfter({n}, {})
        /\ UNCHANGED <<loopVars, fd, watched, fiber, sleeping, waits, opens, astray>>
    BY <1>10, ZenonT(30) DEF CloseSocket, Collect
  <2> QED BY <2>1, ClosedTypes DEF loopVars
<1>11. ASSUME NEW r \in Req, NEW n \in sockets[r], Transfer(r, n) PROVE WType'
  BY <1>11 DEF Transfer
<1>12. ASSUME NEW r \in Req, SleeperWakes(r) PROVE WType'
  BY <1>12 DEF SleeperWakes, kernelVars, reqVars
<1>13. ASSUME NEW n \in Numbers, Arrives(n) PROVE WType'
  BY <1>13 DEF Arrives, loopVars, reqVars
<1>14. CASE Dead \/ UNCHANGED vars
  BY <1>14 DEF Dead, vars, loopVars, kernelVars, reqVars
<1>15. CASE Loop
  BY <1>15, <1>1, <1>2, <1>3, <1>4, <1>5, <1>6 DEF Loop
<1>16. CASE Action
  BY <1>16, <1>7, <1>8, <1>9, <1>10, <1>11 DEF Action
<1> HIDE DEF WType, IInv
<1> QED BY <1>10, <1>12, <1>13, <1>14, <1>15, <1>16 DEF Next

-----------------------------------------------------------------------------
(* Who runs, and who sleeps                                                *)

RunSleep == Running /\ Sleepers

LEMMA RunSleepStep ==
  ASSUME IInv, [Next]_vars
  PROVE  RunSleep'
<1>t. /\ fiber \in [Req -> {"none", "active", "reading", "sleep", "dead"}]
      /\ fd \in [Req -> Numbers] /\ sleeping \in [Req -> BOOLEAN]
      /\ run \in Req \cup {None} /\ None \notin Req
      /\ map \subseteq Req /\ sleepers \subseteq Req /\ toResume \subseteq Req /\ batch \subseteq Req
  BY NoneAssumption DEF IInv, WType
<1> USE <1>t DEF RunSleep, Running, Sleepers
<1>i. Running /\ Sleepers
  BY DEF IInv
<1>1. CASE BeginSelectRound
  BY <1>i, <1>1 DEF BeginSelectRound, reqVars
<1>2. CASE BeginFullRound
  BY <1>i, <1>2 DEF BeginFullRound, reqVars
<1>3. CASE EndEvents
  BY <1>i, <1>3 DEF EndEvents, reqVars
<1>4. CASE EndWake
  BY <1>i, <1>4 DEF EndWake, reqVars
<1>5. CASE Rewatch
  BY <1>i, <1>5 DEF Rewatch, reqVars
<1>6. ASSUME NEW r \in Req, HandleNext(r) PROVE RunSleep'
  BY <1>i, <1>6 DEF HandleNext, Resume
<1>7. ASSUME NEW r \in Req, WakeNext(r) PROVE RunSleep'
  BY <1>i, <1>7 DEF WakeNext, Resume
<1>8. ASSUME NEW r \in Req, Accept(r) PROVE RunSleep'
  <2>1. PICK n \in Least : fd' = [fd EXCEPT ![r] = n]
    BY <1>8 DEF Accept
  <2>2. n # 0
    BY LeastFree DEF IInv, ZeroKept
  <2> QED BY <1>i, <1>8, <2>1, <2>2 DEF Accept, Resume
<1>9. ASSUME NEW r \in Req, OpenSocket(r) PROVE RunSleep'
  <2>1. pc' \in {pc, "dead"}
    BY <1>9 DEF OpenSocket
  <2> QED BY <1>i, <1>9, <2>1 DEF OpenSocket
<1>10. ASSUME NEW r \in Req, Finish(r) PROVE RunSleep'
  BY <1>i, <1>10 DEF Finish, Ends
<1>11. ASSUME NEW r \in Req, Sleep(r) PROVE RunSleep'
  <2>1. CASE Registered(Removed(r))
    BY <1>i, <1>11, <2>1 DEF Sleep
  <2>2. CASE ~Registered(Removed(r))
    BY <1>i, <1>11, <2>2 DEF Sleep, Ends
  <2> QED BY <2>1, <2>2
<1>12. ASSUME NEW r \in Req, NEW n \in sockets[r], CloseSocket(r, n) \/ Collect(r, n) PROVE RunSleep'
  BY <1>i, <1>12 DEF CloseSocket, Collect, loopVars
<1>13. ASSUME NEW r \in Req, NEW n \in sockets[r], Transfer(r, n) PROVE RunSleep'
  BY <1>i, <1>13 DEF Transfer
<1>14. ASSUME NEW r \in Req, SleeperWakes(r) PROVE RunSleep'
  BY <1>i, <1>14 DEF SleeperWakes, reqVars
<1>15. ASSUME NEW n \in Numbers, Arrives(n) PROVE RunSleep'
  BY <1>i, <1>15 DEF Arrives, loopVars, reqVars
<1>16. CASE Dead \/ UNCHANGED vars
  BY <1>i, <1>16 DEF Dead, vars, loopVars, reqVars
<1>17. CASE Loop
  BY <1>17, <1>1, <1>2, <1>3, <1>4, <1>5, <1>6, <1>7, <1>8 DEF Loop
<1>18. CASE Action
  BY <1>18, <1>9, <1>10, <1>11, <1>12, <1>13 DEF Action
<1> HIDE DEF RunSleep
<1> QED BY <1>12, <1>14, <1>15, <1>16, <1>17, <1>18 DEF Next

-----------------------------------------------------------------------------
(* Steps that close descriptors                                            *)

Rest == ZeroKept /\ OwnedIsKnown /\ NothingLeft /\ ClosersKnown /\ TidyApart /\ TidyOut

LEMMA Owners ==
  ASSUME WType
  PROVE  /\ \A r \in Req : r # "free" /\ r # "stdin" /\ r # None
         /\ \A n \in Numbers : owner[n] \in Req \cup {"free", "stdin"}
         /\ \A r \in Req : fd[r] \in Numbers /\ fd[r] \in D(r)
         /\ 0 \in Numbers
BY NoneAssumption, BoundAssumption, Descriptors DEF WType, Numbers

(* A request that is tidy after numbers were closed was so before.         *)
LEMMA ClosingStep ==
  ASSUME IInv, WType', NEW ns, NEW del, CloseAfter(ns, del),
         UNCHANGED <<watched, astray, woken>>, 0 \notin ns,
         \A s \in Req : sockets'[s] \subseteq sockets[s],
         \A s \in Req : fd'[s] = fd[s] \/ (fd'[s] = 0 /\ D(s) \subseteq ns),
         \A s \in Req : fiber'[s] = "none" => fiber[s] = "none",
         \A s \in Req : fiber'[s] = "dead" => fiber[s] = "dead" \/ D(s) \subseteq ns,
         \A s \in Req : fiber'[s] = "sleep" =>
           fiber[s] = "sleep" \/ (D(s) \subseteq del /\ rid[fd[s]] # None),
         \A n \in ns : SomebodyWatches(n) \/ \E s \in Req : n = fd[s] /\ fd'[s] = 0
  PROVE  Rest'
<1>1. /\ \A r \in Req : r # "free" /\ r # "stdin" /\ r # None
      /\ \A r \in Req : fd[r] \in Numbers /\ fd[r] \in D(r) /\ D(r) \subseteq Numbers
      /\ \A r \in Req : D(r) = ToSet(watched[r]) \cup {fd[r]}
      /\ 0 \in Numbers /\ owner[0] = "stdin"
  BY Owners, Descriptors DEF IInv, ZeroKept
<1>2. \A r \in Req : D(r)' = ToSet(watched[r]) \cup {fd'[r]}
  BY DescriptorsPrimed
<1>3. /\ \A n \in Numbers : owner'[n] = IF n \in ns THEN "free" ELSE owner[n]
      /\ \A n \in Numbers : rid'[n] = IF n \in ns \cup del THEN None ELSE rid[n]
  BY DEF CloseAfter
<1>4. ZeroKept'
  BY <1>1, <1>3 DEF IInv, ZeroKept
<1>5. ASSUME NEW r \in Req, NEW n \in Numbers, owner'[n] = r
      PROVE  owner[n] = r /\ n \notin ns
  BY <1>1, <1>3, <1>5
<1>6. OwnedIsKnown'
  <2>1. ASSUME NEW r \in Req \ astray, NEW n \in Numbers, owner'[n] = r PROVE n \in D(r)'
    <3>1. owner[n] = r /\ n \notin ns
      BY <1>5, <2>1
    <3>2. n \in D(r)
      BY <3>1 DEF IInv, OwnedIsKnown
    <3> QED BY <1>1, <1>2, <3>1, <3>2
  <2>2. \A r \in Req \ astray : sockets'[r] \subseteq ToSet(watched'[r])
    BY DEF IInv, OwnedIsKnown
  <2>3. \A r \in Req : fiber'[r] = "none" => \A n \in Numbers : owner'[n] # r
    BY <1>5 DEF IInv, OwnedIsKnown
  <2> QED BY <2>1, <2>2, <2>3 DEF OwnedIsKnown
<1>7. NothingLeft'
  <2>1. ASSUME NEW r \in Req \ astray, fiber'[r] = "dead", NEW n \in Numbers, owner'[n] = r
        PROVE  FALSE
    <3>1. owner[n] = r /\ n \notin ns
      BY <1>5, <2>1
    <3>2. n \in D(r)
      BY <3>1 DEF IInv, OwnedIsKnown
    <3> QED BY <2>1, <3>1, <3>2 DEF IInv, NothingLeft
  <2> QED BY <2>1 DEF NothingLeft
<1>8. \A n : SomebodyWatches(n)' <=> SomebodyWatches(n)
  BY DEF SomebodyWatches
<1>9. ClosersKnown'
  <2>1. \A r \in Req : \A n \in sockets'[r] : SomebodyWatches(n)
    BY DEF IInv, ClosersKnown
  <2>2. ASSUME NEW r \in Req, fd'[r] # 0, owner'[fd'[r]] # r PROVE SomebodyWatches(fd'[r])
    <3>1. fd'[r] = fd[r]
      BY <2>2
    <3>2. CASE owner[fd[r]] # r
      BY <2>2, <3>1, <3>2 DEF IInv, ClosersKnown
    <3>3. CASE owner[fd[r]] = r /\ fd[r] \in ns
      <4>1. CASE \E s \in Req : fd[r] = fd[s] /\ fd'[s] = 0
        BY <2>2, <3>1, <3>3, <4>1 DEF IInv, ClosersKnown
      <4> QED BY <3>1, <3>3, <4>1
    <3> QED BY <1>1, <1>3, <2>2, <3>1, <3>2, <3>3
  <2> QED BY <1>8, <2>1, <2>2 DEF ClosersKnown
<1>10. ASSUME NEW r \in Req \ astray, Tidy(r)' PROVE Tidy(r) /\ D(r)' = D(r) /\ fd'[r] = fd[r]
  <2>1. \A n \in D(r)' : owner'[n] = r
    BY <1>10 DEF Tidy, D
  <2>2. fd'[r] # 0
    BY <1>1, <1>2, <1>4, <2>1 DEF ZeroKept
  <2>3. fd'[r] = fd[r] /\ DescriptorsOf(r)' = DescriptorsOf(r) /\ D(r)' = D(r)
    BY <2>2 DEF DescriptorsOf, D
  <2>4. \A n \in D(r) : owner[n] = r
    BY <1>1, <1>5, <2>1, <2>3
  <2>5. ToSet(watched[r]) = sockets[r]
    <3>1. ToSet(watched[r]) = sockets'[r]
      BY <1>10 DEF Tidy
    <3>2. sockets'[r] \subseteq sockets[r] /\ sockets[r] \subseteq ToSet(watched[r])
      BY DEF IInv, OwnedIsKnown
    <3> QED BY <3>1, <3>2
  <2>6. IsInjective(DescriptorsOf(r)) /\ \A s \in Req \ {r} : ToSet(watched[s]) \cap D(r) = {}
    BY <1>10, <2>3 DEF Tidy, D
  <2> QED BY <2>3, <2>4, <2>5, <2>6 DEF Tidy, D
<1>11. TidyApart'
  <2>1. ASSUME NEW r \in Req \ astray, Tidy(r)', NEW s \in Req \ {r} PROVE fd'[s] \notin D(r)'
    <3>1. Tidy(r) /\ D(r)' = D(r)
      BY <1>10, <2>1
    <3>2. fd[s] \notin D(r)
      BY <3>1 DEF IInv, TidyApart
    <3>3. 0 \notin D(r)
      BY <1>1, <3>1 DEF Tidy, D
    <3> QED BY <3>1, <3>2, <3>3
  <2> QED BY <2>1 DEF TidyApart
<1>12. TidyOut'
  <2>1. ASSUME NEW r \in Req \ astray, Out(r)', Tidy(r)', NEW n \in D(r)' PROVE rid'[n] = None
    <3>1. Tidy(r) /\ D(r)' = D(r)
      BY <1>10, <2>1
    <3>2. n \in Numbers /\ n \in D(r)
      BY <1>1, <2>1, <3>1
    <3>3. CASE Out(r)
      BY <1>3, <3>1, <3>2, <3>3 DEF IInv, TidyOut
    <3>4. CASE ~Out(r)
      BY <1>3, <2>1, <3>2, <3>4 DEF Out
    <3> QED BY <3>3, <3>4
  <2>2. ASSUME NEW r \in Req \ astray, woken = r, fiber'[r] = "sleep", Tidy(r)' PROVE FALSE
    <3>1. Tidy(r)
      BY <1>10, <2>2
    <3>2. fiber[r] # "sleep"
      BY <2>2, <3>1 DEF IInv, TidyOut
    <3>3. rid[fd[r]] = None
      BY <1>1, <2>2, <3>1 DEF IInv, TidyOut, Out
    <3> QED BY <2>2, <3>2, <3>3
  <2> QED BY <2>1, <2>2 DEF TidyOut
<1> QED BY <1>4, <1>6, <1>7, <1>9, <1>11, <1>12 DEF Rest

-----------------------------------------------------------------------------
(* Steps that open descriptors                                             *)

LEMMA AcceptStep ==
  ASSUME IInv, WType', NEW r \in Req, Accept(r)
  PROVE  Rest'
<1>1. PICK n \in Least : owner' = [owner EXCEPT ![n] = r] /\ fd' = [fd EXCEPT ![r] = n] /\ AddE(<<n>>, r)
  BY DEF Accept
<1>2. n \in Numbers /\ owner[n] = "free" /\ n # 0
  BY LeastFree DEF IInv, ZeroKept
<1>3. /\ \A s \in Req : s # "free" /\ s # "stdin" /\ s # None
      /\ \A s \in Req : fd[s] \in Numbers /\ fd[s] \in D(s) /\ D(s) \subseteq Numbers
      /\ \A s \in Req : D(s) = ToSet(watched[s]) \cup {fd[s]}
      /\ 0 \in Numbers /\ owner[0] = "stdin"
  BY Owners, Descriptors DEF IInv, ZeroKept
<1>4. /\ UNCHANGED <<watched, sockets, astray, woken>>
      /\ fiber' = [fiber EXCEPT ![r] = "active"] /\ fiber[r] = "none" /\ woken = None
  BY DEF Accept, Resume, IInv, Running
<1>5. /\ \A s \in Req : D(s)' = ToSet(watched[s]) \cup {fd'[s]}
      /\ \A s \in Req : fd'[s] = IF s = r THEN n ELSE fd[s]
      /\ \A s \in Req : fiber'[s] = IF s = r THEN "active" ELSE fiber[s]
      /\ \A m \in Numbers : owner'[m] = IF m = n THEN r ELSE owner[m]
      /\ \A m \in Numbers : rid'[m] = IF m = n THEN r ELSE rid[m]
  <2>1. \A s \in Req : D(s)' = ToSet(watched[s]) \cup {fd'[s]}
    BY <1>4, DescriptorsPrimed
  <2>2. ToSet(<<n>>) = {n}
    BY DEF ToSet
  <2> QED BY <1>1, <1>4, <2>1, <2>2 DEF AddE, IInv, WType
<1>6. \A m \in Numbers : owner[m] # r
  BY <1>4 DEF IInv, OwnedIsKnown
<1>7. ZeroKept'
  BY <1>2, <1>3, <1>4, <1>5 DEF IInv, ZeroKept
<1>8. OwnedIsKnown'
  <2>1. ASSUME NEW s \in Req \ astray, NEW m \in Numbers, owner'[m] = s PROVE m \in D(s)'
    <3>1. CASE s = r
      BY <1>5, <1>6, <2>1, <3>1
    <3>2. CASE s # r
      <4>1. owner[m] = s
        BY <1>5, <2>1, <3>2
      <4>2. m \in D(s)
        BY <4>1 DEF IInv, OwnedIsKnown
      <4> QED BY <1>3, <1>5, <3>2, <4>2
    <3> QED BY <3>1, <3>2
  <2>2. \A s \in Req \ astray : sockets[s] \subseteq ToSet(watched[s])
    BY DEF IInv, OwnedIsKnown
  <2>3. ASSUME NEW s \in Req, fiber'[s] = "none" PROVE \A m \in Numbers : owner'[m] # s
    <3>1. s # r /\ fiber[s] = "none"
      BY <1>5, <2>3
    <3>2. \A m \in Numbers : owner[m] # s
      BY <3>1 DEF IInv, OwnedIsKnown
    <3> QED BY <1>5, <3>1, <3>2
  <2> QED BY <1>4, <2>1, <2>2, <2>3 DEF OwnedIsKnown
<1>9. NothingLeft'
  BY <1>4, <1>5 DEF IInv, NothingLeft
<1>10. \A m : SomebodyWatches(m)' <=> SomebodyWatches(m)
  BY <1>4 DEF SomebodyWatches
<1>11. ClosersKnown'
  <2>1. \A s \in Req : \A m \in sockets'[s] : SomebodyWatches(m)
    BY <1>4 DEF IInv, ClosersKnown
  <2>2. ASSUME NEW s \in Req, fd'[s] # 0, owner'[fd'[s]] # s PROVE SomebodyWatches(fd'[s])
    <3>1. s # r /\ fd'[s] = fd[s] /\ fd[s] # 0
      BY <1>2, <1>5, <2>2
    <3>2. owner[fd[s]] # s
      BY <1>2, <1>3, <1>5, <2>2, <3>1
    <3> QED BY <3>1, <3>2 DEF IInv, ClosersKnown
  <2> QED BY <1>10, <2>1, <2>2 DEF ClosersKnown
<1>12. ASSUME NEW s \in Req \ astray, Tidy(s)', s # r
       PROVE  Tidy(s) /\ D(s)' = D(s) /\ n \notin D(s)
  <2>1. fd'[s] = fd[s] /\ DescriptorsOf(s)' = DescriptorsOf(s) /\ D(s)' = D(s)
    BY <1>4, <1>5, <1>12 DEF DescriptorsOf, D
  <2>2. \A m \in D(s) : owner'[m] = s
    BY <1>12, <2>1 DEF Tidy, D
  <2>3. n \notin D(s) /\ \A m \in D(s) : owner[m] = s
    BY <1>2, <1>3, <1>5, <1>12, <2>2
  <2>4. /\ IsInjective(DescriptorsOf(s)) /\ ToSet(watched[s]) = sockets[s]
        /\ \A t \in Req \ {s} : ToSet(watched[t]) \cap D(s) = {}
    BY <1>4, <1>12, <2>1 DEF Tidy, D
  <2> QED BY <2>1, <2>3, <2>4 DEF Tidy, D
<1>13. TidyApart'
  <2>1. ASSUME NEW s \in Req \ astray, Tidy(s)', NEW t \in Req \ {s} PROVE fd'[t] \notin D(s)'
    <3>1. CASE s # r
      <4>1. Tidy(s) /\ D(s)' = D(s) /\ n \notin D(s)
        BY <1>12, <2>1, <3>1
      <4>2. fd[t] \notin D(s)
        BY <4>1 DEF IInv, TidyApart
      <4> QED BY <1>5, <4>1, <4>2
    <3>2. CASE s = r
      <4>1. fd'[t] = fd[t]
        BY <1>5, <3>2
      <4>2. ToSet(watched[r]) \subseteq {n} /\ D(r)' = {n}
        <5>1. \A m \in D(r)' : owner'[m] = r
          BY <2>1, <3>2 DEF Tidy, D
        <5>2. \A m \in ToSet(watched[r]) : m \in Numbers
          BY <1>3
        <5> QED BY <1>5, <1>6, <5>1, <5>2
      <4>3. n \notin ToSet(watched[r])
        BY <1>4, <1>5, <2>1, <3>2, Appended DEF Tidy, DescriptorsOf, IInv, WType
      <4>4. \A u \in Req \ {r} : n \notin ToSet(watched[u])
        <5>1. \A u \in Req \ {r} : ToSet(watched[u]) \cap D(r)' = {}
          BY <1>4, <2>1, <3>2 DEF Tidy, D
        <5> QED BY <4>2, <5>1
      <4>5. ~SomebodyWatches(n)
        BY <4>3, <4>4 DEF SomebodyWatches
      <4>6. fd[t] # n
        BY <1>2, <1>3, <4>5 DEF IInv, ClosersKnown
      <4> QED BY <3>2, <4>1, <4>2, <4>6
    <3> QED BY <3>1, <3>2
  <2> QED BY <1>4, <2>1 DEF TidyApart
<1>14. TidyOut'
  <2>1. ASSUME NEW s \in Req \ astray, Out(s)', Tidy(s)', NEW m \in D(s)' PROVE rid'[m] = None
    <3>1. s # r /\ Out(s)
      BY <1>3, <1>4, <1>5, <2>1 DEF Out
    <3>2. Tidy(s) /\ D(s)' = D(s) /\ n \notin D(s)
      BY <1>12, <2>1, <3>1
    <3>3. rid[m] = None /\ m \in Numbers /\ m # n
      BY <1>3, <2>1, <3>1, <3>2 DEF IInv, TidyOut
    <3> QED BY <1>5, <3>3
  <2>2. \A s \in Req : woken' # s
    BY <1>3, <1>4
  <2> QED BY <1>4, <2>1, <2>2 DEF TidyOut
<1> QED BY <1>7, <1>8, <1>9, <1>11, <1>13, <1>14 DEF Rest

LEMMA OpenStep ==
  ASSUME IInv, WType', NEW r \in Req, OpenSocket(r)
  PROVE  Rest'
<1>1. PICK n \in Least : /\ owner' = [owner EXCEPT ![n] = r]
                        /\ sockets' = [sockets EXCEPT ![r] = @ \cup {n}]
                        /\ watched' = [watched EXCEPT ![curr] = Append(@, n)]
                        /\ AddE(<<n>>, curr)
  BY DEF OpenSocket
<1>2. n \in Numbers /\ owner[n] = "free" /\ n # 0
  BY LeastFree DEF IInv, ZeroKept
<1>3. /\ \A s \in Req : s # "free" /\ s # "stdin" /\ s # None
      /\ \A s \in Req : fd[s] \in Numbers /\ fd[s] \in D(s) /\ D(s) \subseteq Numbers
      /\ \A s \in Req : D(s) = ToSet(watched[s]) \cup {fd[s]}
      /\ 0 \in Numbers /\ owner[0] = "stdin"
  BY Owners, Descriptors DEF IInv, ZeroKept
<1>4. UNCHANGED <<fd, fiber, woken>> /\ fiber[r] = "active" /\ curr \in Req
  BY <1>3 DEF OpenSocket, IInv, Running
<1>5. (pc = "wake" /\ astray' = astray \cup {r}) \/ (curr = r /\ woken = None /\ astray' = astray)
  BY <1>3 DEF OpenSocket, IInv, Running, WType
<1>6. /\ \A s \in Req : D(s)' = ToSet(watched'[s]) \cup {fd[s]}
      /\ \A s \in Req : ToSet(watched'[s]) = ToSet(watched[s]) \cup (IF s = curr THEN {n} ELSE {})
      /\ \A s \in Req : s # curr => watched'[s] = watched[s]
      /\ watched'[curr] = Append(watched[curr], n)
      /\ \A s \in Req : sockets'[s] = sockets[s] \cup (IF s = r THEN {n} ELSE {})
      /\ \A m \in Numbers : owner'[m] = IF m = n THEN r ELSE owner[m]
      /\ \A m \in Numbers : rid'[m] = IF m = n THEN curr ELSE rid[m]
  <2>1. \A s \in Req : D(s)' = ToSet(watched'[s]) \cup {fd[s]}
    BY <1>4, DescriptorsPrimed
  <2>2. ToSet(<<n>>) = {n}
    BY DEF ToSet
  <2>3. watched \in [Req -> Seq(Numbers)] /\ sockets \in [Req -> SUBSET Numbers]
        /\ owner \in [Numbers -> Req \cup {"free", "stdin"}]
    BY DEF IInv, WType
  <2>4. watched'[curr] = Append(watched[curr], n) /\ \A s \in Req : s # curr => watched'[s] = watched[s]
    BY <1>1, <1>4, <2>3
  <2>5. ToSet(Append(watched[curr], n)) = ToSet(watched[curr]) \cup {n}
    BY <1>2, <1>4, <2>3, Appended
  <2>6. \A s \in Req : ToSet(watched'[s]) = ToSet(watched[s]) \cup (IF s = curr THEN {n} ELSE {})
    BY <2>4, <2>5
  <2>7. /\ \A s \in Req : sockets'[s] = sockets[s] \cup (IF s = r THEN {n} ELSE {})
        /\ \A m \in Numbers : owner'[m] = IF m = n THEN r ELSE owner[m]
    BY <1>1, <2>3
  <2>8. \A m \in Numbers : rid'[m] = IF m = n THEN curr ELSE rid[m]
    BY <1>1, <2>2 DEF AddE
  <2> QED BY <2>1, <2>4, <2>6, <2>7, <2>8
<1>7. ZeroKept'
  BY <1>2, <1>3, <1>6 DEF IInv, ZeroKept
<1>8. OwnedIsKnown'
  <2>1. ASSUME NEW s \in Req \ astray', NEW m \in Numbers, owner'[m] = s PROVE m \in D(s)'
    <3>1. CASE m = n
      BY <1>5, <1>6, <2>1, <3>1
    <3>2. CASE m # n
      <4>1. owner[m] = s /\ s \notin astray
        BY <1>5, <1>6, <2>1, <3>2
      <4>2. m \in D(s)
        BY <4>1 DEF IInv, OwnedIsKnown
      <4> QED BY <1>3, <1>6, <4>2
    <3> QED BY <3>1, <3>2
  <2>2. ASSUME NEW s \in Req \ astray' PROVE sockets'[s] \subseteq ToSet(watched'[s])
    <3>1. s \notin astray /\ (s = r => curr = r)
      BY <1>5, <2>2
    <3>2. sockets[s] \subseteq ToSet(watched[s])
      BY <3>1 DEF IInv, OwnedIsKnown
    <3> QED BY <1>6, <3>1, <3>2
  <2>3. ASSUME NEW s \in Req, fiber'[s] = "none" PROVE \A m \in Numbers : owner'[m] # s
    <3>1. s # r /\ fiber[s] = "none"
      BY <1>4, <2>3
    <3>2. \A m \in Numbers : owner[m] # s
      BY <3>1 DEF IInv, OwnedIsKnown
    <3> QED BY <1>6, <3>1, <3>2
  <2> QED BY <2>1, <2>2, <2>3 DEF OwnedIsKnown
<1>9. NothingLeft'
  <2>1. ASSUME NEW s \in Req \ astray', fiber'[s] = "dead", NEW m \in Numbers PROVE owner'[m] # s
    <3>1. s # r /\ s \notin astray /\ fiber[s] = "dead"
      BY <1>4, <1>5, <2>1
    <3>2. owner[m] # s
      BY <3>1 DEF IInv, NothingLeft
    <3> QED BY <1>6, <3>1, <3>2
  <2> QED BY <2>1 DEF NothingLeft
<1>10. SomebodyWatches(n)' /\ \A m : SomebodyWatches(m) => SomebodyWatches(m)'
  BY <1>4, <1>6 DEF SomebodyWatches
<1>11. ClosersKnown'
  <2>1. ASSUME NEW s \in Req, NEW m \in sockets'[s] PROVE SomebodyWatches(m)'
    <3>1. m = n \/ m \in sockets[s]
      BY <1>6
    <3> QED BY <1>10, <3>1 DEF IInv, ClosersKnown
  <2>2. ASSUME NEW s \in Req, fd[s] # 0, owner'[fd[s]] # s PROVE SomebodyWatches(fd[s])'
    <3>1. owner[fd[s]] # s
      BY <1>2, <1>3, <1>6, <2>2
    <3>2. SomebodyWatches(fd[s])
      BY <2>2, <3>1 DEF IInv, ClosersKnown
    <3> QED BY <1>4, <1>6, <3>2 DEF SomebodyWatches
  <2> QED BY <1>4, <2>1, <2>2 DEF ClosersKnown
<1>12. ASSUME NEW s \in Req \ astray', Tidy(s)', s # r
       PROVE  Tidy(s) /\ D(s)' = D(s) /\ n \notin D(s)
  <2>1. \A m \in D(s)' : owner'[m] = s
    BY <1>12 DEF Tidy, D
  <2>2. n \notin D(s)' /\ s # curr
    BY <1>2, <1>6, <1>12, <2>1
  <2>3. DescriptorsOf(s)' = DescriptorsOf(s) /\ D(s)' = D(s)
    BY <1>4, <1>6, <1>12, <2>2 DEF DescriptorsOf, D
  <2>4. \A m \in D(s) : owner[m] = s
    BY <1>3, <1>6, <1>12, <2>1, <2>2, <2>3
  <2>5. /\ IsInjective(DescriptorsOf(s)) /\ ToSet(watched[s]) = sockets[s]
        /\ \A t \in Req \ {s} : ToSet(watched[t]) \cap D(s) = {}
    <3>1. /\ IsInjective(DescriptorsOf(s))' /\ ToSet(watched'[s]) = sockets'[s]
          /\ \A t \in Req \ {s} : ToSet(watched'[t]) \cap D(s)' = {}
      BY <1>12 DEF Tidy, D
    <3>2. IsInjective(DescriptorsOf(s))
      BY <2>3, <3>1 DEF IsInjective
    <3>3. ToSet(watched[s]) = sockets[s]
      <4>1. watched'[s] = watched[s]
        BY <1>6, <2>2
      <4>2. sockets'[s] = sockets[s] \cup {}
        BY <1>6, <1>12
      <4>3. ToSet(watched[s]) = sockets'[s]
        BY <3>1, <4>1
      <4> QED BY <4>2, <4>3
    <3>4. \A t \in Req : ToSet(watched[t]) \subseteq ToSet(watched'[t])
      BY <1>6
    <3> QED BY <2>3, <3>1, <3>2, <3>3, <3>4
  <2> QED BY <2>2, <2>3, <2>4, <2>5 DEF Tidy, D
<1>13. ASSUME Tidy(r)', r \notin astray'
       PROVE  Tidy(r) /\ D(r)' = D(r) \cup {n} /\ \A u \in Req : n \notin ToSet(watched[u])
  <2>1. curr = r /\ r \notin astray
    BY <1>5, <1>13
  <2>2. D(r)' = D(r) \cup {n}
    BY <1>3, <1>6, <2>1
  <2>3. /\ IsInjective(Append(Append(watched[r], n), fd[r])) /\ ToSet(watched'[r]) = sockets'[r]
        /\ \A m \in D(r)' : owner'[m] = r
        /\ \A t \in Req \ {r} : ToSet(watched'[t]) \cap D(r)' = {}
    BY <1>4, <1>6, <1>13, <2>1 DEF Tidy, D, DescriptorsOf
  <2>4. watched[r] \in Seq(Numbers) /\ fd[r] \in Numbers
    BY DEF IInv, WType
  <2>5. n \notin ToSet(watched[r]) /\ n # fd[r] /\ IsInjective(DescriptorsOf(r))
    BY <1>2, <2>3, <2>4, Inserted DEF DescriptorsOf
  <2>6. ToSet(watched[r]) = sockets[r]
    <3>1. sockets[r] \subseteq ToSet(watched[r])
      BY <2>1 DEF IInv, OwnedIsKnown
    <3>2. ToSet(watched[r]) \cup {n} = sockets[r] \cup {n}
      BY <1>6, <2>1, <2>3
    <3>3. ToSet(watched[r]) \subseteq sockets[r]
      BY <2>5, <3>2
    <3> QED BY <3>1, <3>3
  <2>7. \A m \in D(r) : owner[m] = r
    BY <1>3, <1>6, <2>2, <2>3, <2>5
  <2>8. \A t \in Req \ {r} : ToSet(watched[t]) \cap D(r) = {} /\ n \notin ToSet(watched[t])
    BY <1>6, <2>1, <2>2, <2>3
  <2> QED BY <2>2, <2>5, <2>6, <2>7, <2>8 DEF Tidy, D
<1>14. TidyApart'
  <2>1. ASSUME NEW s \in Req \ astray', Tidy(s)', NEW t \in Req \ {s} PROVE fd[t] \notin D(s)'
    <3>1. CASE s # r
      <4>1. Tidy(s) /\ D(s)' = D(s)
        BY <1>12, <2>1, <3>1
      <4> QED BY <1>5, <4>1 DEF IInv, TidyApart
    <3>2. CASE s = r
      <4>1. Tidy(r) /\ D(r)' = D(r) \cup {n} /\ ~SomebodyWatches(n)
        BY <1>13, <2>1, <3>2 DEF SomebodyWatches
      <4>2. fd[t] # n
        BY <1>2, <1>3, <4>1 DEF IInv, ClosersKnown
      <4>3. fd[t] \notin D(r)
        BY <1>5, <2>1, <3>2, <4>1 DEF IInv, TidyApart
      <4> QED BY <3>2, <4>1, <4>2, <4>3
    <3> QED BY <3>1, <3>2
  <2> QED BY <1>4, <2>1 DEF TidyApart
<1>15. TidyOut'
  <2>1. ASSUME NEW s \in Req \ astray', Out(s)', Tidy(s)' PROVE s # r /\ Out(s) /\ s \notin astray
    BY <1>3, <1>4, <1>5, <2>1 DEF Out
  <2>2. ASSUME NEW s \in Req \ astray', Out(s)', Tidy(s)', NEW m \in D(s)' PROVE rid'[m] = None
    <3>1. Tidy(s) /\ D(s)' = D(s) /\ n \notin D(s) /\ Out(s)
      BY <1>12, <2>1, <2>2
    <3>2. rid[m] = None /\ m \in Numbers /\ m # n
      BY <1>3, <2>1, <2>2, <3>1 DEF IInv, TidyOut
    <3> QED BY <1>6, <3>2
  <2>3. ASSUME NEW s \in Req \ astray', woken' = s, fiber'[s] = "sleep", Tidy(s)' PROVE FALSE
    <3>1. s # r /\ s \notin astray /\ Tidy(s)
      BY <1>12, <2>1, <2>3 DEF Out
    <3> QED BY <1>4, <2>3, <3>1 DEF IInv, TidyOut
  <2> QED BY <2>2, <2>3 DEF TidyOut
<1> QED BY <1>7, <1>8, <1>9, <1>11, <1>14, <1>15 DEF Rest

-----------------------------------------------------------------------------
(* The wake loop adds descriptors again                                    *)

LEMMA RewatchStep ==
  ASSUME IInv, Rewatch
  PROVE  Rest'
<1>1. /\ UNCHANGED <<owner, fd, watched, sockets, astray, fiber>>
      /\ woken \in Req
  BY DEF Rewatch, reqVars, IInv, WType
<1>2. /\ \A r \in Req : D(r)' = D(r)
      /\ \A r \in Req : Tidy(r)' <=> Tidy(r)
      /\ \A n : SomebodyWatches(n)' <=> SomebodyWatches(n)
  BY <1>1 DEF D, DescriptorsOf, Tidy, SomebodyWatches
<1>3. ZeroKept' /\ OwnedIsKnown' /\ NothingLeft' /\ ClosersKnown' /\ TidyApart'
  <2>1. ZeroKept' /\ OwnedIsKnown' /\ NothingLeft'
    BY <1>1, <1>2 DEF IInv, ZeroKept, OwnedIsKnown, NothingLeft
  <2>2. ClosersKnown'
    BY <1>1, <1>2 DEF IInv, ClosersKnown, SomebodyWatches
  <2>3. TidyApart'
    BY <1>1, <1>2 DEF IInv, TidyApart
  <2> QED BY <2>1, <2>2, <2>3
<1>4. CASE ~Added(AddedAgain(woken))
  <2>1. UNCHANGED <<rid, woken>>
    BY <1>4 DEF Rewatch
  <2>2. TidyOut'
    BY <1>1, <1>2, <2>1 DEF IInv, TidyOut, Out
  <2> QED BY <1>3, <2>2 DEF Rest
<1>5. CASE Added(AddedAgain(woken))
  <2>1. woken' = None /\ \A n \in Numbers : n \notin D(woken) => rid'[n] = rid[n]
    BY <1>5 DEF Rewatch, AddE, AddedAgain, D
  <2>2. None \notin Req /\ \A r \in Req : D(r) \subseteq Numbers /\ D(r) = ToSet(watched[r]) \cup {fd[r]}
    BY NoneAssumption, Descriptors DEF IInv
  <2>3. ASSUME NEW r \in Req \ astray, Out(r)', Tidy(r)', NEW n \in D(r)' PROVE rid'[n] = None
    <3>1. fiber[r] = "sleep" /\ Tidy(r) /\ n \in D(r)
      BY <1>1, <1>2, <2>1, <2>2, <2>3 DEF Out
    <3>2. r # woken /\ rid[n] = None
      BY <3>1 DEF IInv, TidyOut, Out
    <3>3. n # fd[woken]
      BY <1>1, <3>1, <3>2 DEF IInv, TidyApart
    <3>4. n \notin ToSet(watched[woken])
      BY <1>1, <3>1, <3>2 DEF Tidy, D
    <3> QED BY <1>1, <2>1, <2>2, <3>1, <3>2, <3>3, <3>4
  <2>4. \A r \in Req : woken' # r
    BY <2>1, <2>2
  <2>5. TidyOut'
    BY <1>1, <2>3, <2>4 DEF TidyOut
  <2> QED BY <1>3, <2>5 DEF Rest
<1> QED BY <1>4, <1>5

-----------------------------------------------------------------------------
(* Every step                                                              *)

LEMMA RestStep ==
  ASSUME IInv, [Next]_vars
  PROVE  Rest'
<1>t. /\ fiber \in [Req -> {"none", "active", "reading", "sleep", "dead"}]
      /\ fd \in [Req -> Numbers] /\ sockets \in [Req -> SUBSET Numbers]
      /\ run \in Req \cup {None} /\ None \notin Req /\ WType' /\ WType
  BY NoneAssumption, WTypeStep DEF IInv, WType
<1>q. ASSUME UNCHANGED <<owner, rid, fd, watched, sockets, astray>>,
             \A r \in Req : fiber'[r] \in {"none", "sleep", "dead"} => fiber'[r] = fiber[r],
             \A r \in Req : woken' = r => woken = r \/ (fiber[r] = "sleep" /\ fiber'[r] # "sleep")
      PROVE  Rest'
  BY <1>q, QuietStep DEF Rest
<1>1. CASE BeginSelectRound \/ EndEvents \/ EndWake
  <2>1. UNCHANGED <<owner, rid, reqVars, woken>>
    BY <1>1 DEF BeginSelectRound, EndEvents, EndWake, kernelVars
  <2> QED BY <1>q, <2>1 DEF reqVars
<1>2. CASE BeginFullRound
  BY <1>q, <1>2 DEF BeginFullRound, kernelVars, reqVars
<1>3. CASE Rewatch
  BY <1>3, RewatchStep
<1>4. ASSUME NEW r \in Req, HandleNext(r) PROVE Rest'
  BY <1>q, <1>t, <1>4 DEF HandleNext, Resume, kernelVars
<1>5. ASSUME NEW r \in Req, WakeNext(r) PROVE Rest'
  <2>1. fiber[r] = "sleep"
    BY <1>5 DEF WakeNext, IInv, Sleepers
  <2> QED BY <1>q, <1>t, <1>5, <2>1 DEF WakeNext, Resume, kernelVars
<1>6. ASSUME NEW r \in Req, Accept(r) PROVE Rest'
  BY <1>t, <1>6, AcceptStep
<1>7. ASSUME NEW r \in Req, OpenSocket(r) PROVE Rest'
  BY <1>t, <1>7, OpenStep
<1>8. ASSUME NEW r \in Req, run = r, NEW del, Ends(r, del), UNCHANGED astray PROVE Rest'
  <2>1. /\ D(r) = ToSet(watched[r]) \cup {fd[r]} /\ 0 \notin D(r)
        /\ CloseAfter(D(r), del)
    <3>1. fd[r] # 0 /\ 0 \notin ToSet(watched[r])
      BY <1>8, <1>t DEF IInv, Running, ZeroKept
    <3> QED BY <1>t, <1>8, <3>1, Descriptors DEF Ends, Detached, D
  <2>2. /\ fd' = [fd EXCEPT ![r] = 0] /\ fiber' = [fiber EXCEPT ![r] = "dead"]
        /\ UNCHANGED <<watched, sockets, astray, woken>>
    BY <1>8 DEF Ends
  <2>3. \A s \in Req : fd'[s] = fd[s] \/ (fd'[s] = 0 /\ D(s) \subseteq D(r))
    BY <1>t, <2>2
  <2>4. /\ \A s \in Req : fiber'[s] = "none" => fiber[s] = "none"
        /\ \A s \in Req : fiber'[s] = "dead" => fiber[s] = "dead" \/ D(s) \subseteq D(r)
        /\ \A s \in Req : fiber'[s] = "sleep" =>
              fiber[s] = "sleep" \/ (D(s) \subseteq del /\ rid[fd[s]] # None)
    BY <1>t, <2>2
  <2>5. \A n \in D(r) : SomebodyWatches(n) \/ \E s \in Req : n = fd[s] /\ fd'[s] = 0
    BY <1>t, <2>1, <2>2 DEF SomebodyWatches
  <2> DEFINE ns == D(r)
  <2>6. /\ CloseAfter(ns, del) /\ 0 \notin ns
        /\ \A s \in Req : fd'[s] = fd[s] \/ (fd'[s] = 0 /\ D(s) \subseteq ns)
        /\ \A s \in Req : fiber'[s] = "dead" => fiber[s] = "dead" \/ D(s) \subseteq ns
        /\ \A n \in ns : SomebodyWatches(n) \/ \E s \in Req : n = fd[s] /\ fd'[s] = 0
        /\ \A s \in Req : sockets'[s] \subseteq sockets[s]
    BY <2>1, <2>2, <2>3, <2>4, <2>5
  <2> HIDE DEF ns
  <2> QED BY <1>t, <2>2, <2>4, <2>6, ClosingStep
<1>9. ASSUME NEW r \in Req, Finish(r) PROVE Rest'
  BY <1>8, <1>9 DEF Finish, Ends
<1>10. ASSUME NEW r \in Req, Sleep(r) PROVE Rest'
  <2>1. CASE ~Registered(Removed(r))
    BY <1>8, <1>10, <2>1 DEF Sleep, Ends
  <2>2. CASE Registered(Removed(r))
    <3> DEFINE del == ToSet(Removed(r))
    <3>1. /\ CloseAfter({}, del)
          /\ fiber' = [fiber EXCEPT ![r] = "sleep"]
          /\ UNCHANGED <<fd, watched, sockets, astray, woken>>
      BY <1>10, <2>2 DEF Sleep
    <3>2. D(r) \subseteq del /\ rid[fd[r]] # None
      <4>1. D(r) = del /\ fd[r] \in D(r)
        BY <1>t, Descriptors DEF Removed, D
      <4> QED BY <2>2, <4>1 DEF Registered
    <3>3. /\ \A s \in Req : fiber'[s] = "none" => fiber[s] = "none"
          /\ \A s \in Req : fiber'[s] = "dead" => fiber[s] = "dead"
          /\ \A s \in Req : fiber'[s] = "sleep" =>
                fiber[s] = "sleep" \/ (D(s) \subseteq del /\ rid[fd[s]] # None)
      BY <1>t, <3>1, <3>2
    <3> HIDE DEF del
    <3> QED BY <1>t, <3>1, <3>3, ClosingStep
  <2> QED BY <2>1, <2>2
<1>11. ASSUME NEW r \in Req, NEW n \in sockets[r], CloseSocket(r, n) \/ Collect(r, n) PROVE Rest'
  <2>1. /\ sockets' = [sockets EXCEPT ![r] = @ \ {n}] /\ CloseAfter({n}, {})
        /\ UNCHANGED <<woken, fd, watched, fiber, astray>>
    BY <1>11 DEF CloseSocket, Collect, loopVars
  <2>2. n # 0 /\ SomebodyWatches(n)
    BY DEF IInv, ZeroKept, ClosersKnown
  <2>3. \A s \in Req : sockets'[s] \subseteq sockets[s]
    BY <1>t, <2>1
  <2> QED BY <1>t, <2>1, <2>2, <2>3, ClosingStep
<1>12. ASSUME NEW r \in Req, NEW n \in sockets[r], Transfer(r, n) PROVE Rest'
  BY <1>q, <1>t, <1>12 DEF Transfer
<1>13. ASSUME NEW r \in Req, SleeperWakes(r) PROVE Rest'
  BY <1>q, <1>13 DEF SleeperWakes, kernelVars, reqVars
<1>14. ASSUME NEW n \in Numbers, Arrives(n) PROVE Rest'
  BY <1>q, <1>14 DEF Arrives, loopVars, reqVars
<1>15. CASE Dead \/ UNCHANGED vars
  BY <1>q, <1>15 DEF Dead, vars, loopVars, kernelVars, reqVars
<1>16. CASE Loop
  BY <1>16, <1>1, <1>2, <1>3, <1>4, <1>5, <1>6 DEF Loop
<1>17. CASE Action
  BY <1>17, <1>7, <1>9, <1>10, <1>11, <1>12 DEF Action
<1> QED BY <1>11, <1>13, <1>14, <1>15, <1>16, <1>17 DEF Next

LEMMA IInvStep ==
  ASSUME IInv, [Next]_vars
  PROVE  IInv'
BY WTypeStep, RunSleepStep, RestStep DEF IInv, RunSleep, Rest

LEMMA IInvInit ==
  ASSUME Init
  PROVE  IInv
<1>1. \A r \in Req : r # "free" /\ r # "stdin" /\ r # None
  BY NoneAssumption
<1>2. 0 \in Numbers
  BY BoundAssumption DEF Numbers
<1>3. WType /\ ToSet(<<>>) = {}
  BY <1>2 DEF Init, WType, ToSet
<1>4. ZeroKept /\ Running /\ Sleepers
  BY <1>1, <1>2, <1>3 DEF Init, ZeroKept, Running, Sleepers
<1>5. OwnedIsKnown /\ NothingLeft /\ ClosersKnown
  BY <1>1, <1>2, <1>3 DEF Init, OwnedIsKnown, NothingLeft, ClosersKnown
<1>6. \A r \in Req : ~Tidy(r)
  <2>1. \A r \in Req : fd[r] \in D(r) /\ owner[fd[r]] # r
    BY <1>1, <1>2, <1>3, Descriptors DEF Init
  <2> QED BY <2>1 DEF Tidy, D
<1>7. TidyApart /\ TidyOut
  BY <1>6 DEF TidyApart, TidyOut
<1> QED BY <1>3, <1>4, <1>5, <1>7 DEF IInv

(* No descriptor is left open by an action that has ended, however many    *)
(* requests and descriptors there are: nyara_detach_rid closes all that    *)
(* fd_watch noted for it (event.c:267-282), but for what it opened in the  *)
(* wake loop.                                                              *)
THEOREM NothingLeftAlways == Spec => []NothingLeft
<1>1. Init => IInv
  BY IInvInit
<1>2. IInv /\ [Next]_vars => IInv'
  BY IInvStep
<1>3. IInv => NothingLeft
  BY DEF IInv
<1> QED BY <1>1, <1>2, <1>3, PTL DEF Spec

(* What the wake loop adds again can be added, unless the request has lost *)
(* track of its descriptors.                                               *)
LEMMA TidyIsAdded ==
  ASSUME IInv, NEW r \in Req \ astray, woken = r, Tidy(r)
  PROVE  Added(AddedAgain(r))
<1>1. /\ IsInjective(AddedAgain(r))
      /\ \A n \in ToSet(AddedAgain(r)) : owner[n] = r
  BY DEF Tidy, AddedAgain
<1>2. \A n \in ToSet(AddedAgain(r)) : rid[n] = None
  BY DEF AddedAgain, D, IInv, TidyOut, Out
<1>3. r # "free" /\ owner[0] # r
  BY NoneAssumption DEF IInv, ZeroKept
<1> QED BY <1>1, <1>2, <1>3 DEF Added

(* The worker outlives an action that sleeps with open sockets and goes on *)
(* waiting when it is woken: request_sleep took out of epoll what the wake *)
(* loop adds again (event.c:246,340), and nobody else registered or closed *)
(* it in between.                                                          *)
THEOREM WokenSurvivesAlways == Spec => WokenSurvives
<1> DEFINE A == pc # "dead" /\ pc' = "dead" =>
                  \/ run # None /\ fiber[curr] = "dead"
                  \/ /\ woken # None /\ run = None
                     /\ woken \in astray \/ ~Tidy(woken)
<1>1. IInv /\ [Next]_vars => [A]_vars
  <2> SUFFICES ASSUME IInv, Next, pc # "dead", pc' = "dead"
               PROVE  \/ run # None /\ fiber[curr] = "dead"
                      \/ /\ woken # None /\ run = None
                         /\ woken \in astray \/ ~Tidy(woken)
    OBVIOUS
  <2>1. Rewatch \/ \E r \in Req : OpenSocket(r)
    <3>1. CASE Loop
      BY <3>1 DEF Loop, BeginSelectRound, BeginFullRound, EndEvents, EndWake, HandleNext, Accept, WakeNext
    <3>2. CASE Action
      BY <3>2 DEF Action, Finish, Sleep, Ends, CloseSocket, Transfer, loopVars
    <3> QED BY <3>1, <3>2 DEF Next, Dead, SleeperWakes, Collect, Arrives, loopVars
  <2>2. CASE \E r \in Req : OpenSocket(r)
    BY <2>2, NoneAssumption DEF OpenSocket
  <2>3. CASE Rewatch
    <3>1. run = None /\ woken # None /\ ~Added(AddedAgain(woken))
      BY <2>3 DEF Rewatch
    <3>2. woken \in Req
      BY <3>1 DEF IInv, WType
    <3> QED BY <3>1, <3>2, TidyIsAdded
  <2> QED BY <2>1, <2>2, <2>3
<1>2. Init => IInv
  BY IInvInit
<1>3. IInv /\ [Next]_vars => IInv'
  BY IInvStep
<1> QED BY <1>1, <1>2, <1>3, PTL DEF Spec, WokenSurvives

-----------------------------------------------------------------------------
(* No action is stuck: what epoll has of the requests whose descriptors    *)
(* are theirs alone, whatever sockets their actions hold by now.           *)

Kept(r) ==
  /\ IsInjective(DescriptorsOf(r))
  /\ \A n \in D(r) : owner[n] = r
  /\ \A s \in Req \ {r} : ToSet(watched[s]) \cap D(r) = {}

(* No other connection has one of these descriptors,                       *)
KeptApart == \A r \in Req : Kept(r) => \A s \in Req \ {r} : fd[s] \notin D(r)
(* epoll has none while the request sleeps, and not the connection until   *)
(* the wake loop adds it again,                                            *)
KeptOut ==
  \A r \in Req : Kept(r) =>
    /\ woken = r => rid[fd[r]] = None /\ fiber[r] # "sleep"
    /\ fiber[r] = "sleep" => \A n \in D(r) : rid[n] = None
(* and all of them otherwise.                                              *)
KeptIn ==
  \A r \in map \ {woken} : Kept(r) /\ fiber[r] # "sleep" => \A n \in D(r) : rid[n] = r

(* Who does not sleep is not skipped, and waits for a socket of its own.   *)
Awake ==
  /\ \A r \in Req : fiber[r] \in {"none", "active", "reading"} => ~sleeping[r]
  /\ pc \in {"top", "wake"} => work = {}
  /\ waits \in [Req -> Numbers]
  /\ \A r \in Req : fiber[r] = "reading" => waits[r] \in sockets[r]

Followed == KeptApart /\ KeptOut /\ KeptIn /\ WaitingIsResumed
KInv == Followed /\ Awake

LEMMA TidyIsKept ==
  ASSUME NEW r \in Req
  PROVE  Tidy(r) <=> Kept(r) /\ ToSet(watched[r]) = sockets[r]
BY DEF Tidy, Kept, D

LEMMA TidyIsKeptPrimed ==
  ASSUME NEW r \in Req
  PROVE  Tidy(r)' <=> Kept(r)' /\ ToSet(watched'[r]) = sockets'[r]
BY DEF Tidy, Kept, D

LEMMA Setting ==
  ASSUME IInv
  PROVE  /\ \A r \in Req : r # "free" /\ r # "stdin" /\ r # None
         /\ \A r \in Req : fd[r] \in Numbers /\ fd[r] \in D(r) /\ D(r) \subseteq Numbers
         /\ \A r \in Req : D(r) = ToSet(watched[r]) \cup {fd[r]}
         /\ 0 \in Numbers /\ owner[0] = "stdin"
BY Owners, Descriptors DEF IInv, ZeroKept

(* What is waited for is a descriptor of the request, and epoll has it.    *)
LEMMA WaitsOwn ==
  ASSUME IInv, KInv, NEW r \in Req, fiber[r] = "reading", Tidy(r)
  PROVE  /\ waits[r] \in D(r) /\ waits[r] \in Numbers /\ waits[r] # 0 /\ owner[waits[r]] = r
         /\ r \in map /\ woken # r => rid[waits[r]] = r
<1>1. waits[r] \in ToSet(watched[r]) /\ Kept(r)
  BY TidyIsKept DEF KInv, Awake
<1>2. waits[r] \in D(r) /\ waits[r] \in Numbers
  BY <1>1, Setting
<1>3. owner[waits[r]] = r /\ waits[r] # 0
  BY <1>1, <1>2, Setting DEF Kept
<1>4. ASSUME r \in map, woken # r PROVE rid[waits[r]] = r
  BY <1>1, <1>2, <1>4 DEF KInv, Followed, KeptIn
<1> QED BY <1>2, <1>3, <1>4

(* Other requests have none of the descriptors of a kept one.              *)
LEMMA KeptDisjoint ==
  ASSUME IInv, KInv, NEW r \in Req, NEW s \in Req \ {r}, Kept(r)
  PROVE  D(r) \cap D(s) = {}
<1>1. D(s) = ToSet(watched[s]) \cup {fd[s]}
  BY Setting
<1>2. ToSet(watched[s]) \cap D(r) = {}
  BY DEF Kept
<1>3. fd[s] \notin D(r)
  BY DEF KInv, Followed, KeptApart
<1> QED BY <1>1, <1>2, <1>3

-----------------------------------------------------------------------------
(* Steps that close descriptors or take them out of epoll                  *)

LEMMA KeptBeforeClose ==
  ASSUME IInv, WType', NEW ns, NEW del, CloseAfter(ns, del), 0 \notin ns, UNCHANGED watched,
         \A s \in Req : fd'[s] = fd[s] \/ fd'[s] = 0,
         NEW r \in Req, Kept(r)'
  PROVE  Kept(r) /\ D(r)' = D(r) /\ fd'[r] = fd[r] /\ D(r) \cap ns = {}
<1>1. /\ \A n \in Numbers : owner'[n] = IF n \in ns THEN "free" ELSE owner[n]
      /\ D(r)' = ToSet(watched[r]) \cup {fd'[r]}
      /\ \A n \in D(r)' : owner'[n] = r
  BY DescriptorsPrimed DEF CloseAfter, Kept
<1>2. fd'[r] # 0
  BY <1>1, Setting
<1>3. fd'[r] = fd[r] /\ DescriptorsOf(r)' = DescriptorsOf(r) /\ D(r)' = D(r)
  BY <1>2 DEF DescriptorsOf, D
<1>4. \A n \in D(r) : owner[n] = r /\ n \notin ns
  BY <1>1, <1>3, Setting
<1>5. IsInjective(DescriptorsOf(r)) /\ \A s \in Req \ {r} : ToSet(watched[s]) \cap D(r) = {}
  BY <1>3 DEF Kept
<1> QED BY <1>3, <1>4, <1>5 DEF Kept

LEMMA ClosingKeeps ==
  ASSUME IInv, KInv, WType', NEW ns, NEW del, CloseAfter(ns, del), 0 \notin ns,
         UNCHANGED <<watched, waits, woken, work, pc>>, map' \subseteq map,
         \A s \in Req : fd'[s] = fd[s] \/ fd'[s] = 0,
         \A s \in Req : fiber'[s] = "sleep" =>
           fiber[s] = "sleep" \/ (D(s) \subseteq del /\ rid[fd[s]] # None),
         \A s \in Req : fiber'[s] = "reading" => fiber[s] = "reading" /\ sockets'[s] = sockets[s],
         \A s \in map' : fiber'[s] # "sleep" =>
           fiber[s] # "sleep" /\ (Kept(s) => D(s) \cap del = {})
  PROVE  Followed'
<1>1. ASSUME NEW r \in Req, Kept(r)'
      PROVE  Kept(r) /\ D(r)' = D(r) /\ fd'[r] = fd[r] /\ D(r) \cap ns = {}
  BY <1>1, KeptBeforeClose
<1>2. /\ \A n \in Numbers : rid'[n] = IF n \in ns \cup del THEN None ELSE rid[n]
      /\ ready' = ready \ (ns \cup del) /\ able' = able \ ns
      /\ map \subseteq Req
  BY DEF CloseAfter, IInv, WType
<1>3. KeptApart'
  <2>1. ASSUME NEW r \in Req, Kept(r)', NEW s \in Req \ {r} PROVE fd'[s] \notin D(r)'
    <3>1. Kept(r) /\ D(r)' = D(r)
      BY <1>1, <2>1
    <3>2. fd[s] \notin D(r)
      BY <3>1 DEF KInv, Followed, KeptApart
    <3>3. 0 \notin D(r)
      BY <3>1, Setting DEF Kept
    <3> QED BY <3>1, <3>2, <3>3
  <2> QED BY <2>1 DEF KeptApart
<1>4. KeptOut'
  <2>1. ASSUME NEW r \in Req, Kept(r)', woken = r PROVE rid'[fd'[r]] = None /\ fiber'[r] # "sleep"
    <3>1. Kept(r) /\ fd'[r] = fd[r] /\ fd[r] \in Numbers
      BY <1>1, <2>1, Setting
    <3>2. rid[fd[r]] = None /\ fiber[r] # "sleep"
      BY <2>1, <3>1 DEF KInv, Followed, KeptOut
    <3> QED BY <1>2, <3>1, <3>2
  <2>2. ASSUME NEW r \in Req, Kept(r)', fiber'[r] = "sleep", NEW n \in D(r)' PROVE rid'[n] = None
    <3>1. Kept(r) /\ n \in D(r) /\ n \in Numbers
      BY <1>1, <2>2, Setting
    <3>2. n \in del \/ rid[n] = None
      BY <2>2, <3>1 DEF KInv, Followed, KeptOut
    <3> QED BY <1>2, <3>1, <3>2
  <2> QED BY <2>1, <2>2 DEF KeptOut
<1>5. KeptIn'
  <2>1. ASSUME NEW r \in map' \ {woken}, Kept(r)', fiber'[r] # "sleep", NEW n \in D(r)'
        PROVE  rid'[n] = r
    <3>1. r \in Req /\ r \in map /\ fiber[r] # "sleep"
      BY <1>2, <2>1
    <3>2. Kept(r) /\ n \in D(r) /\ n \in Numbers /\ n \notin ns
      BY <1>1, <2>1, <3>1, Setting
    <3>3. n \notin del
      BY <2>1, <3>2
    <3>4. rid[n] = r
      BY <2>1, <3>1, <3>2 DEF KInv, Followed, KeptIn
    <3> QED BY <1>2, <3>2, <3>3, <3>4
  <2> QED BY <2>1 DEF KeptIn
<1>6. WaitingIsResumed'
  <2> SUFFICES ASSUME NEW r \in map', fiber'[r] = "reading", waits'[r] \in able', Tidy(r)',
                      pc' # "dead"
               PROVE  \/ waits'[r] \in ready' /\ rid'[waits'[r]] = r
                      \/ r \in work' \/ woken' = r
    BY DEF WaitingIsResumed
  <2>1. r \in Req /\ r \in map /\ fiber[r] = "reading" /\ sockets'[r] = sockets[r]
    BY <1>2
  <2>2. Kept(r) /\ Tidy(r) /\ D(r) \cap ns = {}
    BY <1>1, <2>1, TidyIsKept, TidyIsKeptPrimed
  <2>3. waits[r] \in D(r) /\ waits[r] \in Numbers
    BY <2>1, <2>2, WaitsOwn
  <2>4. \/ waits[r] \in ready /\ rid[waits[r]] = r
        \/ r \in work \/ woken = r
    BY <1>2, <2>1, <2>2 DEF KInv, Followed, WaitingIsResumed
  <2>5. D(r) \cap del = {}
    BY <2>2
  <2> QED BY <1>2, <2>2, <2>3, <2>4, <2>5
<1> QED BY <1>3, <1>4, <1>5, <1>6 DEF Followed

-----------------------------------------------------------------------------
(* Steps that open descriptors: n for the request r, noted for w           *)

LEMMA OpeningKeeps ==
  ASSUME IInv, KInv, WType', NEW r \in Req, NEW w \in Req, NEW n \in Numbers,
         owner[n] = "free", n # 0, fiber'[r] = "active", w # r => n \in ToSet(watched'[w]),
         \A m \in Numbers : owner'[m] = IF m = n THEN r ELSE owner[m],
         \A m \in Numbers : rid'[m] = IF m = n THEN w ELSE rid[m],
         ready' = ready \cup {n}, able' = able,
         UNCHANGED <<woken, work, waits>>, map \subseteq map', map' \subseteq map \cup {r},
         \A s \in Req \ {r} : fiber'[s] = fiber[s] /\ fd'[s] = fd[s] /\ sockets'[s] = sockets[s],
         \A s \in Req \ {r} : s # w => watched'[s] = watched[s],
         \A s \in Req : ToSet(watched[s]) \subseteq ToSet(watched'[s]),
         pc' # "dead" => pc # "dead", fiber[r] # "sleep", fd'[r] \in {fd[r], n},
         Kept(r)' /\ n \in D(r)' => \A t \in Req : n \notin ToSet(watched[t]),
         Kept(r)' => \A m \in D(r)' : m = n \/ (map' = map /\ Kept(r) /\ m \in D(r)),
         Kept(r)' /\ woken = r => fd'[r] = fd[r] /\ Kept(r) /\ fd[r] # n
  PROVE  Followed'
<1>1. ASSUME NEW s \in Req \ {r}, Kept(s)'
      PROVE  /\ Kept(s) /\ D(s)' = D(s) /\ n \notin D(s) /\ watched'[s] = watched[s]
             /\ fd'[s] = fd[s]
  <2>1. /\ \A m \in D(s)' : owner'[m] = s
        /\ D(s)' = ToSet(watched'[s]) \cup {fd'[s]}
        /\ \A t \in Req \ {s} : ToSet(watched'[t]) \cap D(s)' = {}
    BY <1>1, DescriptorsPrimed DEF Kept
  <2>2. n \notin D(s)'
    BY <2>1
  <2>3. s # w
    BY <2>1, <2>2
  <2>4. DescriptorsOf(s)' = DescriptorsOf(s) /\ D(s)' = D(s)
    BY <2>3 DEF DescriptorsOf, D
  <2>5. \A m \in D(s) : owner[m] = s
    BY <2>1, <2>2, <2>4, Setting
  <2>6. IsInjective(DescriptorsOf(s)) /\ \A t \in Req \ {s} : ToSet(watched[t]) \cap D(s) = {}
    BY <1>1, <2>1, <2>4 DEF Kept
  <2> QED BY <2>2, <2>3, <2>4, <2>5, <2>6 DEF Kept
<1>2. ASSUME Kept(r)', n \in D(r)' PROVE \A t \in Req : fd[t] # n \/ t = r
  <2>1. ~SomebodyWatches(n)
    BY <1>2 DEF SomebodyWatches
  <2> QED BY <2>1, Setting DEF IInv, ClosersKnown
<1>3. KeptApart'
  <2>1. ASSUME NEW s \in Req, Kept(s)', NEW t \in Req \ {s} PROVE fd'[t] \notin D(s)'
    <3>1. CASE s = r
      <4>1. fd'[t] = fd[t] /\ (n \in D(r)' => fd[t] # n)
        BY <1>2, <2>1, <3>1
      <4>2. ASSUME Kept(r) PROVE fd[t] \notin D(r)
        BY <2>1, <3>1, <4>2 DEF KInv, Followed, KeptApart
      <4> QED BY <2>1, <3>1, <4>1, <4>2
    <3>2. CASE s # r
      <4>1. Kept(s) /\ D(s)' = D(s) /\ n \notin D(s)
        BY <1>1, <2>1, <3>2
      <4>2. fd[t] \notin D(s)
        BY <2>1, <4>1 DEF KInv, Followed, KeptApart
      <4> QED BY <4>1, <4>2
    <3> QED BY <3>1, <3>2
  <2> QED BY <2>1 DEF KeptApart
<1>4. KeptOut'
  <2>1. ASSUME NEW s \in Req, Kept(s)', woken = s PROVE rid'[fd'[s]] = None /\ fiber'[s] # "sleep"
    <3>1. Kept(s) /\ fd'[s] = fd[s] /\ fd[s] \in Numbers /\ fd[s] # n
      BY <1>1, <2>1, Setting
    <3>2. rid[fd[s]] = None /\ fiber[s] # "sleep"
      BY <2>1, <3>1 DEF KInv, Followed, KeptOut
    <3> QED BY <3>1, <3>2
  <2>2. ASSUME NEW s \in Req, Kept(s)', fiber'[s] = "sleep", NEW m \in D(s)' PROVE rid'[m] = None
    <3>1. s # r /\ fiber[s] = "sleep"
      BY <2>2
    <3>2. Kept(s) /\ m \in D(s) /\ m \in Numbers /\ m # n
      BY <1>1, <2>2, <3>1, Setting
    <3> QED BY <3>1, <3>2 DEF KInv, Followed, KeptOut
  <2> QED BY <2>1, <2>2 DEF KeptOut
<1>5. KeptIn'
  <2>1. ASSUME NEW s \in map' \ {woken}, Kept(s)', fiber'[s] # "sleep", NEW m \in D(s)'
        PROVE  rid'[m] = s
    <3>1. s \in Req
      BY <2>1 DEF IInv, WType
    <3>2. CASE s # r
      <4>1. Kept(s) /\ m \in D(s) /\ m \in Numbers /\ m # n /\ s \in map
        BY <1>1, <2>1, <3>1, <3>2, Setting
      <4> QED BY <2>1, <3>1, <3>2, <4>1 DEF KInv, Followed, KeptIn
    <3>3. CASE s = r /\ m = n
      <4>1. w = r
        BY <2>1, <3>3 DEF Kept
      <4> QED BY <3>3, <4>1
    <3>4. CASE s = r /\ m # n
      <4>1. r \in map /\ Kept(r) /\ m \in D(r) /\ m \in Numbers
        BY <2>1, <3>4, Setting
      <4>2. rid[m] = r
        BY <2>1, <3>4, <4>1 DEF KInv, Followed, KeptIn
      <4> QED BY <3>4, <4>1, <4>2
    <3> QED BY <3>2, <3>3, <3>4
  <2> QED BY <2>1 DEF KeptIn
<1>6. WaitingIsResumed'
  <2> SUFFICES ASSUME NEW s \in map', fiber'[s] = "reading", waits'[s] \in able', Tidy(s)',
                      pc' # "dead"
               PROVE  \/ waits'[s] \in ready' /\ rid'[waits'[s]] = s
                      \/ s \in work' \/ woken' = s
    BY DEF WaitingIsResumed
  <2>1. s \in Req /\ s # r /\ s \in map /\ fiber[s] = "reading" /\ sockets'[s] = sockets[s]
    BY DEF IInv, WType
  <2>2. Tidy(s) /\ n \notin D(s)
    BY <1>1, <2>1, TidyIsKept, TidyIsKeptPrimed
  <2>3. waits[s] \in D(s) /\ waits[s] \in Numbers
    BY <2>1, <2>2, WaitsOwn
  <2>4. \/ waits[s] \in ready /\ rid[waits[s]] = s
        \/ s \in work \/ woken = s
    BY <2>1, <2>2 DEF KInv, Followed, WaitingIsResumed
  <2> QED BY <2>2, <2>3, <2>4
<1> QED BY <1>3, <1>4, <1>5, <1>6 DEF Followed

LEMMA AcceptKeeps ==
  ASSUME IInv, KInv, WType', NEW r \in Req, Accept(r)
  PROVE  Followed'
<1>1. PICK n \in Least : owner' = [owner EXCEPT ![n] = r] /\ fd' = [fd EXCEPT ![r] = n] /\ AddE(<<n>>, r)
  BY DEF Accept
<1>2. n \in Numbers /\ owner[n] = "free" /\ n # 0
  BY LeastFree DEF IInv, ZeroKept
<1>3. /\ UNCHANGED <<watched, sockets, waits, woken, work, pc, able>> /\ map' = map \cup {r}
      /\ fiber' = [fiber EXCEPT ![r] = "active"] /\ fiber[r] = "none" /\ woken = None
  BY DEF Accept, Resume, IInv, Running
<1>4. /\ \A m \in Numbers : owner'[m] = IF m = n THEN r ELSE owner[m]
      /\ \A m \in Numbers : rid'[m] = IF m = n THEN r ELSE rid[m]
      /\ ready' = ready \cup {n}
  <2>1. ToSet(<<n>>) = {n}
    BY DEF ToSet
  <2> QED BY <1>1, <2>1 DEF AddE, IInv, WType
<1>5. /\ \A s \in Req \ {r} : fiber'[s] = fiber[s] /\ fd'[s] = fd[s] /\ sockets'[s] = sockets[s]
      /\ fiber'[r] = "active" /\ fiber[r] # "sleep" /\ fd'[r] = n
  BY <1>1, <1>3 DEF IInv, WType
<1>6. ASSUME Kept(r)'
      PROVE  /\ \A t \in Req : n \notin ToSet(watched[t])
             /\ \A m \in D(r)' : m = n
  <2>1. \A m \in Numbers : owner[m] # r
    BY <1>3 DEF IInv, OwnedIsKnown
  <2>2. D(r)' = ToSet(watched[r]) \cup {n}
    BY <1>3, <1>5, DescriptorsPrimed
  <2>3. \A m \in D(r)' : owner'[m] = r
    BY <1>6 DEF Kept
  <2>4. \A m \in D(r)' : m = n
    BY <1>2, <1>4, <2>1, <2>2, <2>3, Setting
  <2>5. n \notin ToSet(watched[r])
    BY <1>2, <1>3, <1>5, <1>6, Appended DEF Kept, DescriptorsOf, IInv, WType
  <2>6. \A t \in Req \ {r} : ToSet(watched[t]) \cap D(r)' = {}
    BY <1>3, <1>6 DEF Kept
  <2> QED BY <2>2, <2>4, <2>5, <2>6
<1>7. woken # r
  BY <1>3, Setting
<1> QED BY <1>2, <1>3, <1>4, <1>5, <1>6, <1>7, OpeningKeeps

LEMMA OpenKeeps ==
  ASSUME IInv, KInv, WType', NEW r \in Req, OpenSocket(r)
  PROVE  Followed'
<1>1. PICK n \in Least : /\ owner' = [owner EXCEPT ![n] = r]
                        /\ sockets' = [sockets EXCEPT ![r] = @ \cup {n}]
                        /\ watched' = [watched EXCEPT ![curr] = Append(@, n)]
                        /\ AddE(<<n>>, curr)
  BY DEF OpenSocket
<1>2. n \in Numbers /\ owner[n] = "free" /\ n # 0
  BY LeastFree DEF IInv, ZeroKept
<1>3. /\ UNCHANGED <<fd, fiber, woken, waits, work, map, able>> /\ pc # "dead"
      /\ fiber[r] = "active" /\ curr \in Req
  BY Setting DEF OpenSocket, IInv, Running
<1>4. /\ \A m \in Numbers : owner'[m] = IF m = n THEN r ELSE owner[m]
      /\ \A m \in Numbers : rid'[m] = IF m = n THEN curr ELSE rid[m]
      /\ ready' = ready \cup {n}
  <2>1. ToSet(<<n>>) = {n}
    BY DEF ToSet
  <2> QED BY <1>1, <2>1 DEF AddE, IInv, WType
<1>5. /\ \A s \in Req : s # curr => watched'[s] = watched[s]
      /\ watched'[curr] = Append(watched[curr], n)
      /\ \A s \in Req \ {r} : sockets'[s] = sockets[s]
      /\ watched \in [Req -> Seq(Numbers)] /\ fd \in [Req -> Numbers]
  BY <1>1, <1>3 DEF IInv, WType
<1>6. ToSet(watched'[curr]) = ToSet(watched[curr]) \cup {n}
  BY <1>2, <1>3, <1>5, Appended
<1>7. \A s \in Req : ToSet(watched[s]) \subseteq ToSet(watched'[s])
  BY <1>3, <1>5, <1>6
<1>8. /\ \A m \in D(r)' : Kept(r)' => owner'[m] = r
      /\ \A t \in Req \ {r} : Kept(r)' => ToSet(watched'[t]) \cap D(r)' = {}
      /\ D(r)' = ToSet(watched'[r]) \cup {fd[r]}
  BY <1>3, DescriptorsPrimed DEF Kept
<1>9. ASSUME Kept(r)', curr # r
      PROVE  n \notin D(r)' /\ D(r)' = D(r) /\ Kept(r)
  <2>1. n \notin D(r)'
    BY <1>3, <1>6, <1>8, <1>9
  <2>2. DescriptorsOf(r)' = DescriptorsOf(r) /\ D(r)' = D(r)
    BY <1>3, <1>5, <1>9 DEF DescriptorsOf, D
  <2>3. \A m \in D(r) : owner[m] = r
    BY <1>4, <1>8, <1>9, <2>1, <2>2, Setting
  <2>4. IsInjective(DescriptorsOf(r)) /\ \A t \in Req \ {r} : ToSet(watched[t]) \cap D(r) = {}
    BY <1>7, <1>8, <1>9, <2>2 DEF Kept
  <2> QED BY <2>1, <2>2, <2>3, <2>4 DEF Kept
<1>10. ASSUME Kept(r)', curr = r
       PROVE  /\ D(r)' = D(r) \cup {n} /\ Kept(r) /\ fd[r] # n
              /\ \A t \in Req : n \notin ToSet(watched[t])
  <2>1. D(r)' = D(r) \cup {n}
    BY <1>6, <1>8, <1>10, Setting
  <2>2. IsInjective(Append(Append(watched[r], n), fd[r]))
    BY <1>3, <1>5, <1>10 DEF Kept, DescriptorsOf
  <2>3. watched[r] \in Seq(Numbers) /\ fd[r] \in Numbers
    BY <1>5
  <2>4. n \notin ToSet(watched[r]) /\ n # fd[r] /\ IsInjective(DescriptorsOf(r))
    BY <1>2, <2>2, <2>3, Inserted DEF DescriptorsOf
  <2>5. n \notin D(r)
    BY <2>4, Setting
  <2>6. \A m \in D(r) : owner[m] = r
    BY <1>4, <1>8, <1>10, <2>1, <2>5, Setting
  <2>7. \A t \in Req \ {r} : ToSet(watched[t]) \cap D(r) = {} /\ n \notin ToSet(watched[t])
    BY <1>7, <1>8, <1>10, <2>1
  <2> QED BY <2>1, <2>4, <2>6, <2>7 DEF Kept
<1>11. /\ Kept(r)' /\ n \in D(r)' => \A t \in Req : n \notin ToSet(watched[t])
       /\ Kept(r)' => \A m \in D(r)' : m = n \/ (map' = map /\ Kept(r) /\ m \in D(r))
       /\ Kept(r)' /\ woken = r => fd'[r] = fd[r] /\ Kept(r) /\ fd[r] # n
  <2>1. fd[r] \in D(r)
    BY Setting
  <2>2. CASE curr = r
    BY <1>3, <1>10, <2>2
  <2>3. CASE curr # r
    BY <1>3, <1>9, <2>1, <2>3
  <2> QED BY <2>2, <2>3
<1>12. curr # r => n \in ToSet(watched'[curr])
  BY <1>6
<1>13. /\ \A s \in Req \ {r} : fiber'[s] = fiber[s] /\ fd'[s] = fd[s] /\ sockets'[s] = sockets[s]
       /\ \A s \in Req \ {r} : s # curr => watched'[s] = watched[s]
       /\ fiber'[r] = "active" /\ fiber[r] # "sleep" /\ fd'[r] \in {fd[r], n}
  BY <1>3, <1>5
<1> QED BY <1>2, <1>3, <1>4, <1>7, <1>11, <1>12, <1>13, OpeningKeeps

-----------------------------------------------------------------------------
(* Steps that leave descriptors and registrations as they are              *)

LEMMA QuietKeeps ==
  ASSUME IInv, KInv, UNCHANGED <<owner, rid, fd, watched, sockets>>, map' \subseteq map,
         \A r \in Req : fiber'[r] = "sleep" => fiber[r] = "sleep",
         \A r \in map' : fiber[r] = "sleep" => fiber'[r] = "sleep" \/ woken' = r,
         \A r \in Req : woken' = r => woken = r \/ (fiber[r] = "sleep" /\ fiber'[r] # "sleep"),
         woken # None => woken' = woken,
         \A r \in map' : fiber'[r] = "reading" /\ waits'[r] \in able' /\ Tidy(r) /\ pc' # "dead" =>
           \/ waits'[r] \in ready' /\ rid[waits'[r]] = r
           \/ r \in work' \/ woken' = r
  PROVE  Followed'
<1>1. \A r \in Req : /\ D(r)' = D(r) /\ (Kept(r)' <=> Kept(r)) /\ (Tidy(r)' <=> Tidy(r))
                     /\ fd[r] \in D(r)
  BY Setting DEF D, DescriptorsOf, Kept, Tidy
<1>2. map \subseteq Req /\ None \notin Req /\ woken \in Req \cup {None}
  BY NoneAssumption DEF IInv, WType
<1>3. KeptApart'
  BY <1>1 DEF KInv, Followed, KeptApart
<1>4. KeptOut'
  <2>1. ASSUME NEW r \in Req, Kept(r)', woken' = r PROVE rid[fd[r]] = None /\ fiber'[r] # "sleep"
    <3>1. Kept(r) /\ fd[r] \in D(r)
      BY <1>1, <2>1
    <3> QED BY <2>1, <3>1 DEF KInv, Followed, KeptOut
  <2>2. ASSUME NEW r \in Req, Kept(r)', fiber'[r] = "sleep", NEW n \in D(r)' PROVE rid[n] = None
    BY <1>1, <2>2 DEF KInv, Followed, KeptOut
  <2> QED BY <2>1, <2>2 DEF KeptOut
<1>5. KeptIn'
  <2>1. ASSUME NEW r \in map', r # woken', Kept(r)', fiber'[r] # "sleep", NEW n \in D(r)'
        PROVE  rid[n] = r
    <3>1. r \in Req /\ r \in map /\ r # woken /\ fiber[r] # "sleep"
      BY <1>2, <2>1
    <3> QED BY <1>1, <2>1, <3>1 DEF KInv, Followed, KeptIn
  <2> QED BY <2>1 DEF KeptIn
<1>6. WaitingIsResumed'
  BY <1>1, <1>2 DEF WaitingIsResumed
<1> QED BY <1>3, <1>4, <1>5, <1>6 DEF Followed

(* Steps of the loop and of threads that hide no request from it.          *)
LEMMA PassingKeeps ==
  ASSUME IInv, KInv, UNCHANGED <<owner, rid, fd, watched, sockets, waits>>, map' \subseteq map,
         \A r \in Req : fiber'[r] = fiber[r] \/ fiber'[r] = "active",
         \A r \in map' : fiber[r] = "sleep" => fiber'[r] = "sleep" \/ woken' = r,
         \A r \in Req : woken' = r => woken = r \/ (fiber[r] = "sleep" /\ fiber'[r] # "sleep"),
         woken # None => woken' = woken, able' \subseteq able, pc' # "dead" => pc # "dead",
         ready \subseteq ready',
         \A r \in work : r \in work' \/ ~(r \in map' /\ fiber'[r] = "reading")
  PROVE  Followed'
<1>1. ASSUME NEW r \in map', fiber'[r] = "reading", waits'[r] \in able', Tidy(r), pc' # "dead"
      PROVE  \/ waits'[r] \in ready' /\ rid[waits'[r]] = r
             \/ r \in work' \/ woken' = r
  <2>1. r \in map /\ fiber[r] = "reading" /\ r \in Req /\ None \notin Req
    BY <1>1, NoneAssumption DEF IInv, WType
  <2> QED BY <1>1, <2>1 DEF KInv, Followed, WaitingIsResumed
<1>2. \A r \in Req : fiber'[r] = "sleep" => fiber[r] = "sleep"
  OBVIOUS
<1> QED BY <1>1, <1>2, QuietKeeps

(* Edges that epoll reports are handled in the same round,                 *)
LEMMA SelectKeeps ==
  ASSUME IInv, KInv, BeginSelectRound
  PROVE  Followed'
<1>1. /\ UNCHANGED <<owner, rid, able, map, woken, reqVars>> /\ pc = "top"
      /\ work' = {rid[n] : n \in ready} /\ work = {}
  BY DEF BeginSelectRound, KInv, Awake
<1>2. ASSUME NEW r \in map', fiber'[r] = "reading", waits'[r] \in able', Tidy(r), pc' # "dead"
      PROVE  r \in work' \/ woken' = r
  <2>1. \/ waits[r] \in ready /\ rid[waits[r]] = r
        \/ r \in work \/ woken = r
    BY <1>1, <1>2 DEF KInv, Followed, WaitingIsResumed, reqVars
  <2> QED BY <1>1, <2>1
<1> QED BY <1>1, <1>2, QuietKeeps DEF reqVars

(* and a full round handles every request that is awake.                   *)
LEMMA FullKeeps ==
  ASSUME IInv, KInv, BeginFullRound
  PROVE  Followed'
<1>1. /\ UNCHANGED <<kernelVars, woken, reqVars>> /\ map' \subseteq map
      /\ work' = {r \in map' : ~sleeping[r] /\ fiber[r] # "none"}
  BY DEF BeginFullRound
<1>2. ASSUME NEW r \in map', fiber'[r] = "reading"
      PROVE  r \in work'
  <2>1. r \in Req /\ fiber[r] = "reading" /\ ~sleeping[r]
    BY <1>1, <1>2 DEF IInv, WType, KInv, Awake, reqVars
  <2> QED BY <1>1, <2>1
<1> QED BY <1>1, <1>2, QuietKeeps DEF reqVars, kernelVars

(* A socket that can be used raises an edge, or its request is in the wake *)
(* loop.                                                                   *)
LEMMA ArrivesKeeps ==
  ASSUME IInv, KInv, NEW n \in Numbers, Arrives(n)
  PROVE  Followed'
<1>1. /\ UNCHANGED <<loopVars, reqVars, owner, rid>> /\ able' = able \cup {n} /\ pc # "dead"
      /\ ready' = IF rid[n] = None THEN ready ELSE ready \cup {n}
  BY DEF Arrives
<1>2. ASSUME NEW r \in map', fiber'[r] = "reading", waits'[r] \in able', Tidy(r)
      PROVE  \/ waits'[r] \in ready' /\ rid[waits'[r]] = r
             \/ r \in work' \/ woken' = r
  <2>1. /\ r \in map /\ fiber[r] = "reading" /\ r \in Req /\ r # None
        /\ waits'[r] = waits[r] /\ work' = work /\ woken' = woken
    BY <1>1, <1>2, Setting DEF loopVars, reqVars, IInv, WType
  <2>2. CASE waits[r] \in able
    BY <1>1, <1>2, <2>1, <2>2 DEF KInv, Followed, WaitingIsResumed
  <2>3. CASE waits[r] = n /\ woken # r
    <3>1. rid[n] = r
      BY <1>2, <2>1, <2>3, WaitsOwn
    <3> QED BY <1>1, <2>1, <2>3, <3>1
  <2> QED BY <1>1, <1>2, <2>1, <2>2, <2>3
<1> QED BY <1>1, <1>2, QuietKeeps DEF loopVars, reqVars

(* A fiber yields only for a socket that cannot be used.                   *)
LEMMA TransferKeeps ==
  ASSUME IInv, KInv, NEW r \in Req, NEW n \in sockets[r], Transfer(r, n)
  PROVE  Followed'
<1>1. /\ UNCHANGED <<pc, work, woken, map, owner, rid, ready, fd, watched, sockets>>
      /\ able' \subseteq able /\ fiber[r] = "active"
      /\ fiber \in [Req -> {"none", "active", "reading", "sleep", "dead"}] /\ map \subseteq Req
  BY Setting DEF Transfer, IInv, WType, Running
<1>2. /\ \A s \in Req \ {r} : fiber'[s] = fiber[s] /\ waits'[s] = waits[s]
      /\ \/ fiber' = fiber
         \/ fiber'[r] = "reading" /\ waits'[r] \notin able'
  <2>1. waits \in [Req -> Numbers]
    BY DEF KInv, Awake
  <2>2. CASE n \in able \/ owner[n] = "free"
    BY <1>1, <2>1, <2>2 DEF Transfer
  <2>3. CASE ~(n \in able \/ owner[n] = "free")
    BY <1>1, <2>1, <2>3 DEF Transfer
  <2> QED BY <2>2, <2>3
<1>3. ASSUME NEW s \in map', fiber'[s] = "reading", waits'[s] \in able', Tidy(s), pc' # "dead"
      PROVE  \/ waits'[s] \in ready' /\ rid[waits'[s]] = s
             \/ s \in work' \/ woken' = s
  <2>1. s # r /\ s \in Req /\ s \in map
    BY <1>1, <1>2, <1>3
  <2>2. fiber[s] = "reading" /\ waits[s] \in able /\ waits'[s] = waits[s] /\ pc # "dead"
    BY <1>1, <1>2, <1>3, <2>1
  <2> QED BY <1>1, <1>3, <2>1, <2>2 DEF KInv, Followed, WaitingIsResumed
<1>4. \A s \in Req : (fiber'[s] = "sleep" => fiber[s] = "sleep")
                     /\ (fiber[s] = "sleep" => fiber'[s] = "sleep")
  BY <1>1, <1>2
<1>5. \A s \in Req : woken' = s => woken = s
  BY <1>1
<1> QED BY <1>1, <1>3, <1>4, <1>5, QuietKeeps

(* What the wake loop resumed is added again.                              *)
LEMMA RewatchKeeps ==
  ASSUME IInv, KInv, Rewatch
  PROVE  Followed'
<1>1. /\ UNCHANGED <<owner, able, work, map, reqVars>> /\ woken \in Req /\ map \subseteq Req
      /\ fiber' = fiber /\ waits' = waits /\ fd' = fd
  BY DEF Rewatch, reqVars, IInv, WType
<1>2. CASE ~Added(AddedAgain(woken))
  <2>1. UNCHANGED <<rid, ready, woken>> /\ pc' = "dead"
    BY <1>2 DEF Rewatch
  <2>2. \A r \in Req : woken' = r => woken = r
    BY <2>1
  <2> QED BY <1>1, <2>1, <2>2, QuietKeeps DEF reqVars
<1>3. CASE Added(AddedAgain(woken))
  <2>1. /\ woken' = None /\ ready' = ready \cup D(woken) /\ pc' = pc
        /\ \A n \in Numbers : rid'[n] = IF n \in D(woken) THEN woken ELSE rid[n]
    BY <1>3 DEF Rewatch, AddE, AddedAgain, D
  <2>2. /\ \A r \in Req : D(r)' = D(r) /\ (Kept(r)' <=> Kept(r)) /\ (Tidy(r)' <=> Tidy(r))
        /\ \A r \in Req : D(r) \subseteq Numbers /\ r # None
    BY <1>1, Setting DEF D, DescriptorsOf, Kept, Tidy, reqVars
  <2>3. \A r \in Req \ {woken} : Kept(r) => D(r) \cap D(woken) = {}
    BY <1>1, KeptDisjoint
  <2>4. KeptApart'
    BY <1>1, <2>2 DEF KInv, Followed, KeptApart
  <2>5. KeptOut'
    <3>1. ASSUME NEW r \in Req, Kept(r)', fiber'[r] = "sleep", NEW n \in D(r)' PROVE rid'[n] = None
      <4>1. Kept(r) /\ fiber[r] = "sleep" /\ n \in D(r) /\ n \in Numbers
        BY <1>1, <2>2, <3>1
      <4>2. rid[n] = None /\ r # woken
        BY <4>1 DEF KInv, Followed, KeptOut
      <4> QED BY <2>1, <2>3, <4>1, <4>2
    <3>2. \A r \in Req : woken' # r
      BY <2>1, <2>2
    <3> QED BY <3>1, <3>2 DEF KeptOut
  <2>6. KeptIn'
    <3>1. ASSUME NEW r \in map', Kept(r)', fiber'[r] # "sleep", NEW n \in D(r)' PROVE rid'[n] = r
      <4>1. Kept(r) /\ r \in map /\ r \in Req /\ fiber[r] # "sleep" /\ n \in D(r) /\ n \in Numbers
        BY <1>1, <2>2, <3>1
      <4>2. CASE r = woken
        BY <2>1, <4>1, <4>2
      <4>3. CASE r # woken
        <5>1. rid[n] = r
          BY <4>1, <4>3 DEF KInv, Followed, KeptIn
        <5> QED BY <2>1, <2>3, <4>1, <4>3, <5>1
      <4> QED BY <4>2, <4>3
    <3> QED BY <3>1 DEF KeptIn
  <2>7. WaitingIsResumed'
    <3> SUFFICES ASSUME NEW r \in map', fiber'[r] = "reading", waits'[r] \in able', Tidy(r)',
                        pc' # "dead"
                 PROVE  \/ waits'[r] \in ready' /\ rid'[waits'[r]] = r
                        \/ r \in work'
      BY DEF WaitingIsResumed
    <3>1. r \in Req /\ r \in map /\ fiber[r] = "reading" /\ Tidy(r) /\ Kept(r)
      BY <1>1, <2>2, TidyIsKept
    <3>2. waits[r] \in D(r) /\ waits[r] \in Numbers
      BY <3>1, WaitsOwn
    <3>3. CASE r = woken
      BY <1>1, <2>1, <3>2, <3>3
    <3>4. CASE r # woken
      <4>1. \/ waits[r] \in ready /\ rid[waits[r]] = r
            \/ r \in work
        BY <1>1, <2>1, <3>1, <3>4 DEF KInv, Followed, WaitingIsResumed
      <4>2. waits[r] \notin D(woken)
        BY <2>3, <3>1, <3>2, <3>4
      <4> QED BY <1>1, <2>1, <3>2, <4>1, <4>2
    <3> QED BY <3>3, <3>4
  <2> QED BY <2>4, <2>5, <2>6, <2>7 DEF Followed
<1> QED BY <1>2, <1>3

(* An action ends, by itself or because it could not sleep.                *)
LEMMA EndsKeeps ==
  ASSUME IInv, KInv, WType', NEW r \in Req, run = r, NEW del, Ends(r, del),
         del \subseteq D(r)
  PROVE  Followed'
<1>1. /\ CloseAfter(D(r), del) /\ map' = map \ {r}
      /\ fd' = [fd EXCEPT ![r] = 0] /\ fiber' = [fiber EXCEPT ![r] = "dead"]
      /\ UNCHANGED <<watched, sockets, waits, woken, work, pc>>
      /\ fiber \in [Req -> {"none", "active", "reading", "sleep", "dead"}]
      /\ fd \in [Req -> Numbers] /\ map \subseteq Req
  BY DEF Ends, Detached, D, IInv, WType
<1>2. 0 \notin D(r)
  <2>1. fd[r] # 0 /\ 0 \notin ToSet(watched[r])
    BY Setting DEF IInv, Running, ZeroKept
  <2> QED BY <2>1, Setting
<1>3. /\ \A s \in Req : fd'[s] = fd[s] \/ fd'[s] = 0
      /\ \A s \in Req : fiber'[s] = "sleep" => fiber[s] = "sleep"
      /\ \A s \in Req : fiber'[s] = "reading" => fiber[s] = "reading" /\ sockets'[s] = sockets[s]
  BY <1>1
<1>4. \A s \in map' : fiber'[s] # "sleep" =>
        fiber[s] # "sleep" /\ (Kept(s) => D(s) \cap del = {})
  <2>1. \A s \in Req \ {r} : Kept(s) => D(s) \cap D(r) = {}
    BY KeptDisjoint
  <2> QED BY <1>1, <2>1
<1> DEFINE ns == D(r)
<1>5. CloseAfter(ns, del) /\ 0 \notin ns /\ map' \subseteq map
  BY <1>1, <1>2
<1>6. UNCHANGED <<watched, waits, woken, work, pc>>
  BY <1>1
<1> HIDE DEF ns
<1> QED BY <1>3, <1>4, <1>5, <1>6, ClosingKeeps

LEMMA SleepKeeps ==
  ASSUME IInv, KInv, WType', NEW r \in Req, Sleep(r)
  PROVE  Followed'
<1>1. D(r) = ToSet(Removed(r)) /\ fd[r] \in D(r) /\ run = r
  BY Setting DEF Removed, D, Sleep
<1>2. CASE ~Registered(Removed(r))
  <2>1. Deleted(Removed(r)) \subseteq D(r)
    BY <1>1 DEF Deleted, ToSet
  <2>2. Ends(r, Deleted(Removed(r)))
    BY <1>2 DEF Sleep
  <2> QED BY <1>1, <2>1, <2>2, EndsKeeps
<1>3. CASE Registered(Removed(r))
  <2> DEFINE del == ToSet(Removed(r))
  <2>1. /\ CloseAfter({}, del) /\ fiber' = [fiber EXCEPT ![r] = "sleep"]
        /\ UNCHANGED <<watched, sockets, waits, woken, work, pc, map, fd>>
        /\ fiber \in [Req -> {"none", "active", "reading", "sleep", "dead"}] /\ map \subseteq Req
    BY <1>3 DEF Sleep, IInv, WType
  <2>2. D(r) \subseteq del /\ rid[fd[r]] # None
    BY <1>1, <1>3 DEF Registered
  <2>3. /\ \A s \in Req : fiber'[s] = "sleep" =>
             fiber[s] = "sleep" \/ (D(s) \subseteq del /\ rid[fd[s]] # None)
        /\ \A s \in Req : fiber'[s] = "reading" => fiber[s] = "reading" /\ sockets'[s] = sockets[s]
    BY <2>1, <2>2
  <2>4. \A s \in map' : fiber'[s] # "sleep" =>
          fiber[s] # "sleep" /\ (Kept(s) => D(s) \cap del = {})
    <3>1. \A s \in Req \ {r} : Kept(s) => D(s) \cap D(r) = {}
      BY KeptDisjoint
    <3> QED BY <1>1, <2>1, <3>1
  <2> HIDE DEF del
  <2> QED BY <2>1, <2>3, <2>4, ClosingKeeps
<1> QED BY <1>2, <1>3

-----------------------------------------------------------------------------
(* Every step                                                              *)

LEMMA FollowedStep ==
  ASSUME IInv, KInv, [Next]_vars
  PROVE  Followed'
<1>t. /\ fiber \in [Req -> {"none", "active", "reading", "sleep", "dead"}]
      /\ sockets \in [Req -> SUBSET Numbers] /\ sleeping \in [Req -> BOOLEAN]
      /\ map \subseteq Req
      /\ run \in Req \cup {None} /\ None \notin Req /\ WType'
  BY NoneAssumption, WTypeStep DEF IInv, WType
<1>1. CASE BeginSelectRound
  BY <1>1, SelectKeeps
<1>2. CASE BeginFullRound
  BY <1>2, FullKeeps
<1>3. CASE Rewatch
  BY <1>3, RewatchKeeps
<1>4. CASE EndEvents \/ EndWake
  <2>1. UNCHANGED <<owner, rid, ready, able, woken, map, work, reqVars>> /\ pc # "dead"
    BY <1>4 DEF EndEvents, EndWake, kernelVars
  <2>2. UNCHANGED <<fd, watched, sockets, waits, fiber>>
    BY <2>1 DEF reqVars
  <2>3. \A r \in Req : woken' = r => woken = r
    BY <2>1
  <2> QED BY <1>t, <2>1, <2>2, <2>3, PassingKeeps
<1>5. ASSUME NEW r \in Req, HandleNext(r) PROVE Followed'
  <2>1. /\ UNCHANGED <<pc, map, owner, rid, ready, able, woken, fd, watched, sockets, waits>>
        /\ work' = work \ {r} /\ pc # "dead"
    BY <1>5 DEF HandleNext, kernelVars
  <2>2. /\ \A s \in Req \ {r} : fiber'[s] = fiber[s]
        /\ \/ r \in map /\ ~sleeping[r] /\ fiber'[r] = "active"
           \/ ~(r \in map /\ ~sleeping[r]) /\ fiber' = fiber
    BY <1>t, <1>5 DEF HandleNext, Resume
  <2>3. /\ fiber[r] = "sleep" => sleeping[r]
        /\ fiber[r] = "reading" => ~sleeping[r]
    BY DEF IInv, Sleepers, KInv, Awake
  <2>4. \A s \in map' : fiber[s] = "sleep" => fiber'[s] = "sleep"
    BY <1>t, <2>1, <2>2, <2>3
  <2>5. \A s \in work : s \in work' \/ ~(s \in map' /\ fiber'[s] = "reading")
    BY <1>t, <2>1, <2>2, <2>3
  <2>6. \A s \in Req : fiber'[s] = fiber[s] \/ fiber'[s] = "active"
    BY <2>2
  <2>7. \A s \in Req : woken' = s => woken = s
    BY <2>1
  <2> QED BY <1>t, <2>1, <2>4, <2>5, <2>6, <2>7, PassingKeeps
<1>6. ASSUME NEW r \in Req, WakeNext(r) PROVE Followed'
  <2>1. fiber[r] = "sleep" /\ fd[r] # 0
    BY <1>6 DEF WakeNext, IInv, Sleepers, Running
  <2>2. /\ UNCHANGED <<pc, map, owner, rid, ready, able, work, fd, watched, sockets, waits>>
        /\ woken = None /\ woken' = r /\ pc # "dead"
        /\ fiber' = [fiber EXCEPT ![r] = "active"]
    BY <1>6, <2>1 DEF WakeNext, Resume, kernelVars
  <2>3. \A s \in Req : fiber'[s] = IF s = r THEN "active" ELSE fiber[s]
    BY <1>t, <2>2
  <2>4. \A s \in map' : fiber[s] = "sleep" => fiber'[s] = "sleep" \/ woken' = s
    BY <1>t, <2>2, <2>3
  <2>5. \A s \in Req : woken' = s => fiber[s] = "sleep" /\ fiber'[s] # "sleep"
    BY <2>1, <2>2, <2>3
  <2> QED BY <1>t, <2>2, <2>3, <2>4, <2>5, PassingKeeps
<1>7. ASSUME NEW r \in Req, Accept(r) PROVE Followed'
  BY <1>t, <1>7, AcceptKeeps
<1>8. ASSUME NEW r \in Req, OpenSocket(r) PROVE Followed'
  BY <1>t, <1>8, OpenKeeps
<1>9. ASSUME NEW r \in Req, Finish(r) PROVE Followed'
  BY <1>t, <1>9, EndsKeeps DEF Finish
<1>10. ASSUME NEW r \in Req, Sleep(r) PROVE Followed'
  BY <1>t, <1>10, SleepKeeps
<1>11. ASSUME NEW r \in Req, NEW n \in sockets[r], CloseSocket(r, n) \/ Collect(r, n)
       PROVE Followed'
  <2>1. /\ sockets' = [sockets EXCEPT ![r] = @ \ {n}] /\ CloseAfter({n}, {})
        /\ UNCHANGED <<work, pc, map, woken, fd, watched, fiber, waits>>
    BY <1>11 DEF CloseSocket, Collect, loopVars
  <2>2. n # 0
    BY DEF IInv, ZeroKept
  <2>3. fiber[r] # "reading"
    BY <1>11, <1>t DEF CloseSocket, Collect, IInv, Running
  <2>4. \A s \in Req : fiber'[s] = "reading" => fiber[s] = "reading" /\ sockets'[s] = sockets[s]
    BY <1>t, <2>1, <2>3
  <2>5. CloseAfter({n}, {}) /\ 0 \notin {n}
    BY <2>1, <2>2
  <2> QED BY <1>t, <2>1, <2>4, <2>5, ClosingKeeps
<1>12. ASSUME NEW r \in Req, NEW n \in sockets[r], Transfer(r, n) PROVE Followed'
  BY <1>12, TransferKeeps
<1>13. CASE \/ \E r \in Req : SleeperWakes(r)
            \/ Dead \/ UNCHANGED vars
  <2>1. UNCHANGED <<pc, owner, rid, ready, able, woken, map, work, reqVars>>
    BY <1>13 DEF SleeperWakes, Dead, vars, loopVars, kernelVars
  <2>2. UNCHANGED <<fd, watched, sockets, waits, fiber>>
    BY <2>1 DEF reqVars
  <2>3. \A r \in Req : woken' = r => woken = r
    BY <2>1
  <2> QED BY <1>t, <2>1, <2>2, <2>3, PassingKeeps
<1>14. ASSUME NEW n \in Numbers, Arrives(n) PROVE Followed'
  BY <1>14, ArrivesKeeps
<1>15. CASE Loop
  BY <1>15, <1>1, <1>2, <1>3, <1>4, <1>5, <1>6, <1>7 DEF Loop
<1>16. CASE Action
  BY <1>16, <1>8, <1>9, <1>10, <1>11, <1>12 DEF Action
<1> QED BY <1>11, <1>13, <1>14, <1>15, <1>16 DEF Next

LEMMA AwakeStep ==
  ASSUME IInv, KInv, [Next]_vars
  PROVE  Awake'
<1>t. /\ fiber \in [Req -> {"none", "active", "reading", "sleep", "dead"}]
      /\ sockets \in [Req -> SUBSET Numbers] /\ sleeping \in [Req -> BOOLEAN]
      /\ waits \in [Req -> Numbers] /\ 0 \in Numbers
      /\ run \in Req \cup {None} /\ None \notin Req
  BY NoneAssumption, Setting DEF IInv, WType, KInv, Awake
<1>i. /\ \A r \in Req : fiber[r] \in {"none", "active", "reading"} => ~sleeping[r]
      /\ pc \in {"top", "wake"} => work = {}
      /\ \A r \in Req : fiber[r] = "reading" => waits[r] \in sockets[r]
      /\ run # None => fiber[run] = "active" /\ pc # "top"
  BY DEF KInv, Awake, IInv, Running
<1>1. CASE BeginSelectRound \/ BeginFullRound \/ EndEvents \/ EndWake \/ Rewatch
  <2>1. UNCHANGED reqVars /\ (pc' \in {"top", "wake"} => work' = {})
    BY <1>1, <1>i DEF BeginSelectRound, BeginFullRound, EndEvents, EndWake, Rewatch
  <2> QED BY <1>t, <1>i, <2>1 DEF Awake, reqVars
<1>2. ASSUME NEW r \in Req, HandleNext(r) PROVE Awake'
  BY <1>t, <1>i, <1>2 DEF HandleNext, Resume, Awake
<1>3. ASSUME NEW r \in Req, WakeNext(r) PROVE Awake'
  BY <1>t, <1>i, <1>3 DEF WakeNext, Resume, Awake
<1>4. ASSUME NEW r \in Req, Accept(r) PROVE Awake'
  BY <1>t, <1>i, <1>4 DEF Accept, Resume, Awake
<1>5. ASSUME NEW r \in Req, OpenSocket(r) PROVE Awake'
  <2>1. UNCHANGED <<fiber, sleeping, waits, work>> /\ pc' \in {pc, "dead"}
        /\ \A s \in Req : sockets[s] \subseteq sockets'[s]
    BY <1>t, <1>5 DEF OpenSocket
  <2> QED BY <1>t, <1>i, <2>1 DEF Awake
<1>6. ASSUME NEW r \in Req, Finish(r) PROVE Awake'
  BY <1>t, <1>i, <1>6 DEF Finish, Ends, Awake
<1>7. ASSUME NEW r \in Req, Sleep(r) PROVE Awake'
  <2>1. UNCHANGED <<pc, work, waits, sockets>> /\ sleeping' = [sleeping EXCEPT ![r] = TRUE]
        /\ \E f \in {"sleep", "dead"} : fiber' = [fiber EXCEPT ![r] = f]
    BY <1>7 DEF Sleep, Ends
  <2> QED BY <1>t, <1>i, <2>1 DEF Awake
<1>8. ASSUME NEW r \in Req, NEW n \in sockets[r], CloseSocket(r, n) \/ Collect(r, n) PROVE Awake'
  <2>1. sockets' = [sockets EXCEPT ![r] = @ \ {n}] /\ fiber[r] # "reading"
        /\ UNCHANGED <<pc, work, waits, sleeping, fiber>>
    BY <1>t, <1>i, <1>8 DEF CloseSocket, Collect, loopVars
  <2> QED BY <1>t, <1>i, <2>1 DEF Awake
<1>9. ASSUME NEW r \in Req, NEW n \in sockets[r], Transfer(r, n) PROVE Awake'
  <2>1. UNCHANGED <<pc, work, sockets, sleeping>> /\ fiber[r] = "active" /\ n \in Numbers
    BY <1>t, <1>i, <1>9 DEF Transfer
  <2>2. \/ fiber' = fiber /\ waits' = [waits EXCEPT ![r] = 0]
        \/ fiber' = [fiber EXCEPT ![r] = "reading"] /\ waits' = [waits EXCEPT ![r] = n]
    BY <1>9 DEF Transfer
  <2> QED BY <1>t, <1>i, <2>1, <2>2 DEF Awake
<1>10. CASE \/ \E r \in Req : SleeperWakes(r)
            \/ \E n \in Numbers : Arrives(n)
            \/ Dead \/ UNCHANGED vars
  <2>1. UNCHANGED <<pc, work, reqVars>>
    BY <1>10 DEF SleeperWakes, Arrives, Dead, vars, loopVars
  <2> QED BY <1>t, <1>i, <2>1 DEF Awake, reqVars
<1>11. CASE Loop
  BY <1>11, <1>1, <1>2, <1>3, <1>4 DEF Loop
<1>12. CASE Action
  BY <1>12, <1>5, <1>6, <1>7, <1>8, <1>9 DEF Action
<1> QED BY <1>8, <1>10, <1>11, <1>12 DEF Next

LEMMA KInvInit ==
  ASSUME Init
  PROVE  KInv
<1>1. IInv
  BY IInvInit
<1>2. \A r \in Req : ~Kept(r)
  <2>1. \A r \in Req : fd[r] \in D(r) /\ owner[fd[r]] # r
    BY <1>1, Setting DEF Init
  <2> QED BY <2>1 DEF Kept
<1>3. Followed
  BY <1>2 DEF Init, Followed, KeptApart, KeptOut, KeptIn, WaitingIsResumed
<1>4. Awake
  BY <1>1, Setting DEF Init, Awake
<1> QED BY <1>3, <1>4 DEF KInv

(* No action is stuck because epoll does not have its sockets: a tidy      *)
(* request's are there exactly while it does not sleep, with its own rid   *)
(* (event.c:227-251, 337-355), and a socket that an action waits for and   *)
(* that can be used is reported, or is handled already, or is added again  *)
(* with a fresh edge.                                                      *)
THEOREM NotStuckAlways == Spec => []NotStuck
<1>1. Init => IInv /\ KInv
  BY IInvInit, KInvInit
<1>2. IInv /\ KInv /\ [Next]_vars => (IInv /\ KInv)'
  <2> SUFFICES ASSUME IInv, KInv, [Next]_vars PROVE IInv' /\ KInv'
    OBVIOUS
  <2> QED BY IInvStep, FollowedStep, AwakeStep DEF KInv
<1>3. IInv /\ KInv => NotStuck
  <2> SUFFICES ASSUME IInv, KInv PROVE NotStuck
    OBVIOUS
  <2>1. ASSUME NEW r \in map \ {woken}, Tidy(r), NEW n \in ToSet(DescriptorsOf(r))
        PROVE  rid[n] = IF fiber[r] = "sleep" THEN None ELSE r
    <3>1. r \in Req /\ n \in D(r)
      BY DEF IInv, WType, D
    <3>2. Kept(r)
      BY <2>1, <3>1, TidyIsKept
    <3> QED BY <3>1, <3>2 DEF KInv, Followed, KeptOut, KeptIn
  <2> QED BY <2>1 DEF NotStuck, WatchedByOwner, KInv, Followed
<1> QED BY <1>1, <1>2, <1>3, PTL DEF Spec
=============================================================================
