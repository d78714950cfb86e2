---------------------------- MODULE RoutesProofs ----------------------------
(* Proofs about Routes, for every set of routes and requests and tables of *)
(* any length.                                                             *)
EXTENDS Routes, FiniteSetTheorems, TLAPS

-----------------------------------------------------------------------------
(* A prefix of a prefix is a prefix.                                       *)
LEMMA StartsWithTransitive ==
  ASSUME NEW s \in Seq(Nat), NEW p \in Seq(Nat), NEW q \in Seq(Nat),
         StartsWith(s, p), StartsWith(p, q)
  PROVE  StartsWith(s, q)
BY DEF StartsWith

(* What Sorted returns is a sequence of the same routes.                   *)
LEMMA SortedType ==
  ASSUME NEW s \in Seq(Templates), NEW t \in Sorted(s)
  PROVE  t \in Seq(Templates)
<1>1. PICK p \in [1..Len(s) -> 1..Len(s)] : t = [i \in 1..Len(s) |-> s[p[i]]]
  BY DEF Sorted, Shuffles
<1>2. \A i \in 1..Len(s) : s[p[i]] \in Templates
  OBVIOUS
<1> QED BY <1>1, <1>2

-----------------------------------------------------------------------------
(* The inductive invariant: the types of what the lookup reads, what the   *)
(* is_sub of an entry says of the entry before it, and where pos may be.   *)
TableType ==
  /\ routes \in Seq(Templates) /\ queue \in Seq(Templates)
  /\ table \in [Methods -> Seq(Entry)]
  /\ request \in Requests
  /\ pos \in Nat \ {0}
  /\ lastMatched \in BOOLEAN

SubChain ==
  \A m \in Methods : \A i \in 1..Len(table[m]) :
    table[m][i].sub =>
      i > 1 /\ StartsWith(table[m][i - 1].route.prefix, table[m][i].route.prefix)

PosShape ==
  /\ phase \in {"define", "register", "serve", "accept"} => pos = 1
  /\ phase = "lookup" => pos <= Len(Entries) + 1
  /\ phase = "negotiate" => pos <= Len(Entries)

IInv == TableType /\ SubChain /\ PosShape /\ SubExact

(* Appending an entry keeps the chain.                                     *)
LEMMA SubChainAppend ==
  ASSUME TableType, SubChain, NEW t \in Templates,
         table' = [table EXCEPT ![t.method] =
                     Append(table[t.method], [route |-> t, sub |-> IsSub(table[t.method], t)])]
  PROVE  table' \in [Methods -> Seq(Entry)] /\ SubChain'
<1> DEFINE e == table[t.method]
           new == [route |-> t, sub |-> IsSub(e, t)]
<1>1. t.method \in Methods /\ e \in Seq(Entry)
  BY TemplatesAssumption DEF TemplatesAssumption, TableType
<1>2. IsSub(e, t) \in BOOLEAN
  BY Zenon DEF IsSub, StartsWith
<1>3. new \in Entry
  BY <1>2 DEF Entry
<1>4. table' \in [Methods -> Seq(Entry)]
  BY <1>1, <1>3 DEF TableType
<1>5. ASSUME NEW m \in Methods, NEW i \in 1..Len(table'[m]), table'[m][i].sub
      PROVE  i > 1 /\ StartsWith(table'[m][i - 1].route.prefix, table'[m][i].route.prefix)
  <2>1. CASE m # t.method
    BY <1>5, <2>1 DEF TableType, SubChain
  <2>2. CASE m = t.method /\ i <= Len(e)
    <3>1. table'[m] = Append(e, new)
      BY <1>1, <2>2 DEF TableType
    <3>2. i \in 1..Len(e) /\ table'[m][i] = e[i]
      BY <1>1, <1>3, <2>2, <3>1
    <3>3. i > 1 /\ StartsWith(e[i - 1].route.prefix, e[i].route.prefix)
      BY <1>1, <1>5, <2>2, <3>2 DEF SubChain
    <3>4. i - 1 \in 1..Len(e)
      BY <1>1, <3>2, <3>3
    <3>5. table'[m][i - 1] = e[i - 1]
      BY <1>1, <1>3, <3>1, <3>4
    <3> QED BY <3>2, <3>3, <3>5
  <2>3. CASE m = t.method /\ i > Len(e)
    <3>1. table'[m] = Append(e, new)
      BY <1>1, <2>3 DEF TableType
    <3>2. i = Len(e) + 1 /\ table'[m][i] = new
      BY <1>1, <1>3, <2>3, <3>1
    <3>3. e # <<>> /\ StartsWith(e[Len(e)].route.prefix, t.prefix)
      <4>1. new.sub
        BY <1>5, <3>2
      <4>2. IsSub(e, t)
        BY <4>1
      <4> QED BY <4>2 DEF IsSub
    <3>4. i > 1 /\ table'[m][i - 1] = e[Len(e)]
      BY <1>1, <1>3, <3>1, <3>2, <3>3
    <3>5. table'[m][i].route = t
      BY <3>2
    <3> HIDE DEF new
    <3> QED BY <3>3, <3>4, <3>5
  <2> QED BY <2>1, <2>2, <2>3
<1> QED BY <1>4, <1>5 DEF SubChain

(* Whether is_sub saves the comparison or not, Examine learns whether the  *)
(* prefix of the entry matches.                                            *)
LEMMA MatchedExact ==
  ASSUME IInv, phase = "lookup", pos <= Len(Entries)
  PROVE  /\ Entries[pos] \in Entry
         /\ ((Entries[pos].sub /\ lastMatched) \/ StartsWith(request.path, Entries[pos].route.prefix))
              = StartsWith(request.path, Entries[pos].route.prefix)
<1>1. request.method \in Methods /\ request.path \in Seq(Nat)
  BY RequestsAssumption DEF RequestsAssumption, IInv, TableType
<1>2. Entries \in Seq(Entry) /\ pos \in 1..Len(Entries)
  BY <1>1 DEF IInv, TableType, Entries
<1>3. \A i \in 1..Len(Entries) : Entries[i].route.prefix \in Seq(Nat)
  <2> SUFFICES ASSUME NEW i \in 1..Len(Entries) PROVE Entries[i].route.prefix \in Seq(Nat)
    OBVIOUS
  <2>1. Entries[i] \in Entry
    BY <1>2
  <2> QED BY <2>1, TemplatesAssumption DEF TemplatesAssumption, Entry
<1>4. ASSUME Entries[pos].sub, lastMatched
      PROVE  StartsWith(request.path, Entries[pos].route.prefix)
  <2>1. pos > 1 /\ StartsWith(Entries[pos - 1].route.prefix, Entries[pos].route.prefix)
    BY <1>1, <1>2, <1>4 DEF IInv, SubChain, Entries
  <2>2. StartsWith(request.path, Entries[pos - 1].route.prefix)
    BY <1>4, <2>1 DEF IInv, SubExact
  <2>3. pos - 1 \in 1..Len(Entries)
    BY <1>2, <2>1
  <2> QED BY <1>1, <1>2, <1>3, <2>1, <2>2, <2>3, StartsWithTransitive
<1>5. StartsWith(request.path, Entries[pos].route.prefix) \in BOOLEAN
  BY Zenon DEF StartsWith
<1> QED BY <1>2, <1>4, <1>5

-----------------------------------------------------------------------------
(* Every step preserves the inductive invariant.                           *)
LEMMA InvariantStep == IInv /\ [Next]_vars => IInv'
<1> SUFFICES ASSUME IInv, [Next]_vars PROVE IInv'
  OBVIOUS
<1> USE DEF IInv
<1>1. ASSUME NEW t \in Templates, Define(t) PROVE IInv'
  BY <1>1 DEF Define, TableType, SubChain, PosShape, SubExact, Entries, lookupVars
<1>2. CASE Compile
  <2>1. table' = [m \in Methods |-> <<>>] /\ queue' \in Seq(Templates)
    BY <1>2, SortedType DEF Compile, TableType
  <2>2. SubChain'
    BY <2>1 DEF SubChain
  <2>3. TableType'
    BY <1>2, <2>1 DEF Compile, TableType, lookupVars
  <2> QED BY <1>2, <2>2, <2>3 DEF Compile, PosShape, SubExact, lookupVars
<1>3. CASE Register
  <2>1. Head(queue) \in Templates /\ Tail(queue) \in Seq(Templates)
    BY <1>3 DEF Register, TableType
  <2>2. table' \in [Methods -> Seq(Entry)] /\ SubChain'
    BY <1>3, <2>1, SubChainAppend DEF Register
  <2> QED BY <1>3, <2>1, <2>2 DEF Register, TableType, PosShape, SubExact, lookupVars
<1>4. CASE Registered
  BY <1>4 DEF Registered, TableType, SubChain, PosShape, SubExact, tableVars, lookupVars
<1>5. ASSUME NEW q \in Requests, Ask(q) PROVE IInv'
  BY <1>5 DEF Ask, TableType, SubChain, PosShape, SubExact, tableVars, lookupVars
<1>6. CASE ParseSegment
  BY <1>6 DEF ParseSegment, TableType, SubChain, PosShape, SubExact, tableVars, lookupVars
<1>7. CASE StartLookup
  <2>1. Len(Entries) \in Nat
    BY RequestsAssumption DEF RequestsAssumption, TableType, Entries
  <2> QED BY <1>7, <2>1 DEF StartLookup, TableType, SubChain, PosShape, SubExact, Entries,
                            tableVars, lookupVars
<1>8. CASE Examine
  <2> DEFINE e == Entries[pos]
             matched == (e.sub /\ lastMatched) \/ StartsWith(request.path, e.route.prefix)
  <2>1. matched = StartsWith(request.path, e.route.prefix) /\ matched \in BOOLEAN
    <3>1. matched = StartsWith(request.path, e.route.prefix)
      BY <1>8, MatchedExact DEF Examine
    <3>2. StartsWith(request.path, e.route.prefix) \in BOOLEAN
      BY Zenon DEF StartsWith
    <3> QED BY <3>1, <3>2
  <2>2. /\ UNCHANGED <<routes, queue, table, request>> /\ lastMatched' = matched
        /\ phase = "lookup" /\ pos <= Len(Entries) /\ Entries' = Entries
        /\ \/ phase' = "negotiate" /\ pos' = pos /\ matched
           \/ phase' = "lookup" /\ pos' = pos + 1
    BY <1>8 DEF Examine, Skip, tableVars, Entries
  <2> HIDE DEF matched
  <2>3. TableType'
    BY <2>1, <2>2 DEF TableType
  <2>4. SubChain'
    BY <2>2 DEF SubChain
  <2>5. Len(Entries) \in Nat
    BY RequestsAssumption DEF RequestsAssumption, TableType, Entries
  <2>6. PosShape' /\ SubExact'
    BY <2>1, <2>2, <2>5 DEF TableType, PosShape, SubExact
  <2> QED BY <2>3, <2>4, <2>6
<1>9. CASE NotFound
  BY <1>9 DEF NotFound, TableType, SubChain, PosShape, SubExact, tableVars, lookupVars
<1>10. CASE Negotiate
  BY <1>10 DEF Negotiate, TableType, SubChain, PosShape, SubExact, tableVars
<1>11. CASE Answered
  <2>1. lastMatched' \in BOOLEAN
    BY <1>11, Zenon DEF Answered
  <2> QED BY <1>11, <2>1 DEF Answered, TableType, SubChain, PosShape, SubExact, tableVars
<1>12. CASE UNCHANGED vars
  BY <1>12 DEF vars, TableType, SubChain, PosShape, SubExact, Entries
<1> QED
  BY <1>1, <1>2, <1>3, <1>4, <1>5, <1>6, <1>7, <1>8, <1>9, <1>10, <1>11, <1>12 DEF Next

LEMMA InvariantInit == Init => IInv
<1> SUFFICES ASSUME Init PROVE IInv
  OBVIOUS
<1>1. lastMatched \in BOOLEAN
  BY Zenon DEF Init
<1>2. request \in Requests
  BY RequestsAssumption, Zenon DEF RequestsAssumption, Init
<1>3. TableType
  BY <1>1, <1>2 DEF Init, TableType
<1>4. SubChain
  BY DEF Init, SubChain
<1> QED BY <1>3, <1>4 DEF Init, IInv, PosShape, SubExact

(* For any routes and requests, the comparison that is_sub saves never     *)
(* changes its result.                                                     *)
THEOREM SubExactAlways == Spec => []SubExact
<1>1. IInv => SubExact
  BY DEF IInv
<1> QED BY <1>1, InvariantInit, InvariantStep, PTL DEF Spec

-----------------------------------------------------------------------------
(* A non-empty set of natural numbers has a least element: the lower       *)
(* bounds of the set are 0, ..., c - 1, where c is how many there are.     *)
LEMMA LeastExists ==
  ASSUME NEW S \in SUBSET Nat, S # {}
  PROVE  \E m \in S : \A s \in S : m <= s
<1> PICK n \in S : TRUE
  OBVIOUS
<1> DEFINE L == {k \in 0..n : \A s \in S : k <= s}
           c == Cardinality(L)
<1>1. IsFiniteSet(0..n)
  BY FS_Interval
<1>2. IsFiniteSet(L) /\ c \in Nat
  <2>1. L \in SUBSET (0..n)
    OBVIOUS
  <2>2. IsFiniteSet(L)
    BY <1>1, <2>1, FS_Subset
  <2> QED BY <2>2, FS_CardinalityType
<1>3. \A k \in L : k < c
  <2> SUFFICES ASSUME NEW k \in L PROVE k < c
    OBVIOUS
  <2>1. (0..k) \in SUBSET L /\ k \in Nat
    OBVIOUS
  <2>2. Cardinality(0..k) = k + 1
    BY <2>1, FS_Interval
  <2>3. Cardinality(0..k) <= c
    BY <1>2, <2>1, FS_Subset
  <2> QED BY <1>2, <2>1, <2>2, <2>3
<1>4. \A k \in Nat : k \notin L => c <= k
  <2> SUFFICES ASSUME NEW k \in Nat, k \notin L PROVE c <= k
    OBVIOUS
  <2>1. L \in SUBSET (0..(k - 1))
    OBVIOUS
  <2>2. IsFiniteSet(0..(k - 1)) /\ Cardinality(0..(k - 1)) = k
    BY FS_Interval
  <2>3. c <= Cardinality(0..(k - 1))
    BY <2>1, <2>2, FS_Subset
  <2> QED BY <1>2, <2>2, <2>3
<1>5. c \notin L
  BY <1>2, <1>3
<1>6. 0 \in L
  OBVIOUS
<1>7. c - 1 \in L
  <2>1. c - 1 \in Nat
    BY <1>2, <1>3, <1>6
  <2> QED BY <1>2, <1>4, <2>1
<1>8. \E s \in S : s < c
  <2>1. CASE c <= n
    <3>1. \A k \in 0..n : k \notin L => \E s \in S : ~(k <= s)
      OBVIOUS
    <3>2. c \in 0..n
      BY <1>2, <2>1
    <3>3. \E s \in S : ~(c <= s)
      BY <1>5, <3>1, <3>2
    <3>4. c \in Nat
      BY <1>2
    <3> HIDE DEF L, c
    <3> QED BY <3>3, <3>4
  <2>2. CASE c > n
    BY <1>2, <2>2
  <2> QED BY <1>2, <2>1, <2>2
<1> HIDE DEF L, c
<1> PICK s \in S : s < c
  BY <1>8
<1>9. \A x \in S : c - 1 <= x
  BY <1>7 DEF L
<1>10. s = c - 1
  BY <1>2, <1>9
<1> QED BY <1>9, <1>10

-----------------------------------------------------------------------------
(* Counting the occurrences of a route.                                    *)
At(s, t) == {i \in DOMAIN s : s[i] = t}
EntriesOf(e, t) == {i \in DOMAIN e : e[i].route = t}

LEMMA CountsFinite ==
  ASSUME NEW T, NEW s \in Seq(T), NEW I \in SUBSET DOMAIN s
  PROVE  IsFiniteSet(I) /\ Cardinality(I) \in Nat
<1>1. IsFiniteSet(1..Len(s))
  BY FS_Interval
<1>2. I \in SUBSET (1..Len(s))
  OBVIOUS
<1>3. IsFiniteSet(I)
  BY <1>1, <1>2, FS_Subset
<1> QED BY <1>3, FS_CardinalityType

(* An entry more is an occurrence more of its route.                       *)
LEMMA CountAppend ==
  ASSUME NEW e \in Seq(Entry), NEW x \in Entry, NEW t
  PROVE  Cardinality(EntriesOf(Append(e, x), t)) =
           Cardinality(EntriesOf(e, t)) + (IF x.route = t THEN 1 ELSE 0)
<1> DEFINE A == EntriesOf(e, t)
           B == EntriesOf(Append(e, x), t)
<1>1. IsFiniteSet(A) /\ Cardinality(A) \in Nat
  <2>1. A \in SUBSET DOMAIN e
    BY DEF EntriesOf
  <2> QED BY <2>1, CountsFinite
<1>2. CASE x.route = t
  <2>1. B = A \cup {Len(e) + 1} /\ Len(e) + 1 \notin A
    BY <1>2 DEF EntriesOf
  <2>2. Cardinality(A \cup {Len(e) + 1}) = Cardinality(A) + 1
    BY <1>1, <2>1, FS_AddElement, Zenon
  <2> QED BY <1>2, <2>1, <2>2
<1>3. CASE x.route # t
  <2>1. B = A
    BY <1>3 DEF EntriesOf
  <2> QED BY <1>1, <1>3, <2>1
<1> QED BY <1>2, <1>3

(* The tail of a sequence has an occurrence less of its head.              *)
LEMMA CountTail ==
  ASSUME NEW q \in Seq(Templates), q # <<>>, NEW t
  PROVE  Cardinality(At(q, t)) =
           Cardinality(At(Tail(q), t)) + (IF Head(q) = t THEN 1 ELSE 0)
<1> DEFINE A == At(Tail(q), t)
           B == At(q, t) \ {1}
           f == [i \in A |-> i + 1]
<1>1. IsFiniteSet(At(q, t)) /\ Cardinality(At(q, t)) \in Nat
  <2>1. At(q, t) \in SUBSET DOMAIN q
    BY DEF At
  <2> QED BY <2>1, CountsFinite
<1>2. IsFiniteSet(A) /\ Cardinality(A) \in Nat
  <2>1. A \in SUBSET DOMAIN Tail(q) /\ Tail(q) \in Seq(Templates)
    BY DEF At
  <2> QED BY <2>1, CountsFinite
<1>3. f \in Bijection(A, B)
  <2>1. f \in [A -> B]
    BY DEF At
  <2>2. \A i, j \in A : f[i] = f[j] => i = j
    BY DEF At
  <2>3. \A k \in B : \E i \in A : f[i] = k
    <3> SUFFICES ASSUME NEW k \in B PROVE \E i \in A : f[i] = k
      OBVIOUS
    <3>1. k \in 1..Len(q) /\ k # 1 /\ q[k] = t
      BY DEF At
    <3>2. Tail(q) \in Seq(Templates) /\ Len(Tail(q)) = Len(q) - 1
      OBVIOUS
    <3>3. k - 1 \in 1..Len(Tail(q)) /\ Tail(q)[k - 1] = q[k]
      BY <3>1, <3>2
    <3>4. k - 1 \in A
      BY <3>1, <3>2, <3>3 DEF At
    <3>5. f[k - 1] = k
      BY <3>1, <3>4
    <3> QED BY <3>4, <3>5
  <2> QED BY <2>1, <2>2, <2>3, Zenon DEF Bijection, Injection, Surjection, IsInjective
<1>4. Cardinality(B) = Cardinality(A)
  BY <1>2, <1>3, FS_Bijection, Zenon DEF ExistsBijection
<1>5. Cardinality(B) = IF 1 \in At(q, t) THEN Cardinality(At(q, t)) - 1 ELSE Cardinality(At(q, t))
  BY <1>1, FS_RemoveElement, Zenon
<1>6. 1 \in At(q, t) <=> Head(q) = t
  BY DEF At
<1> HIDE DEF B
<1> QED BY <1>1, <1>2, <1>4, <1>5, <1>6

(* What Sorted returns has the routes it was given, each as often, and no  *)
(* prefix before a greater one.                                            *)
LEMMA SortedCounts ==
  ASSUME NEW s \in Seq(Templates), NEW q \in Sorted(s), NEW t
  PROVE  Cardinality(At(q, t)) = Cardinality(At(s, t))
<1> DEFINE n == Len(s)
<1>1. PICK p \in [1..n -> 1..n] :
        /\ \A i, j \in 1..n : p[i] = p[j] => i = j
        /\ q = [i \in 1..n |-> s[p[i]]]
  BY DEF Sorted, Shuffles
<1>2. IsFiniteSet(1..n)
  BY FS_Interval
<1>3. p \in Surjection(1..n, 1..n)
  <2>1. p \in Injection(1..n, 1..n)
    BY <1>1 DEF Injection, IsInjective
  <2> QED BY <1>2, <2>1, FS_Injection
<1> DEFINE f == [i \in At(q, t) |-> p[i]]
<1>4. f \in Bijection(At(q, t), At(s, t))
  <2>1. f \in [At(q, t) -> At(s, t)]
    BY <1>1 DEF At
  <2>2. \A i, j \in At(q, t) : f[i] = f[j] => i = j
    BY <1>1 DEF At
  <2>3. \A k \in At(s, t) : \E i \in At(q, t) : f[i] = k
    <3> SUFFICES ASSUME NEW k \in At(s, t) PROVE \E i \in At(q, t) : f[i] = k
      OBVIOUS
    <3>1. k \in 1..n /\ s[k] = t
      BY DEF At
    <3>2. PICK i \in 1..n : p[i] = k
      BY <1>3, <3>1 DEF Surjection
    <3>3. i \in At(q, t)
      BY <1>1, <3>1, <3>2 DEF At
    <3> QED BY <3>2, <3>3
  <2> QED BY <2>1, <2>2, <2>3, Zenon DEF Bijection, Injection, Surjection, IsInjective
<1>5. IsFiniteSet(At(q, t))
  <2>1. At(q, t) \in SUBSET (1..n)
    BY <1>1 DEF At
  <2> QED BY <1>2, <2>1, FS_Subset
<1> QED BY <1>4, <1>5, FS_Bijection, Zenon DEF ExistsBijection

LEMMA SortedOrder ==
  ASSUME NEW s \in Seq(Templates), NEW q \in Sorted(s)
  PROVE  /\ Len(q) = Len(s)
         /\ \A i, j \in 1..Len(q) : i < j => ~Less(q[i].prefix, q[j].prefix)
<1>1. Len(q) = Len(s)
  BY DEF Sorted, Shuffles
<1> QED BY <1>1 DEF Sorted

-----------------------------------------------------------------------------
(* What has been registered and what is still queued: no prefix before a   *)
(* greater one, and every route as often as it was defined.                *)
TableOrder ==
  /\ \A m \in Methods : \A i, j \in 1..Len(table[m]) :
       i < j => ~Less(table[m][i].route.prefix, table[m][j].route.prefix)
  /\ \A i, j \in 1..Len(queue) : i < j => ~Less(queue[i].prefix, queue[j].prefix)
  /\ \A m \in Methods : \A i \in 1..Len(table[m]), j \in 1..Len(queue) :
       ~Less(table[m][i].route.prefix, queue[j].prefix)

Owed(m, t) == IF t.method = m THEN Cardinality(At(queue, t)) ELSE 0
Due(m, t) == IF t.method = m THEN Cardinality(At(routes, t)) ELSE 0
TableCounts ==
  phase # "define" =>
    \A m \in Methods, t \in Templates :
      Cardinality(EntriesOf(table[m], t)) + Owed(m, t) = Due(m, t)

QueueEmptied == phase \notin {"define", "register"} => queue = <<>>

TableInv == TableType /\ TableOrder /\ TableCounts /\ QueueEmptied

LEMMA RegisterOrder ==
  ASSUME TableInv, Register PROVE TableOrder'
<1> DEFINE t == Head(queue)
           e == table[t.method]
           x == [route |-> t, sub |-> IsSub(e, t)]
<1> USE DEF TableInv, TableType
<1>1. t \in Templates /\ Tail(queue) \in Seq(Templates) /\ queue # <<>> /\ queue' = Tail(queue)
  BY DEF Register
<1>2. t.method \in Methods /\ e \in Seq(Entry)
  BY <1>1, TemplatesAssumption DEF TemplatesAssumption
<1>3. IsSub(e, t) \in BOOLEAN
  BY Zenon DEF IsSub, StartsWith
<1>4. x \in Entry
  BY <1>1, <1>3 DEF Entry
<1>5. table' = [table EXCEPT ![t.method] = Append(e, x)]
  BY DEF Register
<1> HIDE DEF x
<1>6. \A i \in 1..Len(queue') : i + 1 \in 1..Len(queue) /\ queue'[i] = queue[i + 1]
  BY <1>1
<1>7. queue[1] = t /\ 1 \in 1..Len(queue)
  BY <1>1
<1>8. x.route = t
  BY DEF x
<1>9. ASSUME NEW m \in Methods, NEW i \in 1..Len(table'[m])
      PROVE  \/ i \in 1..Len(table[m]) /\ table'[m][i] = table[m][i]
             \/ m = t.method /\ i = Len(e) + 1 /\ table'[m][i] = x
  <2>1. CASE m # t.method
    BY <1>2, <1>5, <2>1
  <2>2. CASE m = t.method
    <3>1. table'[m] = Append(e, x)
      BY <1>2, <1>5, <2>2
    <3> QED BY <1>2, <1>4, <2>2, <3>1
  <2> QED BY <2>1, <2>2
<1>10. \A m \in Methods : table[m] \in Seq(Entry)
  OBVIOUS
<1>11. ASSUME NEW m \in Methods, NEW i \in 1..Len(table'[m]), NEW j \in 1..Len(table'[m]), i < j
       PROVE  ~Less(table'[m][i].route.prefix, table'[m][j].route.prefix)
  <2>1. i \in 1..Len(table[m]) /\ table'[m][i] = table[m][i]
    <3>1. CASE m # t.method
      BY <1>9, <3>1
    <3>2. CASE m = t.method
      <4>1. Len(table'[m]) = Len(e) + 1
        BY <1>2, <1>4, <1>5, <3>2
      <4>2. i # Len(e) + 1
        BY <1>2, <1>11, <4>1
      <4> QED BY <1>9, <4>2
    <3> QED BY <3>1, <3>2
  <2>2. CASE j \in 1..Len(table[m]) /\ table'[m][j] = table[m][j]
    BY <1>11, <2>1, <2>2 DEF TableOrder
  <2>3. CASE m = t.method /\ table'[m][j] = x
    BY <1>7, <1>8, <2>1, <2>3 DEF TableOrder
  <2> QED BY <1>9, <2>2, <2>3
<1>12. ASSUME NEW i \in 1..Len(queue'), NEW j \in 1..Len(queue'), i < j
       PROVE  ~Less(queue'[i].prefix, queue'[j].prefix)
  BY <1>6, <1>12 DEF TableOrder
<1>13. ASSUME NEW m \in Methods, NEW i \in 1..Len(table'[m]), NEW j \in 1..Len(queue')
       PROVE  ~Less(table'[m][i].route.prefix, queue'[j].prefix)
  <2>1. CASE i \in 1..Len(table[m]) /\ table'[m][i] = table[m][i]
    BY <1>6, <2>1 DEF TableOrder
  <2>2. CASE table'[m][i] = x
    <3>1. j + 1 \in 1..Len(queue) /\ 1 < j + 1 /\ queue'[j] = queue[j + 1]
      BY <1>6
    <3>2. ~Less(queue[1].prefix, queue[j + 1].prefix)
      BY <1>7, <3>1 DEF TableOrder
    <3> QED BY <1>7, <1>8, <2>2, <3>1, <3>2
  <2> QED BY <1>9, <2>1, <2>2
<1> QED BY <1>11, <1>12, <1>13 DEF TableOrder

LEMMA RegisterCounts ==
  ASSUME TableInv, Register PROVE TableCounts'
<1> DEFINE h == Head(queue)
           e == table[h.method]
           x == [route |-> h, sub |-> IsSub(e, h)]
<1> USE DEF TableInv, TableType
<1>1. h \in Templates /\ Tail(queue) \in Seq(Templates) /\ queue # <<>> /\ queue' = Tail(queue)
  BY DEF Register
<1>2. h.method \in Methods /\ e \in Seq(Entry)
  BY <1>1, TemplatesAssumption DEF TemplatesAssumption
<1>3. x \in Entry /\ x.route = h
  <2>1. IsSub(e, h) \in BOOLEAN
    BY Zenon DEF IsSub, StartsWith
  <2> QED BY <1>1, <2>1 DEF Entry
<1>4. table' = [table EXCEPT ![h.method] = Append(e, x)] /\ routes' = routes /\ phase # "define"
  BY DEF Register
<1> HIDE DEF x, h
<1> SUFFICES ASSUME NEW m \in Methods, NEW t \in Templates
             PROVE  Cardinality(EntriesOf(table'[m], t)) + Owed(m, t)' = Due(m, t)'
  BY DEF TableCounts
<1>5. Cardinality(EntriesOf(table[m], t)) + Owed(m, t) = Due(m, t)
  BY <1>4 DEF TableCounts
<1>6. Cardinality(At(queue, t)) = Cardinality(At(queue', t)) + (IF h = t THEN 1 ELSE 0)
  BY <1>1, CountTail DEF h
<1>7. Cardinality(EntriesOf(table'[m], t)) =
        Cardinality(EntriesOf(table[m], t)) + (IF m = h.method /\ h = t THEN 1 ELSE 0)
  <2>1. EntriesOf(table[m], t) \in SUBSET DOMAIN table[m] /\ table[m] \in Seq(Entry)
    BY DEF EntriesOf
  <2>2. Cardinality(EntriesOf(table[m], t)) \in Nat
    BY <2>1, CountsFinite
  <2>3. CASE m # h.method
    <3>1. table'[m] = table[m]
      BY <1>2, <1>4, <2>3
    <3> QED BY <2>2, <2>3, <3>1
  <2>4. CASE m = h.method
    <3>1. table'[m] = Append(table[m], x)
      BY <1>2, <1>4, <2>4
    <3>2. Cardinality(EntriesOf(Append(table[m], x), t)) =
            Cardinality(EntriesOf(table[m], t)) + (IF x.route = t THEN 1 ELSE 0)
      BY <1>3, <2>1, CountAppend
    <3> QED BY <1>3, <2>4, <3>1, <3>2
  <2> QED BY <2>3, <2>4
<1>8. /\ Cardinality(EntriesOf(table[m], t)) \in Nat
      /\ Cardinality(At(queue', t)) \in Nat
      /\ Cardinality(At(routes, t)) \in Nat
  <2>1. EntriesOf(table[m], t) \in SUBSET DOMAIN table[m] /\ table[m] \in Seq(Entry)
    BY DEF EntriesOf
  <2>2. At(queue', t) \in SUBSET DOMAIN queue' /\ queue' \in Seq(Templates)
    BY <1>1 DEF At
  <2>3. At(routes, t) \in SUBSET DOMAIN routes /\ routes \in Seq(Templates)
    BY DEF At
  <2> QED BY <2>1, <2>2, <2>3, CountsFinite
<1>9. /\ Owed(m, t) = (IF t.method = m THEN Cardinality(At(queue, t)) ELSE 0)
      /\ Owed(m, t)' = (IF t.method = m THEN Cardinality(At(queue', t)) ELSE 0)
      /\ Due(m, t)' = Due(m, t)
  BY <1>4 DEF Owed, Due, At
<1>10. Due(m, t) = (IF t.method = m THEN Cardinality(At(routes, t)) ELSE 0)
  BY DEF Due
<1>11. CASE h = t /\ m = h.method
  BY <1>5, <1>6, <1>7, <1>8, <1>9, <1>10, <1>11
<1>12. CASE h # t
  BY <1>5, <1>6, <1>7, <1>8, <1>9, <1>10, <1>12
<1>13. CASE h = t /\ m # h.method
  BY <1>5, <1>6, <1>7, <1>8, <1>9, <1>10, <1>13
<1> QED BY <1>11, <1>12, <1>13

LEMMA TableInvStep == IInv /\ TableInv /\ [Next]_vars => TableInv'
<1> SUFFICES ASSUME IInv, TableInv, [Next]_vars PROVE TableInv'
  OBVIOUS
<1>1. TableType'
  BY InvariantStep DEF IInv
<1>2. ASSUME NEW t \in Templates, Define(t) PROVE TableInv'
  BY <1>1, <1>2 DEF Define, TableInv, TableOrder, TableCounts, QueueEmptied
<1>3. CASE Compile
  <2> USE DEF TableInv, TableType
  <2>1. /\ queue' \in Sorted(routes) /\ routes' = routes /\ phase' = "register"
        /\ table' = [m \in Methods |-> <<>>]
    BY <1>3 DEF Compile
  <2>2. TableOrder'
    BY <2>1, SortedOrder DEF TableOrder
  <2>3. TableCounts'
    <3> SUFFICES ASSUME NEW m \in Methods, NEW t \in Templates
                 PROVE  Cardinality(EntriesOf(table'[m], t)) + Owed(m, t)' = Due(m, t)'
      BY DEF TableCounts
    <3>1. EntriesOf(table'[m], t) = {}
      BY <2>1 DEF EntriesOf
    <3>2. Cardinality(At(queue', t)) = Cardinality(At(routes, t))
      BY <2>1, SortedCounts
    <3>3. Cardinality(At(routes, t)) \in Nat
      <4>1. At(routes, t) \in SUBSET DOMAIN routes
        BY DEF At
      <4> QED BY <4>1, CountsFinite
    <3>4. Cardinality(EntriesOf(table'[m], t)) = 0
      BY <3>1, FS_EmptySet
    <3>5. Owed(m, t)' = (IF t.method = m THEN Cardinality(At(queue', t)) ELSE 0)
      BY DEF Owed
    <3>6. Due(m, t)' = (IF t.method = m THEN Cardinality(At(routes, t)) ELSE 0)
      BY <2>1 DEF Due
    <3> QED BY <3>2, <3>3, <3>4, <3>5, <3>6
  <2> QED BY <1>1, <2>1, <2>2, <2>3 DEF QueueEmptied
<1>4. CASE Register
  <2>1. TableOrder' /\ TableCounts'
    BY <1>4, RegisterOrder, RegisterCounts
  <2> QED BY <1>1, <1>4, <2>1 DEF Register, TableInv, QueueEmptied
<1>5. CASE /\ UNCHANGED tableVars
           /\ (phase = "define") = (phase' = "define")
           /\ phase' = "register" => phase = "register"
           /\ queue = <<>> \/ phase = phase'
  BY <1>1, <1>5
  DEF tableVars, TableInv, TableOrder, TableCounts, QueueEmptied, Owed, Due
<1>6. CASE Registered
  BY <1>5, <1>6 DEF Registered
<1>7. CASE Answered
  BY <1>5, <1>7 DEF Answered, TableInv, QueueEmptied
<1>8. ASSUME NEW q \in Requests, Ask(q) PROVE TableInv'
  BY <1>5, <1>8 DEF Ask, TableInv, QueueEmptied
<1>9. CASE ParseSegment
  BY <1>5, <1>9 DEF ParseSegment, TableInv, QueueEmptied
<1>10. CASE StartLookup
  BY <1>5, <1>10 DEF StartLookup, TableInv, QueueEmptied
<1>11. CASE Examine
  BY <1>5, <1>11 DEF Examine, TableInv, QueueEmptied
<1>12. CASE NotFound
  BY <1>5, <1>12 DEF NotFound, TableInv, QueueEmptied
<1>13. CASE Negotiate
  BY <1>5, <1>13 DEF Negotiate, TableInv, QueueEmptied
<1>14. CASE UNCHANGED vars
  BY <1>5, <1>14 DEF vars, tableVars
<1> QED
  BY <1>2, <1>3, <1>4, <1>6, <1>7, <1>8, <1>9, <1>10, <1>11, <1>12, <1>13, <1>14 DEF Next

LEMMA TableSortedFromInv == TableInv => TableSorted
<1> SUFFICES ASSUME TableInv, phase \notin {"define", "register"}, NEW m \in Methods
             PROVE
      /\ \A t \in Templates : Cardinality({i \in DOMAIN table[m] : table[m][i].route = t}) =
           IF t.method = m THEN Cardinality({i \in DOMAIN routes : routes[i] = t}) ELSE 0
      /\ \A i, j \in DOMAIN table[m] : i < j =>
           LET p == table[m][i].route.prefix
               q == table[m][j].route.prefix
           IN StartsWith(q, p) => p = q
  BY DEF TableSorted
<1>1. ASSUME NEW t \in Templates
      PROVE  Cardinality({i \in DOMAIN table[m] : table[m][i].route = t}) =
               IF t.method = m THEN Cardinality({i \in DOMAIN routes : routes[i] = t}) ELSE 0
  <2>1. Cardinality(EntriesOf(table[m], t)) + Owed(m, t) = Due(m, t)
    BY DEF TableInv, TableCounts
  <2>2. queue = <<>>
    BY DEF TableInv, QueueEmptied
  <2>3. Owed(m, t) = 0
    <3>1. At(queue, t) = {}
      BY <2>2 DEF At
    <3> QED BY <3>1, FS_EmptySet DEF Owed
  <2>4. Cardinality(EntriesOf(table[m], t)) \in Nat
    <3>1. EntriesOf(table[m], t) \in SUBSET DOMAIN table[m] /\ table[m] \in Seq(Entry)
      BY DEF EntriesOf, TableInv, TableType
    <3> QED BY <3>1, CountsFinite
  <2>5. Cardinality(EntriesOf(table[m], t)) = Due(m, t)
    BY <2>1, <2>3, <2>4
  <2> QED BY <2>5 DEF Due, EntriesOf, At
<1>2. ASSUME NEW i \in DOMAIN table[m], NEW j \in DOMAIN table[m], i < j,
             StartsWith(table[m][j].route.prefix, table[m][i].route.prefix)
      PROVE  table[m][i].route.prefix = table[m][j].route.prefix
  <2>1. table[m] \in Seq(Entry)
    BY DEF TableInv, TableType
  <2>2. i \in 1..Len(table[m]) /\ j \in 1..Len(table[m])
    BY <2>1
  <2>3. ~Less(table[m][i].route.prefix, table[m][j].route.prefix)
    BY <1>2, <2>2 DEF TableInv, TableOrder
  <2> QED BY <1>2, <2>3 DEF Less
<1> QED BY <1>1, <1>2

(* Whatever the controllers define, the table holds every route as often   *)
(* as it was defined, for its own method, and no prefix before a longer    *)
(* one that starts with it (Route.compile, register_route).                *)
THEOREM TableSortedAlways == Spec => []TableSorted
<1>1. Init /\ IInv => TableInv
  BY DEF Init, IInv, TableInv, TableOrder, TableCounts, QueueEmptied
<1> QED BY <1>1, InvariantInit, InvariantStep, TableInvStep, TableSortedFromInv, PTL DEF Spec

-----------------------------------------------------------------------------
(* Where a route of the table comes from, and where a defined one is.      *)
LEMMA EntryMethod ==
  ASSUME TableInv, phase # "define", NEW m \in Methods, NEW i \in 1..Len(table[m])
  PROVE  table[m][i] \in Entry /\ table[m][i].route.method = m
<1> DEFINE t == table[m][i].route
<1>1. table[m] \in Seq(Entry)
  BY DEF TableInv, TableType
<1>2. table[m][i] \in Entry /\ t \in Templates
  <2>1. table[m][i] \in Entry
    BY <1>1
  <2> QED BY <2>1 DEF Entry
<1>3. i \in EntriesOf(table[m], t) /\ EntriesOf(table[m], t) \in SUBSET DOMAIN table[m]
  BY <1>1 DEF EntriesOf
<1>4. Cardinality(EntriesOf(table[m], t)) \in Nat /\ Cardinality(EntriesOf(table[m], t)) # 0
  <2>1. IsFiniteSet(EntriesOf(table[m], t)) /\ Cardinality(EntriesOf(table[m], t)) \in Nat
    BY <1>1, <1>3, CountsFinite
  <2> QED BY <1>3, <2>1, FS_EmptySet
<1>5. Cardinality(EntriesOf(table[m], t)) + Owed(m, t) = Due(m, t)
  BY <1>2 DEF TableInv, TableCounts
<1> HIDE DEF t
<1>6. ASSUME t.method # m PROVE FALSE
  BY <1>4, <1>5, <1>6 DEF Owed, Due
<1> QED BY <1>2, <1>6 DEF t

LEMMA RouteHasEntry ==
  ASSUME TableInv, TableSorted, phase \notin {"define", "register"},
         NEW i \in DOMAIN routes
  PROVE  \E j \in 1..Len(table[routes[i].method]) : table[routes[i].method][j].route = routes[i]
<1> DEFINE t == routes[i]
           m == t.method
<1>1. t \in Templates /\ m \in Methods
  BY TemplatesAssumption DEF TemplatesAssumption, TableInv, TableType
<1>2. table[m] \in Seq(Entry) /\ routes \in Seq(Templates)
  BY <1>1 DEF TableInv, TableType
<1>3. i \in At(routes, t) /\ At(routes, t) \in SUBSET DOMAIN routes
  BY DEF At
<1>4. IsFiniteSet(At(routes, t)) /\ Cardinality(At(routes, t)) # 0
  <2>1. IsFiniteSet(At(routes, t))
    BY <1>2, <1>3, CountsFinite
  <2> QED BY <1>3, <2>1, FS_EmptySet
<1>5. Cardinality(EntriesOf(table[m], t)) = Cardinality(At(routes, t))
  BY <1>1 DEF TableSorted, EntriesOf, At
<1>6. EntriesOf(table[m], t) # {}
  BY <1>4, <1>5, FS_EmptySet
<1> QED BY <1>2, <1>6 DEF EntriesOf

-----------------------------------------------------------------------------
(* What the lookup knows: no entry before pos fits, and the one found does.*)
Looking == {"lookup", "negotiate", "answered"}
LookupInv ==
  /\ phase \in Looking => \A i \in 1..Len(Entries) : i < pos => ~Fits(Entries[i].route)
  /\ phase \notin {"negotiate", "answered"} => found = 0
  /\ phase = "negotiate" => found = pos
  /\ found # 0 => found = pos /\ pos \in 1..Len(Entries) /\ Fits(Entries[pos].route)
  /\ phase = "answered" /\ found = 0 /\ pos <= Len(Entries) => Entries[pos].route.exts # {}

LEMMA RequestMethod ==
  ASSUME TableType
  PROVE  /\ request.method \in Methods /\ request.path \in Seq(Nat)
         /\ Entries \in Seq(Entry) /\ Len(Entries) \in Nat
BY RequestsAssumption DEF RequestsAssumption, TableType, Entries

LEMMA ExamineLookup ==
  ASSUME IInv, TableInv, LookupInv, Examine PROVE LookupInv'
<1> DEFINE e == Entries[pos]
           path == request.path
           matched == (e.sub /\ lastMatched) \/ StartsWith(path, e.route.prefix)
<1>1. /\ phase = "lookup" /\ pos <= Len(Entries) /\ pos \in 1..Len(Entries)
      /\ UNCHANGED <<routes, queue, table, request>> /\ Entries' = Entries
      /\ found = 0
  BY RequestMethod DEF Examine, tableVars, Entries, IInv, TableType, LookupInv
<1>2. matched = StartsWith(path, e.route.prefix)
  BY <1>1, MatchedExact
<1>3. e.route.method = request.method
  BY <1>1, EntryMethod, RequestMethod DEF Entries, IInv
<1>4. matched /\ SuffixFits(e.route, path) <=> Fits(e.route)
  BY <1>2, <1>3 DEF Fits
<1>5. \/ /\ Fits(e.route) /\ found' = pos /\ phase' = "negotiate" /\ pos' = pos
      \/ /\ ~Fits(e.route) /\ found' = 0 /\ phase' = "lookup" /\ pos' = pos + 1
  BY <1>1, <1>4 DEF Examine, Skip
<1>6. \A t : Fits(t)' <=> Fits(t)
  BY <1>1 DEF Fits
<1>7. \A i \in 1..Len(Entries) : i < pos => ~Fits(Entries[i].route)
  BY <1>1 DEF LookupInv, Looking
<1>8. \A i \in 1..Len(Entries) : i < pos' => ~Fits(Entries[i].route)
  BY <1>1, <1>5, <1>7
<1>9. CASE Fits(e.route)
  BY <1>1, <1>5, <1>6, <1>8, <1>9 DEF LookupInv
<1>10. CASE ~Fits(e.route)
  BY <1>1, <1>5, <1>6, <1>8, <1>10 DEF LookupInv
<1> QED BY <1>9, <1>10

LEMMA LookupInvStep == IInv /\ TableInv /\ LookupInv /\ [Next]_vars => LookupInv'
<1> SUFFICES ASSUME IInv, TableInv, LookupInv, [Next]_vars PROVE LookupInv'
  OBVIOUS
<1>1. CASE /\ phase' \notin Looking /\ found' = 0
  BY <1>1 DEF LookupInv, Looking
<1>2. found = 0 \/ phase \in Looking
  BY DEF LookupInv, Looking
<1>3. ASSUME NEW t \in Templates, Define(t) PROVE LookupInv'
  BY <1>1, <1>2, <1>3 DEF Define, Looking, lookupVars
<1>4. CASE Compile
  BY <1>1, <1>2, <1>4 DEF Compile, Looking, lookupVars
<1>5. CASE Register
  BY <1>1, <1>2, <1>5 DEF Register, Looking, lookupVars
<1>6. CASE Registered
  BY <1>1, <1>2, <1>6 DEF Registered, Looking, lookupVars
<1>7. ASSUME NEW q \in Requests, Ask(q) PROVE LookupInv'
  BY <1>1, <1>2, <1>7 DEF Ask, Looking, lookupVars
<1>8. CASE ParseSegment
  BY <1>1, <1>2, <1>8 DEF ParseSegment, Looking, lookupVars
<1>9. CASE StartLookup
  <2>1. found' = 0 /\ pos' = 1 /\ phase' = "lookup"
    BY <1>9 DEF StartLookup, lookupVars, LookupInv, IInv, PosShape
  <2> QED BY <2>1 DEF LookupInv, Looking
<1>10. CASE Examine
  BY <1>10, ExamineLookup
<1>11. CASE NotFound
  <2>1. /\ phase = "lookup" /\ phase' = "answered" /\ pos' = pos /\ found' = 0
        /\ pos > Len(Entries) /\ Entries' = Entries /\ request' = request
    BY <1>11 DEF NotFound, lookupVars, tableVars, LookupInv, Entries
  <2>2. \A t : Fits(t)' <=> Fits(t)
    BY <2>1 DEF Fits
  <2>3. Len(Entries) \in Nat /\ pos \in Nat
    BY RequestMethod DEF IInv, TableType
  <2> QED BY <2>1, <2>2, <2>3 DEF LookupInv, Looking
<1>12. CASE Negotiate
  <2>1. /\ phase = "negotiate" /\ phase' = "answered" /\ pos' = pos
        /\ Entries' = Entries /\ request' = request
        /\ \/ found' = found
           \/ found' = 0 /\ Entries[found].route.exts # {}
    BY <1>12 DEF Negotiate, tableVars, Entries
  <2>2. \A t : Fits(t)' <=> Fits(t)
    BY <2>1 DEF Fits
  <2>3. Len(Entries) \in Nat /\ pos \in Nat \ {0}
    BY RequestMethod DEF IInv, TableType
  <2> QED BY <2>1, <2>2, <2>3 DEF LookupInv, Looking
<1>13. CASE Answered
  BY <1>1, <1>13 DEF Answered, Looking
<1>14. CASE UNCHANGED vars
  <2>1. \A t : Fits(t)' <=> Fits(t)
    BY <1>14 DEF Fits, vars
  <2> QED BY <1>14, <2>1 DEF vars, LookupInv, Looking, Entries
<1> QED
  BY <1>3, <1>4, <1>5, <1>6, <1>7, <1>8, <1>9, <1>10, <1>11, <1>12, <1>13, <1>14 DEF Next

(* Of two prefixes of a path the longer one starts with the other.         *)
LEMMA PrefixesOfOne ==
  ASSUME NEW s \in Seq(Nat), NEW r \in Seq(Nat), NEW t \in Seq(Nat),
         StartsWith(s, r), StartsWith(s, t), Len(t) < Len(r)
  PROVE  StartsWith(r, t)
<1>1. /\ \A i \in 1..Len(r) : s[i] = r[i]
      /\ \A i \in 1..Len(t) : s[i] = t[i]
  BY DEF StartsWith
<1>2. Len(r) \in Nat /\ Len(t) \in Nat
  OBVIOUS
<1>3. \A i \in 1..Len(t) : i \in 1..Len(r)
  BY <1>2
<1>4. \A i \in 1..Len(t) : r[i] = t[i]
  BY <1>1, <1>3
<1> QED BY <1>2, <1>4 DEF StartsWith

(* An entry that fits shows the lookup right: with the table in order, the *)
(* first entry that fits has the longest prefix of all.                    *)
LEMMA FirstIsLongest ==
  ASSUME IInv, TableInv, TableSorted, LookupInv, phase \in {"negotiate", "answered"}
  PROVE  /\ found > 0 => \A i \in Fitting :
              Len(routes[i].prefix) <= Len(Entries[found].route.prefix)
         /\ found = 0 => Fitting = {} \/ (pos <= Len(Entries) /\ Entries[pos].route.exts # {})
<1> USE RequestMethod DEF IInv
<1>1. ASSUME NEW i \in Fitting
      PROVE  \E j \in 1..Len(Entries) : Entries[j].route = routes[i] /\ pos <= j
  <2>1. i \in DOMAIN routes /\ Fits(routes[i]) /\ routes[i].method = request.method
    BY DEF Fitting, Fits
  <2>2. PICK j \in 1..Len(Entries) : Entries[j].route = routes[i]
    BY <2>1, RouteHasEntry DEF Entries
  <2>3. ~(j < pos)
    BY <2>1, <2>2 DEF LookupInv, Looking
  <2> QED BY <2>2, <2>3 DEF TableType
<1>2. ASSUME found > 0, NEW i \in Fitting
      PROVE  Len(routes[i].prefix) <= Len(Entries[found].route.prefix)
  <2> DEFINE p == routes[i].prefix
             q == Entries[found].route.prefix
             path == request.path
  <2>1. PICK j \in 1..Len(Entries) : Entries[j].route = routes[i] /\ pos <= j
    BY <1>1
  <2>2. found = pos /\ pos \in 1..Len(Entries) /\ Fits(Entries[pos].route)
    BY <1>2 DEF LookupInv
  <2>3. StartsWith(path, p) /\ StartsWith(path, q)
    BY <2>2 DEF Fitting, Fits
  <2>4. p \in Seq(Nat) /\ q \in Seq(Nat) /\ path \in Seq(Nat)
    <3>1. Entries[j] \in Entry /\ Entries[pos] \in Entry
      BY <2>1, <2>2
    <3> QED BY <2>1, <2>2, <3>1, TemplatesAssumption DEF TemplatesAssumption, Entry
  <2>5. CASE j = pos
    BY <2>1, <2>2, <2>4, <2>5
  <2>6. CASE pos < j
    <3>1. StartsWith(p, q) => q = p
      <4>1. \A a, b \in DOMAIN Entries :
              a < b /\ StartsWith(Entries[b].route.prefix, Entries[a].route.prefix)
                => Entries[a].route.prefix = Entries[b].route.prefix
        BY RequestMethod DEF TableSorted, Entries
      <4>2. pos \in DOMAIN Entries /\ j \in DOMAIN Entries
        BY <2>1, <2>2, RequestMethod
      <4> QED BY <2>1, <2>2, <2>6, <4>1, <4>2
    <3>2. Len(q) < Len(p) => StartsWith(p, q)
      <4> HIDE DEF p, q, path, IInv
      <4> QED BY <2>3, <2>4, PrefixesOfOne
    <3> QED BY <2>4, <3>1, <3>2
  <2> QED BY <2>1, <2>2, <2>5, <2>6
<1>3. ASSUME found = 0 PROVE Fitting = {} \/ (pos <= Len(Entries) /\ Entries[pos].route.exts # {})
  <2>1. CASE pos > Len(Entries)
    BY <1>1, <2>1 DEF TableType
  <2>2. CASE pos <= Len(Entries)
    <3>1. phase = "answered"
      BY <1>3 DEF LookupInv, TableType
    <3> QED BY <1>3, <2>2, <3>1 DEF LookupInv
  <2> QED BY <2>1, <2>2 DEF TableType
<1> QED BY <1>2, <1>3

(* The lookup finds the route the definitions ask for, whatever their      *)
(* order and number: the table is complete and sorted, the answer is the   *)
(* most specific route that fits, and none is missed (nyara_lookup_route). *)
THEOREM RightRouteAlways == Spec => []RightRoute
<1>1. Init /\ IInv => TableInv /\ LookupInv
  BY DEF Init, IInv, TableInv, TableOrder, TableCounts, QueueEmptied, LookupInv, Looking
<1>2. IInv /\ TableInv /\ LookupInv => RightRoute
  <2> SUFFICES ASSUME IInv, TableInv, LookupInv PROVE RightRoute
    OBVIOUS
  <2>1. TableSorted
    BY TableSortedFromInv
  <2>2. MostSpecific
    BY <2>1, FirstIsLongest, RequestMethod DEF MostSpecific, LookupInv, IInv
  <2>3. NoneMissed
    BY <2>1, FirstIsLongest DEF NoneMissed
  <2> QED BY <2>1, <2>2, <2>3 DEF RightRoute
<1> QED BY <1>1, <1>2, InvariantInit, InvariantStep, TableInvStep, LookupInvStep, PTL DEF Spec

-----------------------------------------------------------------------------
(* qarray_insert always finds a place: after the last value that is not    *)
(* smaller.                                                                *)
LEMMA PositionExists ==
  ASSUME NEW n \in Nat, NEW q \in [1..n -> Int], NEW v \in Int, Len(q) = n
  PROVE  /\ Position(q, v) \in 1..(n + 1)
         /\ \A j \in Position(q, v)..n : q[j] < v
         /\ Position(q, v) > 1 => q[Position(q, v) - 1] >= v
<1> DEFINE S == {i \in 1..(n + 1) : \A j \in i..n : q[j] < v}
<1>1. PICK m \in S : \A s \in S : m <= s
  <2>1. S \in SUBSET Nat
    OBVIOUS
  <2>2. n + 1 \in S
    OBVIOUS
  <2> QED BY <2>1, <2>2, LeastExists
<1>2. m > 1 => q[m - 1] >= v
  <2> SUFFICES ASSUME m > 1, q[m - 1] < v PROVE FALSE
    OBVIOUS
  <2>1. m - 1 \in S
    OBVIOUS
  <2> QED BY <1>1, <2>1
<1>3. \E i \in 1..(n + 1) : (\A j \in i..n : q[j] < v) /\ (i > 1 => q[i - 1] >= v)
  BY <1>2
<1> QED BY <1>3 DEF Position

(* A set of pairs of positions has a first one, by the first component and *)
(* then by the second.                                                     *)
LEMMA FirstPair ==
  ASSUME NEW M \in SUBSET (Nat \X Nat), M # {}
  PROVE  \E x \in M : \A y \in M : x[1] < y[1] \/ (x[1] = y[1] /\ x[2] <= y[2])
<1> DEFINE A == {i \in Nat : \E j \in Nat : <<i, j>> \in M}
<1>1. \A y \in M : y[1] \in Nat /\ y[2] \in Nat /\ y = <<y[1], y[2]>>
  OBVIOUS
<1>2. PICK a \in A : \A i \in A : a <= i
  <2>1. A \in SUBSET Nat /\ A # {}
    BY <1>1
  <2> HIDE DEF A
  <2> QED BY <2>1, LeastExists
<1> DEFINE B == {j \in Nat : <<a, j>> \in M}
<1>3. PICK b \in B : \A j \in B : b <= j
  <2>1. B \in SUBSET Nat /\ B # {}
    BY <1>2
  <2> HIDE DEF B
  <2> QED BY <2>1, LeastExists
<1>4. <<a, b>> \in M
  OBVIOUS
<1>5. ASSUME NEW y \in M PROVE a < y[1] \/ (a = y[1] /\ b <= y[2])
  <2>1. y[1] \in A
    BY <1>1
  <2>2. a = y[1] => y[2] \in B
    BY <1>1
  <2> QED BY <1>1, <1>2, <1>3, <2>1, <2>2
<1> QED BY <1>4, <1>5

-----------------------------------------------------------------------------
(* The parsed header: the usable ones of the first segs segments, by       *)
(* falling quality, equal ones in the order of the header.                 *)
Usable(i) == /\ ~Dropped(request.accept[i])
             /\ \A j \in 1..i : ~Empty(request.accept[j])
Before(i, j) == Q(i) > Q(j) \/ (Q(i) = Q(j) /\ i < j)
AcceptInv ==
  /\ segs \in 0..Len(request.accept)
  /\ accept \in Seq(1..segs)
  /\ \A i, j \in 1..Len(accept) : i < j => Before(accept[i], accept[j])
  /\ {accept[i] : i \in 1..Len(accept)} = {i \in 1..segs : Usable(i)}
  /\ segs < Len(request.accept) => \A j \in 1..segs : ~Empty(request.accept[j])
  /\ phase \in {"define", "register", "serve"} => segs = 0 /\ accept = <<>>
  /\ phase \in {"lookup", "negotiate"} => segs = Len(request.accept)

LEMMA RequestAccept ==
  ASSUME TableType
  PROVE  /\ request.accept \in Seq(AcceptSegment) /\ Len(request.accept) \in Nat
         /\ \A i \in 1..Len(request.accept) : Q(i) \in Int
<1>1. request.accept \in Seq(AcceptSegment)
  BY RequestsAssumption DEF RequestsAssumption, TableType
<1>2. ASSUME NEW i \in 1..Len(request.accept) PROVE Q(i) \in Int
  <2>1. request.accept[i] \in AcceptSegment
    BY <1>1
  <2> QED BY <2>1 DEF Q, Quality, AcceptSegment
<1> QED BY <1>1, <1>2

LEMMA InsertKeepsOrder ==
  ASSUME TableType, AcceptInv, segs < Len(request.accept),
         NEW p \in 1..(Len(accept) + 1),
         \A j \in p..Len(accept) : Q(accept[j]) < Q(segs + 1),
         p > 1 => Q(accept[p - 1]) >= Q(segs + 1)
  PROVE  LET a == Inserted(accept, p, segs + 1)
         IN  /\ a \in Seq(1..(segs + 1))
             /\ \A i, j \in 1..Len(a) : i < j => Before(a[i], a[j])
             /\ {a[i] : i \in 1..Len(a)} = {accept[i] : i \in 1..Len(accept)} \cup {segs + 1}
<1> DEFINE n == Len(accept)
           x == segs + 1
           a == Inserted(accept, p, x)
<1>1. /\ n \in Nat /\ segs \in Nat /\ accept \in Seq(1..segs)
      /\ \A i \in 1..n : accept[i] \in 1..segs
  BY RequestAccept DEF AcceptInv
<1>2. /\ DOMAIN a = 1..(n + 1)
      /\ \A j \in 1..(n + 1) :
           a[j] = IF j < p THEN accept[j] ELSE IF j = p THEN x ELSE accept[j - 1]
  BY <1>1 DEF Inserted
<1>3. \A j \in 1..(n + 1) :
        /\ j < p => j \in 1..n /\ a[j] = accept[j]
        /\ j = p => a[j] = x
        /\ j > p => j - 1 \in 1..n /\ a[j] = accept[j - 1]
  BY <1>1, <1>2
<1>4. a \in Seq(1..x) /\ Len(a) = n + 1
  <2>1. ASSUME NEW j \in 1..(n + 1) PROVE a[j] \in 1..x
    <3>1. CASE j < p
      BY <1>1, <1>3, <3>1
    <3>2. CASE j = p
      BY <1>1, <1>3, <3>2
    <3>3. CASE j > p
      BY <1>1, <1>3, <3>3, SMTT(30)
    <3> QED BY <3>1, <3>2, <3>3
  <2>2. a = [j \in 1..(n + 1) |-> a[j]]
    BY <1>2 DEF Inserted
  <2> HIDE DEF a
  <2> QED BY <1>1, <2>1, <2>2
<1>5. \A i \in 1..n : Q(accept[i]) \in Int /\ accept[i] < x /\ accept[i] \in Int
  <2>1. \A i \in 1..n : accept[i] \in 1..Len(request.accept)
    BY <1>1, RequestAccept
  <2> QED BY <1>1, <2>1, RequestAccept
<1>6. Q(x) \in Int /\ x \in Int
  <2>1. x \in 1..Len(request.accept)
    BY <1>1, RequestAccept
  <2> QED BY <1>1, <2>1, RequestAccept
<1>7. \A i, j \in 1..n : i < j => Before(accept[i], accept[j])
  BY DEF AcceptInv
<1>8. \A i \in 1..n : i < p => Before(accept[i], x)
  <2> SUFFICES ASSUME NEW i \in 1..n, i < p PROVE Before(accept[i], x)
    OBVIOUS
  <2>1. p > 1 /\ p - 1 \in 1..n
    BY <1>1
  <2>2. Q(accept[p - 1]) >= Q(x)
    BY <2>1
  <2>3. i = p - 1 \/ Before(accept[i], accept[p - 1])
    BY <1>1, <1>7, <2>1
  <2>4. Q(accept[i]) >= Q(x)
    BY <1>5, <1>6, <2>1, <2>2, <2>3 DEF Before
  <2> QED BY <1>5, <1>6, <2>4 DEF Before
<1>9. \A j \in 1..n : j >= p => Before(x, accept[j])
  BY <1>1, <1>5, <1>6 DEF Before
<1> HIDE DEF a, x
<1>10. ASSUME NEW i \in 1..(n + 1), NEW j \in 1..(n + 1), i < j PROVE Before(a[i], a[j])
  <2>1. CASE j < p
    BY <1>3, <1>7, <1>10, <2>1
  <2>2. CASE j = p
    BY <1>3, <1>8, <1>10, <2>2
  <2>3. CASE j > p /\ i < p
    <3>1. i \in 1..n /\ j - 1 \in 1..n /\ i < j - 1 /\ a[i] = accept[i] /\ a[j] = accept[j - 1]
      BY <1>1, <1>3, <2>3
    <3> QED BY <1>7, <3>1
  <2>4. CASE j > p /\ i = p
    <3>1. j - 1 \in 1..n /\ j - 1 >= p /\ a[i] = x /\ a[j] = accept[j - 1]
      BY <1>1, <1>3, <2>4
    <3> QED BY <1>9, <3>1
  <2>5. CASE j > p /\ i > p
    <3>1. /\ i - 1 \in 1..n /\ j - 1 \in 1..n /\ i - 1 < j - 1
          /\ a[i] = accept[i - 1] /\ a[j] = accept[j - 1]
      BY <1>1, <1>3, <1>10, <2>5
    <3> QED BY <1>7, <3>1
  <2> QED BY <1>1, <2>1, <2>2, <2>3, <2>4, <2>5
<1>11. {a[i] : i \in 1..(n + 1)} = {accept[i] : i \in 1..n} \cup {x}
  <2>1. ASSUME NEW i \in 1..(n + 1) PROVE a[i] \in {accept[k] : k \in 1..n} \cup {x}
    <3>1. CASE i < p
      BY <1>3, <3>1
    <3>2. CASE i = p
      BY <1>3, <3>2
    <3>3. CASE i > p
      BY <1>3, <3>3
    <3> QED BY <3>1, <3>2, <3>3
  <2>2. \A i \in 1..n : \E k \in 1..(n + 1) : a[k] = accept[i]
    <3> SUFFICES ASSUME NEW i \in 1..n PROVE \E k \in 1..(n + 1) : a[k] = accept[i]
      OBVIOUS
    <3>1. CASE i < p
      <4>1. i \in 1..(n + 1) /\ a[i] = accept[i]
        BY <1>1, <1>3, <3>1
      <4> QED BY <4>1
    <3>2. CASE i >= p
      <4>1. i + 1 \in 1..(n + 1) /\ i + 1 > p /\ (i + 1) - 1 = i
        BY <1>1, <3>2
      <4>2. a[i + 1] = accept[i]
        BY <1>3, <4>1
      <4> QED BY <4>1, <4>2
    <3> QED BY <1>1, <3>1, <3>2
  <2>3. a[p] = x /\ p \in 1..(n + 1)
    BY <1>3
  <2> QED BY <2>1, <2>2, <2>3, SMTT(30)
<1> QED BY <1>4, <1>10, <1>11 DEF a, x

LEMMA ParseKeepsOrder ==
  ASSUME TableType, AcceptInv, ParseSegment PROVE AcceptInv'
<1> DEFINE s == request.accept[segs + 1]
           qarray == [i \in 1..Len(accept) |-> Quality(request.accept[accept[i]])]
           x == segs + 1
           p == Position(qarray, Quality(s))
<1>1. /\ phase = "accept" /\ phase' = "accept" /\ segs < Len(request.accept)
      /\ request' = request
      /\ IF Empty(s) THEN segs' = Len(request.accept) /\ UNCHANGED accept
         ELSE /\ segs' = x
              /\ accept' = IF Dropped(s) THEN accept ELSE Inserted(accept, p, x)
  BY DEF ParseSegment
<1>2. /\ segs \in Nat /\ x \in 1..Len(request.accept) /\ accept \in Seq(1..segs)
      /\ Len(request.accept) \in Nat
  BY <1>1, RequestAccept DEF AcceptInv
<1>3. /\ \A i, j \in 1..Len(accept) : i < j => Before(accept[i], accept[j])
      /\ {accept[i] : i \in 1..Len(accept)} = {i \in 1..segs : Usable(i)}
      /\ \A j \in 1..segs : ~Empty(request.accept[j])
  BY <1>1 DEF AcceptInv
<1>4. \A i, j : Usable(i)' = Usable(i) /\ Before(i, j)' = Before(i, j)
  BY <1>1 DEF Usable, Before, Q
<1> HIDE DEF s, x, p, qarray
<1>5. CASE Empty(s)
  <2>1. segs' = Len(request.accept) /\ accept' = accept
    BY <1>1, <1>5
  <2>2. \A i \in 1..Len(request.accept) : i > segs => ~Usable(i)
    BY <1>2, <1>5 DEF Usable, x, s
  <2>3. {i \in 1..segs : Usable(i)} = {i \in 1..segs' : Usable(i)}
    BY <1>2, <2>1, <2>2 DEF x
  <2>4. accept' \in Seq(1..segs')
    <3>1. 1..segs \subseteq 1..segs'
      BY <1>2, <2>1 DEF x
    <3> QED BY <1>2, <2>1, <3>1
  <2> QED BY <1>1, <1>2, <1>3, <1>4, <2>1, <2>3, <2>4 DEF AcceptInv
<1>6. CASE ~Empty(s)
  <2>1. segs' = x /\ accept' = IF Dropped(s) THEN accept ELSE Inserted(accept, p, x)
    BY <1>1, <1>6
  <2>2. \A j \in 1..x : ~Empty(request.accept[j])
    BY <1>2, <1>3, <1>6 DEF x, s
  <2>3. Usable(x) <=> ~Dropped(s)
    BY <2>2 DEF Usable, x, s
  <2>4. {i \in 1..x : Usable(i)} =
          {i \in 1..segs : Usable(i)} \cup (IF Dropped(s) THEN {} ELSE {x})
    BY <1>2, <2>3 DEF x
  <2>5. CASE Dropped(s)
    <3>1. accept' \in Seq(1..segs') /\ accept' = accept
      <4>1. 1..segs \subseteq 1..x
        BY <1>2 DEF x
      <4> QED BY <1>2, <2>1, <2>5, <4>1
    <3>2. {i \in 1..x : Usable(i)} = {i \in 1..segs : Usable(i)}
      BY <2>4, <2>5
    <3>3. segs' \in 0..Len(request.accept)
      BY <1>2, <2>1
    <3> QED BY <1>1, <1>3, <1>4, <2>1, <2>2, <3>1, <3>2, <3>3 DEF AcceptInv
  <2>6. CASE ~Dropped(s)
    <3>1. Len(accept) \in Nat /\ \A i \in 1..Len(accept) : accept[i] \in 1..Len(request.accept)
      <4>1. \A i \in 1..Len(accept) : accept[i] \in 1..segs
        BY <1>2
      <4> QED BY <1>2, <4>1 DEF x
    <3>2. \A i \in 1..Len(accept) : qarray[i] = Q(accept[i]) /\ Q(accept[i]) \in Int
      BY <3>1, RequestAccept DEF qarray, Q
    <3>3. Quality(s) = Q(x) /\ Q(x) \in Int
      BY <1>2, RequestAccept DEF Q, s, x
    <3>4. qarray \in [1..Len(accept) -> Int] /\ Len(qarray) = Len(accept)
      BY <3>1, <3>2 DEF qarray
    <3>5. /\ p \in 1..(Len(accept) + 1)
          /\ \A j \in p..Len(accept) : qarray[j] < Quality(s)
          /\ p > 1 => qarray[p - 1] >= Quality(s)
      <4>1. Quality(s) \in Int
        BY <3>3
      <4> QED BY <3>1, <3>4, <4>1, PositionExists, Zenon DEF p
    <3>6. /\ \A j \in p..Len(accept) : Q(accept[j]) < Q(x)
          /\ p > 1 => Q(accept[p - 1]) >= Q(x)
      <4>1. \A j \in p..Len(accept) : j \in 1..Len(accept)
        BY <3>1, <3>5
      <4>2. p > 1 => p - 1 \in 1..Len(accept)
        BY <3>1, <3>5
      <4> QED BY <3>2, <3>3, <3>5, <4>1, <4>2
    <3>7. accept' = Inserted(accept, p, segs + 1)
      BY <2>1, <2>6 DEF x
    <3>8. /\ accept' \in Seq(1..(segs + 1))
          /\ \A i, j \in 1..Len(accept') : i < j => Before(accept'[i], accept'[j])
          /\ {accept'[i] : i \in 1..Len(accept')} =
               {accept[i] : i \in 1..Len(accept)} \cup {segs + 1}
      BY <1>1, <3>5, <3>6, <3>7, InsertKeepsOrder DEF x
    <3>9. {accept'[i] : i \in 1..Len(accept')} = {i \in 1..x : Usable(i)}
      BY <1>3, <2>4, <2>6, <3>8 DEF x
    <3>10. segs' = segs + 1 /\ segs' \in 0..Len(request.accept)
      BY <1>2, <2>1 DEF x
    <3> QED BY <1>1, <1>4, <2>1, <2>2, <3>8, <3>9, <3>10 DEF AcceptInv
  <2> QED BY <2>5, <2>6
<1> QED BY <1>5, <1>6

LEMMA AcceptInvStep == IInv /\ AcceptInv /\ [Next]_vars => AcceptInv'
<1> SUFFICES ASSUME IInv, AcceptInv, [Next]_vars PROVE AcceptInv'
  OBVIOUS
<1>1. CASE /\ UNCHANGED <<request, segs, accept>>
           /\ phase' \in {"define", "register", "serve"}
                => phase \in {"define", "register", "serve"}
           /\ phase' \in {"lookup", "negotiate"} =>
                phase \in {"lookup", "negotiate"} \/ segs = Len(request.accept)
  <2>1. \A i, j : Usable(i)' = Usable(i) /\ Before(i, j)' = Before(i, j)
    BY <1>1 DEF Usable, Before, Q
  <2> QED BY <1>1, <2>1 DEF AcceptInv
<1>2. ASSUME NEW q \in Requests, segs' = 0, accept' = <<>>, request' = q, phase' \in {"serve", "accept"}
      PROVE  AcceptInv'
  <2>1. Len(q.accept) \in Nat
    BY RequestsAssumption DEF RequestsAssumption
  <2> QED BY <1>2, <2>1 DEF AcceptInv
<1>3. ASSUME NEW t \in Templates, Define(t) PROVE AcceptInv'
  BY <1>1, <1>3 DEF Define
<1>4. CASE Compile
  BY <1>1, <1>4 DEF Compile
<1>5. CASE Register
  BY <1>1, <1>5 DEF Register
<1>6. CASE Registered
  BY <1>1, <1>6 DEF Registered
<1>7. ASSUME NEW q \in Requests, Ask(q) PROVE AcceptInv'
  BY <1>2, <1>7 DEF Ask, AcceptInv
<1>8. CASE ParseSegment
  BY <1>8, ParseKeepsOrder DEF IInv
<1>9. CASE StartLookup
  BY <1>1, <1>9 DEF StartLookup
<1>10. CASE Examine
  BY <1>1, <1>10 DEF Examine
<1>11. CASE NotFound
  BY <1>1, <1>11 DEF NotFound
<1>12. CASE Negotiate
  BY <1>1, <1>12 DEF Negotiate
<1>13. CASE Answered
  BY <1>2, <1>13 DEF Answered, Resets, IInv, TableType
<1>14. CASE UNCHANGED vars
  BY <1>1, <1>14 DEF vars
<1> QED
  BY <1>3, <1>4, <1>5, <1>6, <1>7, <1>8, <1>9, <1>10, <1>11, <1>12, <1>13, <1>14 DEF Next

LEMMA AcceptSortedFromInv == IInv /\ AcceptInv => AcceptSorted
<1> SUFFICES ASSUME IInv, AcceptInv, phase \in {"lookup", "negotiate"}
             PROVE
      /\ \A i, j \in DOMAIN accept : i < j =>
           \/ Q(accept[i]) > Q(accept[j])
           \/ Q(accept[i]) = Q(accept[j]) /\ accept[i] < accept[j]
      /\ {accept[i] : i \in DOMAIN accept} =
           {i \in DOMAIN request.accept : /\ ~Dropped(request.accept[i])
                                         /\ \A j \in 1..i : ~Empty(request.accept[j])}
  BY DEF AcceptSorted
<1>1. DOMAIN accept = 1..Len(accept) /\ DOMAIN request.accept = 1..segs
  BY RequestAccept DEF AcceptInv, IInv
<1>2. \A i, j \in 1..Len(accept) : i < j => Before(accept[i], accept[j])
  BY DEF AcceptInv
<1>3. {accept[i] : i \in 1..Len(accept)} = {i \in 1..segs : Usable(i)}
  BY DEF AcceptInv
<1> QED BY <1>1, <1>2, <1>3 DEF Before, Usable

-----------------------------------------------------------------------------
(* The format before and after the negotiation.                            *)
FormatInv ==
  /\ phase \notin {"negotiate", "answered"} => format = Nil
  /\ phase = "negotiate" =>
       LET t == Entries[pos].route
       IN format = IF t.suffix = <<>> THEN Extension(Rest(t, request.path)) ELSE Nil
  /\ phase = "answered" => FormatLiked

LEMMA NegotiateLiked ==
  ASSUME IInv, TableInv, LookupInv, AcceptInv, FormatInv, Negotiate PROVE FormatLiked'
<1> DEFINE t == Entries[found].route
           chosen == IF format # Nil THEN format
                     ELSE IF t.exts = {} THEN Html ELSE MimeOf(t.mimes)
           likes(v) == {i \in DOMAIN accept : MimeMatch(request.accept[accept[i]], v)}
           M == MatchesOf(t.mimes)
<1>1. /\ phase = "negotiate" /\ UNCHANGED <<request, table, accept, pos>> /\ Entries' = Entries
      /\ format' = chosen
      /\ found' = IF t.exts # {} /\ chosen \notin t.exts THEN 0 ELSE found
      /\ found = pos /\ pos \in 1..Len(Entries)
  BY DEF Negotiate, tableVars, Entries, LookupInv, IInv, TableType
<1>2. t \in Templates
  <2>1. Entries[found] \in Entry
    BY <1>1, RequestMethod DEF IInv
  <2> QED BY <2>1 DEF Entry
<1>3. Nil \notin t.exts /\ t.mimes \in Seq(MimeType)
  BY <1>2, TemplatesAssumption DEF TemplatesAssumption
<1>4. Len(accept) \in Nat /\ DOMAIN accept = 1..Len(accept)
  BY DEF AcceptInv
<1> HIDE DEF t, chosen
<1> SUFFICES ASSUME found' > 0, t.exts # {},
                    ~(Rest(t, request.path) # <<>> /\ t.suffix = <<>>)
             PROVE  \E k \in DOMAIN t.mimes :
                      /\ t.mimes[k].ext = chosen
                      /\ \A o \in DOMAIN t.mimes : \A j \in likes(t.mimes[o]) :
                           \E i \in likes(t.mimes[k]) : i <= j
  <2>1. found' > 0 /\ t.exts # {} => format' \in t.exts
    BY <1>1
  <2>2. found' > 0 => Entries'[found'].route = t
    BY <1>1 DEF t
  <2> QED BY <1>1, <2>1, <2>2 DEF FormatLiked
<1>5. chosen \in t.exts
  BY <1>1
<1>6. format = Nil
  <2>1. Extension(<<>>) = Nil
    BY DEF Extension
  <2> QED BY <1>1, <2>1 DEF FormatInv, t
<1>7. chosen = MimeOf(t.mimes) /\ MimeOf(t.mimes) # Nil
  BY <1>3, <1>5, <1>6 DEF chosen
<1>8. M # {} /\ M \in SUBSET (Nat \X Nat)
  <2>1. Len(t.mimes) \in Nat
    BY <1>3
  <2>2. M # {}
    BY <1>7 DEF MimeOf
  <2>3. M \in SUBSET ((1..Len(accept)) \X (1..Len(t.mimes)))
    BY DEF MatchesOf
  <2> QED BY <1>4, <2>1, <2>2, <2>3
<1> DEFINE Least(x) == \A y \in M : x[1] < y[1] \/ (x[1] = y[1] /\ x[2] <= y[2])
           first == CHOOSE x \in M : Least(x)
<1>9. first \in M /\ Least(first)
  <2>1. \E x \in M : Least(x)
    BY <1>8, FirstPair
  <2> QED BY <2>1
<1>10. MimeOf(t.mimes) = t.mimes[first[2]].ext
  BY <1>8 DEF MimeOf
<1>11. \A y : y \in M <=> /\ y \in (1..Len(accept)) \X (1..Len(t.mimes))
                          /\ MimeMatch(request.accept[accept[y[1]]], t.mimes[y[2]])
  BY DEF MatchesOf
<1> HIDE DEF first, M
<1>12. /\ first[1] \in 1..Len(accept) /\ first[2] \in 1..Len(t.mimes)
       /\ first[1] \in likes(t.mimes[first[2]])
  BY <1>4, <1>9, <1>11
<1>13. ASSUME NEW o \in DOMAIN t.mimes, NEW j \in likes(t.mimes[o])
       PROVE  first[1] <= j
  <2>1. o \in 1..Len(t.mimes) /\ j \in 1..Len(accept)
    BY <1>3, <1>4
  <2>2. <<j, o>> \in M
    BY <1>11, <2>1
  <2>3. first[1] < <<j, o>>[1] \/ first[1] = <<j, o>>[1]
    BY <1>9, <2>2
  <2> QED BY <1>12, <2>1, <2>3
<1>14. first[2] \in DOMAIN t.mimes
  BY <1>3, <1>12
<1> QED BY <1>7, <1>10, <1>12, <1>13, <1>14

LEMMA FormatInvStep ==
  IInv /\ TableInv /\ LookupInv /\ AcceptInv /\ FormatInv /\ [Next]_vars => FormatInv'
<1> SUFFICES ASSUME IInv, TableInv, LookupInv, AcceptInv, FormatInv, [Next]_vars PROVE FormatInv'
  OBVIOUS
<1>1. CASE phase' \notin {"negotiate", "answered"} /\ format' = Nil
  BY <1>1 DEF FormatInv
<1>2. CASE /\ phase \notin {"negotiate", "answered"}
           /\ phase' \notin {"negotiate", "answered"} /\ format' = format
  BY <1>2 DEF FormatInv
<1>3. ASSUME NEW t \in Templates, Define(t) PROVE FormatInv'
  BY <1>2, <1>3 DEF Define, lookupVars
<1>4. CASE Compile
  BY <1>2, <1>4 DEF Compile, lookupVars
<1>5. CASE Register
  BY <1>2, <1>5 DEF Register, lookupVars
<1>6. CASE Registered
  BY <1>2, <1>6 DEF Registered, lookupVars
<1>7. ASSUME NEW q \in Requests, Ask(q) PROVE FormatInv'
  BY <1>2, <1>7 DEF Ask, lookupVars
<1>8. CASE ParseSegment
  BY <1>2, <1>8 DEF ParseSegment, lookupVars
<1>9. CASE StartLookup
  BY <1>2, <1>9 DEF StartLookup, lookupVars
<1>10. CASE Examine
  <2>1. CASE phase' = "lookup"
    BY <1>2, <1>10, <2>1 DEF Examine
  <2>2. CASE phase' = "negotiate"
    BY <1>10, <2>2 DEF Examine, FormatInv, tableVars, Entries
  <2> QED BY <1>10, <2>1, <2>2 DEF Examine
<1>11. CASE NotFound
  <2>1. found' = 0 /\ phase' = "answered"
    BY <1>11 DEF NotFound, lookupVars, LookupInv
  <2> QED BY <2>1 DEF FormatInv, FormatLiked
<1>12. CASE Negotiate
  <2>1. phase' = "answered"
    BY <1>12 DEF Negotiate
  <2> QED BY <1>12, <2>1, NegotiateLiked DEF FormatInv
<1>13. CASE Answered
  BY <1>1, <1>13 DEF Answered
<1>14. CASE UNCHANGED vars
  <2>1. FormatLiked => FormatLiked'
    BY <1>14, ZenonT(30) DEF vars, FormatLiked, Entries
  <2> QED BY <1>14, <2>1 DEF vars, FormatInv, Entries
<1> QED
  BY <1>3, <1>4, <1>5, <1>6, <1>7, <1>8, <1>9, <1>10, <1>11, <1>12, <1>13, <1>14 DEF Next

(* Whatever header and routes: the parsed Accept header holds the usable   *)
(* ranges by falling quality, stably (qarray_insert), and an answer has    *)
(* the format among the route's that the client prefers (ext_mime_match).  *)
THEOREM NegotiatedAlways == Spec => []Negotiated
<1>1. Init /\ IInv => TableInv /\ LookupInv
  BY DEF Init, IInv, TableInv, TableOrder, TableCounts, QueueEmptied, LookupInv, Looking
<1>2. Init /\ IInv => AcceptInv /\ FormatInv
  BY RequestAccept DEF Init, IInv, AcceptInv, FormatInv
<1>3. IInv /\ AcceptInv /\ FormatInv => Negotiated
  <2> SUFFICES ASSUME IInv, AcceptInv, FormatInv PROVE Negotiated
    OBVIOUS
  <2>1. FormatLiked
    BY DEF FormatInv, FormatLiked
  <2> QED BY <2>1, AcceptSortedFromInv DEF Negotiated
<1> QED
  BY <1>1, <1>2, <1>3, InvariantInit, InvariantStep, TableInvStep, LookupInvStep, AcceptInvStep,
     FormatInvStep, PTL DEF Spec

(* The types of all variables.                                             *)
THEOREM TypeCorrect == Spec => []TypeOK
<1>1. Init /\ IInv => TableInv /\ LookupInv /\ AcceptInv
  BY RequestAccept
  DEF Init, IInv, TableInv, TableOrder, TableCounts, QueueEmptied, LookupInv, Looking, AcceptInv
<1>2. Init => phase \in Phases
  BY DEF Init, Phases
<1>3. phase \in Phases /\ [Next]_vars => (phase \in Phases)'
  BY DEF Phases, Next, vars, Define, Compile, Register, Registered, Ask, ParseSegment,
         StartLookup, Examine, NotFound, Negotiate, Answered
<1>4. IInv /\ LookupInv /\ AcceptInv /\ phase \in Phases => TypeOK
  <2> SUFFICES ASSUME IInv, LookupInv, AcceptInv, phase \in Phases PROVE TypeOK
    OBVIOUS
  <2>1. accept \in Seq(1..Len(request.accept)) /\ segs \in 0..Len(request.accept)
    <3>1. /\ Len(request.accept) \in Nat /\ segs \in 0..Len(request.accept)
          /\ accept \in Seq(1..segs)
      BY RequestAccept DEF AcceptInv, IInv
    <3>2. (1..segs) \subseteq 1..Len(request.accept)
      BY <3>1
    <3> QED BY <3>1, <3>2
  <2>2. found \in 0..Len(Entries)
    BY RequestMethod DEF LookupInv, IInv
  <2>3. found = 0 \/ phase \in {"negotiate", "answered"}
    BY DEF LookupInv
  <2> QED BY <2>1, <2>2, <2>3 DEF TypeOK, IInv, TableType, Entries
<1> QED
  BY <1>1, <1>2, <1>3, <1>4, InvariantInit, InvariantStep, TableInvStep, LookupInvStep,
     AcceptInvStep, PTL DEF Spec
=============================================================================
