------------------------------- MODULE Routes -------------------------------
(***************************************************************************)
(* The route table: Route.compile (lib/nyara/route.rb) sorts the routes of *)
(* all controllers and registers them (ext/route.cc); a request's Accept   *)
(* header is parsed (ext/accept.c), its path is looked up entry by entry,  *)
(* and the format of the answer is negotiated (ext/mime.c).                *)
(*                                                                         *)
(* Paths are sequences of bytes without line ends.  The regular expression *)
(* of a suffix is what it accepts: a sequence of literal bytes and         *)
(* conversions.  Left out: what the conversions make of the captured text. *)
(* Definitions marked "bug" are not part of the model.                     *)
(***************************************************************************)
EXTENDS Integers, Sequences, FiniteSets

CONSTANTS Methods,    \* HTTP methods
          Templates,  \* the routes that controllers may define
          Requests,   \* what may be asked: method, path and Accept header
          MaxRoutes   \* bound: routes in a table

Nil == <<0>>                             \* no path or name holds a zero byte
MimeType == [type : STRING, sub : STRING, ext : Seq(Nat)]

(* A template is a record of method, prefix, suffix, exts and mimes.       *)
(* "formats" gives a route its extensions exts and, in the same order, the *)
(* MIME types mimes; without it both are empty.                            *)
ASSUME TemplatesAssumption ==
  \A t \in Templates : /\ t.method \in Methods
                       /\ t.prefix \in Seq(Nat)
                       /\ Nil \notin t.exts
                       /\ t.mimes \in Seq(MimeType)
                       /\ t.exts # {} => t.mimes # <<>>

(* A segment of an Accept header: a media range with its q in tenths, an   *)
(* empty one, or a bare q.                                                 *)
AcceptSegment ==
  [kind : {"range", "empty", "bare"}, type : STRING, sub : STRING, q : Int]
ASSUME RequestsAssumption ==
  Requests # {} /\
  \A q \in Requests : /\ q.method \in Methods
                      /\ q.path \in Seq(Nat)
                      /\ q.accept \in Seq(AcceptSegment)
ASSUME MaxRoutesAssumption == MaxRoutes \in Nat

VARIABLES
  phase,       \* define, register, serve, accept, lookup, negotiate, answered
  routes,      \* what the controllers defined, in that order
  queue,       \* what Route.compile still has to register
  table,       \* route_map: the entries of each method
  request,     \* the request that is answered
  segs,        \* how many segments of its Accept header are parsed
  accept,      \* the parsed header: segments by falling q
  pos,         \* the entry that is looked at
  lastMatched, \* whether the prefix of the entry before it matched
  found,       \* the entry that answers, or 0
  format       \* the format of the answer, or Nil

vars == <<phase, routes, queue, table, request, segs, accept, pos,
          lastMatched, found, format>>
tableVars == <<routes, queue, table>>
lookupVars == <<pos, lastMatched, found, format>>

Phases == {"define", "register", "serve", "accept", "lookup", "negotiate", "answered"}
Html == <<104, 116, 109, 108>>
Entry == [route : Templates, sub : BOOLEAN]

TypeOK ==
  /\ phase \in Phases
  /\ routes \in Seq(Templates) /\ queue \in Seq(Templates)
  /\ table \in [Methods -> Seq(Entry)]
  /\ request \in Requests
  /\ segs \in 0..Len(request.accept)
  /\ accept \in Seq(1..Len(request.accept))
  /\ pos \in Nat \ {0} /\ lastMatched \in BOOLEAN
  /\ found \in 0..Len(table[request.method])
  /\ found = 0 \/ phase \in {"negotiate", "answered"}

Init ==
  /\ phase = "define"
  /\ routes = <<>> /\ queue = <<>> /\ table = [m \in Methods |-> <<>>]
  /\ request = (CHOOSE q \in Requests : TRUE) /\ segs = 0 /\ accept = <<>>
  /\ pos = 1 /\ lastMatched = FALSE /\ found = 0 /\ format = Nil

-----------------------------------------------------------------------------
(* Route.compile and register_route                                        *)

StartsWith(s, p) == Len(p) <= Len(s) /\ \A i \in 1..Len(p) : s[i] = p[i]

(* The order of strings, byte by byte.                                     *)
Less(s, t) ==
  \/ s # t /\ StartsWith(t, s)
  \/ \E i \in 1..Len(s) \cap 1..Len(t) :
       s[i] < t[i] /\ \A j \in 1..(i - 1) : s[j] = t[j]

Define(t) ==
  /\ phase = "define" /\ Len(routes) < MaxRoutes
  /\ routes' = Append(routes, t)
  /\ UNCHANGED <<phase, queue, table, request, segs, accept, lookupVars>>

Shuffles(s) == LET n == Len(s) IN
  {[i \in 1..n |-> s[p[i]]] : p \in {p \in [1..n -> 1..n] :
      \A i, j \in 1..n : p[i] = p[j] => i = j}}
(* sort_by! prefix, then reverse!; sort_by! is not stable.                 *)
Sorted(s) ==
  {t \in Shuffles(s) : \A i, j \in 1..Len(s) : i < j => ~Less(t[i].prefix, t[j].prefix)}

Compile ==
  /\ phase = "define"
  /\ queue' \in Sorted(routes)
  /\ table' = [m \in Methods |-> <<>>]
  /\ phase' = "register"
  /\ UNCHANGED <<routes, request, segs, accept, lookupVars>>

(* is_sub: the prefix before this one in the method's entries starts with  *)
(* this one.                                                               *)
SubByOneLess(entries, t) ==                         \* bug: one byte less compared
  entries # <<>> /\ StartsWith(entries[Len(entries)].route.prefix,
                                SubSeq(t.prefix, 1, Len(t.prefix) - 1))
IsSub(entries, t) ==
  entries # <<>> /\ StartsWith(entries[Len(entries)].route.prefix, t.prefix)

Register ==
  /\ phase = "register" /\ queue # <<>>
  /\ LET t == Head(queue)
         e == table[t.method]
     IN table' = [table EXCEPT ![t.method] =
                    Append(e, [route |-> t, sub |-> IsSub(e, t)])]
  /\ queue' = Tail(queue)
  /\ UNCHANGED <<phase, routes, request, segs, accept, lookupVars>>

Registered ==
  /\ phase = "register" /\ queue = <<>>
  /\ phase' = "serve"
  /\ UNCHANGED <<tableVars, request, segs, accept, lookupVars>>

-----------------------------------------------------------------------------
(* parse_accept_value                                                      *)

Ask(q) ==
  /\ phase = "serve"
  /\ request' = q /\ phase' = "accept"
  /\ UNCHANGED <<tableVars, segs, accept, lookupVars>>

(* A segment is a media range with q in tenths, an empty segment, which    *)
(* ends the parse, or a bare q, which is dropped as q <= 0 is; q > 3       *)
(* counts as 1.                                                            *)
Empty(s) == s.kind = "empty"
Dropped(s) == s.kind = "bare" \/ s.q <= 0
Quality(s) == IF s.q > 30 THEN 10 ELSE s.q

(* qarray_insert: before the longest tail of smaller values.               *)
Position(q, v) ==
  CHOOSE i \in 1..(Len(q) + 1) :
    /\ \A j \in i..Len(q) : q[j] < v
    /\ i > 1 => q[i - 1] >= v

Inserted(s, i, x) ==
  [j \in 1..(Len(s) + 1) |-> IF j < i THEN s[j] ELSE IF j = i THEN x ELSE s[j - 1]]

ParseSegment ==
  /\ phase = "accept" /\ segs < Len(request.accept)
  /\ LET s == request.accept[segs + 1]
         qarray == [i \in 1..Len(accept) |-> Quality(request.accept[accept[i]])]
     IN IF Empty(s) THEN segs' = Len(request.accept) /\ UNCHANGED accept
        ELSE /\ segs' = segs + 1
             /\ accept' = IF Dropped(s) THEN accept
                          ELSE Inserted(accept, Position(qarray, Quality(s)), segs + 1)
  /\ UNCHANGED <<phase, tableVars, request, lookupVars>>

StartLookup ==
  /\ phase = "accept" /\ segs = Len(request.accept)
  /\ phase' = "lookup"
  /\ UNCHANGED <<tableVars, request, segs, accept, lookupVars>>

-----------------------------------------------------------------------------
(* nyara_lookup_route                                                      *)

Digits == 48..57
Alnum == Digits \cup (65..90) \cup (97..122)

(* extract_ext: a dot, and nothing but letters and digits, if anything.    *)
Extension(s) ==
  IF s # <<>> /\ s[1] = 46 /\ \A i \in 2..Len(s) : s[i] \in Alnum THEN Tail(s) ELSE Nil

(* What a segment of a suffix accepts: its own byte, or what its           *)
(* conversion stands for in compile_re (%f is left out).                   *)
AllIn(s, bytes) == s # <<>> /\ \A i \in DOMAIN s : s[i] \in bytes
Accepts(seg, s) ==
  CASE seg.conv = "none" -> s = <<seg.byte>>
    [] seg.conv = "u" -> AllIn(s, Digits)
    [] seg.conv = "d" -> AllIn(s, Digits) \/ (s # <<>> /\ s[1] = 45 /\ AllIn(Tail(s), Digits))
    [] seg.conv = "x" -> AllIn(s, Digits \cup (65..70) \cup (97..102))
    [] seg.conv = "s" -> s # <<>> /\ \A i \in DOMAIN s : s[i] # 47
    [] seg.conv = "z" -> TRUE

(* onig_match of the suffix: the segments accept all of s, from i and j on.*)
SuffixMatches(suffix, s) ==
  LET m[i \in 1..(Len(suffix) + 1), j \in 1..(Len(s) + 1)] ==
        IF i > Len(suffix) THEN j > Len(s)
        ELSE \E k \in j..(Len(s) + 1) :
               Accepts(suffix[i], SubSeq(s, j, k - 1)) /\ m[i + 1, k]
  IN m[1, 1]

(* A suffix that matches nothing of the path does not match.               *)
Rest(t, path) == SubSeq(path, Len(t.prefix) + 1, Len(path))
SuffixFits(t, path) ==
  LET rest == Rest(t, path)
  IN IF t.suffix = <<>> THEN rest = <<>> \/ Extension(rest) # Nil
     ELSE rest # <<>> /\ SuffixMatches(t.suffix, rest)

Entries == table[request.method]

(* A mismatch goes on with the next entry.                                 *)
SkipAll == pos' = Len(Entries) + 1                  \* bug: break for continue
Skip == pos' = pos + 1

Examine ==
  /\ phase = "lookup" /\ pos <= Len(Entries)
  /\ LET e == Entries[pos]
         matched == (e.sub /\ lastMatched) \/ StartsWith(request.path, e.route.prefix)
         rest == Rest(e.route, request.path)
     IN IF matched /\ SuffixFits(e.route, request.path)
        THEN /\ found' = pos /\ phase' = "negotiate"
             /\ format' = IF e.route.suffix = <<>> THEN Extension(rest) ELSE Nil
             /\ lastMatched' = matched
             /\ UNCHANGED pos
        ELSE /\ Skip /\ lastMatched' = matched
             /\ UNCHANGED <<phase, found, format>>
  /\ UNCHANGED <<tableVars, request, segs, accept>>

NotFound ==
  /\ phase = "lookup" /\ pos > Len(Entries)
  /\ phase' = "answered"
  /\ UNCHANGED <<tableVars, request, segs, accept, lookupVars>>

-----------------------------------------------------------------------------
(* Formats                                                                 *)

(* _mime_match_seg: a range of the request and a type of the route.        *)
MimeMatch(r, v) == r.type \in {"*", v.type} /\ r.sub \in {"", "*", v.sub}

(* ext_mime_match: the first range that matches, its first type.           *)
MatchesOf(mimes) ==
  {x \in (1..Len(accept)) \X (1..Len(mimes)) :
     MimeMatch(request.accept[accept[x[1]]], mimes[x[2]])}
MimeOfLast(mimes) ==                                \* bug: types before ranges
  LET M == MatchesOf(mimes)
      first == CHOOSE x \in M : \A y \in M : x[2] < y[2] \/ (x[2] = y[2] /\ x[1] <= y[1])
  IN IF M = {} THEN Nil ELSE mimes[first[2]].ext
MimeOf(mimes) ==
  LET M == MatchesOf(mimes)
      first == CHOOSE x \in M : \A y \in M : x[1] < y[1] \/ (x[1] = y[1] /\ x[2] <= y[2])
  IN IF M = {} THEN Nil ELSE mimes[first[2]].ext

(* A format the route does not allow rejects the request: no other entry   *)
(* is tried.                                                               *)
Negotiate ==
  /\ phase = "negotiate"
  /\ LET t == Entries[found].route
         chosen == IF format # Nil THEN format
                   ELSE IF t.exts = {} THEN Html ELSE MimeOf(t.mimes)
         rejected == t.exts # {} /\ chosen \notin t.exts
     IN /\ format' = chosen
        /\ found' = IF rejected THEN 0 ELSE found
  /\ phase' = "answered"
  /\ UNCHANGED <<tableVars, request, segs, accept, pos, lastMatched>>

(* The next request starts with an empty result and no qarray.             *)
Resets == segs' = 0 /\ accept' = <<>>
Answered ==
  /\ phase = "answered"
  /\ phase' = "serve" /\ Resets
  /\ pos' = 1 /\ lastMatched' = FALSE /\ found' = 0 /\ format' = Nil
  /\ UNCHANGED <<tableVars, request>>

Next == \/ \E t \in Templates : Define(t)
        \/ Compile \/ Register \/ Registered
        \/ \E q \in Requests : Ask(q)
        \/ ParseSegment \/ StartLookup \/ Examine \/ NotFound
        \/ Negotiate \/ Answered

Spec == Init /\ [][Next]_vars

-----------------------------------------------------------------------------
(* Properties                                                              *)

(* The comparison that is_sub saves never changes its result: what the     *)
(* lookup holds of the entry it looked at last is whether its prefix       *)
(* matches.                                                                *)
SubExact ==
  /\ phase = "lookup" /\ pos > 1 =>
       lastMatched = StartsWith(request.path, Entries[pos - 1].route.prefix)
  /\ phase = "negotiate" => StartsWith(request.path, Entries[pos].route.prefix)

(* Every route is registered once, for its own method, and no prefix comes *)
(* before a longer one that starts with it.                                *)
TableSorted ==
  phase \notin {"define", "register"} =>
    \A m \in Methods :
      /\ \A t \in Templates : Cardinality({i \in DOMAIN table[m] : table[m][i].route = t}) =
           IF t.method = m THEN Cardinality({i \in DOMAIN routes : routes[i] = t}) ELSE 0
      /\ \A i, j \in DOMAIN table[m] : i < j =>
           LET p == table[m][i].route.prefix
               q == table[m][j].route.prefix
           IN StartsWith(q, p) => p = q

(* What a route's own path accepts, by its prefix and suffix alone.        *)
Fits(t) == /\ t.method = request.method
           /\ StartsWith(request.path, t.prefix)
           /\ SuffixFits(t, request.path)
Fitting == {i \in DOMAIN routes : Fits(routes[i])}

(* A request is answered by a route that fits, and by none with a shorter  *)
(* prefix than another that fits.                                          *)
MostSpecific ==
  phase \in {"negotiate", "answered"} /\ found > 0 =>
    LET t == Entries[found].route
    IN Fits(t) /\ \A i \in Fitting : Len(routes[i].prefix) <= Len(t.prefix)

(* A request that no entry answers is one that no route fits, or one whose *)
(* formats are not those of a fitting route.                               *)
NoneMissed ==
  phase = "answered" /\ found = 0 =>
    Fitting = {} \/ (pos <= Len(Entries) /\ Entries[pos].route.exts # {})

(* The lookup finds the route that the definitions ask for, whatever their *)
(* order: the table holds each of them, longer prefixes first, the answer  *)
(* is the most specific route that fits, and none is missed.               *)
RightRoute == TableSorted /\ MostSpecific /\ NoneMissed

(* The parsed Accept header holds the usable segments, by falling quality, *)
(* and equal ones in the order of the header.                              *)
Q(i) == Quality(request.accept[i])
AcceptSorted ==
  phase \in {"lookup", "negotiate"} =>
    /\ \A i, j \in DOMAIN accept : i < j =>
         \/ Q(accept[i]) > Q(accept[j])
         \/ Q(accept[i]) = Q(accept[j]) /\ accept[i] < accept[j]
    /\ {accept[i] : i \in DOMAIN accept} =
         {i \in DOMAIN request.accept : /\ ~Dropped(request.accept[i])
                                       /\ \A j \in 1..i : ~Empty(request.accept[j])}

(* An answer has a format its route allows; if the path does not name it,  *)
(* no other allowed one is preferred by the client.                        *)
FormatLiked ==
  phase = "answered" /\ found > 0 =>
    LET t == Entries[found].route
        named == Rest(t, request.path) # <<>> /\ t.suffix = <<>>
        likes(v) == {i \in DOMAIN accept : MimeMatch(request.accept[accept[i]], v)}
    IN t.exts # {} =>
         /\ format \in t.exts
         /\ ~named => \E k \in DOMAIN t.mimes :
              /\ t.mimes[k].ext = format
              /\ \A o \in DOMAIN t.mimes : \A j \in likes(t.mimes[o]) :
                   \E i \in likes(t.mimes[k]) : i <= j

(* The format is what the client asked for: its Accept header is put in    *)
(* order by quality, stably, and the best the route allows is chosen.      *)
Negotiated == AcceptSorted /\ FormatLiked
=============================================================================
