--------------------------- MODULE RequestProofs ---------------------------
(* The event loop drives http_parser as its interface asks, so that what   *)
(* is proved of the parser alone holds of every request; no request is left*)
(* in PS_ERROR; what is kept of a head is bounded; what an action was      *)
(* started with stays; and the pieces of urls, names and values join.      *)
EXTENDS Request, HttpParserProofs, FiniteSetTheorems, WellFoundedInduction

(* What the loop has not read yet.                                         *)
NetType == net \in Text

LEMMA ReadPiece ==
  ASSUME NetType, NEW k \in 1..Len(net)
  PROVE  /\ SubSeq(net, 1, k) \in Text /\ SubSeq(net, 1, k) \in Seq(STRING)
         /\ SubSeq(net, k + 1, Len(net)) \in Text
  BY DEF NetType, Text

(* Reading a piece calls http_parser_execute; what runs between calls, the *)
(* action included, leaves the parser alone.                               *)
LEMMA DrivesParser ==
  ASSUME NetType, [Next]_vars
  PROVE  [ParserNext]_pvars /\ NetType'
<1>1. CASE Event \/ EAGAIN \/ Dispatch
  BY <1>1 DEF Event, EAGAIN, Dispatch, NetType
<1>2. ASSUME NEW k \in 1..Len(net), Read(k) PROVE ParserNext /\ NetType'
  BY <1>2, ReadPiece DEF Read, ParserNext, NetType
<1>3. CASE Parse
  BY <1>3 DEF Parse, ParserNext, NetType
<1>4. CASE UNCHANGED vars
  BY <1>4 DEF vars, rvars, NetType
<1> QED BY <1>1, <1>2, <1>3, <1>4 DEF Next

(* Every behaviour of a request is one of its parser: bytes that are fed to*)
(* http_parser_execute only when the call before has returned              *)
(* (event.c:93-106).                                                       *)
THEOREM ImplementsParser == Spec => ParserSpec
<1>1. Init => ParserInit /\ NetType
  BY MessagesAssumption DEF Init, NetType
<1>2. NetType /\ [Next]_vars => [ParserNext]_pvars /\ NetType'
  BY DrivesParser
<1> QED BY <1>1, <1>2, PTL DEF Spec, ParserSpec

(* No assert of http_parser fails in a worker, whatever message its client *)
(* sends and however it arrives.                                           *)
THEOREM RequestAssertions == Spec => []Assertions
  BY ImplementsParser, AssertionsAlways, PTL

-----------------------------------------------------------------------------
(* Folds of no call and of one.                                            *)
LEMMA FoldNone ==
  ASSUME NEW r
  PROVE  FoldLeft(Callback, r, <<>>) = r
<1> DEFINE Rec(f) == f = [s \in SUBSET (DOMAIN <<>>) |->
                    IF s = {} THEN r ELSE Callback(f[s \ {Max(s)}], <<>>[Max(s)])]
<1>1. DOMAIN <<>> = {} /\ SUBSET {} = {{}}
  OBVIOUS
<1>2. Rec([s \in {{}} |-> r])
  BY <1>1
<1> HIDE DEF Rec
<1>3. \E f : Rec(f)
  BY <1>2
<1>4. \A f : Rec(f) => f[DOMAIN <<>>] = r
  BY <1>1 DEF Rec
<1>5. FoldLeft(Callback, r, <<>>) = (CHOOSE f : Rec(f))[DOMAIN <<>>]
  BY DEF FoldLeft, MapThenFoldSet, Rec
<1> QED BY <1>3, <1>4, <1>5

LEMMA FoldOne ==
  ASSUME NEW r, NEW c
  PROVE  FoldLeft(Callback, r, <<c>>) = Callback(r, c)
<1> DEFINE s1 == <<c>>
           Rec(f) == f = [s \in SUBSET (DOMAIN s1) |->
                    IF s = {} THEN r ELSE Callback(f[s \ {Max(s)}], s1[Max(s)])]
<1>1. DOMAIN s1 = {1} /\ s1[1] = c /\ SUBSET {1} = {{}, {1}} /\ {1} # {} /\ {1} \ {1} = {}
  OBVIOUS
<1>2. Max({1}) = 1
  BY DEF Max
<1> DEFINE d == DOMAIN s1
<1>a. d = {1} /\ s1[1] = c /\ SUBSET d = {{}, {1}} 
  BY <1>1
<1>3. Rec([s \in {{}, {1}} |-> IF s = {} THEN r ELSE Callback(r, c)])
  <2> DEFINE h == [s \in {{}, {1}} |-> IF s = {} THEN r ELSE Callback(r, c)]
  <2>1. h[{}] = r /\ h[{1}] = Callback(r, c)
    BY <1>1
  <2>2. \A s \in {{}, {1}} : h[s] = IF s = {} THEN r ELSE Callback(h[s \ {Max(s)}], s1[Max(s)])
    BY <1>1, <1>2, <2>1
  <2>3. h = [s \in {{}, {1}} |-> h[s]]
    OBVIOUS
  <2> HIDE DEF h
  <2>4. h = [s \in {{}, {1}} |-> IF s = {} THEN r ELSE Callback(h[s \ {Max(s)}], s1[Max(s)])]
    BY <2>2, <2>3
  <2>5. Rec(h)
    BY <2>4, <1>1
  <2> QED BY <2>5 DEF h
<1>4. ASSUME NEW f, Rec(f) PROVE f[DOMAIN s1] = Callback(r, c)
  <2>1. \A s \in {{}, {1}} : f[s] = IF s = {} THEN r ELSE Callback(f[s \ {Max(s)}], s1[Max(s)])
    BY <1>1, <1>4
  <2>2. f[{}] = r
    BY <2>1
  <2>3. f[{1}] = Callback(f[{1} \ {Max({1})}], s1[Max({1})])
    BY <1>1, <2>1
  <2> QED BY <1>1, <1>2, <2>2, <2>3
<1>6. \E f : Rec(f)
  <2> HIDE DEF Rec
  <2> QED BY <1>3
<1>5. FoldLeft(Callback, r, s1) = (CHOOSE f : Rec(f))[DOMAIN s1]
  BY DEF FoldLeft, MapThenFoldSet, Rec
<1> HIDE DEF Rec, s1
<1>7. FoldLeft(Callback, r, s1) = Callback(r, c)
  BY <1>4, <1>5, <1>6
<1> QED BY <1>7 DEF s1

-----------------------------------------------------------------------------
(* What the multipart parser makes of a request                            *)

MpStates == {"s_start", "s_start_boundary", "s_header_field_start", "s_header_field",
  "s_headers_almost_done", "s_header_value_start", "s_header_value",
  "s_header_value_almost_done", "s_part_data_start", "s_part_data",
  "s_part_data_almost_boundary", "s_part_data_boundary", "s_part_data_almost_end",
  "s_part_data_final_hyphen", "s_part_data_end", "s_end"}
IsMultipart(mp) == mp = [f \in {"state", "index", "boundary"} |-> mp[f]]
(* A struct Request, and its texts.                                        *)
RequestFields == DOMAIN Request0
Texts(r) == /\ r = [f \in RequestFields |-> r[f]]
            /\ r.last_field \in Text \cup {Qnil} /\ r.last_value \in Text \cup {Qnil}
(* What http_parser's body callback leaves of the request q that it is     *)
(* given; the body is only added to.                                       *)
IsSequence(b) == \E S : b \in Seq(S)
Extends(a, b) == IsSequence(a) => IsSequence(b) /\ IsPrefix(a, b)
Keeps(r) == /\ r.method = q.method /\ r.path = q.path /\ r.query = q.query
            /\ r.header = q.header /\ r.path_with_query = q.path_with_query
            /\ Extends(q.body, r.body)
Continues(r) == Texts(r) /\ Keeps(r)
(* What holds between the bytes of a call of the multipart parser.         *)
Taking(acc) ==
  /\ acc = [f \in {"mp", "q", "mark", "stopped"} |-> acc[f]]
  /\ IsMultipart(acc.mp) /\ acc.mp.state \in MpStates
  /\ Continues(acc.q) /\ acc.mark \in Nat \ {0}
  /\ acc.q.parse_state # "PS_INIT" /\ (acc.q.parse_state = "PS_ERROR" => acc.stopped)

LEMMA FieldsOfRequest ==
  RequestFields = {"method", "path_with_query", "path", "query", "header", "last_field",
    "last_value", "last_key", "last_part", "body", "parse_state", "mparser", "undefined",
    "raised", "torn"}
BY DEF RequestFields, Request0

(* Parts of a text and texts together are texts, and never Qnil.           *)
LEMMA Piece ==
  ASSUME NEW s \in Text, NEW m \in Nat \ {0}, NEW n \in Nat, n <= Len(s)
  PROVE  SubSeq(s, m, n) \in Text
BY DEF Text

LEMMA Joined ==
  ASSUME NEW s \in Text, NEW t \in Text
  PROVE  s \o t \in Text
BY DEF Text

LEMMA TextIsNotQnil ==
  ASSUME NEW s \in Text
  PROVE  s # Qnil
<1> SUFFICES ASSUME s = <<"Qnil">> PROVE FALSE
  BY DEF Qnil
<1>1. 1 \in DOMAIN s /\ s[1] = "Qnil"
  OBVIOUS
<1>2. s[1] \in STRING \ {"Qnil"}
  BY <1>1 DEF Text
<1> QED BY <1>1, <1>2

(* The callbacks of the multipart parser leave the request its texts. Only *)
(* mp_header_value sets PS_ERROR (request_parse.c:29-45).                  *)
LEMMA NameTexts ==
  ASSUME NEW r, Continues(r), NEW s \in Text
  PROVE  Continues(mp_header_field(r, s)) /\ mp_header_field(r, s).parse_state = r.parse_state
<1>1. r.last_field # Qnil => r.last_field \o s \in Text
  BY Joined DEF Continues, Texts
<1> QED BY <1>1, FieldsOfRequest DEF Continues, Keeps, Texts, mp_header_field

(* A body that a part, or a piece, is added to.                            *)
LEMMA MoreBody ==
  ASSUME NEW a, NEW b, Extends(a, b)
  PROVE  /\ \A x : Extends(a, Append(b, x))
         /\ \A s \in Text : Extends(a, b \o s)
<1> SUFFICES ASSUME IsSequence(a)
             PROVE  /\ \A x : IsSequence(Append(b, x)) /\ IsPrefix(a, Append(b, x))
                    /\ \A s \in Text : IsSequence(b \o s) /\ IsPrefix(a, b \o s)
  BY DEF Extends
<1>1. PICK S, T : a \in Seq(S) /\ b \in Seq(T)
  BY DEF Extends, IsSequence
<1>2. Len(a) <= Len(b) /\ \A i \in 1..Len(a) : a[i] = b[i]
  <2>1. Len(a) <= Len(b) /\ SubSeq(a, 1, Len(a)) = SubSeq(b, 1, Len(a))
    BY DEF Extends, IsPrefix
  <2>2. Len(a) \in Nat /\ Len(b) \in Nat
    BY <1>1
  <2>3. \A i \in 1..Len(a) : SubSeq(a, 1, Len(a))[i] = a[i] /\ SubSeq(b, 1, Len(a))[i] = b[i]
    BY <1>1, <2>1, <2>2
  <2> QED BY <2>1, <2>3
<1>3. \A c : (/\ \E U : c \in Seq(U)
             /\ Len(b) <= Len(c) /\ \A i \in 1..Len(b) : c[i] = b[i])
            => IsSequence(c) /\ IsPrefix(a, c)
  <2> SUFFICES ASSUME NEW c, NEW U, c \in Seq(U), Len(b) <= Len(c),
                      \A i \in 1..Len(b) : c[i] = b[i]
               PROVE  IsSequence(c) /\ IsPrefix(a, c)
    OBVIOUS
  <2>1. Len(a) \in Nat /\ Len(b) \in Nat /\ Len(c) \in Nat /\ Len(a) <= Len(c)
    BY <1>1, <1>2
  <2>2. \A i \in 1..Len(a) : a[i] = c[i]
    BY <1>2, <2>1
  <2>3. SubSeq(a, 1, Len(a)) = SubSeq(c, 1, Len(a))
    BY <1>1, <2>1, <2>2
  <2> QED BY <2>1, <2>3 DEF IsSequence, IsPrefix
<1>4. ASSUME NEW x PROVE IsSequence(Append(b, x)) /\ IsPrefix(a, Append(b, x))
  <2> DEFINE c == Append(b, x)
             U == T \cup {x}
  <2>1. b \in Seq(U) /\ x \in U
    BY <1>1
  <2>2. c \in Seq(U) /\ Len(c) = Len(b) + 1 /\ \A i \in 1..Len(b) : c[i] = b[i]
    BY <2>1
  <2>3. Len(b) <= Len(c)
    BY <1>1, <2>2
  <2>4. IsSequence(c) /\ IsPrefix(a, c)
    <3> HIDE DEF c, U
    <3> QED BY <1>3, <2>2, <2>3
  <2> QED BY <2>4
<1>5. ASSUME NEW s \in Text PROVE IsSequence(b \o s) /\ IsPrefix(a, b \o s)
  <2> DEFINE c == b \o s
             U == T \cup STRING
  <2>1. b \in Seq(U) /\ s \in Seq(U)
    BY <1>1 DEF Text
  <2>2. c \in Seq(U) /\ Len(c) = Len(b) + Len(s) /\ \A i \in 1..Len(b) : c[i] = b[i]
    BY <2>1
  <2>3. Len(b) <= Len(c)
    BY <2>1, <2>2
  <2>4. IsSequence(c) /\ IsPrefix(a, c)
    <3> HIDE DEF c, U
    <3> QED BY <1>3, <2>2, <2>3
  <2> QED BY <2>4
<1> QED BY <1>4, <1>5

LEMMA ContentTexts ==
  ASSUME NEW r, Continues(r), NEW s \in Text
  PROVE  /\ Continues(mp_header_value(r, s))
         /\ mp_header_value(r, s).parse_state \in {r.parse_state, "PS_ERROR"}
<1>1. r.last_value # Qnil => r.last_value \o s \in Text
  BY Joined DEF Continues, Keeps, Texts
<1>2. CASE r.last_field # Qnil
  BY <1>2, FieldsOfRequest DEF Continues, Keeps, Texts, mp_header_value
<1>3. CASE r.last_field = Qnil /\ r.last_value = Qnil
  BY <1>3, FieldsOfRequest DEF Continues, Keeps, Texts, mp_header_value
<1>4. CASE r.last_field = Qnil /\ r.last_value # Qnil
  BY <1>1, <1>4, FieldsOfRequest DEF Continues, Keeps, Texts, mp_header_value
<1> QED BY <1>2, <1>3, <1>4

LEMMA DataTexts ==
  ASSUME NEW r, Continues(r), NEW s
  PROVE  /\ Continues(mp_headers_complete(r)) /\ mp_headers_complete(r).parse_state = r.parse_state
         /\ Continues(mp_part_data(r, s)) /\ mp_part_data(r, s).parse_state = r.parse_state
         /\ Continues(mp_part_data_end(r)) /\ mp_part_data_end(r).parse_state = r.parse_state
<1>1. Continues(mp_headers_complete(r)) /\ mp_headers_complete(r).parse_state = r.parse_state
  BY FieldsOfRequest DEF Continues, Keeps, Texts, mp_headers_complete
<1>2. Continues(mp_part_data(r, s)) /\ mp_part_data(r, s).parse_state = r.parse_state
  BY FieldsOfRequest DEF Continues, Keeps, Texts, mp_part_data
<1>3. Continues(mp_part_data_end(r)) /\ mp_part_data_end(r).parse_state = r.parse_state
  <2> DEFINE x == [head |-> r.last_part.head, data |-> r.last_part.data]
             b == Append(r.body, x)
             n == [r EXCEPT !.body = b, !.last_part = NoPart]
  <2>1. mp_part_data_end(r) = n
    BY DEF mp_part_data_end
  <2>2. Extends(q.body, b)
    BY MoreBody DEF Continues, Keeps
  <2> HIDE DEF b
  <2>3. Continues(n) /\ n.parse_state = r.parse_state
    BY <2>2, FieldsOfRequest DEF Continues, Keeps, Texts
  <2> QED BY <2>1, <2>3
<1> QED BY <1>1, <1>2, <1>3

(* How the multipart parser goes on: with another state, mark, index or    *)
(* request.                                                                *)
LEMMA ToTaking ==
  ASSUME NEW acc, Taking(acc), NEW s \in MpStates
  PROVE  /\ Taking(To(acc, s)) /\ To(acc, s).q = acc.q /\ To(acc, s).mark = acc.mark
         /\ Taking(Stop(acc)) /\ \A is : Taking(Expect(acc, is, s))
BY DEF Taking, To, Stop, Expect, IsMultipart

LEMMA WithTaking ==
  ASSUME NEW acc, Taking(acc), NEW r, Continues(r), NEW m \in Nat \ {0}, NEW n
  PROVE  /\ Taking([acc EXCEPT !.mark = m]) /\ [acc EXCEPT !.mark = m].q = acc.q
         /\ Taking([acc EXCEPT !.mp.index = n]) /\ [acc EXCEPT !.mp.index = n].q = acc.q
         /\ r.parse_state = acc.q.parse_state => Taking([acc EXCEPT !.q = r])
         /\ [acc EXCEPT !.mark = m].mark = m
BY DEF Taking, IsMultipart

LEMMA EmittedTaking ==
  ASSUME NEW acc, Taking(acc), NEW r, Continues(r), r.parse_state \in {acc.q.parse_state, "PS_ERROR"}
  PROVE  Taking(Emitted(acc, r))
BY DEF Taking, Emitted

LEMMA IndexTaking ==
  ASSUME NEW acc, Taking(acc)
  PROVE  \A n : Taking([acc EXCEPT !.mp.index = n])
BY DEF Taking, IsMultipart

(* A byte in each of its states.                                           *)
LEMMA StartBoundaryTaking ==
  ASSUME NEW acc, Taking(acc), NEW c
  PROVE  Taking(StartBoundary(acc, c))
<1> DEFINE a == IF acc.mp.state = "s_start" THEN [acc EXCEPT !.mp.index = 0] ELSE acc
           n == Len(a.mp.boundary)
<1>1. Taking(a) /\ \A k : Taking([a EXCEPT !.mp.index = k])
  <2>1. Taking(a)
    BY WithTaking DEF Taking
  <2> HIDE DEF a
  <2> QED BY <2>1, WithTaking DEF Taking
<1>2. StartBoundary(acc, c) =
        IF a.mp.index = n + 1
        THEN Expect([a EXCEPT !.mp.index = 0], c = LF, "s_header_field_start")
        ELSE Expect([a EXCEPT !.mp.index = @ + 1],
                    c = (IF a.mp.index = n THEN CR ELSE a.mp.boundary[a.mp.index + 1]),
                    "s_start_boundary")
  BY DEF StartBoundary
<1> HIDE DEF a, n
<1>3. "s_header_field_start" \in MpStates /\ "s_start_boundary" \in MpStates
  BY DEF MpStates
<1>4. \A is : Taking(Expect([a EXCEPT !.mp.index = 0], is, "s_header_field_start"))
  BY <1>1, <1>3, ToTaking
<1>5. \A is : Taking(Expect([a EXCEPT !.mp.index = @ + 1], is, "s_start_boundary"))
  BY <1>1, <1>3, ToTaking
<1> QED BY <1>2, <1>4, <1>5

LEMMA HeaderNameTaking ==
  ASSUME NEW acc, Taking(acc), NEW buf \in Text, NEW i \in 1..Len(buf)
  PROVE  Taking(HeaderName(acc, buf, i))
<1> DEFINE emit(a, to) == [a EXCEPT !.q = mp_header_field(@, SubSeq(buf, a.mark, to))]
           first == acc.mp.state = "s_header_field_start"
           a0 == IF first THEN [To(acc, "s_header_field") EXCEPT !.mark = i] ELSE acc
           c == buf[i]
<1>1. Taking(a0)
  <2>1. "s_header_field" \in MpStates /\ i \in Nat \ {0}
    BY DEF MpStates
  <2>2. Taking(To(acc, "s_header_field"))
    BY <2>1, ToTaking
  <2> QED BY <2>1, <2>2, WithTaking DEF Taking
<1>2. \A to \in {i - 1, i} : Taking(emit(a0, to))
  <2> TAKE to \in {i - 1, i}
  <2>1. to \in Nat /\ to <= Len(buf) /\ a0.mark \in Nat \ {0} /\ Continues(a0.q)
    BY <1>1 DEF Taking, Text
  <2>2. SubSeq(buf, a0.mark, to) \in Text
    BY <2>1, Piece
  <2> DEFINE r == mp_header_field(a0.q, SubSeq(buf, a0.mark, to))
  <2>3. Continues(r) /\ r.parse_state = a0.q.parse_state
    BY <2>1, <2>2, NameTexts
  <2>5. emit(a0, to) = [a0 EXCEPT !.q = r]
    OBVIOUS
  <2> HIDE DEF r, emit, a0
  <2> QED BY <1>1, <2>3, <2>5, WithTaking DEF Taking
<1>3. HeaderName(acc, buf, i) =
        CASE c = CR -> To(a0, "s_headers_almost_done")
          [] c = "-" -> a0
          [] c = ":" -> To(emit(a0, i - 1), "s_header_value_start")
          [] IS_ALPHA(c) -> IF i = Len(buf) THEN emit(a0, i) ELSE a0
          [] OTHER -> Stop(a0)
  BY DEF HeaderName
<1> HIDE DEF emit, a0
<1>4. /\ Taking(To(a0, "s_headers_almost_done")) /\ Taking(Stop(a0))
      /\ Taking(To(emit(a0, i - 1), "s_header_value_start"))
      /\ Taking(emit(a0, i))
  <2>1. "s_headers_almost_done" \in MpStates /\ "s_header_value_start" \in MpStates
    BY DEF MpStates
  <2> QED BY <1>1, <1>2, <2>1, ToTaking
<1>5. \/ HeaderName(acc, buf, i) = To(a0, "s_headers_almost_done")
      \/ HeaderName(acc, buf, i) = a0
      \/ HeaderName(acc, buf, i) = To(emit(a0, i - 1), "s_header_value_start")
      \/ HeaderName(acc, buf, i) = emit(a0, i)
      \/ HeaderName(acc, buf, i) = Stop(a0)
  BY <1>3
<1> QED BY <1>1, <1>4, <1>5

LEMMA HeaderContentTaking ==
  ASSUME NEW acc, Taking(acc), NEW buf \in Text, NEW i \in 1..Len(buf)
  PROVE  Taking(HeaderContent(acc, buf, i))
<1> DEFINE emit(a, to) == Emitted(a, mp_header_value(a.q, SubSeq(buf, a.mark, to)))
           end(a) == IF i = Len(buf) THEN emit(a, i) ELSE a
           read(a) == end(IF buf[i] = CR THEN To(emit(a, i - 1), "s_header_value_almost_done")
                                         ELSE a)
           a0 == [To(acc, "s_header_value") EXCEPT !.mark = i]
<1>1. Taking(a0)
  <2>1. "s_header_value" \in MpStates /\ i \in Nat \ {0}
    BY DEF MpStates
  <2>2. Taking(To(acc, "s_header_value"))
    BY <2>1, ToTaking
  <2> QED BY <2>1, <2>2, WithTaking DEF Taking
<1>2. ASSUME NEW a, Taking(a), NEW to \in {i - 1, i}
      PROVE  Taking(emit(a, to))
  <2>1. to \in Nat /\ to <= Len(buf) /\ a.mark \in Nat \ {0} /\ Continues(a.q)
    BY <1>2 DEF Taking, Text
  <2>2. SubSeq(buf, a.mark, to) \in Text
    BY <2>1, Piece
  <2> DEFINE r == mp_header_value(a.q, SubSeq(buf, a.mark, to))
  <2>3. Continues(r) /\ r.parse_state \in {a.q.parse_state, "PS_ERROR"}
    BY <2>1, <2>2, ContentTexts
  <2>4. emit(a, to) = Emitted(a, r)
    OBVIOUS
  <2> HIDE DEF r, emit
  <2> QED BY <1>2, <2>3, <2>4, EmittedTaking
<1>3. HeaderContent(acc, buf, i) =
        IF acc.mp.state = "s_header_value" THEN read(acc)
        ELSE IF buf[i] = SP THEN acc ELSE read(a0)
  BY DEF HeaderContent
<1> HIDE DEF emit, a0
<1>4. ASSUME NEW a, Taking(a) PROVE Taking(read(a))
  <2>1. "s_header_value_almost_done" \in MpStates
    BY DEF MpStates
  <2> DEFINE b == IF buf[i] = CR THEN To(emit(a, i - 1), "s_header_value_almost_done") ELSE a
  <2>2. Taking(b)
    BY <1>2, <1>4, <2>1, ToTaking
  <2> HIDE DEF b
  <2>3. Taking(end(b))
    BY <1>2, <2>2
  <2> QED BY <2>3 DEF b
<1> HIDE DEF read
<1> QED BY <1>1, <1>3, <1>4

LEMMA PartDataTaking ==
  ASSUME NEW acc, Taking(acc), NEW buf, NEW i \in Nat \ {0}
  PROVE  Taking(PartData(acc, buf, i))
<1> DEFINE emit(to) == [acc EXCEPT !.q = mp_part_data(@, SubSeq(buf, acc.mark, to))]
<1>1. ASSUME NEW to PROVE Taking(emit(to))
  <2> DEFINE r == mp_part_data(acc.q, SubSeq(buf, acc.mark, to))
  <2>1. Continues(r) /\ r.parse_state = acc.q.parse_state
    BY DataTexts DEF Taking
  <2>2. emit(to) = [acc EXCEPT !.q = r]
    OBVIOUS
  <2> HIDE DEF r, emit
  <2>3. Taking([acc EXCEPT !.q = r])
    <3>1. acc.mark \in Nat \ {0}
      BY DEF Taking
    <3> QED BY <2>1, <3>1, WithTaking
  <2> QED BY <2>2, <2>3
<1>2. PartData(acc, buf, i) =
        IF buf[i] = CR
        THEN [To(emit(i - 1), "s_part_data_almost_boundary") EXCEPT !.mark = i]
        ELSE IF i = Len(buf) THEN emit(i) ELSE acc
  BY DEF PartData
<1> HIDE DEF emit
<1>3. Taking(To(emit(i - 1), "s_part_data_almost_boundary"))
  BY <1>1, ToTaking DEF MpStates
<1>4. Taking([To(emit(i - 1), "s_part_data_almost_boundary") EXCEPT !.mark = i])
  BY <1>3, WithTaking DEF Taking
<1> QED BY <1>1, <1>2, <1>4

LEMMA DataFrom ==
  ASSUME NEW acc, Taking(acc), NEW buf, NEW i \in Nat \ {0}, NEW r, Continues(r),
         r.parse_state = acc.q.parse_state
  PROVE  Taking(PartData([To(acc, "s_part_data") EXCEPT !.mark = i, !.q = r], buf, i))
<1>1. Taking(To(acc, "s_part_data")) /\ To(acc, "s_part_data").q = acc.q
  BY ToTaking DEF MpStates
<1> DEFINE b == [To(acc, "s_part_data") EXCEPT !.mark = i]
<1>2. Taking(b) /\ b.q = acc.q
  BY <1>1, WithTaking DEF Taking
<1>3. [To(acc, "s_part_data") EXCEPT !.mark = i, !.q = r] = [b EXCEPT !.q = r]
  OBVIOUS
<1> HIDE DEF b
<1>4. Taking([b EXCEPT !.q = r])
  BY <1>2, WithTaking
<1> QED BY <1>3, <1>4, PartDataTaking

LEMMA PartDataStartTaking ==
  ASSUME NEW acc, Taking(acc), NEW buf, NEW i \in Nat \ {0}
  PROVE  Taking(PartDataStart(acc, buf, i))
<1>1. Taking(Stop(acc))
  BY ToTaking DEF MpStates
<1>2. Continues(mp_headers_complete(acc.q)) /\ mp_headers_complete(acc.q).parse_state = acc.q.parse_state
  BY DataTexts DEF Taking
<1>3. Taking(PartData([To(acc, "s_part_data") EXCEPT !.mark = i, !.q = mp_headers_complete(acc.q)],
                      buf, i))
  BY <1>2, DataFrom
<1>4. To(acc, "s_part_data").q = acc.q
  BY ToTaking DEF MpStates
<1>5. [To(acc, "s_part_data") EXCEPT !.mark = i].q = acc.q
  BY <1>4 DEF Taking, To
<1>6. PartDataStart(acc, buf, i) = Stop(acc) \/ PartDataStart(acc, buf, i) =
         PartData([To(acc, "s_part_data") EXCEPT !.mark = i, !.q = mp_headers_complete(acc.q)],
                      buf, i)
  BY <1>4, <1>5 DEF PartDataStart
<1> QED BY <1>1, <1>3, <1>6

LEMMA NoBoundaryTaking ==
  ASSUME NEW acc, Taking(acc), NEW s, NEW buf, NEW i \in Nat \ {0}
  PROVE  Taking(NoBoundary(acc, s, buf, i))
<1>2. Continues(mp_part_data(acc.q, s)) /\ mp_part_data(acc.q, s).parse_state = acc.q.parse_state
  BY DataTexts DEF Taking
<1>3. Taking(PartData([To(acc, "s_part_data") EXCEPT !.mark = i, !.q = mp_part_data(acc.q, s)],
                      buf, i))
  BY <1>2, DataFrom
<1>4. To(acc, "s_part_data").q = acc.q
  BY ToTaking DEF MpStates
<1>5. [To(acc, "s_part_data") EXCEPT !.mark = i].q = acc.q
  BY <1>4 DEF Taking, To
<1>6. NoBoundary(acc, s, buf, i) =
         PartData([To(acc, "s_part_data") EXCEPT !.mark = i, !.q = mp_part_data(acc.q, s)],
                      buf, i)
  BY <1>4, <1>5 DEF NoBoundary
<1> QED BY <1>3, <1>6

LEMMA BoundaryTaking ==
  ASSUME NEW acc, Taking(acc), NEW buf, NEW i \in Nat \ {0}
  PROVE  Taking(Boundary(acc, buf, i))
<1> DEFINE a == [acc EXCEPT !.mp.index = @ + 1]
<1>1. Taking(a)
  BY IndexTaking
<1>2. Boundary(acc, buf, i) =
        IF buf[i] = acc.mp.boundary[acc.mp.index + 1]
        THEN IF a.mp.index < Len(a.mp.boundary) THEN a
             ELSE [To(a, "s_part_data_almost_end") EXCEPT !.q = mp_part_data_end(@)]
        ELSE NoBoundary(acc, lookbehind(acc.mp), buf, i)
  BY DEF Boundary
<1> HIDE DEF a
<1>3. /\ Taking(To(a, "s_part_data_almost_end")) /\ To(a, "s_part_data_almost_end").q = a.q
      /\ Continues(a.q)
  <2>1. Continues(a.q)
    BY <1>1 DEF Taking
  <2>2. "s_part_data_almost_end" \in MpStates
    BY DEF MpStates
  <2> QED BY <1>1, <2>1, <2>2, ToTaking
<1>4. Taking([To(a, "s_part_data_almost_end") EXCEPT !.q = mp_part_data_end(@)])
  <2> DEFINE b == To(a, "s_part_data_almost_end")
             r == mp_part_data_end(b.q)
  <2>1. Continues(r) /\ r.parse_state = b.q.parse_state /\ Taking(b)
    BY <1>3, DataTexts
  <2> HIDE DEF b, r
  <2>2. Taking([b EXCEPT !.q = r])
    BY <2>1, WithTaking DEF Taking
  <2> QED BY <2>2 DEF b, r
<1>5. Taking(NoBoundary(acc, lookbehind(acc.mp), buf, i))
  BY NoBoundaryTaking
<1> QED BY <1>1, <1>2, <1>4, <1>5

(* A set of natural numbers has a least one.                               *)
LEMMA LeastExists ==
  ASSUME NEW S \in SUBSET Nat, S # {}
  PROVE  \E m \in S : \A s \in S : m <= s
<1> DEFINE R == OpToRel(<, Nat)
<1>1. IsWellFoundedOn(R, Nat)
  BY NatLessThanWellFounded
<1>2. \A x, y \in Nat : <<y, x>> \in R <=> y < x
  BY DEF OpToRel
<1> HIDE DEF R
<1>3. PICK x \in S : \A y \in S : ~(<<y, x>> \in R)
  BY <1>1, WFMin
<1>4. \A y \in S : x \in Nat /\ y \in Nat /\ ~(y < x)
  BY <1>2, <1>3
<1>5. \A y \in S : x <= y
  BY <1>4
<1> QED BY <1>5

(* One byte, whatever the state.                                           *)
LEMMA MultipartByteTaking ==
  ASSUME NEW acc, Taking(acc), NEW buf \in Text, NEW i \in 1..Len(buf)
  PROVE  Taking(MultipartByte(acc, buf, i))
<1> DEFINE c == buf[i]
           s == acc.mp.state
<1>0. i \in Nat \ {0} /\ s \in MpStates
  BY DEF Taking
<1>1. CASE s \in {"s_start", "s_start_boundary"}
  <2>1. MultipartByte(acc, buf, i) = StartBoundary(acc, c)
    BY <1>1 DEF MultipartByte
  <2> QED BY <2>1, StartBoundaryTaking
<1>2. CASE s \in {"s_header_field_start", "s_header_field"}
  <2>1. MultipartByte(acc, buf, i) = HeaderName(acc, buf, i)
    BY <1>2 DEF MultipartByte
  <2> QED BY <2>1, HeaderNameTaking
<1>3. CASE s \in {"s_headers_almost_done", "s_header_value_almost_done", "s_part_data_final_hyphen",
                  "s_part_data_end"}
  <2>1. \E is : \E to \in MpStates : MultipartByte(acc, buf, i) = Expect(acc, is, to)
    BY <1>3 DEF MultipartByte, MpStates
  <2> QED BY <2>1, ToTaking
<1>4. CASE s \in {"s_header_value_start", "s_header_value"}
  <2>1. MultipartByte(acc, buf, i) = HeaderContent(acc, buf, i)
    BY <1>4 DEF MultipartByte
  <2> QED BY <2>1, HeaderContentTaking
<1>5. CASE s = "s_part_data_start"
  <2>1. MultipartByte(acc, buf, i) = PartDataStart(acc, buf, i)
    BY <1>5 DEF MultipartByte
  <2> QED BY <1>0, <2>1, PartDataStartTaking
<1>6. CASE s = "s_part_data"
  <2>1. MultipartByte(acc, buf, i) = PartData(acc, buf, i)
    BY <1>6 DEF MultipartByte
  <2> QED BY <1>0, <2>1, PartDataTaking
<1>7. CASE s = "s_part_data_almost_boundary"
  <2>1. MultipartByte(acc, buf, i) =
          IF c = LF THEN [To(acc, "s_part_data_boundary") EXCEPT !.mp.index = 0]
                    ELSE NoBoundary(acc, <<CR>>, buf, i)
    BY <1>7 DEF MultipartByte
  <2>2. Taking(To(acc, "s_part_data_boundary"))
    BY ToTaking DEF MpStates
  <2>3. Taking([To(acc, "s_part_data_boundary") EXCEPT !.mp.index = 0])
    BY <2>2, WithTaking DEF Taking
  <2> QED BY <1>0, <2>1, <2>3, NoBoundaryTaking
<1>8. CASE s = "s_part_data_boundary"
  <2>1. MultipartByte(acc, buf, i) = Boundary(acc, buf, i)
    BY <1>8 DEF MultipartByte
  <2> QED BY <1>0, <2>1, BoundaryTaking
<1>9. CASE s = "s_part_data_almost_end"
  <2>1. MultipartByte(acc, buf, i) = IF c = "-" THEN To(acc, "s_part_data_final_hyphen")
                                     ELSE Expect(acc, c = CR, "s_part_data_end")
    BY <1>9 DEF MultipartByte
  <2>2. Taking(To(acc, "s_part_data_final_hyphen"))
    BY ToTaking DEF MpStates
  <2>3. \A is : Taking(Expect(acc, is, "s_part_data_end"))
    BY ToTaking DEF MpStates
  <2> QED BY <2>1, <2>2, <2>3
<1>10. CASE s = "s_end"
  <2>1. MultipartByte(acc, buf, i) = acc
    BY <1>10 DEF MultipartByte
  <2> QED BY <2>1
<1> QED BY <1>0, <1>1, <1>2, <1>3, <1>4, <1>5, <1>6, <1>7, <1>8, <1>9, <1>10 DEF MpStates

(* A call on a piece of any length: it stops on PS_ERROR, so that on_body  *)
(* raises (multipart_parser.c:33-40; request_parse.c:214-226).             *)
LEMMA ExecuteTaking ==
  ASSUME NEW mp, IsMultipart(mp), mp.state \in MpStates, NEW r, Continues(r),
         r.parse_state \notin {"PS_INIT", "PS_ERROR"}, NEW buf \in Text
  PROVE  Taking(multipart_parser_execute(mp, r, buf))
<1> DEFINE n == Len(buf)
           base == [mp |-> mp, q |-> r, mark |-> 1, stopped |-> FALSE]
           step(acc, i) == IF acc.stopped THEN acc ELSE MultipartByte(acc, buf, i)
           Rec(f, m) == f = [i \in 0..m |-> IF i = 0 THEN base ELSE step(f[i - 1], i)]
           Unbuilt == {m \in Nat : ~\E f : Rec(f, m)}
<1>1. n \in Nat /\ Taking(base)
  BY DEF Text, Taking
<1>2. \A acc : \A i \in 1..n : Taking(acc) => Taking(step(acc, i))
  BY MultipartByteTaking
<1> HIDE DEF step, base
<1>3. Unbuilt = {}
  <2> SUFFICES ASSUME Unbuilt # {} PROVE FALSE
    OBVIOUS
  <2>1. Unbuilt \in SUBSET Nat
    OBVIOUS
  <2>2. PICK m \in Unbuilt : \A k \in Unbuilt : m <= k
    BY <2>1, LeastExists
  <2>3. m \in Nat /\ ~\E f : Rec(f, m)
    OBVIOUS
  <2>0. \A k \in Nat : (\E f : Rec(f, k)) <=> k \notin Unbuilt
    OBVIOUS
  <2> HIDE DEF Unbuilt
  <2>4. CASE m = 0
    <3> DEFINE f == [i \in 0..0 |-> base]
    <3>1. Rec(f, 0)
      OBVIOUS
    <3> QED BY <2>3, <2>4, <3>1
  <2>5. CASE m # 0
    <3>1. m - 1 \in Nat /\ m - 1 \notin Unbuilt
      BY <2>2, <2>3, <2>5
    <3>2. PICK f : Rec(f, m - 1)
      BY <2>0, <3>1
    <3> DEFINE h == [i \in 0..m |-> IF i = m THEN step(f[m - 1], m) ELSE f[i]]
    <3>3. \A i \in 0..(m - 1) : f[i] = IF i = 0 THEN base ELSE step(f[i - 1], i)
      BY <3>2
    <3>4. \A i \in 0..(m - 1) : h[i] = f[i]
      BY <2>3
    <3>5. h[m] = step(f[m - 1], m)
      BY <2>3, <2>5
    <3>6. ASSUME NEW i \in 0..m
          PROVE  h[i] = IF i = 0 THEN base ELSE step(h[i - 1], i)
      <4>1. CASE i = m
        <5>1. m - 1 \in 0..(m - 1)
          BY <2>3, <2>5
        <5>2. h[m - 1] = f[m - 1]
          BY <3>4, <5>1
        <5> QED BY <3>5, <4>1, <5>2, <2>5
      <4>2. CASE i # m
        <5>1. i \in 0..(m - 1) /\ (i # 0 => i - 1 \in 0..(m - 1))
          BY <2>3, <4>2
        <5>2. h[i] = f[i] /\ (i # 0 => h[i - 1] = f[i - 1])
          BY <3>4, <5>1
        <5> QED BY <3>3, <5>1, <5>2
      <4> QED BY <4>1, <4>2
    <3>7. h = [i \in 0..m |-> h[i]]
      OBVIOUS
    <3> HIDE DEF h
    <3>8. Rec(h, m)
      BY <3>6, <3>7
    <3> QED BY <2>3, <3>8
  <2> QED BY <2>4, <2>5
<1>4. \E f : Rec(f, n)
  BY <1>1, <1>3
<1>5. multipart_parser_execute(mp, r, buf) = (CHOOSE f : Rec(f, n))[n]
  BY DEF multipart_parser_execute, Run, base, step
<1>6. ASSUME NEW f, Rec(f, n) PROVE Taking(f[n])
  <2>1. \A i \in 0..n : f[i] = IF i = 0 THEN base ELSE step(f[i - 1], i)
    BY <1>6
  <2> DEFINE Bad == {m \in 0..n : ~Taking(f[m])}
  <2>2. Bad = {}
    <3> SUFFICES ASSUME Bad # {} PROVE FALSE
      OBVIOUS
    <3>1. Bad \in SUBSET Nat
      OBVIOUS
    <3>2. PICK m \in Bad : \A k \in Bad : m <= k
      BY <3>1, LeastExists
    <3>3. m \in 0..n /\ ~Taking(f[m])
      OBVIOUS
    <3>4. m # 0
      BY <1>1, <2>1, <3>3
    <3>5. m - 1 \in 0..n /\ m \in 1..n /\ m - 1 \notin Bad
      BY <1>1, <3>2, <3>3, <3>4
    <3>6. Taking(f[m - 1])
      BY <3>5
    <3>7. f[m] = step(f[m - 1], m)
      BY <2>1, <3>3, <3>4
    <3> HIDE DEF Bad, Rec
    <3> QED BY <1>2, <3>3, <3>5, <3>6, <3>7
  <2> QED BY <1>1, <2>2
<1> HIDE DEF Rec
<1> QED BY <1>4, <1>5, <1>6

-----------------------------------------------------------------------------
(* What a step of the parser does to a request                             *)

(* The states before the headers are complete.                             *)
Heads == RequestLineStates \cup UrlStates \cup ValueStates \cup
  {"s_req_spaces_before_url", "s_header_field_start", "s_header_field", "s_headers_almost_done"}

(* The bytes before place at that are marked but not given to a callback.  *)
Since(m, at) == IF m = 0 THEN 0 ELSE at - m
Pending(marks, at) == Since(marks["header_field"], at) + Since(marks["header_value"], at)
                      + Since(marks["url"], at)
(* A byte that will be executed again is counted already.                  *)
Ahead(next) == IF next = "again" THEN 1 ELSE 0
Cost(callbacks) == IF callbacks = <<>> THEN 0 ELSE Len(callbacks[1].data)

Names == {"url", "header_field", "header_value", "headers_complete", "body", "message_complete"}
OneCall(callbacks) ==
  \/ callbacks = <<>>
  \/ \E c : /\ callbacks = <<c>> /\ c.on \in Names /\ c.data \in Text
            /\ c.on = "header_value" => parser.state \in ValueStates
(* A value is announced by the name of its header.                         *)
Announced(r, callbacks) ==
  \/ callbacks # <<>> /\ callbacks[1].on = "header_field"
  \/ /\ parser.state \in ValueStates
     /\ callbacks # <<>> => callbacks[1].on = "header_value"
Notifies(callbacks) ==
  callbacks # <<>> /\ callbacks[1].on \in {"headers_complete", "message_complete"}
Behind(marks, at) ==
  /\ marks["header_field"] <= at /\ marks["header_value"] <= at /\ marks["url"] <= at
Goes(r, next) == r.http_errno = "HPE_OK" /\ next # "out"

Turn(r, marks, callbacks, next, at) ==
  /\ Typed(r) /\ OneCall(callbacks) /\ next \in {"out", "byte", "again"}
  /\ r.http_errno = "HPE_OK" /\ r.state \in ValueStates => Announced(r, callbacks)
  /\ Goes(r, next) =>
       /\ r.state = "s_header_field" => marks["header_field"] # 0
       /\ Behind(marks, at)
  /\ parser.state \in Heads /\ ~Notifies(callbacks) =>
       /\ r.nread = IF go = "byte" /\ p <= Len(data) THEN parser.nread + 1 ELSE parser.nread
       /\ r.http_errno = "HPE_OK" => r.state \in Heads
       /\ Cost(callbacks) <= Pending(mark, p)
       /\ Goes(r, next) =>
            Pending(marks, at) + Ahead(next) + Cost(callbacks) <= Pending(mark, p) + 1

(* What the proofs below assume of the marks of a call.                    *)
Marked == /\ parser.state = "s_header_field" => mark["header_field"] # 0
          /\ Behind(mark, p)

(* While the head is read every byte that was not counted yet is counted   *)
(* once.                                                                   *)
LEMMA CountedHead ==
  ASSUME PInv, NEW S, At(S)
  PROVE  /\ parser.state \in Heads => Counted.nread = IF go = "byte" THEN parser.nread + 1 ELSE parser.nread
         /\ Counted.nread \in Nat /\ parser.nread \in Nat /\ p <= Len(data)
<1>1. Typed(parser) /\ Typed(Counted) /\ p \in 1..Len(data)
  BY AtByte
<1>2. parser.state \in Heads => PARSING_HEADER(parser.state)
  BY DEF Heads, PARSING_HEADER, BodyStates, ChunkDataStates, RequestLineStates, UrlStates, ValueStates
<1> QED BY <1>1, <1>2 DEF Counted, Typed, IsParser, Fields

(* A callback is given what was marked for it.                             *)
LEMMA DataOf ==
  ASSUME PInv, data \in Text, NEW marks \in MarkType, NEW f \in {"header_field", "header_value", "url", "body"},
         NEW end \in 1..(Len(data) + 1)
  PROVE  LET cbs == CALLBACK_DATA(marks, f, end)
         IN  \/ cbs = <<>> /\ marks[f] = 0
             \/ /\ cbs = <<[on |-> f, data |-> SubSeq(data, marks[f], end - 1)]>>
                /\ SubSeq(data, marks[f], end - 1) \in Text /\ marks[f] # 0
                /\ marks[f] <= end => Len(SubSeq(data, marks[f], end - 1)) = end - marks[f]
<1>1. marks[f] \in Nat
  BY DEF MarkType
<1>2. CASE marks[f] = 0
  BY <1>2 DEF CALLBACK_DATA
<1>3. CASE marks[f] # 0
  <2>1. end - 1 \in Nat /\ end - 1 <= Len(data) /\ Len(data) \in Nat
    BY DEF Text
  <2>2. SubSeq(data, marks[f], end - 1) \in Text
    BY <1>1, <1>3, <2>1, Piece
  <2>3. marks[f] <= end => Len(SubSeq(data, marks[f], end - 1)) = end - marks[f]
    BY <1>1, <1>3, <2>1 DEF Text
  <2> QED BY <1>3, <2>2, <2>3 DEF CALLBACK_DATA
<1> QED BY <1>2, <1>3

(* What is pending is a number when its marks are behind.                  *)
LEMMA PendingType ==
  ASSUME NEW marks \in MarkType, NEW at \in Nat
  PROVE  /\ Pending(marks, at) \in Int
         /\ Behind(marks, at) => Pending(marks, at) \in Nat
<1>1. /\ marks["header_field"] \in Nat /\ marks["header_value"] \in Nat /\ marks["url"] \in Nat
  BY DEF MarkType
<1>2. \A m \in Nat : Since(m, at) \in Int /\ (m <= at => Since(m, at) \in Nat)
  BY DEF Since
<1> QED BY <1>1, <1>2 DEF Pending, Behind

(* A step without a callback.                                              *)
LEMMA SilentTurn ==
  ASSUME PInv, NEW S, At(S), Marked, S \subseteq Heads, NEW r, Typed(r), r.nread = Counted.nread,
         r.http_errno = "HPE_OK" => /\ r.state \in Heads
                                    /\ r.state \in ValueStates => parser.state \in ValueStates,
         NEW marks \in MarkType, NEW at \in {p, p + 1}, NEW next \in {"byte", "again"},
         next = "again" <=> at = p,
         r.http_errno = "HPE_OK" =>
           /\ r.state = "s_header_field" => marks["header_field"] # 0
           /\ Behind(marks, at)
           /\ Pending(marks, p) <= Pending(mark, p)
           /\ Pending(marks, p + 1) <= Pending(mark, p) + 1
  PROVE  Turn(r, marks, <<>>, next, at)
<1>1. /\ p \in Nat /\ parser.state \in Heads
      /\ r.nread = IF go = "byte" /\ p <= Len(data) THEN parser.nread + 1 ELSE parser.nread
  BY AtByte, CountedHead
<1>2. mark \in MarkType
  BY AtByte
<1>3. Pending(mark, p) \in Nat /\ 0 <= Pending(mark, p)
  BY <1>1, <1>2, PendingType DEF Marked
<1>4. Pending(marks, p) \in Int /\ Pending(marks, p + 1) \in Int
  BY <1>1, PendingType
<1>5. Goes(r, next) => Pending(marks, at) + Ahead(next) <= Pending(mark, p) + 1
  <2>1. CASE next = "again" /\ at = p
    BY <1>3, <1>4, <2>1 DEF Goes, Ahead
  <2>2. CASE next = "byte" /\ at = p + 1
    BY <1>3, <1>4, <2>2 DEF Goes, Ahead
  <2>3. p # p + 1
    BY <1>1
  <2> QED BY <2>1, <2>2, <2>3
<1>6. OneCall(<<>>) /\ Cost(<<>>) = 0
  BY DEF OneCall, Cost
<1>7. Pending(marks, at) + Ahead(next) + Cost(<<>>) = Pending(marks, at) + Ahead(next)
  BY <1>4, <1>6 DEF Ahead
<1>8. r.state \in ValueStates /\ r.http_errno = "HPE_OK" => Announced(r, <<>>)
  BY DEF Announced
<1>9. Goes(r, next) => Pending(marks, at) + Ahead(next) + Cost(<<>>) <= Pending(mark, p) + 1
  BY <1>5, <1>7
<1>10. Cost(<<>>) <= Pending(mark, p)
  BY <1>3, <1>6
<1>11. Goes(r, next) => (r.state = "s_header_field" => marks["header_field"] # 0) /\ Behind(marks, at)
  BY DEF Goes
<1>12. next \in {"out", "byte", "again"}
  OBVIOUS
<1>13. r.http_errno = "HPE_OK" => r.state \in Heads
  OBVIOUS
<1> QED BY <1>1, <1>6, <1>8, <1>9, <1>10, <1>11, <1>12, <1>13, Zenon DEF Turn

(* The marks of the other callbacks are not set when one is.               *)
LEMMA OtherMarks ==
  ASSUME PInv, NEW f \in {"header_field", "header_value", "url"},
         parser.state \in Home[f] \/ (parser.state = "s_header_value_start" /\ f = "header_value"),
         go # "out"
  PROVE  /\ \A g \in DOMAIN NoMarks \ {f} : mark[g] = 0
         /\ \A at \in Nat : Pending(mark, at) = Since(mark[f], at) /\ Pending(Clear(f), at) = 0
         /\ Clear(f) \in MarkType /\ \A at \in Nat : Behind(Clear(f), at)
         /\ Clear(f)[f] = 0
<1>1. mark \in MarkType /\ Placed(parser, mark)
  BY DEF PInv
<1>2. DOMAIN NoMarks = {"header_field", "header_value", "url", "body"}
  BY DEF NoMarks
<1>3. \A g \in DOMAIN NoMarks \ {f} : parser.state \notin Home[g]
  BY <1>2 DEF Home, UrlStates, MarkedStates
<1>4. \A g \in DOMAIN NoMarks \ {f} : mark[g] = 0
  BY <1>1, <1>3 DEF Placed
<1>5. \A g \in {"header_field", "header_value", "url"} \ {f} : mark[g] = 0
  BY <1>2, <1>4
<1>6. /\ Clear(f) \in MarkType /\ Clear(f)["header_field"] = 0 /\ Clear(f)["header_value"] = 0
      /\ Clear(f)["url"] = 0 /\ Clear(f)[f] = 0
  BY <1>1, <1>5 DEF Clear, MarkType
<1>7. ASSUME NEW at \in Nat
      PROVE  Pending(mark, at) = Since(mark[f], at) /\ Pending(Clear(f), at) = 0 /\ Behind(Clear(f), at)
  <2>1. Since(0, at) = 0 /\ \A g \in {"header_field", "header_value", "url"} : Since(mark[g], at) \in Int
    BY <1>1 DEF Since, MarkType
  <2>2. Pending(Clear(f), at) = 0
    BY <1>6, <2>1 DEF Pending
  <2>3. Behind(Clear(f), at)
    BY <1>6, <1>7 DEF Behind
  <2>4. CASE f = "header_field"
    <3>1. mark["header_value"] = 0 /\ mark["url"] = 0
      BY <1>5, <2>4
    <3>2. Since(mark["header_value"], at) = 0 /\ Since(mark["url"], at) = 0 /\ Since(mark["header_field"], at) \in Int
      BY <2>1, <3>1
    <3> QED BY <2>2, <2>3, <2>4, <3>2 DEF Pending
  <2>5. CASE f = "header_value"
    <3>1. mark["header_field"] = 0 /\ mark["url"] = 0
      BY <1>5, <2>5
    <3>2. Since(mark["header_field"], at) = 0 /\ Since(mark["url"], at) = 0 /\ Since(mark["header_value"], at) \in Int
      BY <2>1, <3>1
    <3> QED BY <2>2, <2>3, <2>5, <3>2 DEF Pending
  <2>6. CASE f = "url"
    <3>1. mark["header_field"] = 0 /\ mark["header_value"] = 0
      BY <1>5, <2>6
    <3>2. Since(mark["header_field"], at) = 0 /\ Since(mark["header_value"], at) = 0 /\ Since(mark["url"], at) \in Int
      BY <2>1, <3>1
    <3> QED BY <2>2, <2>3, <2>6, <3>2 DEF Pending
  <2> QED BY <2>2, <2>3, <2>4, <2>5, <2>6
<1> QED BY <1>4, <1>6, <1>7

(* A step that gives what is marked to its callback.                       *)
LEMMA FlushTurn ==
  ASSUME PInv, NEW S, At(S), Marked, S \subseteq Heads, data \in Text,
         NEW f \in {"header_field", "header_value", "url"},
         parser.state \in Home[f] \/ (parser.state = "s_header_value_start" /\ f = "header_value"),
         NEW marks \in MarkType,
         marks[f] # 0 => marks[f] <= p /\ p - marks[f] <= Pending(mark, p),
         NEW r, Typed(r), r.nread = Counted.nread,
         r.http_errno = "HPE_OK" => /\ r.state \in Heads \ {"s_header_field"}
                                    /\ r.state \in ValueStates => f # "url",
         f = "header_field" => marks[f] # 0,
         NEW at \in {p, p + 1}, NEW next \in {"byte", "again"}, next = "again" <=> at = p
  PROVE  Turn(r, Clear(f), CALLBACK_DATA(marks, f, p), next, at)
<1> DEFINE cbs == CALLBACK_DATA(marks, f, p)
<1>1. /\ p \in Nat /\ p \in 1..(Len(data) + 1) /\ parser.state \in Heads /\ mark \in MarkType
      /\ r.nread = IF go = "byte" /\ p <= Len(data) THEN parser.nread + 1 ELSE parser.nread
  <2>1. p \in 1..Len(data) /\ Len(data) \in Nat /\ parser.state \in Heads /\ mark \in MarkType
    BY AtByte
  <2> QED BY <2>1, CountedHead
<1>2. Pending(mark, p) \in Nat /\ marks[f] \in Nat
  BY <1>1, PendingType DEF Marked, MarkType
<1>3. /\ \A t \in Nat : Pending(Clear(f), t) = 0 /\ Behind(Clear(f), t)
      /\ Clear(f)[f] = 0
  <2>1. go # "out"
    BY DEF At
  <2> QED BY <2>1, OtherMarks
<1>4. \/ cbs = <<>> /\ marks[f] = 0 /\ Cost(cbs) = 0
      \/ /\ \E c : cbs = <<c>> /\ c.on = f /\ c.data \in Text /\ marks[f] # 0
                   /\ Len(c.data) = p - marks[f]
  <2> DEFINE s == SubSeq(data, marks[f], p - 1)
             c == [on |-> f, data |-> s]
  <2>1. \/ cbs = <<>> /\ marks[f] = 0
        \/ /\ cbs = <<c>> /\ s \in Text /\ marks[f] # 0
           /\ marks[f] <= p => Len(s) = p - marks[f]
    <3>1. f \in {"header_field", "header_value", "url", "body"}
      OBVIOUS
    <3> HIDE DEF s, cbs
    <3>2. \/ CALLBACK_DATA(marks, f, p) = <<>> /\ marks[f] = 0
          \/ /\ CALLBACK_DATA(marks, f, p) = <<[on |-> f, data |-> SubSeq(data, marks[f], p - 1)]>>
             /\ SubSeq(data, marks[f], p - 1) \in Text /\ marks[f] # 0
             /\ marks[f] <= p => Len(SubSeq(data, marks[f], p - 1)) = p - marks[f]
      BY <1>1, <3>1, DataOf, ZenonT(30)
    <3> QED BY <3>2 DEF s, cbs
  <2> HIDE DEF s, cbs
  <2>2. CASE cbs = <<>> /\ marks[f] = 0
    BY <2>2 DEF Cost
  <2>3. CASE cbs = <<c>> /\ s \in Text /\ marks[f] # 0 /\ (marks[f] <= p => Len(s) = p - marks[f])
    <3>1. c.on = f /\ c.data = s /\ Len(s) = p - marks[f]
      BY <2>3
    <3> HIDE DEF c
    <3> QED BY <2>3, <3>1
  <2> QED BY <2>1, <2>2, <2>3
<1>5. Cost(cbs) \in Nat /\ Cost(cbs) <= Pending(mark, p)
  <2>1. CASE \E c : cbs = <<c>> /\ c.on = f /\ c.data \in Text /\ marks[f] # 0
                   /\ Len(c.data) = p - marks[f]
    <3>1. PICK c : cbs = <<c>> /\ c.data \in Text /\ marks[f] # 0 /\ Len(c.data) = p - marks[f]
      BY <2>1
    <3> HIDE DEF cbs
    <3>2. Cost(cbs) = p - marks[f]
      BY <3>1 DEF Cost
    <3> QED BY <1>1, <1>2, <3>1, <3>2
  <2> QED BY <1>2, <1>4, <2>1
<1>6. f = "header_value" => parser.state \in ValueStates
  BY DEF Home, ValueStates
<1>7. OneCall(cbs)
  BY <1>4, <1>6 DEF OneCall, Names
<1>8. r.http_errno = "HPE_OK" /\ r.state \in ValueStates => Announced(r, cbs)
  <2> SUFFICES ASSUME r.http_errno = "HPE_OK", r.state \in ValueStates PROVE Announced(r, cbs)
    OBVIOUS
  <2>1. CASE cbs = <<>> /\ marks[f] = 0
    <3>1. f = "header_value"
      BY <2>1
    <3> HIDE DEF cbs
    <3> QED BY <1>6, <2>1, <3>1 DEF Announced
  <2>2. CASE \E c : cbs = <<c>> /\ c.on = f
    <3> HIDE DEF cbs
    <3>1. cbs # <<>> /\ cbs[1].on = f
      BY <2>2
    <3> QED BY <1>6, <3>1 DEF Announced
  <2> QED BY <1>4, <2>1, <2>2
<1>9. Goes(r, next) => Pending(Clear(f), at) + Ahead(next) + Cost(cbs) <= Pending(mark, p) + 1
  <2>1. Pending(Clear(f), at) = 0 /\ Ahead(next) \in 0..1
    BY <1>1, <1>3 DEF Ahead
  <2> HIDE DEF cbs
  <2> QED BY <1>2, <1>5, <2>1
<1>10. Goes(r, next) => (r.state = "s_header_field" => Clear(f)["header_field"] # 0) /\ Behind(Clear(f), at)
  <2>1. at \in Nat
    BY <1>1
  <2> QED BY <1>3, <2>1 DEF Goes
<1>11. next \in {"out", "byte", "again"}
  OBVIOUS
<1>12. r.http_errno = "HPE_OK" => r.state \in Heads
  OBVIOUS
<1> HIDE DEF cbs
<1> QED BY <1>1, <1>5, <1>7, <1>8, <1>9, <1>10, <1>11, <1>12, Zenon DEF Turn, cbs

Turns == \E r, marks, callbacks, next, at : \E failed \in BOOLEAN :
           Step(r, marks, callbacks, next, at, failed) /\ Turn(r, marks, callbacks, next, at)

(* The marks are behind a byte that is not marked itself.                  *)
LEMMA MarkStays ==
  ASSUME PInv, NEW S, At(S), Marked
  PROVE  /\ mark \in MarkType /\ p \in Nat /\ Behind(mark, p) /\ Behind(mark, p + 1)
         /\ Pending(mark, p) <= Pending(mark, p) /\ Pending(mark, p) \in Nat
         /\ Pending(mark, p + 1) <= Pending(mark, p) + 1
<1>1. mark \in MarkType /\ p \in Nat /\ p \in 1..Len(data) /\ Placed(parser, mark) /\ go # "out"
  BY AtByte DEF At
<1>2. Behind(mark, p) /\ Behind(mark, p + 1)
  BY <1>1 DEF Marked, Behind, MarkType
<1>3. Pending(mark, p) \in Nat
  BY <1>1, <1>2, PendingType
<1>4. \A f, g \in {"header_field", "header_value", "url"} : mark[f] # 0 /\ mark[g] # 0 => f = g
  <2>1. DOMAIN NoMarks = {"header_field", "header_value", "url", "body"}
    BY DEF NoMarks
  <2>2. \A f, g \in {"header_field", "header_value", "url"} : f # g => Home[f] \cap Home[g] = {}
    BY DEF Home, UrlStates, MarkedStates
  <2> QED BY <1>1, <2>1, <2>2 DEF Placed
<1>5. Pending(mark, p + 1) <= Pending(mark, p) + 1
  <2>1. /\ mark["header_field"] = 0 \/ mark["header_value"] = 0
        /\ mark["header_field"] = 0 \/ mark["url"] = 0
        /\ mark["header_value"] = 0 \/ mark["url"] = 0
    BY <1>4
  <2>2. mark["header_field"] \in Nat /\ mark["header_value"] \in Nat /\ mark["url"] \in Nat
    BY <1>1 DEF MarkType
  <2>3. \A a, b, c, n \in Nat : (a = 0 \/ b = 0) /\ (a = 0 \/ c = 0) /\ (b = 0 \/ c = 0) =>
          Since(a, n + 1) + Since(b, n + 1) + Since(c, n + 1)
            <= Since(a, n) + Since(b, n) + Since(c, n) + 1
    BY DEF Since
  <2> QED BY <1>1, <2>1, <2>2, <2>3 DEF Pending
<1> QED BY <1>1, <1>2, <1>3, <1>5

(* A step that marks a place, from a state in which none is marked.        *)
LEMMA MarkPlace ==
  ASSUME PInv, NEW S, At(S), S \subseteq Unmarking, NEW f \in {"header_field", "header_value", "url"}
  PROVE  /\ MARK(f) \in MarkType /\ MARK(f)[f] = p /\ p \in Nat /\ p # 0 /\ mark[f] = 0
         /\ Pending(mark, p) = 0
         /\ Behind(MARK(f), p + 1) /\ Pending(MARK(f), p) = 0 /\ Pending(MARK(f), p + 1) = 1
<1>1. mark \in MarkType /\ p \in Nat /\ p # 0 /\ Placed(parser, mark) /\ parser.state \in Unmarking
  BY AtByte
<1>2. mark["header_field"] = 0 /\ mark["header_value"] = 0 /\ mark["url"] = 0
  BY <1>1, NothingMarked DEF NoMarks
<1>3. /\ MARK(f) \in MarkType /\ MARK(f)[f] = p
      /\ \A g \in {"header_field", "header_value", "url"} \ {f} : MARK(f)[g] = 0
  BY <1>1, <1>2 DEF MARK, MarkType
<1>4. Since(0, p) = 0 /\ Since(0, p + 1) = 0 /\ Since(p, p + 1) = 1 /\ Since(p, p) = 0
  BY <1>1 DEF Since
<1>5. Pending(mark, p) = 0
  BY <1>2, <1>4 DEF Pending
<1>6. \/ MARK(f)["header_field"] = p /\ MARK(f)["header_value"] = 0 /\ MARK(f)["url"] = 0
      \/ MARK(f)["header_field"] = 0 /\ MARK(f)["header_value"] = p /\ MARK(f)["url"] = 0
      \/ MARK(f)["header_field"] = 0 /\ MARK(f)["header_value"] = 0 /\ MARK(f)["url"] = p
  <2>1. CASE f = "header_field"
    BY <1>3, <2>1
  <2>2. CASE f = "header_value"
    BY <1>3, <2>2
  <2>3. CASE f = "url"
    BY <1>3, <2>3
  <2> QED BY <2>1, <2>2, <2>3
<1> DEFINE m == MARK(f)
<1> HIDE DEF m
<1>7. \/ m["header_field"] = p /\ m["header_value"] = 0 /\ m["url"] = 0
      \/ m["header_field"] = 0 /\ m["header_value"] = p /\ m["url"] = 0
      \/ m["header_field"] = 0 /\ m["header_value"] = 0 /\ m["url"] = p
  BY <1>6 DEF m
<1>8. Behind(m, p + 1) /\ Pending(m, p) = 0 /\ Pending(m, p + 1) = 1
  BY <1>1, <1>4, <1>7 DEF Behind, Pending
<1> QED BY <1>1, <1>2, <1>3, <1>5, <1>8 DEF m

LineStates == RequestLineStates \cup {"s_req_spaces_before_url", "s_header_field_start"}
LEMMA LineStatesAre ==
  /\ LineStates \subseteq Heads /\ "s_header_field" \notin LineStates
  /\ LineStates \cap ValueStates = {} /\ UrlStates \subseteq Heads
  /\ UrlStates \cap ValueStates = {} /\ "s_header_field" \notin UrlStates
BY DEF LineStates, RequestLineStates, Heads, ValueStates, UrlStates

(* What the bytes of the request line make of the state.                   *)
LEMMA StartReqGoes ==
  ASSUME NEW r, Typed(r), r.state = "s_start_req", NEW c
  PROVE  StartReq(r, c).state \in LineStates /\ StartReq(r, c).nread = r.nread
<1> DEFINE fresh == [r EXCEPT !.flags = {}, !.content_length = ULLONG_MAX]
<1>1. IsParser(fresh) /\ fresh.state = r.state /\ fresh.nread = r.nread
  BY DEF Typed, IsParser, Fields
<1> HIDE DEF fresh
<1>2. \A m : LET new == [fresh EXCEPT !.method = m, !.index = 1, !.state = "s_req_method"]
             IN  new.nread = r.nread /\ new.state = "s_req_method"
  BY <1>1 DEF IsParser, Fields
<1>3. /\ Fail(fresh, "HPE_INVALID_METHOD").nread = r.nread
      /\ Fail(fresh, "HPE_INVALID_METHOD").state = r.state
  BY <1>1 DEF Fail, IsParser, Fields
<1>4. \/ StartReq(r, c) = r
      \/ StartReq(r, c) = Fail(fresh, "HPE_INVALID_METHOD")
      \/ \E m : StartReq(r, c) = [fresh EXCEPT !.method = m, !.index = 1, !.state = "s_req_method"]
  BY DEF StartReq, fresh
<1>5. "s_start_req" \in LineStates /\ "s_req_method" \in LineStates
  BY DEF LineStates, RequestLineStates
<1>6. CASE \E m : StartReq(r, c) = [fresh EXCEPT !.method = m, !.index = 1, !.state = "s_req_method"]
  BY <1>2, <1>5, <1>6
<1> QED BY <1>3, <1>4, <1>5, <1>6

LEMMA ReqMethodGoes ==
  ASSUME NEW r, Typed(r), r.state = "s_req_method", NEW c
  PROVE  ReqMethod(r, c).state \in LineStates /\ ReqMethod(r, c).nread = r.nread
BY DEF ReqMethod, Fail, Typed, IsParser, Fields, LineStates, RequestLineStates

LEMMA VersionGoes ==
  ASSUME NEW r, Typed(r), r.state \in RequestLineStates, NEW c
  PROVE  Version(r, c).state \in LineStates /\ Version(r, c).nread = r.nread
BY DEF Version, Fail, Typed, IsParser, Fields, LineStates, RequestLineStates

LEMMA SoundNext ==
  ASSUME PInv', NEW r, NEW marks, NEW callbacks, NEW next, NEW at,
         Step(r, marks, callbacks, next, at, FALSE)
  PROVE  Typed(r)
<1>1. Typed(parser')
  BY DEF PInv, Sound, Typed, IsParser
<1>2. parser' = r
  BY DEF Step, Return
<1> QED BY <1>1, <1>2

(* Each group of states Turns: the request line.                           *)
LEMMA RequestLineTurns ==
  ASSUME PInv, Marked, RequestLine
  PROVE  Turns
<1> DEFINE r == CASE parser.state = "s_start_req" -> StartReq(Counted, ch)
                  [] parser.state = "s_req_method" -> ReqMethod(Counted, ch)
                  [] OTHER -> Version(Counted, ch)
<1>1. At(RequestLineStates) /\ Step(r, mark, <<>>, "byte", p + 1, FALSE)
  BY DEF RequestLine, Byte
<1>2. Typed(Counted) /\ Counted.state = parser.state /\ parser.state \in RequestLineStates /\ p \in Nat
  BY <1>1, AtByte
<1>3. r.state \in LineStates /\ r.nread = Counted.nread
  BY <1>2, StartReqGoes, ReqMethodGoes, VersionGoes
<1>4. Typed(r)
  BY <1>1, RequestLineKeeps, SoundNext
<1> HIDE DEF r
<1>5. RequestLineStates \subseteq Heads
  BY LineStatesAre DEF LineStates
<1>6. Turn(r, mark, <<>>, "byte", p + 1)
  <2>1. r.state \in Heads /\ r.state \notin ValueStates /\ r.state # "s_header_field"
    BY <1>3, LineStatesAre
  <2>2. p + 1 \in {p, p + 1} /\ p + 1 # p
    BY <1>2
  <2> QED BY <1>1, <1>3, <1>4, <1>5, <2>1, <2>2, MarkStays, SilentTurn
<1> QED BY <1>1, <1>6 DEF Turns

(* The url.                                                                *)
LEMMA UrlGoes ==
  ASSUME NEW r, Typed(r), NEW c
  PROVE  Url(r, c).nread = r.nread
<1>1. \A s : /\ [r EXCEPT !.state = s].nread = r.nread
             /\ Fail([r EXCEPT !.state = s], "HPE_INVALID_URL").nread = r.nread
  BY DEF Typed, IsParser, Fields, Fail
<1> QED BY <1>1 DEF Url

LEMMA UrlStartTurns ==
  ASSUME PInv, Marked, UrlStart
  PROVE  Turns
<1>1. At({"s_req_spaces_before_url"}) /\ {"s_req_spaces_before_url"} \subseteq Heads
      /\ {"s_req_spaces_before_url"} \subseteq Unmarking
  BY DEF UrlStart, Heads, Unmarking, Plain, UrlStates
<1>2. /\ parser.state = "s_req_spaces_before_url" /\ Typed(Counted)
      /\ Counted.state = parser.state /\ Counted.http_errno = "HPE_OK" /\ p \in Nat
      /\ p + 1 \in {p, p + 1} /\ p + 1 # p
  BY <1>1, AtByte
<1>3. CASE ch = SP
  <2>1. Step(Counted, mark, <<>>, "byte", p + 1, FALSE)
    BY <1>3 DEF UrlStart, Byte
  <2>2. "s_req_spaces_before_url" \notin ValueStates /\ "s_req_spaces_before_url" \in Heads
    BY DEF ValueStates, Heads
  <2>3. Turn(Counted, mark, <<>>, "byte", p + 1)
    BY <1>1, <1>2, <2>2, MarkStays, SilentTurn
  <2> QED BY <2>1, <2>3 DEF Turns
<1>4. CASE ch # SP
  <2> DEFINE r == Url(Counted, ch)
  <2>1. Step(r, MARK("url"), <<>>, "byte", p + 1, FALSE)
    BY <1>4 DEF UrlStart
  <2>2. Typed(r) /\ r.nread = Counted.nread /\ (r.http_errno = "HPE_OK" => r.state \in UrlStates)
    BY <1>2, UrlTyped, UrlGoes
  <2> HIDE DEF r
  <2>3. r.http_errno = "HPE_OK" =>
          r.state \in Heads /\ r.state \notin ValueStates /\ r.state # "s_header_field"
    BY <2>2, LineStatesAre
  <2>4. /\ MARK("url") \in MarkType /\ Behind(MARK("url"), p + 1) /\ Pending(mark, p) = 0
        /\ Pending(MARK("url"), p) = 0 /\ Pending(MARK("url"), p + 1) = 1
    BY <1>1, MarkPlace
  <2>5. Turn(r, MARK("url"), <<>>, "byte", p + 1)
    <3> DEFINE m == MARK("url")
    <3>1. /\ m \in MarkType /\ Behind(m, p + 1) /\ Pending(m, p) <= Pending(mark, p)
          /\ Pending(m, p + 1) <= Pending(mark, p) + 1
      BY <2>4
    <3> HIDE DEF m
    <3>2. Turn(r, m, <<>>, "byte", p + 1)
      BY <1>1, <1>2, <2>2, <2>3, <3>1, SilentTurn
    <3> QED BY <3>2 DEF m
  <2> QED BY <2>1, <2>5 DEF Turns
<1> QED BY <1>3, <1>4

LEMMA UrlByteTurns ==
  ASSUME PInv, Marked, NEW fail \in BOOLEAN, UrlByte(fail), data \in Text
  PROVE  Turns
<1>1. At(UrlStates) /\ Home["url"] = UrlStates /\ UrlStates \subseteq Heads
  BY LineStatesAre DEF UrlByte, Home
<1>2. /\ parser.state \in UrlStates /\ Typed(Counted) /\ mark \in MarkType
      /\ Counted.state = parser.state /\ Counted.http_errno = "HPE_OK" /\ p \in Nat
      /\ p + 1 \in {p, p + 1} /\ p + 1 # p /\ go # "out"
  BY <1>1, AtByte DEF At
<1> DEFINE ends == ch \in {SP, CR, LF} /\ parser.state \notin {"s_req_schema", "s_req_schema_slash",
                     "s_req_schema_slash_slash", "s_req_server_start"}
<1>3. CASE ends
  <2> DEFINE s == CASE ch = SP -> "s_req_http_start" [] ch = CR -> "s_req_line_almost_done"
                    [] ch = LF -> "s_header_field_start"
             r == [Counted EXCEPT !.state = s]
  <2>1. Step(r, Clear("url"), CALLBACK_DATA(mark, "url", p), "byte", p + 1, fail)
    BY <1>3 DEF UrlByte
  <2>2. s \in LineStates
    BY <1>3 DEF LineStates, RequestLineStates
  <2> HIDE DEF s
  <2>3. Typed(r) /\ r.state = s /\ r.nread = Counted.nread
    BY <1>2 DEF Typed, IsParser, Fields
  <2> HIDE DEF r
  <2>4. r.state \in Heads \ {"s_header_field"} /\ r.state \notin ValueStates
    BY <2>2, <2>3, LineStatesAre
  <2>5. mark["url"] # 0 => mark["url"] <= p /\ p - mark["url"] <= Pending(mark, p)
    <3>1. Pending(mark, p) = Since(mark["url"], p) /\ mark["url"] <= p /\ mark["url"] \in Nat
      BY <1>1, <1>2, OtherMarks DEF Marked, Behind, MarkType
    <3> QED BY <1>2, <3>1 DEF Since
  <2>6. Turn(r, Clear("url"), CALLBACK_DATA(mark, "url", p), "byte", p + 1)
    BY <1>1, <1>2, <2>3, <2>4, <2>5, FlushTurn
  <2> QED BY <2>1, <2>6 DEF Turns
<1>4. CASE ~ends
  <2> DEFINE r == Url(Counted, ch)
  <2>1. Step(r, mark, <<>>, "byte", p + 1, FALSE)
    BY <1>4 DEF UrlByte, Byte
  <2>2. Typed(r) /\ r.nread = Counted.nread /\ (r.http_errno = "HPE_OK" => r.state \in UrlStates)
    BY <1>2, UrlTyped, UrlGoes
  <2> HIDE DEF r
  <2>3. r.http_errno = "HPE_OK" =>
          r.state \in Heads /\ r.state \notin ValueStates /\ r.state # "s_header_field"
    BY <2>2, LineStatesAre
  <2>4. Turn(r, mark, <<>>, "byte", p + 1)
    BY <1>1, <1>2, <2>2, <2>3, MarkStays, SilentTurn
  <2> QED BY <2>1, <2>4 DEF Turns
<1> QED BY <1>3, <1>4

(* Names, values and ends of headers.                                      *)
LEMMA HeaderFieldStartTurns ==
  ASSUME PInv, Marked, HeaderFieldStart
  PROVE  Turns
<1>1. At({"s_header_field_start"}) /\ {"s_header_field_start"} \subseteq Heads
      /\ {"s_header_field_start"} \subseteq Unmarking
  BY DEF HeaderFieldStart, Heads, Unmarking, Plain, UrlStates
<1>2. /\ parser.state = "s_header_field_start" /\ Typed(Counted)
      /\ Counted.state = parser.state /\ p \in Nat
      /\ p + 1 \in {p, p + 1} /\ p \in {p, p + 1} /\ p + 1 # p
  BY <1>1, AtByte
<1>3. CASE ch \in {CR, LF}
  <2> DEFINE r == [Counted EXCEPT !.state = "s_headers_almost_done"]
  <2>1. \/ Step(r, mark, <<>>, "again", p, FALSE)
        \/ Step(r, mark, <<>>, "byte", p + 1, FALSE)
    BY <1>3 DEF HeaderFieldStart, Byte, CR, LF
  <2>2. Typed(r) /\ r.state = "s_headers_almost_done" /\ r.nread = Counted.nread
    BY <1>2 DEF Typed, IsParser, Fields
  <2> HIDE DEF r
  <2>3. r.state \in Heads /\ r.state \notin ValueStates /\ r.state # "s_header_field"
    BY <2>2 DEF Heads, ValueStates
  <2>4. Turn(r, mark, <<>>, "again", p)
    BY <1>1, <1>2, <2>2, <2>3, MarkStays, SilentTurn
  <2>5. Turn(r, mark, <<>>, "byte", p + 1)
    BY <1>1, <1>2, <2>2, <2>3, MarkStays, SilentTurn
  <2> QED BY <2>1, <2>4, <2>5 DEF Turns
<1>4. CASE ch \notin {CR, LF}
  <2> DEFINE r == FieldStart(Counted, ch)
             m == MARK("header_field")
  <2>1. Step(r, m, <<>>, "byte", p + 1, FALSE)
    BY <1>4 DEF HeaderFieldStart
  <2>2. Typed(r)
    <3> HIDE DEF r, m
    <3>1. PInv'
      BY HeaderFieldStartKeeps
    <3> QED BY <2>1, <3>1, SoundNext
  <2>3. r.nread = Counted.nread /\ r.state \in {"s_header_field", "s_header_field_start"}
    <3> DEFINE h == IF <<LOWER(ch)>> \in Starts(FieldWords) THEN <<LOWER(ch)>> ELSE h_general
    <3>1. \/ r = [Counted EXCEPT !.state = "s_header_field", !.index = 0, !.header_state = h]
          \/ r = Fail(Counted, "HPE_INVALID_HEADER_TOKEN")
      BY DEF FieldStart
    <3> HIDE DEF h, r
    <3> QED BY <1>2, <3>1 DEF Fail, Typed, IsParser, Fields
  <2> HIDE DEF r
  <2>4. r.state \in Heads /\ r.state \notin ValueStates
    BY <2>3 DEF Heads, ValueStates
  <2>5. /\ m \in MarkType /\ Behind(m, p + 1) /\ m["header_field"] # 0
        /\ Pending(m, p) <= Pending(mark, p) /\ Pending(m, p + 1) <= Pending(mark, p) + 1
    <3>1. "header_field" \in {"header_field", "header_value", "url"}
      OBVIOUS
    <3>2. /\ m \in MarkType /\ Behind(m, p + 1) /\ m["header_field"] = p /\ p # 0
          /\ Pending(m, p) = 0 /\ Pending(mark, p) = 0 /\ Pending(m, p + 1) = 1
      BY <1>1, <3>1, MarkPlace
    <3> QED BY <3>2
  <2> HIDE DEF m
  <2>6. Turn(r, m, <<>>, "byte", p + 1)
    BY <1>1, <1>2, <2>2, <2>3, <2>4, <2>5, SilentTurn
  <2> QED BY <2>1, <2>6 DEF Turns
<1> QED BY <1>3, <1>4

LEMMA HeaderFieldTurns ==
  ASSUME PInv, Marked, NEW fail \in BOOLEAN, HeaderField(fail), data \in Text
  PROVE  Turns
<1>1. At({"s_header_field"}) /\ Home["header_field"] = {"s_header_field"}
      /\ {"s_header_field"} \subseteq Heads
  BY DEF HeaderField, Home, Heads
<1>2. /\ parser.state = "s_header_field" /\ Typed(Counted) /\ mark \in MarkType
      /\ Counted.state = parser.state /\ p \in Nat
      /\ p + 1 \in {p, p + 1} /\ p + 1 # p /\ go # "out"
  BY <1>1, AtByte DEF At
<1>3. CASE ch \in {":", CR, LF}
  <2> DEFINE s == CASE ch = ":" -> "s_header_value_start" [] ch = CR -> "s_header_almost_done"
                    [] ch = LF -> "s_header_field_start"
             r == [Counted EXCEPT !.state = s]
  <2>1. Step(r, Clear("header_field"), CALLBACK_DATA(mark, "header_field", p), "byte", p + 1, fail)
    BY <1>3 DEF HeaderField
  <2>2. s \in Heads \ {"s_header_field"}
    BY <1>3 DEF Heads, ValueStates
  <2> HIDE DEF s
  <2>3. Typed(r) /\ r.state = s /\ r.nread = Counted.nread
    BY <1>2 DEF Typed, IsParser, Fields
  <2> HIDE DEF r
  <2>4. /\ mark["header_field"] # 0 /\ mark["header_field"] <= p
        /\ p - mark["header_field"] <= Pending(mark, p)
    <3>1. /\ Pending(mark, p) = Since(mark["header_field"], p) /\ mark["header_field"] <= p
          /\ mark["header_field"] \in Nat /\ mark["header_field"] # 0
      BY <1>1, <1>2, OtherMarks DEF Marked, Behind, MarkType
    <3> QED BY <1>2, <3>1 DEF Since
  <2>5. Turn(r, Clear("header_field"), CALLBACK_DATA(mark, "header_field", p), "byte", p + 1)
    BY <1>1, <1>2, <2>2, <2>3, <2>4, FlushTurn
  <2> QED BY <2>1, <2>5 DEF Turns
<1>4. CASE ch \notin {":", CR, LF}
  <2> DEFINE r == Field(Counted, ch)
  <2>1. Step(r, mark, <<>>, "byte", p + 1, FALSE)
    BY <1>4 DEF HeaderField, Byte
  <2>2. Typed(r)
    <3> HIDE DEF r
    <3>1. PInv'
      BY HeaderFieldKeeps
    <3> QED BY <2>1, <3>1, SoundNext
  <2>3. r.nread = Counted.nread /\ r.state = "s_header_field"
    <3> DEFINE h == Match(Counted.header_state, LOWER(ch), FieldWords)
    <3>1. \/ r = [Counted EXCEPT !.header_state = h]
          \/ r = Fail(Counted, "HPE_INVALID_HEADER_TOKEN")
      BY DEF Field
    <3> HIDE DEF h, r
    <3> QED BY <1>2, <3>1 DEF Fail, Typed, IsParser, Fields
  <2> HIDE DEF r
  <2>4. r.state \in Heads /\ r.state \notin ValueStates /\ mark["header_field"] # 0
    BY <1>2, <2>3 DEF Heads, ValueStates, Marked
  <2>5. Turn(r, mark, <<>>, "byte", p + 1)
    BY <1>1, <1>2, <2>2, <2>3, <2>4, MarkStays, SilentTurn
  <2> QED BY <2>1, <2>5 DEF Turns
<1> QED BY <1>3, <1>4

LEMMA HeaderValueStartTurns ==
  ASSUME PInv, Marked, NEW fail \in BOOLEAN, HeaderValueStart(fail), data \in Text
  PROVE  Turns
<1>1. At({"s_header_value_start"}) /\ {"s_header_value_start"} \subseteq Heads
      /\ {"s_header_value_start"} \subseteq Unmarking
  BY DEF HeaderValueStart, Heads, ValueStates, Unmarking, Plain, UrlStates
<1>2. /\ parser.state = "s_header_value_start" /\ parser.state \in ValueStates /\ Typed(Counted)
      /\ Counted.state = parser.state /\ Counted.http_errno = "HPE_OK" /\ p \in Nat
      /\ p + 1 \in {p, p + 1} /\ p + 1 # p /\ go # "out"
  BY <1>1, AtByte DEF ValueStates, At
<1> DEFINE m == MARK("header_value")
<1>3. /\ m \in MarkType /\ Behind(m, p + 1) /\ m["header_value"] = p /\ p # 0
      /\ Pending(m, p) = 0 /\ Pending(mark, p) = 0 /\ Pending(m, p + 1) = 1
  <2>1. "header_value" \in {"header_field", "header_value", "url"}
    OBVIOUS
  <2> QED BY <1>1, <2>1, MarkPlace
<1>4. CASE ch \in {SP, "TAB"}
  <2>1. Step(Counted, mark, <<>>, "byte", p + 1, FALSE)
    BY <1>4 DEF HeaderValueStart, Byte, SP, CR, LF
  <2>2. Counted.state \in Heads /\ Counted.state # "s_header_field"
    BY <1>1, <1>2
  <2>3. Turn(Counted, mark, <<>>, "byte", p + 1)
    BY <1>1, <1>2, <2>2, MarkStays, SilentTurn
  <2> QED BY <2>1, <2>3 DEF Turns
<1>5. CASE ch \in {CR, LF}
  <2> DEFINE h == IF ch = CR THEN h_general ELSE Counted.header_state
             s == IF ch = CR THEN "s_header_almost_done" ELSE "s_header_field_start"
             r == [Counted EXCEPT !.index = 0, !.header_state = h, !.state = s]
  <2>1. Step(r, Clear("header_value"), CALLBACK_DATA(m, "header_value", p), "byte", p + 1, fail)
    BY <1>5 DEF HeaderValueStart, SP, CR, LF
  <2>2. s \in Heads \ {"s_header_field"}
    BY DEF Heads, ValueStates
  <2> HIDE DEF s, h
  <2>3. Typed(r) /\ r.state = s /\ r.nread = Counted.nread
    BY <1>2 DEF Typed, IsParser, Fields
  <2> HIDE DEF r, m
  <2>4. m["header_value"] <= p /\ p - m["header_value"] <= Pending(mark, p)
    BY <1>2, <1>3
  <2>5. Turn(r, Clear("header_value"), CALLBACK_DATA(m, "header_value", p), "byte", p + 1)
    BY <1>1, <1>2, <1>3, <2>2, <2>3, <2>4, FlushTurn
  <2> QED BY <2>1, <2>5 DEF Turns
<1>6. CASE ch \notin {SP, "TAB", CR, LF}
  <2> DEFINE r == ValueStart(Counted, ch)
  <2>1. Step(r, m, <<>>, "byte", p + 1, FALSE)
    BY <1>6 DEF HeaderValueStart
  <2>2. Typed(r) /\ r.state = "s_header_value"
    BY <1>2, ValueStartSound DEF Sound
  <2>3. r.nread = Counted.nread
    BY <1>2 DEF ValueStart, Fail, Typed, IsParser, Fields
  <2> HIDE DEF r, m
  <2>4. r.state \in Heads /\ r.state # "s_header_field"
    BY <2>2 DEF Heads, ValueStates
  <2>5. Pending(m, p) <= Pending(mark, p) /\ Pending(m, p + 1) <= Pending(mark, p) + 1
    BY <1>3
  <2>6. Turn(r, m, <<>>, "byte", p + 1)
    BY <1>1, <1>2, <1>3, <2>2, <2>3, <2>4, <2>5, SilentTurn
  <2> QED BY <2>1, <2>6 DEF Turns
<1> QED BY <1>4, <1>5, <1>6

LEMMA HeaderValueTurns ==
  ASSUME PInv, Marked, NEW fail \in BOOLEAN, HeaderValue(fail), data \in Text
  PROVE  Turns
<1>1. At({"s_header_value"}) /\ Home["header_value"] = {"s_header_value"}
      /\ {"s_header_value"} \subseteq Heads
  BY DEF HeaderValue, Home, Heads, ValueStates
<1>2. /\ parser.state = "s_header_value" /\ Typed(Counted) /\ mark \in MarkType
      /\ parser.state \in ValueStates /\ Known(parser)
      /\ Counted.header_state = parser.header_state /\ Counted.http_errno = "HPE_OK"
      /\ Counted.state = parser.state /\ p \in Nat
      /\ p + 1 \in {p, p + 1} /\ p \in {p, p + 1} /\ p + 1 # p /\ go # "out"
  BY <1>1, AtByte DEF At, ValueStates
<1>3. CASE ch \in {CR, LF}
  <2> DEFINE r == [Counted EXCEPT !.state = "s_header_almost_done"]
             cbs == CALLBACK_DATA(mark, "header_value", p)
  <2>1. \/ Step(r, Clear("header_value"), cbs, "byte", p + 1, fail)
        \/ Step(r, Clear("header_value"), cbs, "again", p, fail)
    BY <1>3 DEF HeaderValue
  <2>2. Typed(r) /\ r.state = "s_header_almost_done" /\ r.nread = Counted.nread
    BY <1>2 DEF Typed, IsParser, Fields
  <2> HIDE DEF r
  <2>3. r.state \in Heads \ {"s_header_field"}
    BY <2>2 DEF Heads, ValueStates
  <2>4. mark["header_value"] # 0 => mark["header_value"] <= p /\ p - mark["header_value"] <= Pending(mark, p)
    <3>1. /\ Pending(mark, p) = Since(mark["header_value"], p) /\ mark["header_value"] <= p
          /\ mark["header_value"] \in Nat
      BY <1>1, <1>2, OtherMarks DEF Marked, Behind, MarkType
    <3> QED BY <1>2, <3>1 DEF Since
  <2>5. Turn(r, Clear("header_value"), cbs, "byte", p + 1)
    BY <1>1, <1>2, <2>2, <2>3, <2>4, FlushTurn
  <2>6. Turn(r, Clear("header_value"), cbs, "again", p)
    BY <1>1, <1>2, <2>2, <2>3, <2>4, FlushTurn
  <2> HIDE DEF cbs
  <2> QED BY <2>1, <2>5, <2>6 DEF Turns
<1>4. CASE ch \notin {CR, LF}
  <2> DEFINE r == Value(Counted, ch)
  <2>1. Step(r, mark, <<>>, "byte", p + 1, FALSE)
    BY <1>4 DEF HeaderValue, Byte
  <2>2. Typed(r) /\ r.state = "s_header_value"
    BY <1>2, ValueSound DEF Sound, Known, WordsKnown
  <2>3. r.nread = Counted.nread
    BY <1>2 DEF Value, Digit, Fail, Typed, IsParser, Fields
  <2> HIDE DEF r
  <2>4. r.state \in Heads /\ r.state # "s_header_field"
    BY <2>2 DEF Heads, ValueStates
  <2>5. Turn(r, mark, <<>>, "byte", p + 1)
    BY <1>1, <1>2, <2>2, <2>3, <2>4, MarkStays, SilentTurn
  <2> QED BY <2>1, <2>5 DEF Turns
<1> QED BY <1>3, <1>4

LEMMA HeaderEndTurns ==
  ASSUME PInv, Marked, HeaderEnd
  PROVE  Turns
<1>0. At({"s_header_almost_done"}) \/ At({"s_header_value_lws"})
  BY DEF HeaderEnd
<1>1. At({"s_header_almost_done", "s_header_value_lws"})
      /\ {"s_header_almost_done", "s_header_value_lws"} \subseteq Heads
  BY <1>0 DEF At, Heads, ValueStates
<1>2. /\ parser.state \in {"s_header_almost_done", "s_header_value_lws"}
      /\ parser.state \in ValueStates /\ Typed(Counted) /\ p \in Nat
      /\ p + 1 \in {p, p + 1} /\ p \in {p, p + 1} /\ p + 1 # p
  BY <1>1, AtByte DEF ValueStates
<1>3. ASSUME NEW r, Typed(r), r.nread = Counted.nread,
             r.state \in {"s_header_value_lws", "s_header_value_start", "s_header_field_start"}
      PROVE  Turn(r, mark, <<>>, "byte", p + 1) /\ Turn(r, mark, <<>>, "again", p)
  <2>1. r.state \in Heads /\ r.state # "s_header_field"
    BY <1>3 DEF Heads, ValueStates
  <2>2. Turn(r, mark, <<>>, "byte", p + 1)
    BY <1>1, <1>2, <1>3, <2>1, MarkStays, SilentTurn
  <2>3. Turn(r, mark, <<>>, "again", p)
    BY <1>1, <1>2, <1>3, <2>1, MarkStays, SilentTurn
  <2> QED BY <2>2, <2>3
<1>4. CASE At({"s_header_almost_done"}) /\ Byte(HeaderAlmostDone(Counted))
  <2> DEFINE fl == IF Counted.header_state = h_transfer_encoding_chunked
                   THEN Counted.flags \cup {"F_CHUNKED"} ELSE Counted.flags
             new == [Counted EXCEPT !.state = "s_header_value_lws", !.flags = fl]
  <2>1. HeaderAlmostDone(Counted) = new
    BY <1>2 DEF HeaderAlmostDone, Typed, IsParser, Fields
  <2> HIDE DEF fl
  <2>2. Typed(new) /\ new.state = "s_header_value_lws" /\ new.nread = Counted.nread
    BY <1>2 DEF Typed, IsParser, Fields
  <2>3. Step(new, mark, <<>>, "byte", p + 1, FALSE)
    BY <1>4, <2>1 DEF Byte
  <2> HIDE DEF new
  <2>4. Turn(new, mark, <<>>, "byte", p + 1)
    BY <1>3, <2>2
  <2> QED BY <2>3, <2>4 DEF Turns
<1>5. CASE At({"s_header_value_lws"})
  <2> DEFINE lws == [Counted EXCEPT !.state = "s_header_value_start"]
             new == [Counted EXCEPT !.state = "s_header_field_start"]
  <2>1. ~At({"s_header_almost_done"})
    BY <1>5 DEF At
  <2>2. \/ Step(lws, mark, <<>>, "byte", p + 1, FALSE)
        \/ Step(new, mark, <<>>, "again", p, FALSE)
    BY <2>1 DEF HeaderEnd, Byte
  <2>3. Typed(lws) /\ lws.state = "s_header_value_start" /\ lws.nread = Counted.nread
    BY <1>2 DEF Typed, IsParser, Fields
  <2>4. Typed(new) /\ new.state = "s_header_field_start" /\ new.nread = Counted.nread
    BY <1>2 DEF Typed, IsParser, Fields
  <2> HIDE DEF lws, new
  <2>5. Turn(lws, mark, <<>>, "byte", p + 1) /\ Turn(new, mark, <<>>, "again", p)
    BY <1>3, <2>3, <2>4
  <2> QED BY <2>2, <2>5 DEF Turns
<1> QED BY <1>4, <1>5 DEF HeaderEnd

(* A step that ends the headers, or comes after that.                      *)
LEMMA LaterTurn ==
  ASSUME PInv, Marked, NEW r, Typed(r), NEW marks, NEW callbacks, OneCall(callbacks),
         NEW next \in {"out", "byte", "again"}, NEW at,
         r.http_errno = "HPE_OK" => r.state \notin ValueStates /\ r.state # "s_header_field",
         Goes(r, next) => Behind(marks, at),
         parser.state \notin Heads \/ Notifies(callbacks)
  PROVE  Turn(r, marks, callbacks, next, at)
BY DEF Turn, Goes

(* A callback without data.                                                *)
LEMMA NotifyCalls ==
  ASSUME NEW on \in {"headers_complete", "message_complete"}
  PROVE  OneCall(CALLBACK_NOTIFY(on)) /\ Notifies(CALLBACK_NOTIFY(on))
<1> DEFINE c == [on |-> on, data |-> <<>>]
<1>1. c.on = on /\ c.data \in Text
  BY DEF Text
<1>2. CALLBACK_NOTIFY(on) = <<c>>
  BY DEF CALLBACK_NOTIFY
<1> HIDE DEF c
<1>3. <<c>> # <<>> /\ <<c>>[1] = c
  OBVIOUS
<1> QED BY <1>1, <1>2, <1>3 DEF OneCall, Notifies, Names

(* The end of the headers.                                                 *)
LEMMA HeadersAlmostDoneTurns ==
  ASSUME PInv, Marked, NEW fail \in BOOLEAN, HeadersAlmostDone(fail)
  PROVE  Turns
<1>1. At({"s_headers_almost_done"})
  BY DEF HeadersAlmostDone
<1>2. Typed(Counted) /\ Behind(mark, p) /\ Behind(mark, p + 1)
  BY <1>1, AtByte, MarkStays
<1> DEFINE start == [Counted EXCEPT !.state = "s_start_req"]
           up == "F_UPGRADE" \in parser.flags \/ parser.method = "CONNECT"
           done == [Counted EXCEPT !.state = "s_headers_done", !.upgrade = up]
<1>3. \/ Step(start, mark, CALLBACK_NOTIFY("message_complete"), "byte", p + 1, fail)
      \/ Step(done, mark, CALLBACK_NOTIFY("headers_complete"), "again", p, fail)
  BY DEF HeadersAlmostDone
<1> HIDE DEF up
<1>4. Typed(start) /\ start.state = "s_start_req"
  BY <1>2 DEF Typed, IsParser, Fields
<1>5. Typed(done) /\ done.state = "s_headers_done"
  BY <1>2 DEF Typed, IsParser, Fields
<1> HIDE DEF start, done
<1>6. {"s_start_req", "s_headers_done"} \cap ValueStates = {}
  BY DEF ValueStates
<1>7. Turn(start, mark, CALLBACK_NOTIFY("message_complete"), "byte", p + 1)
  BY <1>2, <1>4, <1>6, NotifyCalls, LaterTurn
<1>8. Turn(done, mark, CALLBACK_NOTIFY("headers_complete"), "again", p)
  BY <1>2, <1>5, <1>6, NotifyCalls, LaterTurn
<1> QED BY <1>3, <1>7, <1>8 DEF Turns

LEMMA NoCall == OneCall(<<>>)
BY DEF OneCall

LEMMA HeadersDoneTurns ==
  ASSUME PInv, Marked, NEW fail \in BOOLEAN, HeadersDone(fail)
  PROVE  Turns
<1>1. At({"s_headers_done"})
  BY DEF HeadersDone
<1>2. Typed(Counted) /\ Behind(mark, p + 1) /\ parser.state = "s_headers_done"
  BY <1>1, AtByte, MarkStays
<1>3. parser.state \notin Heads
  BY <1>2 DEF Heads, RequestLineStates, UrlStates, ValueStates
<1> DEFINE r(s) == [[Counted EXCEPT !.nread = 0] EXCEPT !.state = s]
<1>4. \/ \E next \in {"byte", "out"} :
           Step(r("s_start_req"), mark, CALLBACK_NOTIFY("message_complete"), next, p + 1, fail)
      \/ \E s \in {"s_chunk_size_start", "s_body_identity"} :
           Step(r(s), mark, <<>>, "byte", p + 1, FALSE)
  BY DEF HeadersDone, Byte
<1>5. \A s : Typed(r(s)) /\ r(s).state = s
  BY <1>2 DEF Typed, IsParser, Fields
<1> HIDE DEF r
<1>6. {"s_start_req", "s_chunk_size_start", "s_body_identity"} \cap ValueStates = {}
  BY DEF ValueStates
<1>7. \A next \in {"byte", "out"} :
        Turn(r("s_start_req"), mark, CALLBACK_NOTIFY("message_complete"), next, p + 1)
  BY <1>2, <1>3, <1>5, <1>6, NotifyCalls, LaterTurn
<1>8. \A s \in {"s_chunk_size_start", "s_body_identity"} : Turn(r(s), mark, <<>>, "byte", p + 1)
  BY <1>2, <1>3, <1>5, <1>6, NoCall, LaterTurn
<1> QED BY <1>4, <1>7, <1>8 DEF Turns

(* The marks of a head are behind wherever a body is marked.               *)
LEMMA BodyMarks ==
  ASSUME PInv, Marked, NEW end, end >= p, end \in Nat, p \in Nat
  PROVE  Behind(MARK("body"), end) /\ Behind(Clear("body"), end) /\ Behind(mark, end)
<1>1. mark \in MarkType
  BY DEF PInv
<1>2. \A f \in {"header_field", "header_value", "url"} :
        /\ MARK("body")[f] = mark[f] /\ Clear("body")[f] = mark[f]
        /\ mark[f] \in Nat /\ mark[f] <= p
  BY <1>1 DEF MARK, Clear, MarkType, Marked, Behind
<1> QED BY <1>2 DEF Behind

(* A body, its chunks and the end of the message.                          *)
LEMMA BodyIdentityTurns ==
  ASSUME PInv, Marked, NEW fail \in BOOLEAN, BodyIdentity(fail), data \in Text
  PROVE  Turns
<1>1. At({"s_body_identity"}) /\ "body" \in DOMAIN NoMarks /\ "s_body_identity" \in Home["body"]
  BY DEF BodyIdentity, NoMarks, Home
<1>2. /\ parser.state = "s_body_identity" /\ Typed(Counted) /\ Counted.state = parser.state
      /\ parser.content_length # 0 /\ Typed(parser)
      /\ p \in 1..Len(data) /\ Len(data) \in Nat
  BY <1>1, AtByte DEF Known, LengthKnown
<1>3. parser.state \notin Heads
  BY <1>2 DEF Heads, RequestLineStates, UrlStates, ValueStates
<1>4. MARK("body") \in MarkType
  BY <1>1, OnlyMark
<1> DEFINE left == parser.content_length - Available
           r == [Counted EXCEPT !.content_length = left]
           done == [r EXCEPT !.state = "s_message_done"]
           end == p + Available
           cbs == CALLBACK_DATA(MARK("body"), "body", end)
<1>5. /\ left \in 0..ULLONG_MAX /\ end \in 1..(Len(data) + 1)
      /\ end - 1 >= p /\ end - 1 \in Nat /\ end >= p /\ end \in Nat /\ p \in Nat
  <2>1. Available \in 1..parser.content_length
    BY <1>2, SomeAvailable
  <2>2. Available \in Nat /\ Available >= 1
    BY <1>2, <2>1 DEF Typed
  <2> QED BY <1>2, <2>2, SomeAvailable
<1>6. \/ Step(done, Clear("body"), cbs, "again", end - 1, fail)
      \/ Step(r, MARK("body"), <<>>, "byte", end, FALSE)
  BY DEF BodyIdentity
<1>7. OneCall(cbs)
  <2>1. "body" \in {"header_field", "header_value", "url", "body"}
    OBVIOUS
  <2> DEFINE s == SubSeq(data, MARK("body")["body"], end - 1)
             c == [on |-> "body", data |-> s]
  <2>3. cbs = <<>> \/ (cbs = <<c>> /\ s \in Text)
    BY <1>4, <1>5, <2>1, DataOf
  <2> HIDE DEF cbs, s
  <2>4. c.on = "body" /\ c.data = s
    OBVIOUS
  <2> HIDE DEF c
  <2>2. cbs = <<>> \/ \E c0 : cbs = <<c0>> /\ c0.on = "body" /\ c0.data \in Text
    BY <2>3, <2>4
  <2> QED BY <2>2 DEF OneCall, Names
<1> HIDE DEF left, end, cbs
<1>8. Typed(r) /\ r.state = "s_body_identity"
  BY <1>2, <1>5 DEF Typed, IsParser, Fields
<1> HIDE DEF r
<1>9. Typed(done) /\ done.state = "s_message_done"
  BY <1>8 DEF Typed, IsParser, Fields
<1> HIDE DEF done
<1>10. /\ Behind(MARK("body"), end) /\ Behind(Clear("body"), end - 1)
  BY <1>5, BodyMarks
<1>11. {"s_message_done", "s_body_identity"} \cap ValueStates = {}
  BY DEF ValueStates
<1>12. Turn(done, Clear("body"), cbs, "again", end - 1)
  BY <1>3, <1>7, <1>9, <1>10, <1>11, LaterTurn
<1>13. Turn(r, MARK("body"), <<>>, "byte", end)
  BY <1>3, <1>8, <1>10, <1>11, NoCall, LaterTurn
<1> QED BY <1>6, <1>12, <1>13 DEF Turns

LEMMA MessageDoneTurns ==
  ASSUME PInv, Marked, NEW fail \in BOOLEAN, MessageDone(fail)
  PROVE  Turns
<1>1. At({"s_message_done"})
  BY DEF MessageDone
<1>2. Typed(Counted) /\ Behind(mark, p + 1)
  BY <1>1, AtByte, MarkStays
<1> DEFINE r == [Counted EXCEPT !.state = "s_start_req"]
<1>3. Step(r, mark, CALLBACK_NOTIFY("message_complete"), "byte", p + 1, fail)
  BY DEF MessageDone
<1>4. Typed(r) /\ r.state = "s_start_req"
  BY <1>2 DEF Typed, IsParser, Fields
<1> HIDE DEF r
<1>5. "s_start_req" \notin ValueStates
  BY DEF ValueStates
<1>6. Turn(r, mark, CALLBACK_NOTIFY("message_complete"), "byte", p + 1)
  BY <1>2, <1>4, <1>5, NotifyCalls, LaterTurn
<1> QED BY <1>3, <1>6 DEF Turns

(* The line that starts a chunk.                                           *)
LEMMA ChunkSizeIs ==
  ASSUME NEW r, r.state \in ChunkSizeStates, NEW c
  PROVE  \/ ChunkSize(r, c) = [r EXCEPT !.content_length = Unhex(c), !.state = "s_chunk_size"]
         \/ ChunkSize(r, c) = Digit(r, 16, Unhex(c))
         \/ ChunkSize(r, c) = [r EXCEPT !.state = "s_chunk_size_almost_done"]
         \/ ChunkSize(r, c) = [r EXCEPT !.state = "s_chunk_parameters"]
         \/ ChunkSize(r, c) = r
         \/ ChunkSize(r, c) = [r EXCEPT !.nread = 0, !.flags = r.flags \cup {"F_TRAILING"},
                                        !.state = "s_header_field_start"]
         \/ ChunkSize(r, c) = [r EXCEPT !.nread = 0, !.state = "s_chunk_data"]
         \/ ChunkSize(r, c) = Fail(r, "HPE_INVALID_CHUNK_SIZE")
<1>1. CASE r.state = "s_chunk_size_start"
  BY <1>1 DEF ChunkSize
<1>2. CASE r.state = "s_chunk_size"
  BY <1>2 DEF ChunkSize
<1>3. CASE r.state = "s_chunk_parameters"
  BY <1>3 DEF ChunkSize
<1>4. CASE r.state = "s_chunk_size_almost_done"
  BY <1>4 DEF ChunkSize
<1> QED BY <1>1, <1>2, <1>3, <1>4 DEF ChunkSizeStates

LEMMA ChunkSizeGoes ==
  ASSUME NEW r, Typed(r), r.state \in ChunkSizeStates, NEW c
  PROVE  ChunkSize(r, c).state \in ChunkSizeStates \cup {"s_header_field_start", "s_chunk_data"}
<1>1. /\ \A s : /\ [r EXCEPT !.state = s].state = s
                /\ \A n, fs : /\ [r EXCEPT !.content_length = n, !.state = s].state = s
                              /\ [r EXCEPT !.nread = n, !.flags = fs, !.state = s].state = s
                              /\ [r EXCEPT !.nread = n, !.state = s].state = s
      /\ \A e : Fail(r, e).state = r.state
      /\ \A n : [r EXCEPT !.content_length = n].state = r.state
  BY DEF Typed, IsParser, Fields, Fail
<1>2. \A b, n : Digit(r, b, n).state = r.state
  BY <1>1 DEF Digit
<1>3. {"s_chunk_size", "s_chunk_size_almost_done", "s_chunk_parameters"} \subseteq ChunkSizeStates
  BY DEF ChunkSizeStates
<1>4. \/ ChunkSize(r, c) = [r EXCEPT !.content_length = Unhex(c), !.state = "s_chunk_size"]
      \/ ChunkSize(r, c) = Digit(r, 16, Unhex(c))
      \/ ChunkSize(r, c) = [r EXCEPT !.state = "s_chunk_size_almost_done"]
      \/ ChunkSize(r, c) = [r EXCEPT !.state = "s_chunk_parameters"]
      \/ ChunkSize(r, c) = r
      \/ ChunkSize(r, c) = [r EXCEPT !.nread = 0, !.flags = r.flags \cup {"F_TRAILING"},
                                     !.state = "s_header_field_start"]
      \/ ChunkSize(r, c) = [r EXCEPT !.nread = 0, !.state = "s_chunk_data"]
      \/ ChunkSize(r, c) = Fail(r, "HPE_INVALID_CHUNK_SIZE")
  BY ChunkSizeIs
<1> DEFINE t == ChunkSize(r, c)
<1>5. \/ t.state \in {"s_chunk_size", "s_chunk_size_almost_done", "s_chunk_parameters",
                      "s_header_field_start", "s_chunk_data"}
      \/ t.state = r.state
  <2>1. CASE t = [r EXCEPT !.content_length = Unhex(c), !.state = "s_chunk_size"]
    BY <1>1, <2>1
  <2>2. CASE t = Digit(r, 16, Unhex(c))
    BY <1>2, <2>2
  <2>3. CASE t = [r EXCEPT !.state = "s_chunk_size_almost_done"]
    BY <1>1, <2>3
  <2>4. CASE t = [r EXCEPT !.state = "s_chunk_parameters"]
    BY <1>1, <2>4
  <2>5. CASE t = r
    BY <2>5
  <2>6. CASE t = [r EXCEPT !.nread = 0, !.flags = r.flags \cup {"F_TRAILING"},
                            !.state = "s_header_field_start"]
    BY <1>1, <2>6
  <2>7. CASE t = [r EXCEPT !.nread = 0, !.state = "s_chunk_data"]
    BY <1>1, <2>7
  <2>8. CASE t = Fail(r, "HPE_INVALID_CHUNK_SIZE")
    BY <1>1, <2>8
  <2> HIDE DEF t
  <2> QED BY <1>4, <2>1, <2>2, <2>3, <2>4, <2>5, <2>6, <2>7, <2>8 DEF t
<1> QED BY <1>3, <1>5

LEMMA ChunkLineTurns ==
  ASSUME PInv, Marked, ChunkLine
  PROVE  Turns
<1> DEFINE r == ChunkSize(Counted, ch)
<1>1. At(ChunkSizeStates) /\ Step(r, mark, <<>>, "byte", p + 1, FALSE)
  BY DEF ChunkLine, Byte
<1>2. /\ Typed(Counted) /\ Counted.state = parser.state /\ parser.state \in ChunkSizeStates
      /\ Behind(mark, p + 1)
  BY <1>1, AtByte, MarkStays
<1>3. r.state \in ChunkSizeStates \cup {"s_header_field_start", "s_chunk_data"}
  BY <1>2, ChunkSizeGoes
<1>4. PInv'
  BY ChunkLineKeeps
<1> HIDE DEF r
<1>5. Typed(r)
  BY <1>1, <1>4, SoundNext
<1>6. parser.state \notin Heads /\ r.state \notin ValueStates /\ r.state # "s_header_field"
  BY <1>2, <1>3 DEF ChunkSizeStates, Heads, RequestLineStates, UrlStates, ValueStates
<1>7. Turn(r, mark, <<>>, "byte", p + 1)
  BY <1>2, <1>5, <1>6, NoCall, LaterTurn
<1> QED BY <1>1, <1>7 DEF Turns

LEMMA ChunkDataTurns ==
  ASSUME PInv, Marked, NEW fail \in BOOLEAN, ChunkData(fail), data \in Text
  PROVE  Turns
<1>1. At(ChunkDataStates)
  BY DEF ChunkData
<1>2. /\ parser.state \in ChunkDataStates /\ Typed(Counted) /\ Counted.state = parser.state
      /\ Typed(parser) /\ LengthKnown(parser) /\ p \in 1..Len(data) /\ Len(data) \in Nat
      /\ Behind(mark, p) /\ Behind(mark, p + 1) /\ mark \in MarkType
  BY <1>1, AtByte, MarkStays DEF Known
<1>3. parser.state \notin Heads
  BY <1>2 DEF ChunkDataStates, Heads, RequestLineStates, UrlStates, ValueStates
<1>4. {"s_chunk_data", "s_chunk_data_almost_done", "s_chunk_data_done", "s_chunk_size_start"}
        \cap (ValueStates \cup {"s_header_field"}) = {}
  BY DEF ValueStates
<1>5. CASE parser.state = "s_chunk_data"
  <2> DEFINE left == parser.content_length - Available
             to == IF left = 0 THEN "s_chunk_data_almost_done" ELSE Counted.state
             r == [Counted EXCEPT !.content_length = left, !.state = to]
             end == p + Available
  <2>1. Step(r, MARK("body"), <<>>, "byte", end, FALSE)
    BY <1>2, <1>5 DEF ChunkData
  <2>2. /\ left \in 0..ULLONG_MAX /\ end >= p /\ end \in Nat /\ p \in Nat
    <3>1. parser.content_length # 0
      BY <1>2, <1>5 DEF LengthKnown
    <3>2. Available \in 1..parser.content_length /\ parser.content_length \in Nat
      BY <1>2, <3>1, SomeAvailable DEF Typed
    <3>3. Available \in Nat
      BY <3>2
    <3> QED BY <1>2, <3>1, <3>3, SomeAvailable
  <2>3. to \in {"s_chunk_data", "s_chunk_data_almost_done"}
    BY <1>2, <1>5
  <2> HIDE DEF left, to, end
  <2>4. Typed(r) /\ r.state = to
    BY <1>2, <2>2 DEF Typed, IsParser, Fields
  <2> HIDE DEF r
  <2>5. Behind(MARK("body"), end)
    BY <2>2, BodyMarks
  <2>6. r.state \notin ValueStates /\ r.state # "s_header_field"
    BY <1>4, <2>3, <2>4
  <2>7. Turn(r, MARK("body"), <<>>, "byte", end)
    BY <1>3, <2>4, <2>5, <2>6, NoCall, LaterTurn
  <2> QED BY <2>1, <2>7 DEF Turns
<1>6. CASE parser.state = "s_chunk_data_almost_done"
  <2> DEFINE r == [Counted EXCEPT !.state = "s_chunk_data_done"]
             cbs == CALLBACK_DATA(mark, "body", p)
  <2>1. Step(r, Clear("body"), cbs, "byte", p + 1, fail)
    BY <1>6 DEF ChunkData
  <2>2. Typed(r) /\ r.state = "s_chunk_data_done"
    BY <1>2 DEF Typed, IsParser, Fields
  <2> HIDE DEF r
  <2>3. OneCall(cbs)
    <3> DEFINE s == SubSeq(data, mark["body"], p - 1)
               c == [on |-> "body", data |-> s]
    <3>1. p \in 1..(Len(data) + 1) /\ "body" \in {"header_field", "header_value", "url", "body"}
      BY <1>2
    <3>2. cbs = <<>> \/ (cbs = <<c>> /\ s \in Text)
      BY <1>2, <3>1, DataOf
    <3> HIDE DEF cbs, s
    <3>3. c.on = "body" /\ c.data = s
      OBVIOUS
    <3> HIDE DEF c
    <3> QED BY <3>2, <3>3 DEF OneCall, Names
  <2> HIDE DEF cbs
  <2>4. p + 1 >= p /\ p + 1 \in Nat /\ p \in Nat
    BY <1>2
  <2>5. Behind(Clear("body"), p + 1)
    BY <2>4, BodyMarks
  <2>6. r.state \notin ValueStates /\ r.state # "s_header_field"
    BY <1>4, <2>2
  <2>7. Turn(r, Clear("body"), cbs, "byte", p + 1)
    BY <1>3, <2>2, <2>3, <2>5, <2>6, LaterTurn
  <2> QED BY <2>1, <2>7 DEF Turns
<1>7. CASE parser.state \notin {"s_chunk_data", "s_chunk_data_almost_done"}
  <2> DEFINE r == [Counted EXCEPT !.nread = 0, !.state = "s_chunk_size_start"]
  <2>1. Step(r, mark, <<>>, "byte", p + 1, FALSE)
    BY <1>7 DEF ChunkData, Byte
  <2>2. Typed(r) /\ r.state = "s_chunk_size_start"
    BY <1>2 DEF Typed, IsParser, Fields
  <2> HIDE DEF r
  <2>3. r.state \notin ValueStates /\ r.state # "s_header_field"
    BY <1>4, <2>2
  <2>4. Turn(r, mark, <<>>, "byte", p + 1)
    BY <1>2, <1>3, <2>2, <2>3, NoCall, LaterTurn
  <2> QED BY <2>1, <2>4 DEF Turns
<1> QED BY <1>5, <1>6, <1>7

LEMMA Joined4 ==
  ASSUME NEW c
  PROVE  /\ <<c>> \o <<>> \o <<>> \o <<>> = <<c>> /\ <<>> \o <<c>> \o <<>> \o <<>> = <<c>>
         /\ <<>> \o <<>> \o <<c>> \o <<>> = <<c>> /\ <<>> \o <<>> \o <<>> \o <<c>> = <<c>>
OBVIOUS

(* At the end of a buffer at most one mark is set, and what it holds given.*)
LEMMA EndCall ==
  ASSUME PInv, NEW fail, EndOfBuffer(fail)
  PROVE  \E cbs :
           /\ Step(parser, NoMarks, cbs, "out", p, fail)
           /\ \/ cbs = <<>> /\ \A f \in DOMAIN NoMarks : mark[f] = 0
              \/ \E f \in DOMAIN NoMarks :
                   /\ mark[f] # 0 /\ parser.state \in Home[f] /\ cbs = CALLBACK_DATA(mark, f, p)
                   /\ \A g \in DOMAIN NoMarks : g # f => mark[g] = 0
<1> DEFINE rest(f) == CALLBACK_DATA(mark, f, p)
           cbs == rest("header_field") \o rest("header_value") \o rest("url") \o rest("body")
           Marks == {"header_field", "header_value", "url", "body"}
<1>1. Step(parser, NoMarks, cbs, "out", p, fail)
  BY DEF EndOfBuffer
<1>2. DOMAIN NoMarks = Marks /\ \A f \in Marks : mark[f] # 0 => parser.state \in Home[f]
  <2>1. DOMAIN NoMarks = Marks
    BY DEF NoMarks
  <2>2. Placed(parser, mark)
    BY DEF PInv, Sound, EndOfBuffer
  <2> QED BY <2>1, <2>2 DEF Placed
<1>3. \A f, g \in Marks : mark[f] # 0 /\ mark[g] # 0 => f = g
  <2>1. \A f, g \in Marks : f # g => Home[f] \cap Home[g] = {}
    BY DEF Home, UrlStates, MarkedStates
  <2> QED BY <1>2, <2>1
<1>4. \A f \in Marks : mark[f] = 0 => rest(f) = <<>>
  BY DEF CALLBACK_DATA
<1>5. ASSUME NEW f \in Marks, mark[f] # 0
      PROVE  cbs = rest(f)
  <2> DEFINE c == [on |-> f, data |-> SubSeq(data, mark[f], p - 1)]
  <2>1. rest(f) = <<c>>
    BY <1>5 DEF CALLBACK_DATA
  <2>2. \A g \in Marks \ {f} : rest(g) = <<>>
    BY <1>3, <1>4, <1>5
  <2> HIDE DEF rest, c
  <2>3. CASE f = "header_field"
    <3>1. rest("header_field") = <<c>>
      BY <2>1, <2>3
    <3>2. rest("header_value") = <<>> /\ rest("url") = <<>> /\ rest("body") = <<>>
      BY <2>2, <2>3
    <3> QED BY <2>1, <3>1, <3>2, Joined4
  <2>4. CASE f = "header_value"
    <3>1. rest("header_value") = <<c>>
      BY <2>1, <2>4
    <3>2. rest("header_field") = <<>> /\ rest("url") = <<>> /\ rest("body") = <<>>
      BY <2>2, <2>4
    <3> QED BY <2>1, <3>1, <3>2, Joined4
  <2>5. CASE f = "url"
    <3>1. rest("url") = <<c>>
      BY <2>1, <2>5
    <3>2. rest("header_field") = <<>> /\ rest("header_value") = <<>> /\ rest("body") = <<>>
      BY <2>2, <2>5
    <3> QED BY <2>1, <3>1, <3>2, Joined4
  <2>6. CASE f = "body"
    <3>1. rest("body") = <<c>>
      BY <2>1, <2>6
    <3>2. rest("header_field") = <<>> /\ rest("header_value") = <<>> /\ rest("url") = <<>>
      BY <2>2, <2>6
    <3> QED BY <2>1, <3>1, <3>2, Joined4
  <2> QED BY <2>3, <2>4, <2>5, <2>6
<1>6. CASE \A f \in Marks : mark[f] = 0
  <2>1. \A f \in Marks : rest(f) = <<>>
    BY <1>4, <1>6
  <2> HIDE DEF rest
  <2>2. cbs = <<>>
    BY <2>1
  <2> HIDE DEF cbs
  <2> QED BY <1>1, <1>2, <1>6, <2>2
<1>7. CASE \E f \in Marks : mark[f] # 0
  <2>1. PICK f \in Marks : mark[f] # 0
    BY <1>7
  <2>2. /\ parser.state \in Home[f] /\ cbs = CALLBACK_DATA(mark, f, p)
        /\ \A g \in Marks : g # f => mark[g] = 0
    BY <1>2, <1>3, <1>5, <2>1
  <2> HIDE DEF cbs, rest
  <2> QED BY <1>1, <1>2, <2>1, <2>2
<1> QED BY <1>6, <1>7

LEMMA EndOfBufferTurns ==
  ASSUME PInv, Marked, NEW fail \in BOOLEAN, EndOfBuffer(fail), data \in Text
  PROVE  Turns
<1>1. PICK cbs :
        /\ Step(parser, NoMarks, cbs, "out", p, fail)
        /\ \/ cbs = <<>> /\ \A f \in DOMAIN NoMarks : mark[f] = 0
           \/ \E f \in DOMAIN NoMarks :
                /\ mark[f] # 0 /\ parser.state \in Home[f] /\ cbs = CALLBACK_DATA(mark, f, p)
                /\ \A g \in DOMAIN NoMarks : g # f => mark[g] = 0
  BY EndCall
<1>2. /\ Typed(parser) /\ mark \in MarkType /\ p \in 1..(Len(data) + 1)
      /\ Len(data) \in Nat /\ p \in Nat /\ ~(p <= Len(data))
  BY DEF EndOfBuffer, PInv, Sound, Text
<1>3. Pending(mark, p) \in Nat
  BY <1>2, PendingType DEF Marked
<1>4. ASSUME NEW f \in DOMAIN NoMarks, mark[f] # 0, parser.state \in Home[f],
             cbs = CALLBACK_DATA(mark, f, p)
      PROVE  /\ OneCall(cbs) /\ (parser.state \in ValueStates => Announced(parser, cbs))
             /\ parser.state \in Heads => Cost(cbs) <= Pending(mark, p)
  <2> DEFINE s == SubSeq(data, mark[f], p - 1)
             c == [on |-> f, data |-> s]
  <2>1. mark[f] \in Nat /\ f \in {"header_field", "header_value", "url", "body"}
    BY <1>2 DEF MarkType, NoMarks
  <2>2. cbs = <<c>> /\ s \in Text /\ (mark[f] <= p => Len(s) = p - mark[f])
    BY <1>2, <1>4, <2>1, DataOf
  <2>3. c.on = f /\ c.data = s
    OBVIOUS
  <2> HIDE DEF s, c
  <2>4. cbs = <<c>> /\ cbs # <<>> /\ cbs[1] = c
    BY <2>2
  <2>5. f = "header_value" <=> parser.state \in ValueStates
    BY <1>4, <2>1 DEF Home, ValueStates, UrlStates, MarkedStates
  <2>6. parser.state \in Heads => f # "body"
    BY <1>4 DEF Home, Heads, RequestLineStates, ValueStates, UrlStates, MarkedStates
  <2>7. OneCall(cbs)
    BY <2>1, <2>2, <2>3, <2>4, <2>5 DEF OneCall, Names
  <2>8. parser.state \in ValueStates => Announced(parser, cbs)
    BY <2>3, <2>4, <2>5 DEF Announced
  <2>9. ASSUME parser.state \in Heads PROVE Cost(cbs) <= Pending(mark, p)
    <3>1. f \in {"header_field", "header_value", "url"}
      BY <2>1, <2>6, <2>9
    <3>2. mark[f] <= p /\ Len(s) = p - mark[f]
      BY <2>2, <3>1 DEF Marked, Behind
    <3>3. Cost(cbs) = p - mark[f]
      BY <2>3, <2>4, <3>2 DEF Cost
    <3>4. /\ mark["header_field"] \in Nat /\ mark["header_field"] <= p
          /\ mark["header_value"] \in Nat /\ mark["header_value"] <= p
          /\ mark["url"] \in Nat /\ mark["url"] <= p
      BY <1>2 DEF MarkType, Marked, Behind
    <3>5. \A m \in Nat : m <= p => Since(m, p) \in Nat /\ (m # 0 => Since(m, p) = p - m)
      BY <1>2 DEF Since
    <3>6. /\ Since(mark["header_field"], p) \in Nat /\ Since(mark["header_value"], p) \in Nat
          /\ Since(mark["url"], p) \in Nat /\ Since(mark[f], p) = p - mark[f]
      BY <1>4, <2>1, <3>2, <3>4, <3>5
    <3>7. p - mark[f] <= Pending(mark, p)
      <4>1. CASE f = "header_field"
        BY <3>6, <4>1 DEF Pending
      <4>2. CASE f = "header_value"
        BY <3>6, <4>2 DEF Pending
      <4>3. CASE f = "url"
        BY <3>6, <4>3 DEF Pending
      <4> QED BY <3>1, <4>1, <4>2, <4>3
    <3> QED BY <3>3, <3>7
  <2> QED BY <2>7, <2>8, <2>9
<1>5. OneCall(cbs) /\ (parser.state \in ValueStates => Announced(parser, cbs))
      /\ (parser.state \in Heads => Cost(cbs) <= Pending(mark, p))
  <2>1. CASE cbs = <<>>
    BY <1>3, <2>1 DEF OneCall, Announced, Cost
  <2> QED BY <1>1, <1>4, <2>1
<1>6. ~Goes(parser, "out")
  BY DEF Goes
<1>7. Turn(parser, NoMarks, cbs, "out", p)
  <2>1. parser.nread = IF go = "byte" /\ p <= Len(data) THEN parser.nread + 1 ELSE parser.nread
    BY <1>2
  <2>2. "out" \in {"out", "byte", "again"}
    OBVIOUS
  <2> QED BY <1>2, <1>5, <1>6, <2>1, <2>2, Zenon DEF Turn
<1> QED BY <1>1, <1>7 DEF Turns

(* A step that goes on, or gives a callback what it has, Turns.            *)
LEMMA ParserTurns ==
  ASSUME PInv, Marked, data \in Text, NEW fail \in BOOLEAN, ParserStep(fail)
  PROVE  HeaderOverflow \/ Turns
BY RequestLineTurns, UrlStartTurns, UrlByteTurns, HeaderFieldStartTurns, HeaderFieldTurns,
   HeaderValueStartTurns, HeaderValueTurns, HeaderEndTurns, HeadersAlmostDoneTurns,
   HeadersDoneTurns, BodyIdentityTurns, MessageDoneTurns, ChunkLineTurns, ChunkDataTurns,
   EndOfBufferTurns DEF ParserStep

(* What a callback leaves.                                                 *)
Reads(r) == /\ Texts(r) /\ IsMultipart(r.mparser)
            /\ r.mparser.state \in MpStates \cup {"NULL"}
            /\ r.parse_state = "PS_INIT" => r.mparser.state = "NULL"
HasHeader(r) == r.last_field # Qnil \/ r.last_value # Qnil

(* Each callback leaves a request that the next one can go on with: no     *)
(* callback but on_header_value, and the multipart parser, sets PS_ERROR   *)
(* (request_parse.c:85-125).                                               *)
LEMMA UrlReads ==
  ASSUME NEW r, Reads(r), NEW s
  PROVE  Reads(on_url(r, s)) /\ on_url(r, s).parse_state = r.parse_state
BY FieldsOfRequest DEF Reads, Texts, on_url

LEMMA NameReads ==
  ASSUME NEW r, Reads(r), NEW s \in Text
  PROVE  LET n == on_header_field(r, s)
         IN  Reads(n) /\ n.parse_state = r.parse_state /\ n.last_field # Qnil
<1>1. CASE r.last_field = Qnil
  <2>1. s # Qnil
    BY TextIsNotQnil
  <2> QED BY <1>1, <2>1, FieldsOfRequest DEF Reads, Texts, on_header_field
<1>2. CASE r.last_field # Qnil
  <2>1. r.last_field \o s \in Text
    BY <1>2, Joined DEF Reads, Texts
  <2>2. r.last_field \o s # Qnil
    BY <2>1, TextIsNotQnil
  <2> DEFINE t == r.last_field \o s
  <2>3. on_header_field(r, s) = [r EXCEPT !.last_field = t]
    BY <1>2 DEF on_header_field
  <2> HIDE DEF t
  <2> QED BY <2>1, <2>2, <2>3, FieldsOfRequest DEF Reads, Texts, t
<1> QED BY <1>1, <1>2

LEMMA ValueReads ==
  ASSUME NEW r, Reads(r), NEW s \in Text, HasHeader(r)
  PROVE  LET n == on_header_value(r, s)
         IN  Reads(n) /\ n.parse_state = r.parse_state /\ n.last_value # Qnil
<1>1. CASE r.last_field # Qnil
  <2> DEFINE h == rb_hash_aset(r.header, nyara_headerlize(r.last_field), s)
             n == [r EXCEPT !.header = h, !.last_value = s, !.last_key = r.last_field,
                            !.last_field = Qnil]
  <2>1. on_header_value(r, s) = n
    BY <1>1 DEF on_header_value
  <2>2. s # Qnil
    BY TextIsNotQnil
  <2> HIDE DEF h
  <2>3. Reads(n) /\ n.parse_state = r.parse_state /\ n.last_value # Qnil
    BY <2>2, FieldsOfRequest DEF Reads, Texts
  <2> QED BY <2>1, <2>3
<1>2. CASE r.last_field = Qnil
  <2> DEFINE t == r.last_value \o s
             h == [r.header EXCEPT ![nyara_headerlize(r.last_key)] = @ \o s]
             n == [r EXCEPT !.last_value = t, !.header = h]
  <2>1. r.last_value # Qnil /\ r.last_value \in Text
    BY <1>2 DEF HasHeader, Reads, Texts
  <2>2. t \in Text /\ t # Qnil
    BY <2>1, Joined, TextIsNotQnil
  <2>3. on_header_value(r, s) = n
    BY <1>2, <2>1, FieldsOfRequest DEF on_header_value, Reads, Texts
  <2> HIDE DEF t, h
  <2>4. Reads(n) /\ n.parse_state = r.parse_state /\ n.last_value # Qnil
    BY <2>2, FieldsOfRequest DEF Reads, Texts
  <2> QED BY <2>3, <2>4
<1> QED BY <1>1, <1>2

(* Reading the query changes four fields.                                  *)
LEMMA PathReads ==
  ASSUME NEW r, Reads(r), NEW path, NEW query, NEW undef
  PROVE  /\ Reads([r EXCEPT !.path = path])
         /\ Reads([r EXCEPT !.path = path, !.query = query, !.undefined = undef])
BY FieldsOfRequest DEF Reads, Texts

LEMMA OverriddenReads ==
  ASSUME NEW r, Reads(r), NEW m
  PROVE  Reads(Overridden(r, m))
<1> DEFINE h == hash_aset(r.query, _method, AsString(m))
           named == {n \in METHODS : Chars(n) = m}
           meth == IF named # {} THEN CHOOSE n \in named : TRUE ELSE r.method
           new == [r EXCEPT !.query = h, !.method = meth]
<1>1. Overridden(r, m) = new
  BY FieldsOfRequest DEF Overridden, Reads, Texts
<1> HIDE DEF h, meth
<1>2. Reads(new)
  BY FieldsOfRequest DEF Reads, Texts
<1> QED BY <1>1, <1>2

LEMMA QueryReads ==
  ASSUME NEW r, Reads(r)
  PROVE  Reads(_parse_path_and_query(r))
<1> DEFINE parsed == nyara_parse_path(r.path_with_query)
           read == param_hash_parse_param(r.query, parsed.query)
           bare == [r EXCEPT !.path = @ \o parsed.path]
           new == [r EXCEPT !.path = @ \o parsed.path, !.query = read.output,
                            !.undefined = read.error = "undefined"]
           meth == _upcase_method(new.query.hash[_method].string)
<1>1. \/ _parse_path_and_query(r) = bare
      \/ _parse_path_and_query(r) = new
      \/ _parse_path_and_query(r) = Overridden(new, meth)
  BY DEF _parse_path_and_query
<1> HIDE DEF parsed, read
<1>2. Reads(bare) /\ Reads(new)
  BY PathReads
<1> HIDE DEF bare, new, meth
<1>3. Reads(Overridden(new, meth))
  BY <1>2, OverriddenReads
<1> QED BY <1>1, <1>2, <1>3

LEMMA HeadersReads ==
  ASSUME NEW r, Reads(r)
  PROVE  LET n == on_headers_complete(r)
         IN  Reads(n) /\ n.parse_state = "PS_HEADERS_COMPLETE"
<1> DEFINE u == _parse_path_and_query(r)
           b == _parse_multipart_boundary(r.header)
           mp == IF b = <<>> THEN u.mparser ELSE multipart_parser_init(<<"-", "-">> \o b)
           n == [u EXCEPT !.last_field = Qnil, !.last_value = Qnil, !.body = <<>>,
                          !.parse_state = "PS_HEADERS_COMPLETE", !.mparser = mp]
<1>1. on_headers_complete(r) = n
  BY DEF on_headers_complete
<1>2. Reads(u)
  BY QueryReads
<1>3. IsMultipart(mp) /\ mp.state \in MpStates \cup {"NULL"}
  <2>1. \A t : LET m == multipart_parser_init(t)
               IN  IsMultipart(m) /\ m.state \in MpStates
    BY DEF IsMultipart, multipart_parser_init, MpStates
  <2> HIDE DEF u, b
  <2> QED BY <1>2, <2>1 DEF Reads
<1> HIDE DEF u, mp
<1>4. Reads(n) /\ n.parse_state = "PS_HEADERS_COMPLETE"
  BY <1>2, <1>3, FieldsOfRequest DEF Reads, Texts
<1> QED BY <1>1, <1>4

LEMMA KeepsItself == Keeps(q)
<1>1. ASSUME NEW S, q.body \in Seq(S) PROVE IsPrefix(q.body, q.body)
  BY <1>1 DEF IsPrefix
<1> QED BY <1>1 DEF Keeps, Extends, IsSequence

LEMMA BodyReads ==
  ASSUME NEW r, Reads(r), Keeps(r), NEW s \in Text, r.parse_state # "PS_ERROR"
  PROVE  LET n == on_body(r, s)
         IN  /\ Reads(n) /\ (n.parse_state = "PS_ERROR" => n.raised) /\ Keeps(n)
             /\ n.parse_state = "PS_INIT" => r.parse_state = "PS_INIT"
<1>1. CASE ~Multi(r)
  <2> DEFINE t == r.body \o s
             n == [r EXCEPT !.body = t]
  <2>1. on_body(r, s) = n
    BY <1>1 DEF on_body
  <2>2. Extends(q.body, t)
    BY MoreBody DEF Keeps
  <2> HIDE DEF t
  <2>3. Reads(n) /\ n.parse_state = r.parse_state
    BY FieldsOfRequest DEF Reads, Texts
  <2>4. Keeps(n)
    BY <2>2, FieldsOfRequest DEF Reads, Texts, Keeps
  <2> QED BY <2>1, <2>3, <2>4
<1>2. CASE Multi(r)
  <2> DEFINE acc == multipart_parser_execute(r.mparser, r, s)
             torn == \/ acc.q.torn \/ acc.mp.state = "s_header_value_almost_done"
                     \/ acc.mp.state = "s_header_field" /\ Last(s) = "-"
             n == [acc.q EXCEPT !.mparser = acc.mp, !.raised = acc.stopped, !.torn = torn]
  <2>1. Taking(acc)
    <3>1. /\ IsMultipart(r.mparser) /\ r.mparser.state \in MpStates /\ Continues(r)
          /\ r.parse_state \notin {"PS_INIT", "PS_ERROR"}
      BY <1>2 DEF Multi, Reads, Continues
    <3> QED BY <3>1, ExecuteTaking
  <2>2. on_body(r, s) = n
    BY <1>2 DEF on_body
  <2> HIDE DEF acc, torn
  <2>3. Texts(acc.q) /\ IsMultipart(acc.mp) /\ acc.mp.state \in MpStates /\ Keeps(acc.q)
        /\ acc.q.parse_state # "PS_INIT" /\ (acc.q.parse_state = "PS_ERROR" => acc.stopped)
    BY <2>1 DEF Taking, Continues
  <2>4. Reads(n) /\ n.parse_state = acc.q.parse_state /\ n.raised = acc.stopped
    BY <2>3, FieldsOfRequest DEF Reads, Texts
  <2>5. Keeps(n)
    BY <2>3, FieldsOfRequest DEF Texts, Keeps
  <2> QED BY <2>2, <2>3, <2>4, <2>5
<1> QED BY <1>1, <1>2

(* Any callback, one for a value when there is a header for it.            *)
LEMMA CallbackReads ==
  ASSUME NEW r, Reads(r), Keeps(r), r.parse_state # "PS_ERROR", NEW c, c.on \in Names,
         c.data \in Text, c.on = "header_value" => HasHeader(r)
  PROVE  LET n == Callback(r, c)
         IN  /\ Reads(n) /\ (n.parse_state = "PS_ERROR" => n.raised)
             /\ c.on \in {"header_field", "header_value"} => HasHeader(n)
             /\ n.parse_state = "PS_INIT" => r.parse_state = "PS_INIT"
<1>1. CASE c.on = "url"
  BY <1>1, UrlReads DEF Callback
<1>2. CASE c.on = "header_field"
  BY <1>2, NameReads DEF Callback, HasHeader
<1>3. CASE c.on = "header_value"
  BY <1>3, ValueReads DEF Callback, HasHeader
<1>4. CASE c.on = "headers_complete"
  BY <1>4, HeadersReads DEF Callback
<1>5. CASE c.on = "body"
  BY <1>5, BodyReads DEF Callback
<1>6. CASE c.on = "message_complete"
  <2> DEFINE n == [r EXCEPT !.parse_state = "PS_MESSAGE_COMPLETE"]
  <2>1. Reads(n) /\ n.parse_state = "PS_MESSAGE_COMPLETE"
    BY FieldsOfRequest DEF Reads, Texts
  <2>2. Callback(r, c) = n
    BY <1>6 DEF Callback
  <2> QED BY <1>6, <2>1, <2>2
<1> QED BY <1>1, <1>2, <1>3, <1>4, <1>5, <1>6 DEF Names

(* What was read of a request is what http_parser is about to give: while  *)
(* it is at a value there is a header for it.                              *)
RInv ==
  /\ PInv /\ NetType /\ data \in Text
  /\ go # "out" => Marked
  /\ phase # "raised" =>
       /\ Reads(q) /\ q.parse_state # "PS_ERROR"
       /\ parser.http_errno = "HPE_OK" /\ parser.state \in ValueStates => HasHeader(q)

(* A new request, and every step of it, keeps the invariant.               *)
LEMMA RInvInit ==
  ASSUME Init
  PROVE  RInv
<1>1. PInv /\ NetType /\ data \in Text /\ go = "out"
  BY PInvInit, MessagesAssumption DEF Init, NetType, ParserInit, Text
<1>2. Reads(Request0)
  BY FieldsOfRequest DEF Reads, Texts, Request0, IsMultipart, NoMultipart
<1>3. q = Request0 /\ Request0.parse_state = "PS_INIT"
  BY DEF Init, Request0
<1>4. parser.state \notin ValueStates
  BY DEF Init, ParserInit, Parser0, ValueStates
<1> QED BY <1>1, <1>2, <1>3, <1>4 DEF RInv

LEMMA ParseKeeps ==
  ASSUME RInv, Parse
  PROVE  RInv'
<1>1. /\ phase = "read" /\ Reads(q) /\ q.parse_state # "PS_ERROR"
      /\ parser.http_errno = "HPE_OK" /\ parser.state \in ValueStates => HasHeader(q)
      /\ PInv /\ data \in Text /\ NetType
  BY DEF Parse, RInv
<1>2. PICK fail \in BOOLEAN : ParserStep(fail) /\ q' = FoldLeft(Callback, q, calls')
  BY DEF Parse
<1>3. go # "out" /\ Marked
  <2>1. go # "out"
    BY <1>2 DEF ParserStep, HeaderOverflow, RequestLine, UrlStart, HeaderFieldStart, HeaderEnd,
       ChunkLine, UrlByte, HeaderField, HeaderValueStart, HeaderValue, HeadersAlmostDone,
       HeadersDone, BodyIdentity, MessageDone, ChunkData, EndOfBuffer, At
  <2> QED BY <2>1 DEF RInv
<1>4. PInv' /\ NetType'
  <2>1. ParserNext
    BY <1>2 DEF ParserNext
  <2>2. PInv'
    BY <1>1, <2>1, PInvStep
  <2> QED BY <2>2, <1>1 DEF Parse, NetType
<1>5. q'.raised => phase' = "raised"
  BY DEF Parse
<1>6. HeaderOverflow \/ Turns
  BY <1>1, <1>2, <1>3, ParserTurns
<1>7. CASE HeaderOverflow
  <2>1. calls' = <<>> /\ go' = "out" /\ data' = <<>> /\ parser' = Fail(Counted, "HPE_HEADER_OVERFLOW")
    BY <1>7 DEF HeaderOverflow, Return
  <2>2. parser'.http_errno # "HPE_OK"
    <3>1. Typed(Counted)
      BY <1>1, CountedFields DEF PInv, Sound
    <3> QED BY <2>1, <3>1, Failed
  <2>3. q' = q
    BY <1>2, <2>1, FoldNone
  <2>4. data' \in Text
    BY <2>1 DEF Text
  <2>5. Reads(q') /\ q'.parse_state # "PS_ERROR"
    BY <1>1, <2>3
  <2> QED BY <1>4, <2>1, <2>2, <2>4, <2>5 DEF RInv
<1>8. CASE Turns
  <2>1. PICK r, marks, callbacks, next, at : \E failed \in BOOLEAN :
          Step(r, marks, callbacks, next, at, failed) /\ Turn(r, marks, callbacks, next, at)
    BY <1>8 DEF Turns
  <2>2. PICK failed \in BOOLEAN : Step(r, marks, callbacks, next, at, failed)
    BY <2>1
  <2>3. Turn(r, marks, callbacks, next, at)
    BY <2>1
  <2>4. calls' = callbacks /\ Typed(r) /\ Fail(r, "HPE_CB").http_errno = "HPE_CB"
    BY <2>2, <2>3, Failed DEF Step, Turn
  <2>5. data' \in Text
    <3>1. data' = data \/ data' = <<>>
      BY <2>2 DEF Step, Return
    <3>2. <<>> \in Text
      BY DEF Text
    <3> QED BY <1>1, <3>1, <3>2
  <2>6. parser'.http_errno = "HPE_OK" => parser' = r /\ r.http_errno = "HPE_OK"
    BY <2>2, <2>4 DEF Step, Return
  <2>7. go' # "out" => /\ parser' = r /\ mark' = marks /\ p' = at /\ Goes(r, next)
    BY <2>2 DEF Step, Return, Goes
  <2>8. go' # "out" => /\ parser'.state = "s_header_field" => mark'["header_field"] # 0
                       /\ mark'["header_field"] <= p' /\ mark'["header_value"] <= p'
                       /\ mark'["url"] <= p'
    BY <2>3, <2>7 DEF Turn, Behind
  <2>9. parser'.http_errno = "HPE_OK" /\ parser'.state \in ValueStates => Announced(r, callbacks)
    BY <2>3, <2>6 DEF Turn
  <2>10. CASE callbacks = <<>>
    <3>1. q' = q
      BY <1>2, <2>4, <2>10, FoldNone
    <3>2. parser'.http_errno = "HPE_OK" /\ parser'.state \in ValueStates => HasHeader(q')
      BY <1>1, <1>3, <2>9, <2>10, <3>1 DEF Announced, PInv
    <3>3. Reads(q') /\ q'.parse_state # "PS_ERROR"
      BY <1>1, <3>1
    <3> QED BY <1>4, <2>5, <2>8, <3>2, <3>3 DEF RInv, Marked, Behind
  <2>11. CASE callbacks # <<>>
    <3>1. PICK c : /\ callbacks = <<c>> /\ c.on \in Names /\ c.data \in Text
                   /\ c.on = "header_value" => parser.state \in ValueStates
      BY <2>3, <2>11 DEF Turn, OneCall
    <3>2. q' = Callback(q, c)
      BY <1>2, <2>4, <3>1, FoldOne
    <3>3. c.on = "header_value" => HasHeader(q)
      BY <1>1, <1>3, <3>1 DEF PInv
    <3>4. /\ Reads(q') /\ (q'.parse_state = "PS_ERROR" => q'.raised)
          /\ c.on \in {"header_field", "header_value"} => HasHeader(q')
      BY <1>1, <3>1, <3>2, <3>3, KeepsItself, CallbackReads
    <3>5. parser'.http_errno = "HPE_OK" /\ parser'.state \in ValueStates => HasHeader(q')
      <4>1. callbacks[1] = c
        BY <3>1
      <4> QED BY <2>9, <2>11, <3>4, <4>1 DEF Announced
    <3> QED BY <1>4, <1>5, <2>5, <2>8, <3>4, <3>5 DEF RInv, Marked, Behind
  <2> QED BY <2>10, <2>11
<1> QED BY <1>6, <1>7, <1>8

(* A call starts with a mark of what goes on.                              *)
LEMMA BeginMarks ==
  ASSUME NEW bytes, Execute(bytes), parser.http_errno = "HPE_OK"
  PROVE  /\ p' = 1 /\ go' = "byte" /\ data' = bytes /\ parser' = parser
         /\ mark'["header_field"] = IF parser.state = "s_header_field" THEN 1 ELSE 0
         /\ mark'["header_value"] = IF parser.state = "s_header_value" THEN 1 ELSE 0
         /\ mark'["url"] = IF parser.state \in UrlStates THEN 1 ELSE 0
<1> DEFINE f1 == IF parser.state = "s_header_field" THEN 1 ELSE 0
           v1 == IF parser.state = "s_header_value" THEN 1 ELSE 0
           u1 == IF parser.state \in UrlStates THEN 1 ELSE 0
           marks == [NoMarks EXCEPT !.header_field = f1, !.header_value = v1, !.url = u1]
<1>1. mark' = marks /\ p' = 1 /\ go' = "byte" /\ data' = bytes /\ parser' = parser
  BY DEF Execute
<1> HIDE DEF f1, v1, u1
<1>2. marks["header_field"] = f1 /\ marks["header_value"] = v1 /\ marks["url"] = u1
  BY DEF NoMarks
<1> HIDE DEF marks
<1> QED BY <1>1, <1>2 DEF f1, v1, u1

LEMMA ReadKeeps ==
  ASSUME RInv, NEW k \in 1..Len(net), Read(k)
  PROVE  RInv'
<1>1. /\ SubSeq(net, 1, k) \in Text /\ SubSeq(net, 1, k) \in Seq(STRING)
      /\ SubSeq(net, k + 1, Len(net)) \in Text
  BY ReadPiece DEF RInv
<1>2. Execute(SubSeq(net, 1, k)) /\ net' = SubSeq(net, k + 1, Len(net)) /\ q' = q
      /\ phase' = phase /\ go = "out" /\ phase = "read"
  BY DEF Read
<1>3. PInv'
  <2>1. ParserNext
    BY <1>1, <1>2 DEF ParserNext
  <2> QED BY <2>1, PInvStep DEF RInv
<1>4. NetType' /\ data' \in Text /\ parser' = parser
  BY <1>1, <1>2 DEF Execute, RInv, NetType
<1>5. go' # "out" => /\ parser'.state = "s_header_field" => mark'["header_field"] # 0
                     /\ mark'["header_field"] <= p' /\ mark'["header_value"] <= p'
                     /\ mark'["url"] <= p'
  <2>1. CASE parser.http_errno # "HPE_OK"
    BY <1>2, <2>1 DEF Execute
  <2>2. CASE parser.http_errno = "HPE_OK"
    BY <1>2, <2>2, BeginMarks
  <2> QED BY <2>1, <2>2
<1> QED BY <1>2, <1>3, <1>4, <1>5 DEF RInv, Marked, Behind

LEMMA RInvStep ==
  ASSUME RInv, [Next]_vars
  PROVE  RInv'
<1>1. CASE Parse
  BY <1>1, ParseKeeps
<1>2. ASSUME NEW k \in 1..Len(net), Read(k) PROVE RInv'
  BY <1>2, ReadKeeps
<1>3. CASE Event \/ EAGAIN \/ Dispatch \/ UNCHANGED vars
  <2>1. UNCHANGED <<pvars, net, q>> /\ (phase' # "raised" => phase # "raised")
    BY <1>3 DEF Event, EAGAIN, Dispatch, vars, rvars
  <2>2. /\ PInv' /\ NetType' /\ data' = data /\ go' = go /\ Marked' = Marked
        /\ q' = q /\ parser' = parser
    BY <2>1 DEF RInv, PInv, NetType, pvars, Marked, Behind, Sound, Typed, Known, IsParser,
       WordsKnown, LengthKnown, ChunksFlagged, CountReset, Placed
  <2> QED BY <2>1, <2>2 DEF RInv
<1> QED BY <1>1, <1>2, <1>3 DEF Next

(* However a message is cut into pieces and whatever its bytes, a request  *)
(* is never left in PS_ERROR, in which it would wait forever:              *)
(* on_header_value is not called without a header to take the value        *)
(* (request_parse.c:108-125), since http_parser reports a name before it   *)
(* reads the first byte of its value.                                      *)
THEOREM NeverErrorAlways == Spec => []NeverError
<1>1. Init => RInv
  BY RInvInit
<1>2. RInv /\ [Next]_vars => RInv'
  BY RInvStep
<1>3. RInv => NeverError
  BY DEF RInv, NeverError
<1> QED BY <1>1, <1>2, <1>3, PTL DEF Spec

-----------------------------------------------------------------------------
(* The length of the values of a header                                    *)

(* Of some subsets of a finite set one is such that none of them is smaller*)
(* by an element.                                                          *)
LEMMA SmallestSet ==
  ASSUME NEW S, IsFiniteSet(S), NEW B \in SUBSET SUBSET S, B # {}
  PROVE  \E s \in B : \A x \in s : s \ {x} \notin B
<1>1. \A s \in SUBSET S : IsFiniteSet(s) /\ Cardinality(s) \in Nat
  BY FS_Subset, FS_CardinalityType
<1> DEFINE N == {Cardinality(s) : s \in B}
<1>2. N \in SUBSET Nat /\ N # {}
  BY <1>1
<1>3. PICK n \in N : \A k \in N : n <= k
  <2> HIDE DEF N
  <2> QED BY <1>2, LeastExists
<1>4. PICK s \in B : n = Cardinality(s)
  BY <1>3
<1>5. ASSUME NEW x \in s, s \ {x} \in B PROVE FALSE
  <2>1. Cardinality(s \ {x}) = Cardinality(s) - 1 /\ Cardinality(s) \in Nat
    BY <1>1, <1>4, FS_RemoveElement
  <2>2. n <= Cardinality(s \ {x})
    BY <1>3, <1>5
  <2> QED BY <1>4, <2>1, <2>2
<1> QED BY <1>4, <1>5

(* How the length of the values of a header is added up.                   *)
Least(s) == CHOOSE x \in s : TRUE
Added(h, S, f) ==
  f = [s \in SUBSET S |-> IF s = {} THEN 0 ELSE f[s \ {Least(s)}] + Len(h[Least(s)])]
Size(h) == FoldFunction(LAMBDA value, n : n + Len(value), 0, h)
Header(h) == /\ h = [x \in DOMAIN h |-> h[x]] /\ IsFiniteSet(DOMAIN h)
             /\ \A x \in DOMAIN h : h[x] \in Text

(* FoldFunction adds up one element after another, in an order that is     *)
(* fixed but not known: the sum exists, by the sizes of the sets.          *)
LEMMA AddedExists ==
  ASSUME NEW h, NEW S, IsFiniteSet(S)
  PROVE  \E f : Added(h, S, f)
<1> DEFINE Small(n) == {s \in SUBSET S : Cardinality(s) <= n}
           of(f, s) == IF s = {} THEN 0 ELSE f[s \ {Least(s)}] + Len(h[Least(s)])
           Rec(f, n) == f = [s \in Small(n) |-> of(f, s)]
           Missing == {n \in Nat : ~\E f : Rec(f, n)}
<1>1. \A s \in SUBSET S : IsFiniteSet(s) /\ Cardinality(s) \in Nat
  BY FS_Subset, FS_CardinalityType
<1>2. \A s \in SUBSET S : s # {} =>
        Least(s) \in s /\ s \ {Least(s)} \in SUBSET S /\ Cardinality(s \ {Least(s)}) = Cardinality(s) - 1
  BY <1>1, FS_RemoveElement DEF Least
<1>3. \A s \in SUBSET S : Cardinality(s) = 0 <=> s = {}
  BY <1>1, FS_EmptySet
<1>4. Missing = {}
  <2> SUFFICES ASSUME Missing # {} PROVE FALSE
    OBVIOUS
  <2>1. Missing \in SUBSET Nat
    OBVIOUS
  <2>2. PICK m \in Missing : \A k \in Missing : m <= k
    BY <2>1, LeastExists
  <2>3. m \in Nat /\ ~\E f : Rec(f, m)
    OBVIOUS
  <2>4. \A k \in Nat : (\E f : Rec(f, k)) <=> k \notin Missing
    OBVIOUS
  <2> HIDE DEF Missing
  <2>5. CASE m = 0
    <3> DEFINE f == [s \in Small(0) |-> 0]
    <3>1. \A s \in Small(0) : s = {}
      BY <1>1, <1>3
    <3>2. Rec(f, 0)
      BY <3>1
    <3> QED BY <2>3, <2>5, <3>2
  <2>6. CASE m # 0
    <3>1. m - 1 \in Nat /\ m - 1 \notin Missing
      BY <2>2, <2>3, <2>6
    <3>2. PICK f : Rec(f, m - 1)
      BY <2>4, <3>1
    <3> DEFINE g == [s \in Small(m) |-> IF s \in Small(m - 1) THEN f[s] ELSE of(f, s)]
    <3>0. \A s \in Small(m - 1) : s \in Small(m)
      BY <1>1, <2>3
    <3>3. \A s \in Small(m - 1) : f[s] = of(f, s) /\ s \in Small(m)
      <4> HIDE DEF Small, of
      <4> QED BY <3>0, <3>2
    <3>4. \A s \in Small(m) : s # {} => s \ {Least(s)} \in Small(m - 1)
      <4> TAKE s \in Small(m)
      <4> HAVE s # {}
      <4> DEFINE t == s \ {Least(s)}
      <4>1. t \in SUBSET S /\ Cardinality(t) = Cardinality(s) - 1
        BY <1>2
      <4>2. Cardinality(s) \in Nat /\ Cardinality(s) <= m
        BY <1>1
      <4> HIDE DEF t
      <4>3. t \in Small(m - 1)
        BY <2>3, <4>1, <4>2
      <4> QED BY <4>3 DEF t
    <3>5. \A s \in Small(m - 1) : g[s] = f[s]
      <4> HIDE DEF Small, of
      <4> QED BY <3>0
    <3>6. ASSUME NEW s \in Small(m) PROVE g[s] = of(g, s)
      <4>1. g[s] = of(f, s)
        BY <3>3
      <4>2. of(g, s) = of(f, s)
        <5>1. s # {} => g[s \ {Least(s)}] = f[s \ {Least(s)}]
          <6> HIDE DEF g, Small
          <6> QED BY <3>4, <3>5, <3>6
        <5> HIDE DEF g, Small
        <5> QED BY <5>1
      <4> QED BY <4>1, <4>2
    <3>7. g = [s \in Small(m) |-> g[s]]
      OBVIOUS
    <3> HIDE DEF g, of, Small
    <3>8. Rec(g, m)
      BY <3>6, <3>7
    <3> QED BY <2>3, <3>8
  <2> QED BY <2>5, <2>6
<1>5. Cardinality(S) \in Nat /\ Small(Cardinality(S)) = SUBSET S
  <2>1. \A s \in SUBSET S : Cardinality(s) <= Cardinality(S)
    BY FS_Subset
  <2> QED BY <1>1, <2>1
<1>6. \E f : Rec(f, Cardinality(S))
  BY <1>4, <1>5
<1> QED BY <1>5, <1>6 DEF Added

AddsLeast(h, f, s) == /\ f[s] = IF s = {} THEN 0 ELSE f[s \ {Least(s)}] + Len(h[Least(s)])
                      /\ s # {} => Least(s) \in s
LEMMA AddedAt ==
  ASSUME NEW h, NEW S, NEW f, Added(h, S, f)
  PROVE  \A s \in SUBSET S : AddsLeast(h, f, s)
BY DEF Added, Least, AddsLeast

LEMMA SizeIs ==
  ASSUME NEW h, IsFiniteSet(DOMAIN h)
  PROVE  \E f : Added(h, DOMAIN h, f) /\ Size(h) = f[DOMAIN h]
<1>1. Size(h) = (CHOOSE f : Added(h, DOMAIN h, f))[DOMAIN h]
  BY DEF Size, FoldFunction, FoldFunctionOnSet, MapThenFoldSet, Added, Least
<1>2. \E f : Added(h, DOMAIN h, f)
  BY AddedExists
<1> QED BY <1>1, <1>2

(* The sum is a number, and depends on nothing but what is added.          *)
LEMMA AddedNat ==
  ASSUME NEW h, NEW S, NEW f, Added(h, S, f), IsFiniteSet(S), \A x \in S : h[x] \in Text
  PROVE  \A s \in SUBSET S : f[s] \in Nat
<1> DEFINE B == {s \in SUBSET S : f[s] \notin Nat}
<1>1. B = {}
  <2> SUFFICES ASSUME B # {} PROVE FALSE
    OBVIOUS
  <2>1. PICK s \in B : \A x \in s : s \ {x} \notin B
    <3>1. B \in SUBSET SUBSET S
      OBVIOUS
    <3> HIDE DEF B
    <3> QED BY <3>1, SmallestSet
  <2>2. s \in SUBSET S /\ f[s] \notin Nat
    OBVIOUS
  <2>3. /\ f[s] = IF s = {} THEN 0 ELSE f[s \ {Least(s)}] + Len(h[Least(s)])
        /\ s # {} => Least(s) \in s
    BY <2>2, AddedAt DEF AddsLeast
  <2>4. s # {} => f[s \ {Least(s)}] \in Nat
    BY <2>1, <2>2, <2>3
  <2>5. s # {} => Len(h[Least(s)]) \in Nat
    BY <2>2, <2>3 DEF Text
  <2> QED BY <2>2, <2>3, <2>4, <2>5
<1> QED BY <1>1

(* Any element may be the last that is added.                              *)
Sums(h, S, f) == Added(h, S, f) /\ IsFiniteSet(S) /\ \A x \in S : h[x] \in Text
AddsAny(h, s, f) == \A y \in s : f[s] = f[s \ {y}] + Len(h[y])
LEMMA SumsAny ==
  ASSUME NEW h, NEW S, NEW f, Sums(h, S, f)
  PROVE  AddsAny(h, S, f)
<1>0. Added(h, S, f) /\ IsFiniteSet(S) /\ \A x \in S : h[x] \in Text
  BY DEF Sums
<1> DEFINE B == {s \in SUBSET S : \E y \in s : f[s] # f[s \ {y}] + Len(h[y])}
<1>1. B = {}
  <2> SUFFICES ASSUME B # {} PROVE FALSE
    OBVIOUS
  <2>1. PICK s \in B : \A x \in s : s \ {x} \notin B
    <3>1. B \in SUBSET SUBSET S
      OBVIOUS
    <3> HIDE DEF B
    <3> QED BY <1>0, <3>1, SmallestSet
  <2>2. s \in SUBSET S /\ \E y \in s : f[s] # f[s \ {y}] + Len(h[y])
    OBVIOUS
  <2>3. PICK y \in s : f[s] # f[s \ {y}] + Len(h[y])
    BY <2>2
  <2> DEFINE x == Least(s)
  <2>0. AddsLeast(h, f, s)
    <3> HIDE DEF B
    <3> QED BY <1>0, <2>2, AddedAt, Zenon
  <2>4. x \in s /\ f[s] = f[s \ {x}] + Len(h[x])
    <3>1. s # {}
      BY <2>3
    <3> HIDE DEF B
    <3> QED BY <2>0, <3>1 DEF AddsLeast
  <2>5. x # y
    BY <2>3, <2>4
  <2> HIDE DEF x
  <2>6. \A t \in SUBSET S : t \notin B => \A z \in t : f[t] = f[t \ {z}] + Len(h[z])
    OBVIOUS
  <2>7. s \ {x} \in SUBSET S /\ s \ {y} \in SUBSET S /\ s \ {x} \notin B /\ s \ {y} \notin B
        /\ y \in s \ {x} /\ x \in s \ {y} /\ (s \ {x}) \ {y} = (s \ {y}) \ {x}
    BY <2>1, <2>2, <2>4, <2>5
  <2> HIDE DEF B
  <2>8. f[s \ {x}] = f[(s \ {x}) \ {y}] + Len(h[y])
    BY <2>6, <2>7
  <2>9. f[s \ {y}] = f[(s \ {x}) \ {y}] + Len(h[x])
    BY <2>6, <2>7
  <2>10. f[(s \ {x}) \ {y}] \in Nat /\ Len(h[x]) \in Nat /\ Len(h[y]) \in Nat
    BY <1>0, <2>2, <2>4, <2>7, AddedNat DEF Text
  <2> DEFINE a == f[(s \ {x}) \ {y}]
             b == Len(h[x])
             c == Len(h[y])
  <2>11. f[s] = (a + c) + b /\ f[s] # (a + b) + c /\ a \in Nat /\ b \in Nat /\ c \in Nat
    BY <2>3, <2>4, <2>8, <2>9, <2>10
  <2> HIDE DEF a, b, c
  <2> QED BY <2>11
<1> QED BY <1>1 DEF AddsAny

(* Headers that agree have the same sum where they do.                     *)
LEMMA AddedSame ==
  ASSUME NEW h, NEW S, NEW f, Added(h, S, f), NEW g, NEW T, NEW e, Added(g, T, e),
         NEW U, U \subseteq S, U \subseteq T, IsFiniteSet(U), \A x \in U : h[x] = g[x]
  PROVE  f[U] = e[U]
<1> DEFINE B == {s \in SUBSET U : f[s] # e[s]}
<1>1. B = {}
  <2> SUFFICES ASSUME B # {} PROVE FALSE
    OBVIOUS
  <2>1. PICK s \in B : \A x \in s : s \ {x} \notin B
    <3>1. B \in SUBSET SUBSET U
      OBVIOUS
    <3> HIDE DEF B
    <3> QED BY <3>1, SmallestSet
  <2>2. s \in SUBSET U /\ s \in SUBSET S /\ s \in SUBSET T /\ f[s] # e[s]
    OBVIOUS
  <2>3. /\ f[s] = IF s = {} THEN 0 ELSE f[s \ {Least(s)}] + Len(h[Least(s)])
        /\ e[s] = IF s = {} THEN 0 ELSE e[s \ {Least(s)}] + Len(g[Least(s)])
        /\ s # {} => Least(s) \in s
    <3> HIDE DEF B
    <3>1. AddsLeast(h, f, s) /\ AddsLeast(g, e, s)
      BY <2>2, AddedAt, Zenon
    <3> QED BY <3>1 DEF AddsLeast
  <2>4. s # {} => f[s \ {Least(s)}] = e[s \ {Least(s)}] /\ h[Least(s)] = g[Least(s)]
    BY <2>1, <2>2, <2>3
  <2> QED BY <2>2, <2>3, <2>4
<1> QED BY <1>1

(* A header of which one value grows by n, or is new and has n bytes.      *)
LEMMA SizeGrows ==
  ASSUME NEW h, Header(h), NEW g, Header(g), NEW k, NEW n \in Nat,
         DOMAIN h \subseteq DOMAIN g, DOMAIN g \subseteq DOMAIN h \cup {k},
         \A x \in DOMAIN h \ {k} : g[x] = h[x],
         k \in DOMAIN g => Len(g[k]) <= (IF k \in DOMAIN h THEN Len(h[k]) + n ELSE n)
  PROVE  Size(h) \in Nat /\ Size(g) \in Nat /\ Size(g) <= Size(h) + n
<1>1. PICK f : Added(h, DOMAIN h, f) /\ Size(h) = f[DOMAIN h]
  BY SizeIs DEF Header
<1>2. PICK e : Added(g, DOMAIN g, e) /\ Size(g) = e[DOMAIN g]
  BY SizeIs DEF Header
<1> DEFINE U == DOMAIN h \ {k}
<1>3. U \subseteq DOMAIN h /\ U \subseteq DOMAIN g /\ IsFiniteSet(U) /\ DOMAIN g \ {k} = U
  BY FS_Subset DEF Header
<1>4. f[U] = e[U]
  <2> HIDE DEF U
  <2>1. \A x \in U : h[x] = g[x]
    BY DEF U
  <2> QED BY <1>1, <1>2, <1>3, <2>1, AddedSame
<1>5. f[U] \in Nat /\ f[DOMAIN h] \in Nat /\ e[DOMAIN g] \in Nat
  BY <1>1, <1>2, <1>3, AddedNat DEF Header
<1>6. IF k \in DOMAIN h THEN f[DOMAIN h] = f[U] + Len(h[k]) ELSE f[DOMAIN h] = f[U]
  <2>1. \A y \in DOMAIN h : f[DOMAIN h] = f[DOMAIN h \ {y}] + Len(h[y])
    <3>1. Sums(h, DOMAIN h, f)
      BY <1>1 DEF Header, Sums
    <3>2. AddsAny(h, DOMAIN h, f)
      BY <3>1, SumsAny
    <3> QED BY <3>2 DEF AddsAny
  <2>2. k \notin DOMAIN h => U = DOMAIN h
    OBVIOUS
  <2> QED BY <2>1, <2>2
<1>7. IF k \in DOMAIN g THEN e[DOMAIN g] = e[U] + Len(g[k]) ELSE e[DOMAIN g] = e[U]
  <2>1. \A y \in DOMAIN g : e[DOMAIN g] = e[DOMAIN g \ {y}] + Len(g[y])
    <3>1. Sums(g, DOMAIN g, e)
      BY <1>2 DEF Header, Sums
    <3>2. AddsAny(g, DOMAIN g, e)
      BY <3>1, SumsAny
    <3> QED BY <3>2 DEF AddsAny
  <2>2. k \notin DOMAIN g => U = DOMAIN g
    BY <1>3
  <2> HIDE DEF U
  <2> QED BY <1>3, <2>1, <2>2
<1>8. (k \in DOMAIN h => Len(h[k]) \in Nat) /\ (k \in DOMAIN g => Len(g[k]) \in Nat)
  BY DEF Header, Text
<1> HIDE DEF U
<1> QED BY <1>1, <1>2, <1>4, <1>5, <1>6, <1>7, <1>8

-----------------------------------------------------------------------------
(* What is kept of a head                                                  *)

(* A value that is set, and a value that is appended to                    *)
(* (request_parse.c:118-121).                                              *)
LEMMA SetHeader ==
  ASSUME NEW h, Header(h), NEW k, NEW s \in Text
  PROVE  LET g == rb_hash_aset(h, k, s)
         IN  Header(g) /\ Size(h) \in Nat /\ Size(g) \in Nat /\ Size(g) <= Size(h) + Len(s)
<1> DEFINE g == rb_hash_aset(h, k, s)
<1>1. /\ g = [x \in {k} \cup DOMAIN h |-> IF x = k THEN s ELSE h[x]]
  BY DEF rb_hash_aset
<1>2. /\ g = [x \in DOMAIN g |-> g[x]] /\ DOMAIN g = DOMAIN h \cup {k} /\ g[k] = s
      /\ \A x \in DOMAIN h \ {k} : g[x] = h[x]
  BY <1>1
<1> HIDE DEF g
<1>3. IsFiniteSet(DOMAIN g)
  BY <1>2, FS_AddElement DEF Header
<1>4. Header(g)
  BY <1>2, <1>3 DEF Header
<1>5. Len(s) \in Nat /\ (k \in DOMAIN h => Len(h[k]) \in Nat)
  BY DEF Header, Text
<1>6. Len(g[k]) <= IF k \in DOMAIN h THEN Len(h[k]) + Len(s) ELSE Len(s)
  BY <1>2, <1>5
<1>7. DOMAIN h \subseteq DOMAIN g /\ DOMAIN g \subseteq DOMAIN h \cup {k}
  BY <1>2
<1>8. Size(h) \in Nat /\ Size(g) \in Nat /\ Size(g) <= Size(h) + Len(s)
  BY <1>2, <1>4, <1>5, <1>6, <1>7, SizeGrows
<1> QED BY <1>4, <1>8 DEF g

LEMMA AppendHeader ==
  ASSUME NEW h, Header(h), NEW k, NEW s \in Text
  PROVE  LET g == [h EXCEPT ![k] = @ \o s]
         IN  Header(g) /\ Size(h) \in Nat /\ Size(g) \in Nat /\ Size(g) <= Size(h) + Len(s)
<1> DEFINE g == [h EXCEPT ![k] = @ \o s]
<1>1. /\ g = [x \in DOMAIN h |-> g[x]] /\ DOMAIN g = DOMAIN h
      /\ \A x \in DOMAIN h \ {k} : g[x] = h[x]
      /\ k \in DOMAIN h => g[k] = h[k] \o s
  OBVIOUS
<1> HIDE DEF g
<1>2. k \in DOMAIN h => g[k] \in Text /\ Len(g[k]) = Len(h[k]) + Len(s)
  <2>1. k \in DOMAIN h => h[k] \in Text /\ h[k] \o s \in Text /\ Len(h[k] \o s) = Len(h[k]) + Len(s)
    BY Joined DEF Header, Text
  <2> QED BY <1>1, <2>1
<1>3. Header(g)
  BY <1>1, <1>2 DEF Header
<1>4. Len(s) \in Nat /\ (k \in DOMAIN h => Len(h[k]) \in Nat)
  BY DEF Header, Text
<1>5. k \in DOMAIN g => Len(g[k]) <= IF k \in DOMAIN h THEN Len(h[k]) + Len(s) ELSE Len(s)
  BY <1>1, <1>2, <1>4
<1>6. DOMAIN h \subseteq DOMAIN g /\ DOMAIN g \subseteq DOMAIN h \cup {k}
  BY <1>1
<1>7. Size(h) \in Nat /\ Size(g) \in Nat /\ Size(g) <= Size(h) + Len(s)
  BY <1>1, <1>3, <1>4, <1>5, <1>6, SizeGrows
<1> QED BY <1>3, <1>7 DEF g

Long(s) == IF s = Qnil THEN 0 ELSE Len(s)
(* A request whose headers are not complete.                               *)
Headed(r) == /\ Header(r.header) /\ r.path_with_query \in Text \cup {Qnil}
             /\ r.mparser.state = "NULL" /\ r.parse_state = "PS_INIT"

(* What of a request is Kept, by its parts.                                *)
LEMMA LongType ==
  /\ \A s \in Text \cup {Qnil} : Long(s) \in Nat
  /\ \A s \in Text : Long(s) = Len(s) /\ Len(s) \in Nat
  /\ \A s, t \in Text : Long(s \o t) = Len(s) + Len(t)
  /\ Long(Qnil) = 0
<1>1. \A s \in Text : Len(s) \in Nat /\ s # Qnil
  BY TextIsNotQnil DEF Text
<1>2. \A s, t \in Text : s \o t \in Text /\ Len(s \o t) = Len(s) + Len(t)
  BY Joined DEF Text
<1> QED BY <1>1, <1>2 DEF Long

LEMMA KeptIs ==
  \A r : Kept(r) = Long(r.path_with_query) + Size(r.header) + Long(r.last_field)
BY DEF Kept, Long, Size

LEMMA KeptType ==
  ASSUME NEW r, Reads(r), Headed(r)
  PROVE  Size(r.header) \in Nat /\ Kept(r) \in Nat
<1>1. Size(r.header) \in Nat
  <2>1. <<>> \in Text /\ Header(r.header)
    BY DEF Text, Headed
  <2> QED BY <2>1, SetHeader
<1>2. Long(r.path_with_query) \in Nat /\ Long(r.last_field) \in Nat
  BY LongType DEF Reads, Headed, Texts
<1> QED BY <1>1, <1>2, KeptIs

(* A callback keeps no more than the data it is given.                     *)
LEMMA UrlKeeps ==
  ASSUME NEW r, Reads(r), Headed(r), NEW s \in Text
  PROVE  Headed(on_url(r, s)) /\ Kept(on_url(r, s)) <= Kept(r) + Len(s)
<1> DEFINE path == IF r.path_with_query = Qnil THEN s ELSE r.path_with_query \o s
           n == [r EXCEPT !.method = parser.method, !.path_with_query = path]
<1>1. on_url(r, s) = n
  BY FieldsOfRequest DEF on_url, Reads, Texts
<1>2. path \in Text /\ Long(path) = Long(r.path_with_query) + Len(s)
  <2>1. CASE r.path_with_query = Qnil
    BY <2>1, LongType
  <2>2. CASE r.path_with_query # Qnil
    BY <2>2, LongType, Joined DEF Headed
  <2> QED BY <2>1, <2>2
<1> HIDE DEF path
<1>3. /\ n.path_with_query = path /\ n.header = r.header /\ n.last_field = r.last_field
      /\ n.mparser = r.mparser /\ n.parse_state = r.parse_state
  BY FieldsOfRequest DEF Reads, Texts
<1> HIDE DEF n
<1>4. Headed(n)
  BY <1>2, <1>3 DEF Headed
<1>5. Size(r.header) \in Nat /\ Long(r.path_with_query) \in Nat /\ Long(r.last_field) \in Nat /\ Len(s) \in Nat
  BY KeptType, LongType DEF Reads, Headed, Texts
<1>6. Kept(n) <= Kept(r) + Len(s)
  BY <1>2, <1>3, <1>5, KeptIs
<1> QED BY <1>1, <1>4, <1>6

LEMMA NameKeeps ==
  ASSUME NEW r, Reads(r), Headed(r), NEW s \in Text
  PROVE  Headed(on_header_field(r, s)) /\ Kept(on_header_field(r, s)) <= Kept(r) + Len(s)
<1> DEFINE field == IF r.last_field = Qnil THEN s ELSE r.last_field \o s
           n == on_header_field(r, s)
<1>1. Long(field) = Long(r.last_field) + Len(s)
  <2>1. CASE r.last_field = Qnil
    BY <2>1, LongType
  <2>2. CASE r.last_field # Qnil
    BY <2>2, LongType DEF Reads, Texts
  <2> QED BY <2>1, <2>2
<1>2. n = [r EXCEPT !.last_field = field, !.last_value = IF r.last_field = Qnil THEN Qnil ELSE r.last_value]
  BY FieldsOfRequest DEF on_header_field, Reads, Texts
<1> HIDE DEF field, n
<1>3. /\ n.path_with_query = r.path_with_query /\ n.header = r.header /\ n.last_field = field
      /\ n.mparser = r.mparser /\ n.parse_state = r.parse_state
  BY <1>2, FieldsOfRequest DEF Reads, Texts
<1>4. Headed(n)
  BY <1>3 DEF Headed
<1>5. Size(r.header) \in Nat /\ Long(r.path_with_query) \in Nat /\ Long(r.last_field) \in Nat /\ Len(s) \in Nat
  BY KeptType, LongType DEF Reads, Headed, Texts
<1>6. Kept(n) <= Kept(r) + Len(s)
  BY <1>1, <1>3, <1>5, KeptIs
<1> QED BY <1>4, <1>6 DEF n

LEMMA ValueKeeps ==
  ASSUME NEW r, Reads(r), Headed(r), NEW s \in Text, HasHeader(r)
  PROVE  Headed(on_header_value(r, s)) /\ Kept(on_header_value(r, s)) <= Kept(r) + Len(s)
<1> DEFINE n == on_header_value(r, s)
<1>1. /\ Size(r.header) \in Nat /\ Long(r.path_with_query) \in Nat /\ Long(r.last_field) \in Nat
      /\ Len(s) \in Nat /\ Header(r.header) /\ Long(Qnil) = 0
  BY KeptType, LongType DEF Reads, Headed, Texts
<1>2. \E h, field : /\ Header(h) /\ Size(h) \in Nat /\ Size(h) <= Size(r.header) + Len(s)
                    /\ Long(field) \in Nat /\ Long(field) <= Long(r.last_field)
                    /\ n.header = h /\ n.last_field = field /\ n.path_with_query = r.path_with_query
                    /\ n.mparser = r.mparser /\ n.parse_state = r.parse_state
  <2>1. CASE r.last_field # Qnil
    <3> DEFINE h == rb_hash_aset(r.header, nyara_headerlize(r.last_field), s)
    <3>1. Header(h) /\ Size(h) \in Nat /\ Size(h) <= Size(r.header) + Len(s)
      BY <1>1, SetHeader
    <3>2. n = [r EXCEPT !.header = h, !.last_value = s, !.last_key = r.last_field, !.last_field = Qnil]
      BY <2>1 DEF on_header_value
    <3> HIDE DEF h, n
    <3>3. /\ n.header = h /\ n.last_field = Qnil /\ n.path_with_query = r.path_with_query
          /\ n.mparser = r.mparser /\ n.parse_state = r.parse_state
      BY <3>2, FieldsOfRequest DEF Reads, Texts
    <3>4. Long(Qnil) <= Long(r.last_field) /\ Long(Qnil) \in Nat
      BY <1>1
    <3> QED BY <3>1, <3>3, <3>4
  <2>2. CASE r.last_field = Qnil
    <3> DEFINE h == [r.header EXCEPT ![nyara_headerlize(r.last_key)] = @ \o s]
               t == r.last_value \o s
    <3>1. Header(h) /\ Size(h) \in Nat /\ Size(h) <= Size(r.header) + Len(s)
      BY <1>1, AppendHeader
    <3>2. n = [r EXCEPT !.last_value = t, !.header = h]
      BY <2>2, FieldsOfRequest DEF on_header_value, Reads, Texts, HasHeader
    <3> HIDE DEF h, n, t
    <3>3. /\ n.header = h /\ n.last_field = r.last_field /\ n.path_with_query = r.path_with_query
          /\ n.mparser = r.mparser /\ n.parse_state = r.parse_state
      BY <3>2, FieldsOfRequest DEF Reads, Texts
    <3>4. Long(r.last_field) <= Long(r.last_field)
      BY <1>1
    <3> QED BY <1>1, <3>1, <3>3, <3>4
  <2> QED BY <2>1, <2>2
<1> HIDE DEF n
<1>3. Headed(n)
  BY <1>2 DEF Headed
<1>4. Kept(n) <= Kept(r) + Len(s)
  <2>1. Kept(n) = Long(r.path_with_query) + Size(n.header) + Long(n.last_field)
    BY <1>2, KeptIs
  <2>2. /\ Size(n.header) \in Nat /\ Size(n.header) <= Size(r.header) + Len(s)
        /\ Long(n.last_field) \in Nat /\ Long(n.last_field) <= Long(r.last_field)
    BY <1>2
  <2>3. Kept(r) = Long(r.path_with_query) + Size(r.header) + Long(r.last_field)
    BY KeptIs
  <2> QED BY <1>1, <2>1, <2>2, <2>3
<1> QED BY <1>3, <1>4 DEF n

LEMMA CallbackKeeps ==
  ASSUME NEW r, Reads(r), Headed(r), NEW c, c.on \in Names, c.data \in Text,
         c.on = "header_value" => HasHeader(r), Callback(r, c).parse_state = "PS_INIT"
  PROVE  Headed(Callback(r, c)) /\ Kept(Callback(r, c)) <= Kept(r) + Len(c.data)
<1>1. CASE c.on = "url"
  BY <1>1, UrlKeeps DEF Callback
<1>2. CASE c.on = "header_field"
  BY <1>2, NameKeeps DEF Callback
<1>3. CASE c.on = "header_value"
  BY <1>3, ValueKeeps DEF Callback
<1>4. CASE c.on = "headers_complete"
  BY <1>4, HeadersReads DEF Callback
<1>5. CASE c.on = "body"
  <2> DEFINE t == r.body \o c.data
             n == [r EXCEPT !.body = t]
  <2>1. Callback(r, c) = n
    BY <1>5 DEF Callback, on_body, Multi, Headed
  <2> HIDE DEF t
  <2>2. /\ n.path_with_query = r.path_with_query /\ n.header = r.header
        /\ n.last_field = r.last_field /\ n.mparser = r.mparser /\ n.parse_state = r.parse_state
    BY FieldsOfRequest DEF Reads, Texts
  <2> HIDE DEF n
  <2>3. Headed(n) /\ Kept(n) = Kept(r)
    BY <2>2, KeptIs DEF Headed
  <2>4. Len(c.data) \in Nat /\ Kept(r) \in Nat
    BY KeptType DEF Text
  <2> QED BY <2>1, <2>3, <2>4
<1>6. CASE c.on = "message_complete"
  <2> DEFINE n == [r EXCEPT !.parse_state = "PS_MESSAGE_COMPLETE"]
  <2>1. Callback(r, c) = n
    BY <1>6 DEF Callback
  <2>2. n.parse_state = "PS_MESSAGE_COMPLETE"
    BY FieldsOfRequest DEF Reads, Texts
  <2> HIDE DEF n
  <2> QED BY <2>1, <2>2
<1> QED BY <1>1, <1>2, <1>3, <1>4, <1>5, <1>6 DEF Names

-----------------------------------------------------------------------------
(* The head is counted                                                     *)

(* What the call has read of the head and not given to a callback yet.     *)
Waiting == IF go = "out" THEN 0 ELSE Pending(mark, p) + Ahead(go)
(* Every byte of a head that is kept was counted by http_parser.           *)
HeadCounted ==
  q.parse_state = "PS_INIT" =>
    /\ Headed(q) /\ Kept(q) <= HTTP_MAX_HEADER_SIZE
    /\ parser.http_errno = "HPE_OK" =>
         /\ parser.state \in Heads /\ parser.nread <= HTTP_MAX_HEADER_SIZE
         /\ Kept(q) + Waiting <= parser.nread

(* A new request has kept nothing.                                         *)
LEMMA HeadCountedInit ==
  ASSUME Init
  PROVE  HeadCounted
<1>1. q = Request0 /\ go = "out" /\ parser = Parser0
  BY DEF Init, ParserInit
<1>2. Header(<<>>) /\ Size(<<>>) = 0
  <2>1. <<>> = [x \in DOMAIN <<>> |-> <<>>[x]] /\ DOMAIN <<>> = {} /\ IsFiniteSet({})
    BY FS_EmptySet
  <2>2. Header(<<>>)
    BY <2>1 DEF Header
  <2>3. PICK f : Added(<<>>, DOMAIN <<>>, f) /\ Size(<<>>) = f[DOMAIN <<>>]
    BY <2>1, SizeIs
  <2>4. AddsLeast(<<>>, f, {})
    <3>1. {} \in SUBSET DOMAIN <<>>
      OBVIOUS
    <3> QED BY <2>3, <3>1, AddedAt, Zenon
  <2>5. f[{}] = 0
    BY <2>4 DEF AddsLeast
  <2>6. Size(<<>>) = f[{}]
    BY <2>1, <2>3
  <2> QED BY <2>2, <2>5, <2>6
<1>3. /\ Request0.header = <<>> /\ Request0.path_with_query = Qnil /\ Request0.last_field = Qnil
      /\ Request0.mparser.state = "NULL" /\ Request0.parse_state = "PS_INIT"
  BY DEF Request0, NoMultipart
<1>4. Kept(Request0) = 0 + 0 + 0
  BY <1>2, <1>3, KeptIs, LongType
<1>5. Headed(Request0)
  BY <1>2, <1>3 DEF Headed
<1>6. Parser0.state \in Heads /\ Parser0.nread = 0
  BY DEF Parser0, Heads, RequestLineStates
<1>7. Waiting = 0 /\ HTTP_MAX_HEADER_SIZE \in Nat
  BY <1>1, HeaderSizeAssumption DEF Waiting
<1> QED BY <1>1, <1>4, <1>5, <1>6, <1>7 DEF HeadCounted

(* A byte is not read when the head is too large, and the end of a buffer  *)
(* ends the call.                                                          *)
LEMMA OverflowsOrNot ==
  ASSUME PInv, NEW fail \in BOOLEAN, ParserStep(fail)
  PROVE  HeaderOverflow \/ ~TooLarge \/ ~(p <= Len(data))
<1>1. RequestLine \/ UrlStart \/ HeaderFieldStart \/ HeaderEnd \/ ChunkLine => ~TooLarge
  BY Zenon DEF RequestLine, UrlStart, HeaderFieldStart, HeaderEnd, ChunkLine, At
<1>2. UrlByte(fail) \/ HeaderField(fail) \/ HeaderValueStart(fail) \/ HeaderValue(fail)
      => ~TooLarge
  BY Zenon DEF UrlByte, HeaderField, HeaderValueStart, HeaderValue, At
<1>3. \/ HeadersAlmostDone(fail) \/ HeadersDone(fail) \/ BodyIdentity(fail)
      \/ MessageDone(fail) \/ ChunkData(fail)
      => ~TooLarge
  BY Zenon DEF HeadersAlmostDone, HeadersDone, BodyIdentity, MessageDone, ChunkData, At
<1>4. EndOfBuffer(fail) => ~(p <= Len(data))
  <2>1. p \in Nat /\ Len(data) \in Nat
    BY DEF PInv
  <2>2. EndOfBuffer(fail) => p > Len(data)
    BY Zenon DEF EndOfBuffer
  <2> QED BY <2>1, <2>2
<1> QED BY <1>1, <1>2, <1>3, <1>4 DEF ParserStep

LEMMA EndsCall ==
  ASSUME NEW fail \in BOOLEAN, ParserStep(fail)
  PROVE  p <= Len(data) \/ go' = "out"
<1>1. p <= Len(data) \/ EndOfBuffer(fail)
  BY DEF ParserStep, HeaderOverflow, RequestLine, UrlStart, HeaderFieldStart, HeaderEnd,
     ChunkLine, UrlByte, HeaderField, HeaderValueStart, HeaderValue, HeadersAlmostDone,
     HeadersDone, BodyIdentity, MessageDone, ChunkData, At
<1>2. EndOfBuffer(fail) => go' = "out"
  BY DEF EndOfBuffer, Step, Return
<1> QED BY <1>1, <1>2

(* A step of the parser counts a byte before it is kept.                   *)
LEMMA HeadCountedParse ==
  ASSUME RInv, HeadCounted, Parse
  PROVE  HeadCounted'
<1> SUFFICES ASSUME q'.parse_state = "PS_INIT"
             PROVE  /\ Headed(q') /\ Kept(q') <= HTTP_MAX_HEADER_SIZE
                    /\ parser'.http_errno = "HPE_OK" =>
                         /\ parser'.state \in Heads /\ parser'.nread <= HTTP_MAX_HEADER_SIZE
                         /\ Kept(q') + Waiting' <= parser'.nread
  BY DEF HeadCounted
<1>1. /\ phase = "read" /\ Reads(q) /\ q.parse_state # "PS_ERROR"
      /\ (parser.http_errno = "HPE_OK" /\ parser.state \in ValueStates => HasHeader(q))
      /\ PInv /\ data \in Text
  BY DEF Parse, RInv
<1>2. PICK fail \in BOOLEAN : ParserStep(fail) /\ q' = FoldLeft(Callback, q, calls')
  BY DEF Parse
<1>3. go \in {"byte", "again"} /\ Marked /\ parser.http_errno = "HPE_OK"
  <2>1. go # "out"
    BY <1>2 DEF ParserStep, HeaderOverflow, RequestLine, UrlStart, HeaderFieldStart, HeaderEnd,
       ChunkLine, UrlByte, HeaderField, HeaderValueStart, HeaderValue, HeadersAlmostDone,
       HeadersDone, BodyIdentity, MessageDone, ChunkData, EndOfBuffer, At
  <2> QED BY <1>1, <2>1 DEF RInv, PInv
<1>4. /\ parser.nread \in Nat /\ HTTP_MAX_HEADER_SIZE \in Nat /\ p \in Nat /\ mark \in MarkType
  BY <1>1, HeaderSizeAssumption DEF PInv, Sound, Typed, Text
<1>5. Pending(mark, p) \in Nat
  BY <1>3, <1>4, PendingType DEF Marked
<1>6. q.parse_state = "PS_INIT" =>
        /\ Headed(q) /\ Kept(q) \in Nat /\ Kept(q) <= HTTP_MAX_HEADER_SIZE
        /\ parser.state \in Heads /\ parser.nread <= HTTP_MAX_HEADER_SIZE
        /\ Kept(q) + Pending(mark, p) + Ahead(go) <= parser.nread
  <2>1. Waiting = Pending(mark, p) + Ahead(go) /\ Ahead(go) \in Nat
    BY <1>3 DEF Waiting, Ahead
  <2>2. Headed(q) => Kept(q) \in Nat
    BY <1>1, KeptType
  <2> QED BY <1>3, <1>5, <2>1, <2>2 DEF HeadCounted
<1>7. CASE HeaderOverflow
  <2>1. calls' = <<>> /\ parser' = Fail(Counted, "HPE_HEADER_OVERFLOW")
    BY <1>7 DEF HeaderOverflow, Return
  <2>2. parser'.http_errno # "HPE_OK"
    <3>1. Typed(Counted)
      BY <1>1, CountedFields DEF PInv, Sound
    <3> QED BY <2>1, <3>1, Failed
  <2>3. q' = q
    BY <1>2, <2>1, FoldNone
  <2> QED BY <1>6, <2>2, <2>3
<1>8. CASE Turns /\ (~TooLarge \/ ~(p <= Len(data)))
  <2>1. PICK r, marks, callbacks, next, at : \E failed \in BOOLEAN :
          Step(r, marks, callbacks, next, at, failed) /\ Turn(r, marks, callbacks, next, at)
    BY <1>8 DEF Turns
  <2>2. PICK failed \in BOOLEAN : Step(r, marks, callbacks, next, at, failed)
    BY <2>1
  <2>3. Turn(r, marks, callbacks, next, at)
    BY <2>1
  <2>4. calls' = callbacks /\ Typed(r) /\ Fail(r, "HPE_CB").http_errno = "HPE_CB"
        /\ r.nread \in Nat
    BY <2>2, <2>3, Failed DEF Step, Turn, Typed
  <2>5. parser'.http_errno = "HPE_OK" => parser' = r /\ r.http_errno = "HPE_OK"
    BY <2>2, <2>4 DEF Step, Return
  <2>6. go' # "out" => /\ parser' = r /\ mark' = marks /\ p' = at /\ go' = next /\ Goes(r, next)
    BY <2>2 DEF Step, Return, Goes
  <2>7. /\ q.parse_state = "PS_INIT" /\ Headed(q') /\ ~Notifies(callbacks) /\ Cost(callbacks) \in Nat
        /\ Kept(q') <= Kept(q) + Cost(callbacks) /\ Kept(q') \in Nat
    <3>1. CASE callbacks = <<>>
      <4>1. q' = q
        BY <1>2, <2>4, <3>1, FoldNone
      <4>2. Cost(callbacks) = 0 /\ ~Notifies(callbacks)
        BY <3>1 DEF Cost, Notifies
      <4> QED BY <1>6, <4>1, <4>2
    <3>2. CASE callbacks # <<>>
      <4>1. PICK c : /\ callbacks = <<c>> /\ c.on \in Names /\ c.data \in Text
                     /\ c.on = "header_value" => parser.state \in ValueStates
        BY <2>3, <3>2 DEF Turn, OneCall
      <4>2. q' = Callback(q, c) /\ (c.on = "header_value" => HasHeader(q))
        BY <1>1, <1>2, <1>3, <2>4, <4>1, FoldOne
      <4>3. Reads(q') /\ q.parse_state = "PS_INIT"
        BY <1>1, <4>1, <4>2, KeepsItself, CallbackReads
      <4>4. Headed(q') /\ Kept(q') <= Kept(q) + Len(c.data)
        BY <1>1, <1>6, <4>1, <4>2, <4>3, CallbackKeeps
      <4>5. Cost(callbacks) = Len(c.data) /\ Len(c.data) \in Nat /\ callbacks[1] = c
        BY <4>1 DEF Cost, Text
      <4>6. c.on \notin {"headers_complete", "message_complete"}
        <5>1. CASE c.on = "headers_complete"
          <6>1. q'.parse_state = "PS_HEADERS_COMPLETE"
            BY <1>1, <4>2, <5>1, HeadersReads DEF Callback
          <6> QED BY <6>1
        <5>2. CASE c.on = "message_complete"
          <6>1. q' = [q EXCEPT !.parse_state = "PS_MESSAGE_COMPLETE"]
            BY <4>2, <5>2 DEF Callback
          <6> QED BY <1>1, <6>1, FieldsOfRequest DEF Reads, Texts
        <5> QED BY <5>1, <5>2
      <4>7. ~Notifies(callbacks)
        BY <4>5, <4>6 DEF Notifies
      <4>8. Kept(q') \in Nat
        BY <4>3, <4>4, KeptType
      <4> QED BY <4>3, <4>4, <4>5, <4>7, <4>8
    <3> QED BY <3>1, <3>2
  <2>8. /\ Headed(q) /\ Kept(q) \in Nat /\ Kept(q) <= HTTP_MAX_HEADER_SIZE
        /\ parser.state \in Heads /\ parser.nread <= HTTP_MAX_HEADER_SIZE
        /\ Kept(q) + Pending(mark, p) + Ahead(go) <= parser.nread
    BY <1>6, <2>7
  <2>9. /\ r.nread = IF go = "byte" /\ p <= Len(data) THEN parser.nread + 1 ELSE parser.nread
        /\ r.http_errno = "HPE_OK" => r.state \in Heads
        /\ Cost(callbacks) <= Pending(mark, p)
        /\ Goes(r, next) =>
            Pending(marks, at) + Ahead(next) + Cost(callbacks) <= Pending(mark, p) + 1
    BY <2>3, <2>7, <2>8 DEF Turn
  <2>10. Ahead(go) \in Nat /\ (go = "again" => Ahead(go) = 1)
    BY DEF Ahead
  <2>11. Kept(q') <= parser.nread /\ parser.nread <= r.nread
    BY <1>4, <1>5, <2>7, <2>8, <2>9, <2>10
  <2>12. r.nread <= HTTP_MAX_HEADER_SIZE
    <3>1. CASE go = "byte" /\ p <= Len(data)
      <4>1. PARSING_HEADER(parser.state)
        BY <2>8 DEF Heads, PARSING_HEADER, BodyStates, ChunkDataStates, RequestLineStates,
           UrlStates, ValueStates
      <4>2. Counted.nread = parser.nread + 1
        BY <1>1, <3>1, <4>1 DEF Counted, PInv, Sound, Typed, IsParser, Fields
      <4>3. ~(parser.nread + 1 > HTTP_MAX_HEADER_SIZE)
        BY <1>8, <3>1, <4>1, <4>2 DEF TooLarge
      <4> QED BY <1>4, <2>9, <3>1, <4>3
    <3>2. CASE ~(go = "byte" /\ p <= Len(data))
      BY <2>8, <2>9, <3>2
    <3> QED BY <3>1, <3>2
  <2>13. ASSUME parser'.http_errno = "HPE_OK"
         PROVE  Kept(q') + Waiting' <= parser'.nread
    <3>1. parser' = r
      BY <2>5, <2>13
    <3>2. CASE go' = "out"
      <4>1. Waiting' = 0
        BY <3>2 DEF Waiting
      <4> QED BY <1>4, <2>4, <2>7, <2>11, <3>1, <4>1
    <3>3. CASE go' # "out"
      <4>1. Waiting' = Pending(marks, at) + Ahead(next)
        BY <2>6, <3>3 DEF Waiting, Pending, Ahead
      <4>2. Goes(r, next)
        BY <2>6, <3>3
      <4>3. (go = "byte" /\ p <= Len(data)) \/ go = "again"
        BY <1>2, <1>3, <3>3, EndsCall
      <4>4. Pending(marks, at) \in Nat
        <5>1. PInv' /\ Marked'
          BY <3>3, ParseKeeps DEF RInv
        <5>2. mark' \in MarkType /\ p' \in Nat /\ Behind(mark', p')
          BY <5>1 DEF PInv, Marked
        <5>3. mark' = marks /\ p' = at
          BY <2>6, <3>3
        <5> QED BY <5>2, <5>3, PendingType
      <4>5. Ahead(next) \in Nat
        BY DEF Ahead
      <4> DEFINE a == Pending(marks, at)
                 b == Ahead(next)
                 c == Pending(mark, p)
                 d == Cost(callbacks)
                 k == Kept(q)
                 m == Kept(q')
      <4>6. /\ a \in Nat /\ b \in Nat /\ c \in Nat /\ d \in Nat /\ k \in Nat /\ m \in Nat
            /\ r.nread \in Nat /\ parser.nread \in Nat
            /\ a + b + d <= c + 1 /\ m <= k + d
            /\ k + c + Ahead(go) <= parser.nread
        BY <1>4, <1>5, <2>4, <2>7, <2>8, <2>9, <4>2, <4>4, <4>5
      <4>7. \/ r.nread = parser.nread + 1 /\ Ahead(go) \in Nat
            \/ r.nread = parser.nread /\ Ahead(go) = 1
        BY <2>9, <2>10, <4>3
      <4> HIDE DEF a, b, c, d, k, m
      <4>8. m + (a + b) <= r.nread
        BY <4>6, <4>7
      <4> QED BY <3>1, <4>1, <4>8 DEF a, b, m
    <3> QED BY <3>2, <3>3
  <2>14. Kept(q') <= HTTP_MAX_HEADER_SIZE
    BY <1>4, <2>4, <2>7, <2>11, <2>12
  <2> QED BY <2>5, <2>7, <2>9, <2>12, <2>13, <2>14
<1>9. HeaderOverflow \/ (Turns /\ (~TooLarge \/ ~(p <= Len(data))))
  BY <1>1, <1>2, <1>3, ParserTurns, OverflowsOrNot
<1> QED BY <1>7, <1>8, <1>9

(* A call takes up what the one before it had not finished: nothing is     *)
(* pending at its first byte.                                              *)
LEMMA HeadCountedRead ==
  ASSUME RInv, HeadCounted, NEW k \in 1..Len(net), Read(k)
  PROVE  HeadCounted'
<1>1. Execute(SubSeq(net, 1, k)) /\ q' = q /\ go = "out" /\ phase = "read"
  BY DEF Read
<1>2. parser' = parser /\ Waiting = 0
  BY <1>1 DEF Execute, Waiting
<1>3. parser.http_errno = "HPE_OK" => Waiting' = 0
  <2> SUFFICES ASSUME parser.http_errno = "HPE_OK" PROVE Waiting' = 0
    OBVIOUS
  <2> DEFINE f1 == IF parser.state = "s_header_field" THEN 1 ELSE 0
             v1 == IF parser.state = "s_header_value" THEN 1 ELSE 0
             u1 == IF parser.state \in UrlStates THEN 1 ELSE 0
             marks == [NoMarks EXCEPT !.header_field = f1, !.header_value = v1, !.url = u1]
  <2>1. mark' = marks /\ p' = 1 /\ go' = "byte"
    BY <1>1 DEF Execute
  <2>2. f1 \in 0..1 /\ v1 \in 0..1 /\ u1 \in 0..1
    OBVIOUS
  <2> HIDE DEF f1, v1, u1
  <2>3. marks["header_field"] = f1 /\ marks["header_value"] = v1 /\ marks["url"] = u1
    BY DEF NoMarks
  <2> HIDE DEF marks
  <2>4. Pending(marks, 1) = 0 /\ Ahead("byte") = 0
    BY <2>2, <2>3 DEF Pending, Since, Ahead
  <2>5. Waiting' = Pending(marks, 1) + Ahead("byte")
    BY <2>1 DEF Waiting
  <2> QED BY <2>4, <2>5
<1> QED BY <1>1, <1>2, <1>3 DEF HeadCounted

LEMMA HeadCountedStep ==
  ASSUME RInv, HeadCounted, [Next]_vars
  PROVE  HeadCounted'
<1>1. CASE Parse
  BY <1>1, HeadCountedParse
<1>2. ASSUME NEW k \in 1..Len(net), Read(k) PROVE HeadCounted'
  BY <1>2, HeadCountedRead
<1>3. CASE Event \/ EAGAIN \/ Dispatch \/ UNCHANGED vars
  <2>1. UNCHANGED <<pvars, q>>
    BY <1>3 DEF Event, EAGAIN, Dispatch, vars, rvars
  <2>2. Waiting' = Waiting /\ q' = q /\ parser' = parser
    BY <2>1 DEF pvars, Waiting
  <2> QED BY <2>2 DEF HeadCounted
<1> QED BY <1>1, <1>2, <1>3 DEF Next

(* What a client makes the worker keep before its action starts never      *)
(* exceeds HTTP_MAX_HEADER_SIZE: path, values and name that the callbacks  *)
(* of request_parse.c build up are made of bytes that http_parser counted  *)
(* in nread (http_parser.c:638-645).                                       *)
THEOREM HeadBoundedAlways == Spec => []HeadBounded
<1>1. Init => RInv /\ HeadCounted
  BY RInvInit, HeadCountedInit
<1>2. RInv /\ HeadCounted /\ [Next]_vars => (RInv /\ HeadCounted)'
  BY RInvStep, HeadCountedStep
<1>3. RInv /\ HeadCounted => HeadBounded
  BY DEF HeadCounted, HeadBounded
<1> QED BY <1>1, <1>2, <1>3, PTL DEF Spec

-----------------------------------------------------------------------------
(* Where the texts of a request are on their way                           *)

TextCalls == {"url", "header_field", "header_value"}
(* The states in which a byte may be taken for a text.                     *)
Source == [url |-> UrlStates \cup {"s_req_spaces_before_url"}, header_field |-> NameStates,
           header_value |-> {"s_header_value_start", "s_header_value"}]
TakesText(f) == \/ f = "url" /\ TakesUrl
                \/ f = "header_field" /\ TakesName
                \/ f = "header_value" /\ TakesValue

(* Of a text nothing is held; or it gets one more byte; or what is held is *)
(* given to its callback.                                                  *)
Flow(f, r, marks, callbacks, next, at) ==
  \/ /\ mark[f] = 0 /\ marks[f] = 0 /\ ~TakesText(f) /\ r.state \notin Home[f]
     /\ \A c : callbacks = <<c>> => c.on # f
  \/ /\ callbacks = <<>> /\ TakesText(f) /\ at = p + 1 /\ next # "out"
     /\ marks[f] = IF mark[f] = 0 THEN p ELSE mark[f]
  \/ /\ callbacks = <<[on |-> f, data |-> Held(f)]>> /\ marks[f] = 0 /\ ~TakesText(f)
     /\ r.state \in Home[f] => next = "out"
Flows(r, marks, callbacks, next, at) ==
  r.http_errno = "HPE_OK" => \A f \in TextCalls : Flow(f, r, marks, callbacks, next, at)

(* After the headers, and in the trailers.                                 *)
Later == {"s_headers_done", "s_body_identity", "s_message_done"} \cup ChunkSizeStates
         \cup ChunkDataStates
Trailers == NameStates \cup ValueStates \cup {"s_headers_almost_done"}
Past(r) == r.state \in Later \/ (r.state \in Trailers /\ "F_TRAILING" \in r.flags)
Rest(r, callbacks) ==
  /\ \A c : callbacks = <<c>> =>
       /\ parser.state \in NameStates => c.on = "header_field"
       /\ parser.state \in ValueStates => c.on = "header_value"
       /\ Past(parser) => \/ c.on \in {"body", "message_complete"}
                          \/ c.on \in {"header_field", "header_value"}
                             /\ "F_TRAILING" \in parser.flags
       /\ c.on = "body" => Past(parser)
       /\ c.on = "headers_complete" => Past(r)
  /\ Past(parser) /\ r.http_errno = "HPE_OK" =>
       Past(r) \/ \E c : callbacks = <<c>> /\ c.on = "message_complete"

Flowing == \E r, marks, callbacks, next, at : \E failed \in BOOLEAN :
  /\ Step(r, marks, callbacks, next, at, failed)
  /\ Flows(r, marks, callbacks, next, at) /\ Rest(r, callbacks)

(* What is read is marked where it goes on.                                *)
AllMarked == \A f \in TextCalls : parser.state \in Home[f] => mark[f] # 0

LEMMA TextCallsAre ==
  /\ DOMAIN NoMarks = TextCalls \cup {"body"} /\ TextCalls \subseteq {"header_field", "header_value", "url", "body"}
  /\ Home["url"] = UrlStates /\ Home["header_field"] = {"s_header_field"}
  /\ Home["header_value"] = {"s_header_value"}
  /\ Source["url"] = UrlStates \cup {"s_req_spaces_before_url"}
  /\ Source["header_field"] = NameStates
  /\ Source["header_value"] = {"s_header_value_start", "s_header_value"}
  /\ \A f \in TextCalls : Home[f] \subseteq Source[f]
  /\ \A f, g \in TextCalls : f # g => Source[f] \cap Source[g] = {}
<1>1. DOMAIN NoMarks = TextCalls \cup {"body"} /\ TextCalls \subseteq {"header_field", "header_value", "url", "body"}
  BY DEF NoMarks, TextCalls
<1>2. /\ Home["url"] = UrlStates /\ Home["header_field"] = {"s_header_field"}
      /\ Home["header_value"] = {"s_header_value"}
      /\ Source["url"] = UrlStates \cup {"s_req_spaces_before_url"}
      /\ Source["header_field"] = NameStates
      /\ Source["header_value"] = {"s_header_value_start", "s_header_value"}
  BY DEF Home, Source
<1>3. \A f \in TextCalls : Home[f] \subseteq Source[f]
  BY <1>2 DEF TextCalls, NameStates
<1>4. \A f, g \in TextCalls : f # g => Source[f] \cap Source[g] = {}
  BY <1>2 DEF TextCalls, NameStates, UrlStates
<1> QED BY <1>1, <1>2, <1>3, <1>4

(* No byte is taken for a text away from its states.                       *)
LEMMA TakenAtSource ==
  ASSUME NEW f \in TextCalls, TakesText(f)
  PROVE  parser.state \in Source[f] /\ go # "out" /\ p <= Len(data)
<1>1. "s_header_field_start" \in NameStates /\ "s_header_field" \in NameStates
  BY DEF NameStates
<1> QED BY <1>1, TextCallsAre DEF TakesText, TakesUrl, TakesName, TakesValue, Takes

(* The texts that a step has nothing to do with.                           *)
LEMMA IdleFlows ==
  ASSUME PInv, NEW S, At(S), NEW F \in SUBSET TextCalls, \A f \in F : S \cap Source[f] = {},
         NEW r, NEW marks, NEW callbacks, NEW next, NEW at,
         \A f \in F : marks[f] = mark[f] /\ r.state \notin Home[f],
         \A c : callbacks = <<c>> => c.on \notin F
  PROVE  \A f \in F : Flow(f, r, marks, callbacks, next, at)
<1> SUFFICES ASSUME NEW f \in F PROVE Flow(f, r, marks, callbacks, next, at)
  OBVIOUS
<1>1. parser.state \in S /\ Placed(parser, mark)
  BY AtByte
<1>2. mark[f] = 0 /\ marks[f] = 0
  BY <1>1, TextCallsAre DEF Placed
<1>3. ~TakesText(f)
  BY <1>1, TakenAtSource
<1> QED BY <1>2, <1>3 DEF Flow

(* A byte that is taken, and data that is given.                           *)
LEMMA TakenFlow ==
  ASSUME NEW f \in TextCalls, TakesText(f), NEW r, NEW marks, NEW next, next # "out",
         marks[f] = IF mark[f] = 0 THEN p ELSE mark[f]
  PROVE  Flow(f, r, marks, <<>>, next, p + 1)
BY DEF Flow

LEMMA GivenFlow ==
  ASSUME NEW f \in TextCalls, ~TakesText(f), mark[f] # 0, NEW r, NEW marks, marks[f] = 0,
         r.state \notin Home[f], NEW next, NEW at
  PROVE  Flow(f, r, marks, CALLBACK_DATA(mark, f, p), next, at)
BY DEF Flow, CALLBACK_DATA, Held

(* The marks of the other texts stay.                                      *)
LEMMA MarksApart ==
  ASSUME PInv, NEW S, At(S), NEW f \in TextCalls
  PROVE  /\ \A g \in TextCalls \ {f} : MARK(f)[g] = mark[g] /\ Clear(f)[g] = mark[g]
         /\ MARK(f)[f] = (IF mark[f] = 0 THEN p ELSE mark[f]) /\ Clear(f)[f] = 0
<1>1. mark \in MarkType
  BY AtByte
<1> QED BY <1>1, TextCallsAre DEF MARK, Clear, MarkType

LEMMA RequestLineFlows ==
  ASSUME PInv, RequestLine
  PROVE  Flowing
<1> DEFINE r == CASE parser.state = "s_start_req" -> StartReq(Counted, ch)
                  [] parser.state = "s_req_method" -> ReqMethod(Counted, ch)
                  [] OTHER -> Version(Counted, ch)
<1>1. At(RequestLineStates) /\ Step(r, mark, <<>>, "byte", p + 1, FALSE)
  BY DEF RequestLine, Byte
<1>2. Typed(Counted) /\ Counted.state = parser.state /\ parser.state \in RequestLineStates
  BY <1>1, AtByte
<1>3. r.state \in LineStates
  BY <1>2, StartReqGoes, ReqMethodGoes, VersionGoes
<1> HIDE DEF r
<1>4. \A f \in TextCalls : RequestLineStates \cap Source[f] = {} /\ LineStates \cap Home[f] = {}
  BY TextCallsAre DEF TextCalls, RequestLineStates, LineStates, UrlStates, NameStates
<1>5. Flows(r, mark, <<>>, "byte", p + 1)
  BY <1>1, <1>3, <1>4, IdleFlows DEF Flows
<1>6. Rest(r, <<>>)
  BY <1>2 DEF Rest, Past, Later, Trailers, NameStates, ValueStates, RequestLineStates,
     ChunkSizeStates, ChunkDataStates
<1> QED BY <1>1, <1>5, <1>6 DEF Flowing

LEMMA UrlEnds ==
  ASSUME NEW r, Typed(r), NEW c, Url(r, c).http_errno = "HPE_OK"
  PROVE  c \notin {SP, CR, LF}
<1>1. ASSUME c \in {SP, CR, LF}, NEW s PROVE parse_url_char(s, c) = "s_dead"
  BY <1>1 DEF parse_url_char
<1>2. \A s : Fail([r EXCEPT !.state = s], "HPE_INVALID_URL").http_errno = "HPE_INVALID_URL"
  BY DEF Fail, Typed, IsParser, Fields
<1> DEFINE from == IF r.state = "s_req_spaces_before_url" /\ r.method = "CONNECT"
                   THEN "s_req_server_start" ELSE r.state
           to == parse_url_char(from, c)
<1>3. to = "s_dead" => Url(r, c) = Fail([r EXCEPT !.state = to], "HPE_INVALID_URL")
  BY DEF Url
<1>4. c \in {SP, CR, LF} => to = "s_dead"
  BY <1>1
<1> HIDE DEF to
<1>5. to = "s_dead" => Url(r, c).http_errno = "HPE_INVALID_URL"
  BY <1>2, <1>3
<1> QED BY <1>4, <1>5

LEMMA UrlRest ==
  ASSUME parser.state \in UrlStates \cup {"s_req_spaces_before_url"}, NEW r, NEW callbacks,
         callbacks = <<>> \/ \E s : callbacks = <<[on |-> "url", data |-> s]>>
  PROVE  Rest(r, callbacks)
<1>1. ~Past(parser) /\ parser.state \notin NameStates /\ parser.state \notin ValueStates
  BY DEF Past, Later, Trailers, NameStates, ValueStates, UrlStates, ChunkSizeStates, ChunkDataStates
<1>2. \A c : callbacks = <<c>> => c.on = "url"
  OBVIOUS
<1> QED BY <1>1, <1>2 DEF Rest

LEMMA UrlStartFlows ==
  ASSUME PInv, UrlStart
  PROVE  Flowing
<1>1. At({"s_req_spaces_before_url"})
  BY DEF UrlStart
<1>2. /\ parser.state = "s_req_spaces_before_url" /\ Typed(Counted) /\ go # "out" /\ p <= Len(data)
      /\ Counted.state = parser.state /\ Counted.http_errno = "HPE_OK" /\ "url" \in TextCalls
  BY <1>1, AtByte DEF TextCalls, At
<1>3. /\ \A f \in TextCalls \ {"url"} : {"s_req_spaces_before_url"} \cap Source[f] = {}
      /\ \A f \in TextCalls : "s_req_spaces_before_url" \notin Home[f]
  BY TextCallsAre DEF TextCalls, UrlStates, NameStates
<1>4. CASE ch = SP
  <2>1. Step(Counted, mark, <<>>, "byte", p + 1, FALSE)
    BY <1>4 DEF UrlStart, Byte
  <2>2. ~TakesText("url")
    BY <1>4 DEF TakesText, TakesUrl, Takes
  <2>3. mark["url"] = 0
    BY <1>1, <1>2, <1>3, AtByte, TextCallsAre DEF Placed
  <2>4. Flow("url", Counted, mark, <<>>, "byte", p + 1)
    BY <1>2, <1>3, <2>2, <2>3 DEF Flow
  <2>5. \A f \in TextCalls \ {"url"} : Flow(f, Counted, mark, <<>>, "byte", p + 1)
    BY <1>1, <1>2, <1>3, IdleFlows
  <2>6. Rest(Counted, <<>>)
    BY <1>2, UrlRest
  <2> QED BY <2>1, <2>4, <2>5, <2>6 DEF Flowing, Flows
<1>5. CASE ch # SP
  <2> DEFINE r == Url(Counted, ch)
             m == MARK("url")
  <2>1. Step(r, m, <<>>, "byte", p + 1, FALSE)
    BY <1>5 DEF UrlStart
  <2>2. r.http_errno = "HPE_OK" => r.state \in UrlStates /\ ch \notin {SP, CR, LF}
    BY <1>2, UrlTyped, UrlEnds
  <2>3. /\ \A g \in TextCalls \ {"url"} : m[g] = mark[g]
        /\ m["url"] = IF mark["url"] = 0 THEN p ELSE mark["url"]
    BY <1>1, <1>2, MarksApart
  <2> HIDE DEF r, m
  <2>4. ASSUME r.http_errno = "HPE_OK" PROVE Flow("url", r, m, <<>>, "byte", p + 1)
    <3>1. TakesText("url")
      BY <1>2, <2>2, <2>4 DEF TakesText, TakesUrl, Takes
    <3> QED BY <1>2, <2>3, <3>1, TakenFlow
  <2>5. ASSUME r.http_errno = "HPE_OK"
        PROVE  \A f \in TextCalls \ {"url"} : Flow(f, r, m, <<>>, "byte", p + 1)
    <3>1. \A f \in TextCalls \ {"url"} : UrlStates \cap Home[f] = {}
      BY TextCallsAre DEF TextCalls, UrlStates
    <3> QED BY <1>1, <1>3, <2>2, <2>3, <2>5, <3>1, IdleFlows
  <2>6. Rest(r, <<>>)
    BY <1>2, UrlRest
  <2> QED BY <2>1, <2>4, <2>5, <2>6 DEF Flowing, Flows
<1> QED BY <1>4, <1>5

LEMMA UrlByteFlows ==
  ASSUME PInv, AllMarked, NEW fail \in BOOLEAN, UrlByte(fail)
  PROVE  Flowing
<1>1. At(UrlStates)
  BY DEF UrlByte
<1>2. /\ parser.state \in UrlStates /\ Typed(Counted) /\ go # "out" /\ p <= Len(data)
      /\ Counted.state = parser.state /\ Counted.http_errno = "HPE_OK" /\ "url" \in TextCalls
      /\ Home["url"] = UrlStates /\ mark["url"] # 0
  BY <1>1, AtByte, TextCallsAre DEF TextCalls, At, AllMarked
<1>3. \A f \in TextCalls \ {"url"} : UrlStates \cap Source[f] = {} /\ UrlStates \cap Home[f] = {}
  BY TextCallsAre DEF TextCalls, UrlStates, NameStates
<1> DEFINE ends == ch \in {SP, CR, LF} /\ parser.state \notin {"s_req_schema", "s_req_schema_slash",
                     "s_req_schema_slash_slash", "s_req_server_start"}
<1>4. CASE ends
  <2> DEFINE s == CASE ch = SP -> "s_req_http_start" [] ch = CR -> "s_req_line_almost_done"
                    [] ch = LF -> "s_header_field_start"
             r == [Counted EXCEPT !.state = s]
             m == Clear("url")
             cbs == CALLBACK_DATA(mark, "url", p)
  <2>1. Step(r, m, cbs, "byte", p + 1, fail)
    BY <1>4 DEF UrlByte
  <2>2. s \in LineStates
    BY <1>4 DEF LineStates, RequestLineStates
  <2> HIDE DEF s
  <2>3. r.state = s
    BY <1>2 DEF Typed, IsParser, Fields
  <2>4. \A f \in TextCalls : LineStates \cap Home[f] = {}
    BY TextCallsAre DEF TextCalls, RequestLineStates, LineStates, UrlStates
  <2>5. (\A g \in TextCalls \ {"url"} : m[g] = mark[g]) /\ m["url"] = 0
    BY <1>1, <1>2, MarksApart
  <2> HIDE DEF r, m
  <2>6. ~TakesText("url")
    BY <1>4 DEF TakesText, TakesUrl, Takes
  <2>7. Flow("url", r, m, cbs, "byte", p + 1)
    BY <1>2, <2>2, <2>3, <2>4, <2>5, <2>6, GivenFlow
  <2>8. cbs = <<[on |-> "url", data |-> SubSeq(data, mark["url"], p - 1)]>>
    BY <1>2 DEF CALLBACK_DATA
  <2>9. \A c : cbs = <<c>> => c.on \notin TextCalls \ {"url"}
    BY <2>8
  <2> HIDE DEF cbs
  <2>10. \A f \in TextCalls \ {"url"} : Flow(f, r, m, cbs, "byte", p + 1)
    BY <1>1, <1>3, <2>2, <2>3, <2>4, <2>5, <2>9, IdleFlows
  <2>11. Rest(r, cbs)
    BY <1>2, <2>8, UrlRest
  <2> QED BY <2>1, <2>7, <2>10, <2>11 DEF Flowing, Flows
<1>5. CASE ~ends
  <2> DEFINE r == Url(Counted, ch)
  <2>1. Step(r, mark, <<>>, "byte", p + 1, FALSE)
    BY <1>5 DEF UrlByte, Byte
  <2>2. r.http_errno = "HPE_OK" => r.state \in UrlStates /\ ch \notin {SP, CR, LF}
    BY <1>2, UrlTyped, UrlEnds
  <2> HIDE DEF r
  <2>3. ASSUME r.http_errno = "HPE_OK" PROVE Flow("url", r, mark, <<>>, "byte", p + 1)
    <3>1. TakesText("url")
      BY <1>2, <2>2, <2>3 DEF TakesText, TakesUrl, Takes
    <3> QED BY <1>2, <3>1, TakenFlow
  <2>4. ASSUME r.http_errno = "HPE_OK"
        PROVE  \A f \in TextCalls \ {"url"} : Flow(f, r, mark, <<>>, "byte", p + 1)
    BY <1>1, <1>3, <2>2, <2>4, IdleFlows
  <2>5. Rest(r, <<>>)
    BY <1>2, UrlRest
  <2> QED BY <2>1, <2>3, <2>4, <2>5 DEF Flowing, Flows
<1> QED BY <1>4, <1>5

(* What a byte of a header leaves: trailers go on.                         *)
LEMMA HeaderRest ==
  ASSUME parser.state \in NameStates \cup ValueStates, NEW r,
         r.http_errno = "HPE_OK" => r.state \in Trailers /\ parser.flags \subseteq r.flags,
         NEW callbacks,
         \/ callbacks = <<>>
         \/ parser.state \in NameStates /\ \E s : callbacks = <<[on |-> "header_field", data |-> s]>>
         \/ parser.state \in ValueStates /\ \E s : callbacks = <<[on |-> "header_value", data |-> s]>>
  PROVE  Rest(r, callbacks)
<1>1. parser.state \notin Later /\ (parser.state \in NameStates => parser.state \notin ValueStates)
  BY DEF Later, NameStates, ValueStates, ChunkSizeStates, ChunkDataStates
<1>2. Past(parser) => "F_TRAILING" \in parser.flags
  BY <1>1 DEF Past
<1>3. Past(parser) /\ r.http_errno = "HPE_OK" => Past(r)
  BY <1>2 DEF Past
<1>4. \A c : callbacks = <<c>> => \/ parser.state \in NameStates /\ c.on = "header_field"
                                  \/ parser.state \in ValueStates /\ c.on = "header_value"
  OBVIOUS
<1> QED BY <1>1, <1>2, <1>3, <1>4 DEF Rest

LEMMA HeaderFieldStartFlows ==
  ASSUME PInv, HeaderFieldStart
  PROVE  Flowing
<1>1. At({"s_header_field_start"})
  BY DEF HeaderFieldStart
<1>2. /\ parser.state = "s_header_field_start" /\ Typed(Counted) /\ go # "out" /\ p <= Len(data)
      /\ Counted.state = parser.state /\ Counted.flags = parser.flags /\ "header_field" \in TextCalls
      /\ parser.state \in NameStates
  BY <1>1, AtByte DEF TextCalls, At, NameStates
<1>3. /\ \A f \in TextCalls \ {"header_field"} : /\ {"s_header_field_start"} \cap Source[f] = {}
                                                /\ "s_header_field" \notin Home[f]
      /\ \A f \in TextCalls : "s_header_field_start" \notin Home[f] /\ "s_headers_almost_done" \notin Home[f]
  BY TextCallsAre DEF TextCalls, UrlStates, NameStates
<1>4. {"s_headers_almost_done", "s_header_field", "s_header_field_start"} \subseteq Trailers
  BY DEF Trailers, NameStates
<1>5. CASE ch \in {CR, LF}
  <2> DEFINE r == [Counted EXCEPT !.state = "s_headers_almost_done"]
  <2>1. \/ Step(r, mark, <<>>, "again", p, FALSE)
        \/ Step(r, mark, <<>>, "byte", p + 1, FALSE)
    BY <1>5 DEF HeaderFieldStart, Byte, CR, LF
  <2>2. r.state = "s_headers_almost_done" /\ r.flags = parser.flags
    BY <1>2 DEF Typed, IsParser, Fields
  <2> HIDE DEF r
  <2>3. ~TakesText("header_field")
    BY <1>2, <1>5 DEF TakesText, TakesName, Takes
  <2>4. mark["header_field"] = 0
    BY <1>1, <1>2, <1>3, AtByte, TextCallsAre DEF Placed
  <2>5. \A next, at : Flow("header_field", r, mark, <<>>, next, at)
    BY <1>2, <1>3, <2>2, <2>3, <2>4 DEF Flow
  <2>6. \A next, at : \A f \in TextCalls \ {"header_field"} : Flow(f, r, mark, <<>>, next, at)
    BY <1>1, <1>3, <2>2, IdleFlows
  <2>7. Rest(r, <<>>)
    BY <1>2, <1>4, <2>2, HeaderRest
  <2>8. \A next, at : Flows(r, mark, <<>>, next, at)
    BY <2>5, <2>6 DEF Flows
  <2> QED BY <2>1, <2>7, <2>8 DEF Flowing
<1>6. CASE ch \notin {CR, LF}
  <2> DEFINE r == FieldStart(Counted, ch)
             m == MARK("header_field")
  <2>1. Step(r, m, <<>>, "byte", p + 1, FALSE)
    BY <1>6 DEF HeaderFieldStart
  <2>2. r.state \in {"s_header_field", "s_header_field_start"} /\ r.flags = parser.flags
        /\ (r.http_errno = "HPE_OK" => r.state = "s_header_field")
    <3> DEFINE h == IF <<LOWER(ch)>> \in Starts(FieldWords) THEN <<LOWER(ch)>> ELSE h_general
    <3>1. \/ r = [Counted EXCEPT !.state = "s_header_field", !.index = 0, !.header_state = h]
          \/ r = Fail(Counted, "HPE_INVALID_HEADER_TOKEN")
      BY DEF FieldStart
    <3> HIDE DEF h, r
    <3> QED BY <1>2, <3>1 DEF Fail, Typed, IsParser, Fields
  <2>3. /\ \A g \in TextCalls \ {"header_field"} : m[g] = mark[g]
        /\ m["header_field"] = IF mark["header_field"] = 0 THEN p ELSE mark["header_field"]
    BY <1>1, <1>2, MarksApart
  <2> HIDE DEF r, m
  <2>4. TakesText("header_field")
    BY <1>2, <1>6 DEF TakesText, TakesName, Takes
  <2>5. Flow("header_field", r, m, <<>>, "byte", p + 1)
    BY <1>2, <2>3, <2>4, TakenFlow
  <2>6. \A f \in TextCalls \ {"header_field"} : Flow(f, r, m, <<>>, "byte", p + 1)
    <3> DEFINE F == TextCalls \ {"header_field"}
    <3>1. /\ F \in SUBSET TextCalls
          /\ \A f \in F : /\ {"s_header_field_start"} \cap Source[f] = {}
                          /\ m[f] = mark[f] /\ r.state \notin Home[f]
      BY <1>3, <2>2, <2>3
    <3> HIDE DEF F
    <3>2. \A f \in F : Flow(f, r, m, <<>>, "byte", p + 1)
      BY <1>1, <3>1, IdleFlows
    <3> QED BY <3>2 DEF F
  <2>7. Rest(r, <<>>)
    BY <1>2, <1>4, <2>2, HeaderRest
  <2> QED BY <2>1, <2>5, <2>6, <2>7 DEF Flowing, Flows
<1> QED BY <1>5, <1>6

LEMMA HeaderFieldFlows ==
  ASSUME PInv, AllMarked, NEW fail \in BOOLEAN, HeaderField(fail)
  PROVE  Flowing
<1>1. At({"s_header_field"})
  BY DEF HeaderField
<1>2. /\ parser.state = "s_header_field" /\ Typed(Counted) /\ go # "out" /\ p <= Len(data)
      /\ Counted.state = parser.state /\ Counted.flags = parser.flags /\ "header_field" \in TextCalls
      /\ parser.state \in NameStates /\ mark["header_field"] # 0
  BY <1>1, AtByte, TextCallsAre DEF TextCalls, At, NameStates, AllMarked
<1>3. \A f \in TextCalls \ {"header_field"} : {"s_header_field"} \cap Source[f] = {}
  BY TextCallsAre DEF TextCalls, UrlStates
<1> DEFINE ends == {"s_header_value_start", "s_header_almost_done", "s_header_field_start"}
<1>4. ends \cup {"s_header_field"} \subseteq Trailers /\ \A f \in TextCalls : ends \cap Home[f] = {}
  BY TextCallsAre DEF Trailers, NameStates, ValueStates, TextCalls, UrlStates
<1>5. CASE ch \in {":", CR, LF}
  <2> DEFINE s == CASE ch = ":" -> "s_header_value_start" [] ch = CR -> "s_header_almost_done"
                    [] ch = LF -> "s_header_field_start"
             r == [Counted EXCEPT !.state = s]
             m == Clear("header_field")
             cbs == CALLBACK_DATA(mark, "header_field", p)
  <2>1. Step(r, m, cbs, "byte", p + 1, fail)
    BY <1>5 DEF HeaderField
  <2>2. s \in ends
    BY <1>5
  <2> HIDE DEF s, ends
  <2>3. r.state = s /\ r.flags = parser.flags
    BY <1>2 DEF Typed, IsParser, Fields
  <2>4. (\A g \in TextCalls \ {"header_field"} : m[g] = mark[g]) /\ m["header_field"] = 0
    BY <1>1, <1>2, MarksApart
  <2> HIDE DEF r, m
  <2>5. ~TakesText("header_field")
    BY <1>2, <1>5 DEF TakesText, TakesName, Takes
  <2>6. Flow("header_field", r, m, cbs, "byte", p + 1)
    BY <1>2, <1>4, <2>2, <2>3, <2>4, <2>5, GivenFlow
  <2>7. cbs = <<[on |-> "header_field", data |-> SubSeq(data, mark["header_field"], p - 1)]>>
    BY <1>2 DEF CALLBACK_DATA
  <2>8. \A c : cbs = <<c>> => c.on \notin TextCalls \ {"header_field"}
    BY <2>7
  <2> HIDE DEF cbs
  <2>9. \A f \in TextCalls \ {"header_field"} : Flow(f, r, m, cbs, "byte", p + 1)
    BY <1>1, <1>3, <1>4, <2>2, <2>3, <2>4, <2>8, IdleFlows
  <2>10. Rest(r, cbs)
    BY <1>2, <1>4, <2>2, <2>3, <2>7, HeaderRest
  <2> QED BY <2>1, <2>6, <2>9, <2>10 DEF Flowing, Flows
<1>6. CASE ch \notin {":", CR, LF}
  <2> DEFINE r == Field(Counted, ch)
  <2>1. Step(r, mark, <<>>, "byte", p + 1, FALSE)
    BY <1>6 DEF HeaderField, Byte
  <2>2. r.state = "s_header_field" /\ r.flags = parser.flags
    <3> DEFINE h == Match(Counted.header_state, LOWER(ch), FieldWords)
    <3>1. \/ r = [Counted EXCEPT !.header_state = h]
          \/ r = Fail(Counted, "HPE_INVALID_HEADER_TOKEN")
      BY DEF Field
    <3> HIDE DEF h, r
    <3> QED BY <1>2, <3>1 DEF Fail, Typed, IsParser, Fields
  <2> HIDE DEF r
  <2>3. TakesText("header_field")
    BY <1>2, <1>6 DEF TakesText, TakesName, Takes
  <2>4. Flow("header_field", r, mark, <<>>, "byte", p + 1)
    BY <1>2, <2>3, TakenFlow
  <2>5. \A f \in TextCalls \ {"header_field"} : "s_header_field" \notin Home[f]
    BY TextCallsAre DEF TextCalls, UrlStates
  <2>6. \A f \in TextCalls \ {"header_field"} : Flow(f, r, mark, <<>>, "byte", p + 1)
    BY <1>1, <1>3, <2>2, <2>5, IdleFlows
  <2>7. Rest(r, <<>>)
    BY <1>2, <1>4, <2>2, HeaderRest
  <2> QED BY <2>1, <2>4, <2>6, <2>7 DEF Flowing, Flows
<1> QED BY <1>5, <1>6

LEMMA ValueStartFlags ==
  ASSUME NEW r, Typed(r), NEW c
  PROVE  r.flags \subseteq ValueStart(r, c).flags
<1> DEFINE value == [r EXCEPT !.state = "s_header_value", !.index = 0]
<1>1. Typed(value) /\ value.flags = r.flags
  BY DEF Typed, IsParser, Fields
<1> HIDE DEF value
<1>2. CASE r.header_state = h_upgrade
  <2>1. ValueStart(r, c) = [value EXCEPT !.flags = @ \cup {"F_UPGRADE"}, !.header_state = h_general]
    BY <1>2 DEF ValueStart, value, h_upgrade, h_content_length, h_transfer_encoding
  <2> QED BY <1>1, <2>1 DEF Typed, IsParser, Fields
<1>3. CASE r.header_state = h_transfer_encoding
  <2> DEFINE h == IF <<LOWER(c)>> \in Starts(ValueWords) THEN <<LOWER(c)>> ELSE h_general
  <2>1. ValueStart(r, c) = [value EXCEPT !.header_state = h]
    BY <1>3 DEF ValueStart, value, h_upgrade, h_content_length, h_transfer_encoding
  <2> HIDE DEF h
  <2> QED BY <1>1, <2>1 DEF Typed, IsParser, Fields
<1>4. CASE r.header_state = h_content_length
  <2>1. \/ ValueStart(r, c) = [value EXCEPT !.content_length = Unhex(c)]
        \/ ValueStart(r, c) = Fail(value, "HPE_INVALID_CONTENT_LENGTH")
    BY <1>4 DEF ValueStart, value, h_upgrade, h_content_length, h_transfer_encoding
  <2> QED BY <1>1, <2>1 DEF Typed, IsParser, Fields, Fail
<1>5. CASE r.header_state \notin {h_upgrade, h_transfer_encoding, h_content_length}
  <2>1. ValueStart(r, c) = [value EXCEPT !.header_state = h_general]
    BY <1>5 DEF ValueStart, value
  <2> QED BY <1>1, <2>1 DEF Typed, IsParser, Fields
<1> QED BY <1>2, <1>3, <1>4, <1>5

LEMMA HeaderValueStartFlows ==
  ASSUME PInv, NEW fail \in BOOLEAN, HeaderValueStart(fail), data \in Text
  PROVE  Flowing
<1>1. At({"s_header_value_start"})
  BY DEF HeaderValueStart
<1>2. /\ parser.state = "s_header_value_start" /\ Typed(Counted) /\ go # "out" /\ p <= Len(data)
      /\ Counted.state = parser.state /\ Counted.flags = parser.flags /\ "header_value" \in TextCalls
      /\ parser.state \in ValueStates /\ Counted.http_errno = "HPE_OK" /\ p \in 1..Len(data)
      /\ Len(data) \in Nat
  BY <1>1, AtByte DEF TextCalls, At, ValueStates
<1>3. /\ \A f \in TextCalls \ {"header_value"} : /\ {"s_header_value_start"} \cap Source[f] = {}
                                                /\ "s_header_value" \notin Home[f]
      /\ \A f \in TextCalls : /\ "s_header_value_start" \notin Home[f]
                              /\ {"s_header_almost_done", "s_header_field_start"} \cap Home[f] = {}
  BY TextCallsAre DEF TextCalls, UrlStates, NameStates
<1>4. {"s_header_value_start", "s_header_value", "s_header_almost_done", "s_header_field_start"}
        \subseteq Trailers
  BY DEF Trailers, NameStates, ValueStates
<1>5. mark["header_value"] = 0
  BY <1>1, <1>2, <1>3, AtByte, TextCallsAre DEF Placed
<1>6. CASE ch \in {SP, "TAB"}
  <2>1. Step(Counted, mark, <<>>, "byte", p + 1, FALSE)
    BY <1>6 DEF HeaderValueStart, Byte, SP, CR, LF
  <2>2. ~TakesText("header_value")
    BY <1>2, <1>6 DEF TakesText, TakesValue, Takes
  <2>3. Flow("header_value", Counted, mark, <<>>, "byte", p + 1)
    BY <1>2, <1>3, <1>5, <2>2 DEF Flow
  <2>4. \A f \in TextCalls \ {"header_value"} : Flow(f, Counted, mark, <<>>, "byte", p + 1)
    <3> DEFINE F == TextCalls \ {"header_value"}
    <3>1. /\ F \in SUBSET TextCalls
          /\ \A f \in F : /\ {"s_header_value_start"} \cap Source[f] = {}
                          /\ Counted.state \notin Home[f]
      BY <1>2, <1>3
    <3> HIDE DEF F
    <3>2. \A f \in F : Flow(f, Counted, mark, <<>>, "byte", p + 1)
      BY <1>1, <3>1, IdleFlows
    <3> QED BY <3>2 DEF F
  <2>5. Rest(Counted, <<>>)
    BY <1>2, <1>4, HeaderRest
  <2> QED BY <2>1, <2>3, <2>4, <2>5 DEF Flowing, Flows
<1>7. CASE ch \in {CR, LF}
  <2> DEFINE h == IF ch = CR THEN h_general ELSE Counted.header_state
             s == IF ch = CR THEN "s_header_almost_done" ELSE "s_header_field_start"
             r == [Counted EXCEPT !.index = 0, !.header_state = h, !.state = s]
             m == Clear("header_value")
             cbs == CALLBACK_DATA(MARK("header_value"), "header_value", p)
  <2>1. Step(r, m, cbs, "byte", p + 1, fail)
    BY <1>7 DEF HeaderValueStart, SP, CR, LF
  <2>2. s \in {"s_header_almost_done", "s_header_field_start"}
    OBVIOUS
  <2> HIDE DEF s, h
  <2>3. r.state = s /\ r.flags = parser.flags
    BY <1>2 DEF Typed, IsParser, Fields
  <2>4. (\A g \in TextCalls \ {"header_value"} : m[g] = mark[g]) /\ m["header_value"] = 0
        /\ MARK("header_value")["header_value"] = p
    BY <1>1, <1>2, <1>5, MarksApart
  <2> HIDE DEF r, m
  <2>5. ~TakesText("header_value")
    BY <1>2, <1>7 DEF TakesText, TakesValue, Takes
  <2>6. cbs = <<[on |-> "header_value", data |-> <<>>]>>
    <3>1. SubSeq(data, p, p - 1) = <<>>
      BY <1>2 DEF Text
    <3> QED BY <1>2, <2>4, <3>1 DEF CALLBACK_DATA
  <2> HIDE DEF cbs
  <2>7. Flow("header_value", r, m, cbs, "byte", p + 1)
    <3>1. Held("header_value") = <<>> /\ r.state \notin Home["header_value"]
      BY <1>2, <1>3, <1>5, <2>2, <2>3 DEF Held
    <3> QED BY <2>4, <2>5, <2>6, <3>1 DEF Flow
  <2>8. \A c : cbs = <<c>> => c.on \notin TextCalls \ {"header_value"}
    BY <2>6
  <2>9. \A f \in TextCalls \ {"header_value"} : Flow(f, r, m, cbs, "byte", p + 1)
    BY <1>1, <1>3, <2>2, <2>3, <2>4, <2>8, IdleFlows
  <2>10. Rest(r, cbs)
    BY <1>2, <1>4, <2>2, <2>3, <2>6, HeaderRest
  <2> QED BY <2>1, <2>7, <2>9, <2>10 DEF Flowing, Flows
<1>8. CASE ch \notin {SP, "TAB", CR, LF}
  <2> DEFINE r == ValueStart(Counted, ch)
             m == MARK("header_value")
  <2>1. Step(r, m, <<>>, "byte", p + 1, FALSE)
    BY <1>8 DEF HeaderValueStart
  <2>2. r.state = "s_header_value" /\ parser.flags \subseteq r.flags
    BY <1>2, ValueStartSound, ValueStartFlags
  <2>3. (\A g \in TextCalls \ {"header_value"} : m[g] = mark[g])
        /\ m["header_value"] = IF mark["header_value"] = 0 THEN p ELSE mark["header_value"]
    BY <1>1, <1>2, MarksApart
  <2> HIDE DEF r, m
  <2>4. TakesText("header_value")
    BY <1>2, <1>8 DEF TakesText, TakesValue, Takes
  <2>5. Flow("header_value", r, m, <<>>, "byte", p + 1)
    BY <1>2, <2>3, <2>4, TakenFlow
  <2>6. \A f \in TextCalls \ {"header_value"} : Flow(f, r, m, <<>>, "byte", p + 1)
    BY <1>1, <1>3, <2>2, <2>3, IdleFlows
  <2>7. Rest(r, <<>>)
    BY <1>2, <1>4, <2>2, HeaderRest
  <2> QED BY <2>1, <2>5, <2>6, <2>7 DEF Flowing, Flows
<1> QED BY <1>6, <1>7, <1>8

LEMMA HeaderValueFlows ==
  ASSUME PInv, AllMarked, NEW fail \in BOOLEAN, HeaderValue(fail)
  PROVE  Flowing
<1>1. At({"s_header_value"})
  BY DEF HeaderValue
<1>2. /\ parser.state = "s_header_value" /\ Typed(Counted) /\ go # "out" /\ p <= Len(data)
      /\ Counted.state = parser.state /\ Counted.flags = parser.flags /\ "header_value" \in TextCalls
      /\ parser.state \in ValueStates /\ mark["header_value"] # 0
      /\ Known(parser) /\ Counted.header_state = parser.header_state /\ Counted.http_errno = "HPE_OK"
  BY <1>1, AtByte, TextCallsAre DEF TextCalls, At, ValueStates, AllMarked
<1>3. \A f \in TextCalls \ {"header_value"} : {"s_header_value"} \cap Source[f] = {}
                                             /\ "s_header_value" \notin Home[f]
  BY TextCallsAre DEF TextCalls, UrlStates, NameStates
<1>4. {"s_header_value", "s_header_almost_done"} \subseteq Trailers
      /\ \A f \in TextCalls : "s_header_almost_done" \notin Home[f]
  BY TextCallsAre DEF Trailers, ValueStates, TextCalls, UrlStates
<1>5. CASE ch \in {CR, LF}
  <2> DEFINE r == [Counted EXCEPT !.state = "s_header_almost_done"]
             m == Clear("header_value")
             cbs == CALLBACK_DATA(mark, "header_value", p)
  <2>1. \/ Step(r, m, cbs, "byte", p + 1, fail)
        \/ Step(r, m, cbs, "again", p, fail)
    BY <1>5 DEF HeaderValue
  <2>2. r.state = "s_header_almost_done" /\ r.flags = parser.flags
    BY <1>2 DEF Typed, IsParser, Fields
  <2>3. (\A g \in TextCalls \ {"header_value"} : m[g] = mark[g]) /\ m["header_value"] = 0
    BY <1>1, <1>2, MarksApart
  <2> HIDE DEF r, m
  <2>4. ~TakesText("header_value")
    BY <1>2, <1>5 DEF TakesText, TakesValue, Takes
  <2>5. \A next, at : Flow("header_value", r, m, cbs, next, at)
    BY <1>2, <1>4, <2>2, <2>3, <2>4, GivenFlow
  <2>6. cbs = <<[on |-> "header_value", data |-> SubSeq(data, mark["header_value"], p - 1)]>>
    BY <1>2 DEF CALLBACK_DATA
  <2>7. \A c : cbs = <<c>> => c.on \notin TextCalls \ {"header_value"}
    BY <2>6
  <2> HIDE DEF cbs
  <2>8. \A next, at : \A f \in TextCalls \ {"header_value"} : Flow(f, r, m, cbs, next, at)
    BY <1>1, <1>3, <1>4, <2>2, <2>3, <2>7, IdleFlows
  <2>9. Rest(r, cbs)
    BY <1>2, <1>4, <2>2, <2>6, HeaderRest
  <2>10. \A next, at : Flows(r, m, cbs, next, at)
    BY <2>5, <2>8 DEF Flows
  <2> QED BY <2>1, <2>9, <2>10 DEF Flowing
<1>6. CASE ch \notin {CR, LF}
  <2> DEFINE r == Value(Counted, ch)
  <2>1. Step(r, mark, <<>>, "byte", p + 1, FALSE)
    BY <1>6 DEF HeaderValue, Byte
  <2>2. r.state = "s_header_value"
    BY <1>2, ValueSound DEF Sound, Known, WordsKnown
  <2>3. r.flags = parser.flags
    BY <1>2 DEF Value, Digit, Fail, Typed, IsParser, Fields
  <2> HIDE DEF r
  <2>4. TakesText("header_value")
    BY <1>2, <1>6 DEF TakesText, TakesValue, Takes
  <2>5. Flow("header_value", r, mark, <<>>, "byte", p + 1)
    BY <1>2, <2>4, TakenFlow
  <2>6. \A f \in TextCalls \ {"header_value"} : Flow(f, r, mark, <<>>, "byte", p + 1)
    BY <1>1, <1>3, <2>2, IdleFlows
  <2>7. Rest(r, <<>>)
    BY <1>2, <1>4, <2>2, <2>3, HeaderRest
  <2> QED BY <2>1, <2>5, <2>6, <2>7 DEF Flowing, Flows
<1> QED BY <1>5, <1>6

(* A step at none of the texts.                                            *)
LEMMA OtherFlows ==
  ASSUME PInv, NEW S, At(S), \A f \in TextCalls : S \cap Source[f] = {},
         NEW r, \A f \in TextCalls : r.state \notin Home[f],
         NEW marks, marks \in {mark, MARK("body"), Clear("body")},
         NEW callbacks, \A c : callbacks = <<c>> => c.on \notin TextCalls,
         NEW next, NEW at
  PROVE  Flows(r, marks, callbacks, next, at)
<1>1. \A f \in TextCalls : marks[f] = mark[f]
  <2>1. mark \in MarkType /\ "body" \notin TextCalls
    BY AtByte DEF TextCalls
  <2> QED BY <2>1, TextCallsAre DEF MARK, Clear, MarkType
<1> QED BY <1>1, IdleFlows DEF Flows

LEMMA NotifyIs ==
  ASSUME NEW on, NEW c, CALLBACK_NOTIFY(on) = <<c>>
  PROVE  c.on = on
<1> DEFINE d == [on |-> on, data |-> <<>>]
<1>1. <<d>> = <<c>>
  BY DEF CALLBACK_NOTIFY
<1>2. d.on = on
  OBVIOUS
<1> HIDE DEF d
<1> QED BY <1>1, <1>2

LEMMA Nobodys ==
  ASSUME NEW marks, NEW end, NEW c, CALLBACK_DATA(marks, "body", end) = <<c>>
  PROVE  c.on = "body"
<1> DEFINE d == [on |-> "body", data |-> SubSeq(data, marks["body"], end - 1)]
<1>1. <<d>> = <<c>>
  BY DEF CALLBACK_DATA
<1>2. d.on = "body"
  OBVIOUS
<1> HIDE DEF d
<1> QED BY <1>1, <1>2

LEMMA HeaderEndFlows ==
  ASSUME PInv, HeaderEnd
  PROVE  Flowing
<1> DEFINE S == {"s_header_almost_done", "s_header_value_lws"}
<1>1. At(S)
  BY DEF HeaderEnd, At
<1>2. /\ parser.state \in S /\ Typed(Counted) /\ Counted.flags = parser.flags
      /\ Counted.state = parser.state
  BY <1>1, AtByte
<1>3. /\ \A f \in TextCalls : S \cap Source[f] = {}
      /\ \A f \in TextCalls : /\ "s_header_value_lws" \notin Home[f]
                              /\ "s_header_value_start" \notin Home[f]
                              /\ "s_header_field_start" \notin Home[f]
  BY TextCallsAre DEF TextCalls, UrlStates, NameStates
<1>4. \E r : /\ Step(r, mark, <<>>, "byte", p + 1, FALSE) \/ Step(r, mark, <<>>, "again", p, FALSE)
             /\ r.state \in {"s_header_value_lws", "s_header_value_start", "s_header_field_start"}
             /\ parser.flags \subseteq r.flags
  <2>1. CASE parser.state = "s_header_almost_done"
    <3> DEFINE r == HeaderAlmostDone(Counted)
    <3>1. Step(r, mark, <<>>, "byte", p + 1, FALSE)
      BY <2>1 DEF HeaderEnd, Byte, At
    <3>2. r.state = "s_header_value_lws" /\ parser.flags \subseteq r.flags
      BY <1>2 DEF HeaderAlmostDone, Typed, IsParser, Fields
    <3> HIDE DEF r
    <3> QED BY <3>1, <3>2
  <2>2. CASE parser.state = "s_header_value_lws"
    <3> DEFINE r(s) == [Counted EXCEPT !.state = s]
    <3>1. \/ Step(r("s_header_value_start"), mark, <<>>, "byte", p + 1, FALSE)
          \/ Step(r("s_header_field_start"), mark, <<>>, "again", p, FALSE)
      BY <2>2 DEF HeaderEnd, Byte, At
    <3>2. \A s : r(s).state = s /\ r(s).flags = parser.flags
      BY <1>2 DEF Typed, IsParser, Fields
    <3> HIDE DEF r
    <3> QED BY <3>1, <3>2
  <2> QED BY <1>2, <2>1, <2>2
<1>5. PICK r : /\ Step(r, mark, <<>>, "byte", p + 1, FALSE) \/ Step(r, mark, <<>>, "again", p, FALSE)
               /\ r.state \in {"s_header_value_lws", "s_header_value_start", "s_header_field_start"}
               /\ parser.flags \subseteq r.flags
  BY <1>4
<1>6. \A next, at : Flows(r, mark, <<>>, next, at)
  BY <1>1, <1>3, <1>5, OtherFlows
<1>7. Rest(r, <<>>)
  <2>1. parser.state \in NameStates \cup ValueStates /\ r.state \in Trailers
    BY <1>2, <1>5 DEF ValueStates, Trailers, NameStates
  <2> QED BY <1>5, <2>1, HeaderRest
<1> QED BY <1>5, <1>6, <1>7 DEF Flowing

(* Of the states in which there is no text, what follows.                  *)
LEMMA LaterRest ==
  ASSUME parser.state \notin NameStates \cup ValueStates, NEW r, NEW callbacks,
         \A c : callbacks = <<c>> =>
           c.on = "message_complete" \/ (c.on = "body" /\ Past(parser)),
         Past(parser) /\ r.http_errno = "HPE_OK" =>
           Past(r) \/ \E c : callbacks = <<c>> /\ c.on = "message_complete"
  PROVE  Rest(r, callbacks)
BY DEF Rest

LEMMA Completes ==
  ASSUME NEW r
  PROVE  parser.state \notin NameStates \cup ValueStates => Rest(r, CALLBACK_NOTIFY("message_complete"))
<1> SUFFICES ASSUME parser.state \notin NameStates \cup ValueStates
             PROVE  Rest(r, CALLBACK_NOTIFY("message_complete"))
  OBVIOUS
<1> DEFINE d == [on |-> "message_complete", data |-> <<>>]
           cbs == CALLBACK_NOTIFY("message_complete")
<1>1. cbs = <<d>>
  BY DEF CALLBACK_NOTIFY
<1>2. d.on = "message_complete"
  OBVIOUS
<1> HIDE DEF d, cbs
<1>3. \A c : cbs = <<c>> => c.on = "message_complete"
  BY <1>1, <1>2
<1>4. \E c : cbs = <<c>> /\ c.on = "message_complete"
  BY <1>1, <1>2
<1>5. Rest(r, cbs)
  BY <1>3, <1>4 DEF Rest
<1> QED BY <1>5 DEF cbs

LEMMA LaterStates ==
  /\ Later \cap (NameStates \cup ValueStates) = {}
  /\ \A f \in TextCalls : Later \cap Source[f] = {} /\ Later \cap Home[f] = {}
                          /\ "s_headers_almost_done" \notin Source[f] /\ "s_start_req" \notin Home[f]
                          /\ "s_header_field_start" \notin Home[f]
  /\ "s_headers_almost_done" \notin NameStates \cup ValueStates
BY TextCallsAre DEF Later, NameStates, ValueStates, TextCalls, UrlStates, ChunkSizeStates, ChunkDataStates

LEMMA HeadersAlmostDoneFlows ==
  ASSUME PInv, NEW fail \in BOOLEAN, HeadersAlmostDone(fail)
  PROVE  Flowing
<1>1. At({"s_headers_almost_done"})
  BY DEF HeadersAlmostDone
<1>2. /\ parser.state = "s_headers_almost_done" /\ Typed(Counted) /\ Counted.flags = parser.flags
  BY <1>1, AtByte
<1> DEFINE start == [Counted EXCEPT !.state = "s_start_req"]
           up == "F_UPGRADE" \in parser.flags \/ parser.method = "CONNECT"
           done == [Counted EXCEPT !.state = "s_headers_done", !.upgrade = up]
<1>3. \/ Step(start, mark, CALLBACK_NOTIFY("message_complete"), "byte", p + 1, fail)
      \/ /\ Step(done, mark, CALLBACK_NOTIFY("headers_complete"), "again", p, fail)
         /\ "F_TRAILING" \notin parser.flags
  BY DEF HeadersAlmostDone
<1> HIDE DEF up
<1>4. start.state = "s_start_req" /\ done.state = "s_headers_done"
  BY <1>2 DEF Typed, IsParser, Fields
<1> HIDE DEF start, done
<1>5. "s_headers_done" \in Later
  BY DEF Later
<1>6. \A on \in {"headers_complete", "message_complete"} : \A next, at :
        /\ Flows(start, mark, CALLBACK_NOTIFY(on), next, at)
        /\ Flows(done, mark, CALLBACK_NOTIFY(on), next, at)
  <2> SUFFICES ASSUME NEW on \in {"headers_complete", "message_complete"}, NEW next, NEW at
               PROVE  /\ Flows(start, mark, CALLBACK_NOTIFY(on), next, at)
                      /\ Flows(done, mark, CALLBACK_NOTIFY(on), next, at)
    OBVIOUS
  <2>1. \A c : CALLBACK_NOTIFY(on) = <<c>> => c.on \notin TextCalls
    BY NotifyIs DEF TextCalls
  <2>2. \A f \in TextCalls : /\ {"s_headers_almost_done"} \cap Source[f] = {}
                             /\ start.state \notin Home[f] /\ done.state \notin Home[f]
    BY <1>4, <1>5, LaterStates
  <2> QED BY <1>1, <2>1, <2>2, OtherFlows
<1>7. Rest(start, CALLBACK_NOTIFY("message_complete"))
  BY <1>2, LaterStates, Completes
<1>8. "F_TRAILING" \notin parser.flags => Rest(done, CALLBACK_NOTIFY("headers_complete"))
  <2>1. "F_TRAILING" \notin parser.flags => ~Past(parser)
    BY <1>2 DEF Past, Later, ChunkSizeStates, ChunkDataStates
  <2>2. Past(done)
    BY <1>4, <1>5 DEF Past
  <2> QED BY <1>2, <2>1, <2>2, LaterStates, NotifyIs DEF Rest
<1> QED BY <1>3, <1>6, <1>7, <1>8 DEF Flowing

LEMMA HeadersDoneFlows ==
  ASSUME PInv, NEW fail \in BOOLEAN, HeadersDone(fail)
  PROVE  Flowing
<1>1. At({"s_headers_done"})
  BY DEF HeadersDone
<1>2. parser.state = "s_headers_done" /\ Typed(Counted) /\ "s_headers_done" \in Later
  BY <1>1, AtByte DEF Later
<1> DEFINE r(s) == [[Counted EXCEPT !.nread = 0] EXCEPT !.state = s]
           S == {"s_chunk_size_start", "s_body_identity"}
<1>3. \/ \E next \in {"byte", "out"} :
           Step(r("s_start_req"), mark, CALLBACK_NOTIFY("message_complete"), next, p + 1, fail)
      \/ \E s \in S : Step(r(s), mark, <<>>, "byte", p + 1, FALSE)
  BY DEF HeadersDone, Byte
<1>4. \A s : r(s).state = s
  BY <1>2 DEF Typed, IsParser, Fields
<1> HIDE DEF r
<1>5. S \subseteq Later
  BY DEF Later, ChunkSizeStates
<1> HIDE DEF S
<1>6. \A next : Flows(r("s_start_req"), mark, CALLBACK_NOTIFY("message_complete"), next, p + 1)
  <2>1. \A c : CALLBACK_NOTIFY("message_complete") = <<c>> => c.on \notin TextCalls
    BY NotifyIs DEF TextCalls
  <2> QED BY <1>1, <1>2, <1>4, <2>1, LaterStates, OtherFlows
<1>7. \A s \in S : Flows(r(s), mark, <<>>, "byte", p + 1)
  BY <1>1, <1>2, <1>4, <1>5, LaterStates, OtherFlows
<1>8. Rest(r("s_start_req"), CALLBACK_NOTIFY("message_complete"))
  BY <1>2, LaterStates, Completes
<1>9. \A s \in S : Rest(r(s), <<>>)
  BY <1>2, <1>4, <1>5, LaterStates, LaterRest DEF Past
<1> QED BY <1>3, <1>6, <1>7, <1>8, <1>9 DEF Flowing

LEMMA BodyIdentityFlows ==
  ASSUME PInv, NEW fail \in BOOLEAN, BodyIdentity(fail)
  PROVE  Flowing
<1>1. At({"s_body_identity"})
  BY DEF BodyIdentity
<1>2. parser.state = "s_body_identity" /\ Typed(Counted) /\ Counted.state = parser.state
      /\ {"s_body_identity", "s_message_done"} \subseteq Later
  BY <1>1, AtByte DEF Later
<1> DEFINE left == parser.content_length - Available
           r == [Counted EXCEPT !.content_length = left]
           done == [r EXCEPT !.state = "s_message_done"]
           end == p + Available
           cbs == CALLBACK_DATA(MARK("body"), "body", end)
<1>3. \/ Step(done, Clear("body"), cbs, "again", end - 1, fail)
      \/ Step(r, MARK("body"), <<>>, "byte", end, FALSE)
  BY DEF BodyIdentity
<1>4. r.state = "s_body_identity" /\ done.state = "s_message_done"
  <2> HIDE DEF left
  <2> QED BY <1>2 DEF Typed, IsParser, Fields
<1>5. \A c : cbs = <<c>> => c.on = "body"
  BY Nobodys
<1> HIDE DEF r, done, cbs, end
<1>6. Flows(done, Clear("body"), cbs, "again", end - 1)
  <2>1. \A c : cbs = <<c>> => c.on \notin TextCalls
    BY <1>5 DEF TextCalls
  <2> QED BY <1>1, <1>2, <1>4, <2>1, LaterStates, OtherFlows
<1>7. Flows(r, MARK("body"), <<>>, "byte", end)
  BY <1>1, <1>2, <1>4, LaterStates, OtherFlows
<1>8. Rest(done, cbs) /\ Rest(r, <<>>)
  <2>1. Past(done) /\ Past(r) /\ Past(parser)
    BY <1>2, <1>4 DEF Past
  <2> QED BY <1>2, <1>5, <2>1, LaterStates, LaterRest
<1> QED BY <1>3, <1>6, <1>7, <1>8 DEF Flowing

LEMMA MessageDoneFlows ==
  ASSUME PInv, NEW fail \in BOOLEAN, MessageDone(fail)
  PROVE  Flowing
<1>1. At({"s_message_done"})
  BY DEF MessageDone
<1>2. parser.state = "s_message_done" /\ Typed(Counted) /\ "s_message_done" \in Later
  BY <1>1, AtByte DEF Later
<1> DEFINE r == [Counted EXCEPT !.state = "s_start_req"]
<1>3. Step(r, mark, CALLBACK_NOTIFY("message_complete"), "byte", p + 1, fail)
  BY DEF MessageDone
<1>4. r.state = "s_start_req"
  BY <1>2 DEF Typed, IsParser, Fields
<1> HIDE DEF r
<1>5. Flows(r, mark, CALLBACK_NOTIFY("message_complete"), "byte", p + 1)
  <2>1. \A c : CALLBACK_NOTIFY("message_complete") = <<c>> => c.on \notin TextCalls
    BY NotifyIs DEF TextCalls
  <2> QED BY <1>1, <1>2, <1>4, <2>1, LaterStates, OtherFlows
<1>6. Rest(r, CALLBACK_NOTIFY("message_complete"))
  BY <1>2, LaterStates, Completes
<1> QED BY <1>3, <1>5, <1>6 DEF Flowing

LEMMA ChunkSizeTrails ==
  ASSUME NEW r, Typed(r), r.state \in ChunkSizeStates, NEW c,
         ChunkSize(r, c).state = "s_header_field_start"
  PROVE  "F_TRAILING" \in ChunkSize(r, c).flags
<1>1. /\ \A s : /\ [r EXCEPT !.state = s].state = s
                /\ \A n : /\ [r EXCEPT !.content_length = n, !.state = s].state = s
                          /\ [r EXCEPT !.nread = n, !.state = s].state = s
      /\ \A e : Fail(r, e).state = r.state
      /\ \A n : [r EXCEPT !.content_length = n].state = r.state
  BY DEF Typed, IsParser, Fields, Fail
<1>2. \A b, n : Digit(r, b, n).state = r.state
  BY <1>1 DEF Digit
<1>3. r.state # "s_header_field_start"
  BY DEF ChunkSizeStates
<1> DEFINE trailing == [r EXCEPT !.nread = 0, !.flags = r.flags \cup {"F_TRAILING"},
                                 !.state = "s_header_field_start"]
<1>4. "F_TRAILING" \in trailing.flags
  BY DEF Typed, IsParser, Fields
<1>5. \/ ChunkSize(r, c) = [r EXCEPT !.content_length = Unhex(c), !.state = "s_chunk_size"]
      \/ ChunkSize(r, c) = Digit(r, 16, Unhex(c))
      \/ ChunkSize(r, c) = [r EXCEPT !.state = "s_chunk_size_almost_done"]
      \/ ChunkSize(r, c) = [r EXCEPT !.state = "s_chunk_parameters"]
      \/ ChunkSize(r, c) = r
      \/ ChunkSize(r, c) = trailing
      \/ ChunkSize(r, c) = [r EXCEPT !.nread = 0, !.state = "s_chunk_data"]
      \/ ChunkSize(r, c) = Fail(r, "HPE_INVALID_CHUNK_SIZE")
  BY ChunkSizeIs
<1> HIDE DEF trailing
<1> DEFINE x1 == [r EXCEPT !.content_length = Unhex(c), !.state = "s_chunk_size"]
           x2 == [r EXCEPT !.nread = 0, !.state = "s_chunk_data"]
<1>6. x1.state # "s_header_field_start" /\ x2.state # "s_header_field_start"
  BY <1>1
<1> HIDE DEF x1, x2
<1>7. ChunkSize(r, c) # x1 /\ ChunkSize(r, c) # x2
  BY <1>6
<1>8. /\ ChunkSize(r, c) # [r EXCEPT !.state = "s_chunk_size_almost_done"]
      /\ ChunkSize(r, c) # [r EXCEPT !.state = "s_chunk_parameters"]
  BY <1>1
<1>9. ChunkSize(r, c) # Digit(r, 16, Unhex(c))
  BY <1>2, <1>3
<1>10. ChunkSize(r, c) # r /\ ChunkSize(r, c) # Fail(r, "HPE_INVALID_CHUNK_SIZE")
  BY <1>1, <1>3
<1> QED BY <1>4, <1>5, <1>7, <1>8, <1>9, <1>10 DEF x1, x2

LEMMA ChunkLineFlows ==
  ASSUME PInv, ChunkLine
  PROVE  Flowing
<1> DEFINE r == ChunkSize(Counted, ch)
<1>1. At(ChunkSizeStates) /\ Step(r, mark, <<>>, "byte", p + 1, FALSE)
  BY DEF ChunkLine, Byte
<1>2. /\ Typed(Counted) /\ Counted.state = parser.state /\ parser.state \in ChunkSizeStates
      /\ Counted.flags = parser.flags
  BY <1>1, AtByte
<1>3. r.state \in ChunkSizeStates \cup {"s_header_field_start", "s_chunk_data"}
  BY <1>2, ChunkSizeGoes
<1>4. r.state = "s_header_field_start" => "F_TRAILING" \in r.flags
  BY <1>2, ChunkSizeTrails
<1> HIDE DEF r
<1>5. ChunkSizeStates \subseteq Later /\ "s_chunk_data" \in Later
  BY DEF Later, ChunkDataStates
<1>6. Flows(r, mark, <<>>, "byte", p + 1)
  <2>1. \A f \in TextCalls : ChunkSizeStates \cap Source[f] = {} /\ r.state \notin Home[f]
    BY <1>3, <1>5, LaterStates
  <2> QED BY <1>1, <2>1, OtherFlows
<1>7. Rest(r, <<>>)
  <2>1. Past(r)
    BY <1>3, <1>4, <1>5 DEF Past, Trailers, NameStates
  <2> QED BY <1>2, <1>5, <2>1, LaterStates, LaterRest
<1> QED BY <1>1, <1>6, <1>7 DEF Flowing

LEMMA ChunkDataFlows ==
  ASSUME PInv, NEW fail \in BOOLEAN, ChunkData(fail)
  PROVE  Flowing
<1>1. At(ChunkDataStates)
  BY DEF ChunkData
<1>2. parser.state \in ChunkDataStates /\ Typed(Counted) /\ Counted.state = parser.state
  BY <1>1, AtByte
<1> DEFINE S == ChunkDataStates \cup {"s_chunk_size_start"}
<1>3. S \subseteq Later /\ ChunkDataStates \subseteq Later
  BY DEF Later, ChunkSizeStates
<1>4. \E r : r.state \in S /\ \E next, at :
        \/ \E marks \in {mark, MARK("body")} : Step(r, marks, <<>>, next, at, FALSE)
        \/ Step(r, Clear("body"), CALLBACK_DATA(mark, "body", p), next, at, fail)
  <2>1. CASE parser.state = "s_chunk_data"
    <3> DEFINE left == parser.content_length - Available
               to == IF left = 0 THEN "s_chunk_data_almost_done" ELSE Counted.state
               r == [Counted EXCEPT !.content_length = left, !.state = to]
    <3>1. Step(r, MARK("body"), <<>>, "byte", p + Available, FALSE)
      BY <1>2, <2>1 DEF ChunkData
    <3>2. to \in S
      BY <1>2, <2>1 DEF ChunkDataStates
    <3> HIDE DEF left, to
    <3>3. r.state = to
      BY <1>2 DEF Typed, IsParser, Fields
    <3> HIDE DEF r
    <3> QED BY <3>1, <3>2, <3>3
  <2>2. CASE parser.state = "s_chunk_data_almost_done"
    <3> DEFINE r == [Counted EXCEPT !.state = "s_chunk_data_done"]
    <3>1. Step(r, Clear("body"), CALLBACK_DATA(mark, "body", p), "byte", p + 1, fail)
      BY <2>2 DEF ChunkData
    <3>2. r.state \in S
      BY <1>2 DEF Typed, IsParser, Fields, ChunkDataStates
    <3> HIDE DEF r
    <3> QED BY <3>1, <3>2
  <2>3. CASE parser.state \notin {"s_chunk_data", "s_chunk_data_almost_done"}
    <3> DEFINE r == [Counted EXCEPT !.nread = 0, !.state = "s_chunk_size_start"]
    <3>1. Step(r, mark, <<>>, "byte", p + 1, FALSE)
      BY <2>3 DEF ChunkData, Byte
    <3>2. r.state \in S
      BY <1>2 DEF Typed, IsParser, Fields
    <3> HIDE DEF r
    <3> QED BY <3>1, <3>2
  <2> QED BY <2>1, <2>2, <2>3
<1>5. PICK r, next, at : r.state \in S /\
        \/ \E marks \in {mark, MARK("body")} : Step(r, marks, <<>>, next, at, FALSE)
        \/ Step(r, Clear("body"), CALLBACK_DATA(mark, "body", p), next, at, fail)
  BY <1>4
<1> HIDE DEF S
<1>6. \A f \in TextCalls : ChunkDataStates \cap Source[f] = {} /\ r.state \notin Home[f]
  BY <1>3, <1>5, LaterStates
<1>7. Past(r) /\ Past(parser) /\ parser.state \notin NameStates \cup ValueStates
  BY <1>2, <1>3, <1>5, LaterStates DEF Past
<1>8. \A marks \in {mark, MARK("body")} : Flows(r, marks, <<>>, next, at)
  BY <1>1, <1>6, OtherFlows
<1> DEFINE cbs == CALLBACK_DATA(mark, "body", p)
<1>9. \A c : cbs = <<c>> => c.on = "body"
  BY Nobodys
<1> HIDE DEF cbs
<1>10. Flows(r, Clear("body"), cbs, next, at)
  <2>1. \A c : cbs = <<c>> => c.on \notin TextCalls
    BY <1>9 DEF TextCalls
  <2> QED BY <1>1, <1>6, <2>1, OtherFlows
<1>11. Rest(r, <<>>) /\ Rest(r, cbs)
  BY <1>7, <1>9, LaterRest
<1>12. CASE \E marks \in {mark, MARK("body")} : Step(r, marks, <<>>, next, at, FALSE)
  BY <1>8, <1>11, <1>12 DEF Flowing
<1>13. CASE Step(r, Clear("body"), CALLBACK_DATA(mark, "body", p), next, at, fail)
  BY <1>10, <1>11, <1>13 DEF Flowing, cbs
<1> QED BY <1>5, <1>12, <1>13

LEMMA EndOfBufferFlows ==
  ASSUME PInv, AllMarked, NEW fail \in BOOLEAN, EndOfBuffer(fail)
  PROVE  Flowing
<1>1. PICK cbs :
        /\ Step(parser, NoMarks, cbs, "out", p, fail)
        /\ \/ cbs = <<>> /\ \A f \in DOMAIN NoMarks : mark[f] = 0
           \/ \E f \in DOMAIN NoMarks :
                /\ mark[f] # 0 /\ parser.state \in Home[f] /\ cbs = CALLBACK_DATA(mark, f, p)
                /\ \A g \in DOMAIN NoMarks : g # f => mark[g] = 0
  BY EndCall
<1>2. p > Len(data)
  BY DEF EndOfBuffer
<1>3. p \in Nat /\ Len(data) \in Nat
  BY DEF PInv, Sound
<1>4. \A f \in TextCalls : ~TakesText(f)
  BY <1>2, <1>3, TakenAtSource
<1>5. \A f \in TextCalls : NoMarks[f] = 0
  BY DEF NoMarks, TextCalls
<1>6. Flows(parser, NoMarks, cbs, "out", p)
  <2> SUFFICES ASSUME NEW g \in TextCalls PROVE Flow(g, parser, NoMarks, cbs, "out", p)
    BY DEF Flows
  <2>1. g \in DOMAIN NoMarks /\ (mark[g] = 0 => parser.state \notin Home[g])
    BY TextCallsAre DEF AllMarked
  <2>2. CASE cbs = <<>> /\ mark[g] = 0
    BY <1>4, <1>5, <2>1, <2>2 DEF Flow
  <2>3. ASSUME NEW f \in DOMAIN NoMarks, mark[f] # 0, cbs = CALLBACK_DATA(mark, f, p),
               \A h \in DOMAIN NoMarks : h # f => mark[h] = 0
        PROVE  Flow(g, parser, NoMarks, cbs, "out", p)
    <3>1. cbs = <<[on |-> f, data |-> Held(f)]>>
      BY <2>3 DEF CALLBACK_DATA, Held
    <3>2. CASE g = f
      BY <1>4, <1>5, <3>1, <3>2 DEF Flow
    <3>3. CASE g # f
      <4>1. \A c : cbs = <<c>> => c.on # g
        <5> DEFINE d == [on |-> f, data |-> Held(f)]
        <5>1. d.on = f
          OBVIOUS
        <5> HIDE DEF d
        <5> QED BY <3>1, <3>3, <5>1 DEF d
      <4> QED BY <1>4, <1>5, <2>1, <2>3, <3>3, <4>1 DEF Flow
    <3> QED BY <3>2, <3>3
  <2> QED BY <1>1, <2>1, <2>2, <2>3
<1>7. Rest(parser, cbs)
  <2>1. CASE cbs = <<>>
    BY <2>1 DEF Rest
  <2>2. ASSUME NEW f \in DOMAIN NoMarks, mark[f] # 0, parser.state \in Home[f],
               cbs = CALLBACK_DATA(mark, f, p)
        PROVE  Rest(parser, cbs)
    <3> DEFINE d == [on |-> f, data |-> Held(f)]
    <3>1. cbs = <<d>>
      BY <2>2 DEF CALLBACK_DATA, Held
    <3>2. d.on = f
      OBVIOUS
    <3> HIDE DEF d
    <3>3. f \in TextCalls \cup {"body"}
      BY TextCallsAre
    <3>4. /\ parser.state \in NameStates => f = "header_field"
          /\ parser.state \in ValueStates => f = "header_value"
          /\ Past(parser) => f # "url" /\ (f # "body" => "F_TRAILING" \in parser.flags)
          /\ f = "body" => Past(parser)
      <4>1. CASE f = "url"
        BY <2>2, <4>1 DEF Home, NameStates, ValueStates, UrlStates, Past, Later, Trailers,
           ChunkSizeStates, ChunkDataStates
      <4>2. CASE f = "header_field"
        BY <2>2, <4>2 DEF Home, ValueStates, Past, Later, Trailers, NameStates,
           ChunkSizeStates, ChunkDataStates
      <4>3. CASE f = "header_value"
        BY <2>2, <4>3 DEF Home, ValueStates, Past, Later, Trailers, NameStates,
           ChunkSizeStates, ChunkDataStates
      <4>4. CASE f = "body"
        BY <2>2, <4>4 DEF Home, NameStates, ValueStates, MarkedStates, Past, Later, ChunkDataStates
      <4> QED BY <3>3, <4>1, <4>2, <4>3, <4>4 DEF TextCalls
    <3> QED BY <3>1, <3>2, <3>3, <3>4 DEF Rest, TextCalls
  <2> QED BY <1>1, <2>1, <2>2
<1> QED BY <1>1, <1>6, <1>7 DEF Flowing

(* Every step of the parser either overflows, or a text flows.             *)
LEMMA ParserFlows ==
  ASSUME PInv, AllMarked, data \in Text, NEW fail \in BOOLEAN, ParserStep(fail)
  PROVE  HeaderOverflow \/ Flowing
BY RequestLineFlows, UrlStartFlows, UrlByteFlows, HeaderFieldStartFlows, HeaderFieldFlows,
   HeaderValueStartFlows, HeaderValueFlows, HeaderEndFlows, HeadersAlmostDoneFlows,
   HeadersDoneFlows, BodyIdentityFlows, MessageDoneFlows, ChunkLineFlows, ChunkDataFlows,
   EndOfBufferFlows DEF ParserStep

(* Of a text f: it is not concerned, it gets a byte, or it is given.       *)
Moves(f) ==
  \/ /\ Held(f) = <<>> /\ Held(f)' = <<>> /\ ~TakesText(f)
     /\ \A c : calls' = <<c>> => c.on # f
  \/ calls' = <<>> /\ TakesText(f) /\ Held(f)' = Append(Held(f), ch)
  \/ calls' = <<[on |-> f, data |-> Held(f)]>> /\ ~TakesText(f) /\ Held(f)' = <<>>

LEMMA HeldGrows ==
  ASSUME NEW d \in Text, NEW m \in Nat \ {0}, NEW i \in 1..Len(d), m <= i
  PROVE  SubSeq(d, m, i) = Append(SubSeq(d, m, i - 1), d[i])
<1>1. Len(d) \in Nat /\ m \in 1..Len(d)
  BY DEF Text
<1> QED BY <1>1 DEF Text

LEMMA TextsMove ==
  ASSUME PInv, Marked, AllMarked, data \in Text, NEW fail \in BOOLEAN, ParserStep(fail)
  PROVE  /\ parser'.http_errno = "HPE_OK" => \A f \in TextCalls : Moves(f)
         /\ go' # "out" => AllMarked'
         /\ go' = "out" => mark' = NoMarks
         /\ \E r : Rest(r, calls') /\ (parser'.http_errno = "HPE_OK" => parser' = r)
<1>1. HeaderOverflow \/ Flowing
  BY ParserFlows
<1>2. CASE HeaderOverflow
  <2>1. /\ calls' = <<>> /\ parser' = Fail(Counted, "HPE_HEADER_OVERFLOW") /\ go' = "out"
        /\ mark' = NoMarks
    BY <1>2 DEF HeaderOverflow, Return
  <2>2. parser'.http_errno # "HPE_OK"
    <3>1. Typed(Counted)
      BY CountedFields DEF PInv, Sound
    <3> QED BY <2>1, <3>1, Failed
  <2>3. Rest(parser', calls')
    BY <2>1, <2>2 DEF Rest
  <2> QED BY <2>1, <2>2, <2>3
<1>3. CASE Flowing
  <2>1. PICK r, marks, callbacks, next, at : \E failed \in BOOLEAN :
          /\ Step(r, marks, callbacks, next, at, failed)
          /\ Flows(r, marks, callbacks, next, at) /\ Rest(r, callbacks)
    BY <1>3 DEF Flowing
  <2>2. PICK failed \in BOOLEAN : Step(r, marks, callbacks, next, at, failed)
    BY <2>1
  <2>3. Flows(r, marks, callbacks, next, at) /\ Rest(r, callbacks) /\ calls' = callbacks
    BY <2>1, <2>2 DEF Step
  <2>4. failed => parser'.http_errno # "HPE_OK" /\ go' = "out" /\ mark' = NoMarks
    <3>1. PInv'
      BY PInvStep DEF ParserNext
    <3>2. failed => parser' = Fail(r, "HPE_CB") /\ go' = "out" /\ mark' = NoMarks
      BY <2>2 DEF Step, Return
    <3>3. failed => parser'.http_errno = "HPE_CB"
      BY <3>1, <3>2 DEF PInv, Sound, Typed, IsParser, Fields, Fail
    <3> QED BY <3>2, <3>3
  <2>5. ~failed => parser' = r
    BY <2>2 DEF Step, Return
  <2>6. /\ go' = "out" => mark' = NoMarks
        /\ go' # "out" => /\ r.http_errno = "HPE_OK" /\ ~failed /\ next # "out"
                          /\ mark' = marks /\ p' = at /\ data' = data
    BY <2>2 DEF Step, Return
  <2>7. parser'.http_errno = "HPE_OK" =>
          /\ ~failed /\ r.http_errno = "HPE_OK" /\ \A f \in TextCalls : Flow(f, r, marks, callbacks, next, at)
          /\ next # "out" => mark' = marks /\ p' = at /\ data' = data
    BY <2>2, <2>3, <2>4, <2>5 DEF Step, Flows
  <2>8. p \in Nat \ {0} /\ Len(data) \in Nat /\ mark \in MarkType
    BY DEF PInv, Text
  <2>9. ASSUME go' # "out"
        PROVE  AllMarked'
    <3>1. parser' = r /\ r.http_errno = "HPE_OK" /\ next # "out" /\ mark' = marks
      BY <2>5, <2>6, <2>9
    <3>2. ASSUME NEW f \in TextCalls, r.state \in Home[f] PROVE marks[f] # 0
      <4>1. Flow(f, r, marks, callbacks, next, at)
        BY <2>3, <3>1 DEF Flows
      <4> QED BY <2>8, <3>1, <3>2, <4>1 DEF Flow
    <3> QED BY <3>1, <3>2 DEF AllMarked
  <2>10. ASSUME parser'.http_errno = "HPE_OK", NEW f \in TextCalls
         PROVE  Moves(f)
    <3>1. /\ Flow(f, r, marks, callbacks, next, at) /\ calls' = callbacks
          /\ next # "out" => mark' = marks /\ p' = at /\ data' = data
      BY <2>3, <2>7, <2>10
    <3>2. marks[f] = 0 => Held(f)' = <<>>
      <4>1. mark' = NoMarks \/ (go' # "out" /\ mark' = marks)
        BY <2>6
      <4>2. NoMarks[f] = 0
        BY DEF NoMarks, TextCalls
      <4> QED BY <4>1, <4>2 DEF Held
    <3>3. CASE /\ mark[f] = 0 /\ marks[f] = 0 /\ ~TakesText(f)
               /\ \A c : callbacks = <<c>> => c.on # f
      BY <3>1, <3>2, <3>3 DEF Moves, Held
    <3>4. CASE /\ callbacks = <<>> /\ TakesText(f) /\ at = p + 1 /\ next # "out"
               /\ marks[f] = IF mark[f] = 0 THEN p ELSE mark[f]
      <4>1. mark'[f] = (IF mark[f] = 0 THEN p ELSE mark[f]) /\ p' = p + 1 /\ data' = data
        BY <3>1, <3>4
      <4>2. p \in 1..Len(data)
        BY <2>8, <3>4, TakenAtSource
      <4>3. mark[f] \in Nat /\ mark[f] <= p
        BY <2>8 DEF MarkType, Marked, Behind, TextCalls
      <4>4. Held(f)' = Append(Held(f), ch)
        <5>1. CASE mark[f] = 0
          <6>1. Held(f)' = SubSeq(data, p, p) /\ Held(f) = <<>>
            <7>1. mark'[f] = p /\ p # 0 /\ p' - 1 = p /\ data' = data
              BY <2>8, <4>1, <5>1
            <7> QED BY <5>1, <7>1 DEF Held
          <6>2. SubSeq(data, p, p) = Append(SubSeq(data, p, p - 1), ch)
            BY <2>8, <4>2, HeldGrows DEF ch
          <6>3. SubSeq(data, p, p - 1) = <<>>
            BY <2>8 DEF Text
          <6> QED BY <6>1, <6>2, <6>3
        <5>2. CASE mark[f] # 0
          <6>1. Held(f)' = SubSeq(data, mark[f], p) /\ Held(f) = SubSeq(data, mark[f], p - 1)
            <7>1. mark'[f] = mark[f] /\ p' - 1 = p /\ data' = data
              BY <2>8, <4>1, <5>2
            <7> QED BY <5>2, <7>1 DEF Held
          <6>2. SubSeq(data, mark[f], p) = Append(SubSeq(data, mark[f], p - 1), ch)
            BY <4>2, <4>3, <5>2, HeldGrows DEF ch
          <6> QED BY <6>1, <6>2
        <5> QED BY <5>1, <5>2
      <4> QED BY <3>1, <3>4, <4>4 DEF Moves
    <3>5. CASE /\ callbacks = <<[on |-> f, data |-> Held(f)]>> /\ marks[f] = 0 /\ ~TakesText(f)
      BY <3>1, <3>2, <3>5 DEF Moves
    <3> QED BY <3>1, <3>3, <3>4, <3>5 DEF Flow
  <2>11. Rest(r, calls') /\ (parser'.http_errno = "HPE_OK" => parser' = r)
    BY <2>3, <2>5, <2>7
  <2> QED BY <2>6, <2>9, <2>10, <2>11
<1> QED BY <1>1, <1>2, <1>3

-----------------------------------------------------------------------------
(* What a callback makes of the texts                                      *)

KeyOf(r) == nyara_headerlize(r.last_key)
(* A part of the head that does not change.                                *)
Same(n, r) == /\ n.method = r.method /\ n.path = r.path /\ n.query = r.query /\ n.body = r.body
SameUrl(n, r) == n.path_with_query = r.path_with_query
SameName(n, r) == n.last_field = r.last_field /\ n.last_key = r.last_key

(* A url, a name and a value get what their callbacks are given.           *)
LEMMA UrlJoins ==
  ASSUME NEW r, Reads(r), r.path_with_query \in Text \cup {Qnil}, NEW s \in Text
  PROVE  LET n == on_url(r, s)
         IN  /\ n.path_with_query \in Text
             /\ Given(n.path_with_query) = Given(r.path_with_query) \o s
             /\ SameName(n, r) /\ n.header = r.header
<1> DEFINE path == IF r.path_with_query = Qnil THEN s ELSE r.path_with_query \o s
           n == [r EXCEPT !.method = parser.method, !.path_with_query = path]
<1>1. on_url(r, s) = n
  BY FieldsOfRequest DEF on_url, Reads, Texts
<1>2. path \in Text /\ path # Qnil /\ path = Given(r.path_with_query) \o s
  <2>1. CASE r.path_with_query = Qnil
    <3>1. <<>> \o s = s
      BY DEF Text
    <3> QED BY <2>1, <3>1, TextIsNotQnil DEF Given
  <2>2. CASE r.path_with_query # Qnil
    <3>1. r.path_with_query \o s \in Text
      BY <2>2, Joined
    <3> QED BY <2>2, <3>1, TextIsNotQnil DEF Given
  <2> QED BY <2>1, <2>2
<1> HIDE DEF path
<1>3. n.path_with_query = path /\ n.header = r.header /\ SameName(n, r)
  BY FieldsOfRequest DEF Reads, Texts, SameName
<1> HIDE DEF n
<1>4. Given(n.path_with_query) = Given(r.path_with_query) \o s
  BY <1>2, <1>3 DEF Given
<1> QED BY <1>1, <1>2, <1>3, <1>4

LEMMA NameJoins ==
  ASSUME NEW r, Reads(r), NEW s \in Text
  PROVE  LET n == on_header_field(r, s)
         IN  /\ n.last_field # Qnil /\ Given(n.last_field) = Given(r.last_field) \o s
             /\ SameUrl(n, r) /\ Same(n, r) /\ n.header = r.header
<1> DEFINE field == IF r.last_field = Qnil THEN s ELSE r.last_field \o s
           n == on_header_field(r, s)
<1>1. field # Qnil /\ field = Given(r.last_field) \o s
  <2>1. CASE r.last_field = Qnil
    <3>1. <<>> \o s = s
      BY DEF Text
    <3> QED BY <2>1, <3>1, TextIsNotQnil DEF Given
  <2>2. CASE r.last_field # Qnil
    <3>1. r.last_field \o s \in Text
      BY <2>2, Joined DEF Reads, Texts
    <3> QED BY <2>2, <3>1, TextIsNotQnil DEF Given
  <2> QED BY <2>1, <2>2
<1>2. n = [r EXCEPT !.last_field = field, !.last_value = IF r.last_field = Qnil THEN Qnil ELSE r.last_value]
  BY FieldsOfRequest DEF on_header_field, Reads, Texts
<1> HIDE DEF field, n
<1>3. n.last_field = field /\ n.header = r.header /\ SameUrl(n, r) /\ Same(n, r)
  BY <1>2, FieldsOfRequest DEF Reads, Texts, SameUrl, Same
<1>4. Given(n.last_field) = field
  BY <1>1, <1>3 DEF Given
<1> QED BY <1>1, <1>3, <1>4 DEF n

LEMMA ValueJoins ==
  ASSUME NEW r, Reads(r), Header(r.header), HasHeader(r), NEW s \in Text
  PROVE  LET n == on_header_value(r, s)
         IN  /\ Header(n.header) /\ n.last_field = Qnil /\ SameUrl(n, r) /\ Same(n, r)
             /\ r.last_field # Qnil => /\ n.last_key = r.last_field
                                       /\ KeyOf(n) \in DOMAIN n.header /\ n.header[KeyOf(n)] = s
             /\ r.last_field = Qnil =>
                  /\ n.last_key = r.last_key
                  /\ KeyOf(r) \in DOMAIN r.header =>
                       /\ KeyOf(n) \in DOMAIN n.header
                       /\ n.header[KeyOf(n)] = r.header[KeyOf(r)] \o s
<1> DEFINE n == on_header_value(r, s)
<1>1. CASE r.last_field # Qnil
  <2> DEFINE k == nyara_headerlize(r.last_field)
             h == rb_hash_aset(r.header, k, s)
  <2>1. n = [r EXCEPT !.header = h, !.last_value = s, !.last_key = r.last_field, !.last_field = Qnil]
    BY <1>1 DEF on_header_value
  <2>2. Header(h)
    BY SetHeader
  <2>3. k \in DOMAIN h /\ h[k] = s
    BY DEF rb_hash_aset
  <2> HIDE DEF h, n
  <2>4. /\ n.header = h /\ n.last_field = Qnil /\ n.last_key = r.last_field
        /\ SameUrl(n, r) /\ Same(n, r)
    BY <2>1, FieldsOfRequest DEF Reads, Texts, SameUrl, Same
  <2>5. KeyOf(n) = k
    BY <2>4 DEF KeyOf
  <2> HIDE DEF k
  <2> QED BY <1>1, <2>2, <2>3, <2>4, <2>5 DEF n
<1>2. CASE r.last_field = Qnil
  <2> DEFINE k == nyara_headerlize(r.last_key)
             h == [r.header EXCEPT ![k] = @ \o s]
             t == r.last_value \o s
  <2>1. Header(h)
    BY AppendHeader
  <2>2. k \in DOMAIN r.header => k \in DOMAIN h /\ h[k] = r.header[k] \o s
    BY DEF Header
  <2>3. n = [r EXCEPT !.last_value = t, !.header = h]
    BY <1>2, FieldsOfRequest DEF on_header_value, Reads, Texts, HasHeader
  <2> HIDE DEF h, n, t
  <2>4. /\ n.header = h /\ n.last_field = r.last_field /\ n.last_key = r.last_key
        /\ SameUrl(n, r) /\ Same(n, r)
    BY <2>3, FieldsOfRequest DEF Reads, Texts, SameUrl, Same
  <2>5. KeyOf(n) = k /\ KeyOf(r) = k
    BY <2>4 DEF KeyOf
  <2> HIDE DEF k
  <2> QED BY <1>2, <2>1, <2>2, <2>4, <2>5 DEF n
<1> QED BY <1>1, <1>2

(* Complete headers leave path_with_query and the header as they are.      *)
LEMMA QueryLeaves ==
  ASSUME NEW r, Reads(r)
  PROVE  LET n == _parse_path_and_query(r)
         IN  n.header = r.header /\ SameUrl(n, r)
<1> DEFINE parsed == nyara_parse_path(r.path_with_query)
           read == param_hash_parse_param(r.query, parsed.query)
           bare == [r EXCEPT !.path = @ \o parsed.path]
           new == [r EXCEPT !.path = @ \o parsed.path, !.query = read.output,
                            !.undefined = read.error = "undefined"]
           meth == _upcase_method(new.query.hash[_method].string)
<1>1. \/ _parse_path_and_query(r) = bare
      \/ _parse_path_and_query(r) = new
      \/ _parse_path_and_query(r) = Overridden(new, meth)
  BY DEF _parse_path_and_query
<1> HIDE DEF parsed, read
<1>2. Reads(bare) /\ Reads(new)
  BY PathReads
<1>3. bare.header = r.header /\ SameUrl(bare, r) /\ new.header = r.header /\ SameUrl(new, r)
  BY FieldsOfRequest DEF Reads, Texts, SameUrl
<1> HIDE DEF bare, new, meth
<1>4. Overridden(new, meth).header = new.header /\ SameUrl(Overridden(new, meth), new)
  <2> DEFINE h == hash_aset(new.query, _method, AsString(meth))
             named == {n \in METHODS : Chars(n) = meth}
             as == IF named # {} THEN CHOOSE m \in named : TRUE ELSE new.method
             n == [new EXCEPT !.query = h, !.method = as]
  <2>1. Overridden(new, meth) = n
    BY <1>2, FieldsOfRequest DEF Overridden, Reads, Texts
  <2> HIDE DEF h, as
  <2>2. n.header = new.header /\ SameUrl(n, new)
    BY <1>2, FieldsOfRequest DEF Reads, Texts, SameUrl
  <2> QED BY <2>1, <2>2
<1> QED BY <1>1, <1>3, <1>4 DEF SameUrl

LEMMA HeadersLeave ==
  ASSUME NEW r, Reads(r)
  PROVE  LET n == on_headers_complete(r)
         IN  n.header = r.header /\ SameUrl(n, r) /\ n.body = <<>>
<1> DEFINE u == _parse_path_and_query(r)
           b == _parse_multipart_boundary(r.header)
           mp == IF b = <<>> THEN u.mparser ELSE multipart_parser_init(<<"-", "-">> \o b)
           n == [u EXCEPT !.last_field = Qnil, !.last_value = Qnil, !.body = <<>>,
                          !.parse_state = "PS_HEADERS_COMPLETE", !.mparser = mp]
<1>1. on_headers_complete(r) = n
  BY DEF on_headers_complete
<1>2. Reads(u) /\ u.header = r.header /\ SameUrl(u, r)
  BY QueryReads, QueryLeaves
<1> HIDE DEF u, mp
<1>3. n.header = u.header /\ SameUrl(n, u) /\ n.body = <<>>
  BY <1>2, FieldsOfRequest DEF Reads, Texts, SameUrl
<1> QED BY <1>1, <1>2, <1>3 DEF SameUrl

LEMMA CompleteLeaves ==
  ASSUME NEW r, Reads(r)
  PROVE  LET n == [r EXCEPT !.parse_state = "PS_MESSAGE_COMPLETE"]
         IN  /\ n.header = r.header /\ SameUrl(n, r) /\ Same(n, r)
             /\ n.parse_state = "PS_MESSAGE_COMPLETE"
BY FieldsOfRequest DEF Reads, Texts, SameUrl, Same

-----------------------------------------------------------------------------
(* The pieces join                                                         *)

(* What is read of a text is marked, and a value that goes on has its key. *)
(* A head that is complete is past, and its body is read.                  *)
Joining ==
  /\ go = "out" => mark = NoMarks
  /\ go # "out" => phase \in {"read", "raised"} /\ AllMarked
  /\ phase # "raised" =>
       /\ Header(q.header) /\ q.path_with_query \in Text \cup {Qnil} /\ IsSequence(q.body)
       /\ parser.http_errno = "HPE_OK" =>
            /\ parser.state \in ValueStates /\ q.last_field = Qnil => KeyOf(q) \in DOMAIN q.header
            /\ q.parse_state = "PS_HEADERS_COMPLETE" => Past(parser)

LEMMA JoiningInit ==
  ASSUME Init
  PROVE  Joining
<1>1. go = "out" /\ mark = NoMarks /\ parser = Parser0 /\ q = Request0
  BY DEF Init, ParserInit
<1>2. /\ Request0.header = <<>> /\ Request0.path_with_query = Qnil /\ Request0.body = Qnil
      /\ Request0.parse_state = "PS_INIT"
  BY DEF Request0
<1>3. Parser0.state \notin ValueStates
  BY DEF Parser0, ValueStates
<1>4. Header(<<>>)
  <2>1. DOMAIN <<>> = {} /\ <<>> = [x \in DOMAIN <<>> |-> <<>>[x]]
    OBVIOUS
  <2> QED BY <2>1, FS_EmptySet DEF Header
<1>5. IsSequence(Qnil)
  <2>1. Qnil \in Seq({"Qnil"})
    BY DEF Qnil
  <2> QED BY <2>1 DEF IsSequence
<1> QED BY <1>1, <1>2, <1>3, <1>4, <1>5 DEF Joining

(* The callback that a step of the parser runs; a value is announced.      *)
LEMMA CallbackRun ==
  ASSUME RInv, Parse
  PROVE  /\ \/ calls' = <<>> /\ q' = q
            \/ \E c : /\ calls' = <<c>> /\ q' = Callback(q, c) /\ c.on \in Names /\ c.data \in Text
                      /\ c.on = "header_value" => HasHeader(q)
         /\ parser'.http_errno = "HPE_OK" /\ parser'.state \in ValueStates =>
              Announced(parser', calls')
<1>1. /\ phase = "read" /\ Reads(q) /\ data \in Text /\ PInv
      /\ (parser.http_errno = "HPE_OK" /\ parser.state \in ValueStates => HasHeader(q))
  BY DEF Parse, RInv
<1>2. PICK fail \in BOOLEAN : ParserStep(fail) /\ q' = FoldLeft(Callback, q, calls')
  BY DEF Parse
<1>3. Marked /\ parser.http_errno = "HPE_OK"
  <2>1. go # "out"
    BY <1>2 DEF ParserStep, HeaderOverflow, RequestLine, UrlStart, HeaderFieldStart, HeaderEnd,
       ChunkLine, UrlByte, HeaderField, HeaderValueStart, HeaderValue, HeadersAlmostDone,
       HeadersDone, BodyIdentity, MessageDone, ChunkData, EndOfBuffer, At
  <2> QED BY <1>1, <2>1 DEF RInv, PInv
<1>4. /\ OneCall(calls')
      /\ parser'.http_errno = "HPE_OK" /\ parser'.state \in ValueStates => Announced(parser', calls')
  <2>1. HeaderOverflow \/ Turns
    BY <1>1, <1>2, <1>3, ParserTurns
  <2>2. CASE HeaderOverflow
    <3>1. calls' = <<>> /\ parser' = Fail(Counted, "HPE_HEADER_OVERFLOW") /\ Typed(Counted)
      BY <1>1, <2>2, CountedFields DEF HeaderOverflow, Return, PInv, Sound
    <3>2. parser'.http_errno # "HPE_OK"
      BY <3>1, Failed
    <3> QED BY <3>1, <3>2 DEF OneCall
  <2>3. CASE Turns
    <3>1. PICK r, marks, callbacks, next, at : \E failed \in BOOLEAN :
            Step(r, marks, callbacks, next, at, failed) /\ Turn(r, marks, callbacks, next, at)
      BY <2>3 DEF Turns
    <3>2. PICK failed \in BOOLEAN : Step(r, marks, callbacks, next, at, failed)
      BY <3>1
    <3>3. /\ Typed(r) /\ OneCall(callbacks)
          /\ r.http_errno = "HPE_OK" /\ r.state \in ValueStates => Announced(r, callbacks)
      BY <3>1 DEF Turn
    <3>4. calls' = callbacks /\ (parser' = r \/ parser' = Fail(r, "HPE_CB"))
      BY <3>2 DEF Step, Return
    <3>5. parser'.http_errno = "HPE_OK" => parser' = r
      BY <3>3, <3>4, Failed
    <3> QED BY <3>3, <3>4, <3>5 DEF Announced
  <2> QED BY <2>1, <2>2, <2>3
<1>5. CASE calls' = <<>>
  BY <1>2, <1>4, <1>5, FoldNone
<1>6. CASE calls' # <<>>
  <2>1. PICK c : /\ calls' = <<c>> /\ c.on \in Names /\ c.data \in Text
                 /\ c.on = "header_value" => parser.state \in ValueStates
    BY <1>4, <1>6 DEF OneCall
  <2>2. q' = Callback(q, c)
    BY <1>2, <2>1, FoldOne
  <2> QED BY <1>1, <1>3, <1>4, <2>1, <2>2
<1> QED BY <1>5, <1>6

(* What holds in a call of http_parser_execute.                            *)
LEMMA InCall ==
  ASSUME RInv, Joining, Parse
  PROVE  /\ phase = "read" /\ PInv /\ data \in Text /\ Marked /\ AllMarked
         /\ parser.http_errno = "HPE_OK" /\ go # "out"
         /\ Reads(q) /\ q.parse_state # "PS_ERROR"
         /\ Header(q.header) /\ q.path_with_query \in Text \cup {Qnil} /\ IsSequence(q.body)
         /\ parser.state \in ValueStates => HasHeader(q)
         /\ parser.state \in ValueStates /\ q.last_field = Qnil => KeyOf(q) \in DOMAIN q.header
         /\ q.parse_state = "PS_HEADERS_COMPLETE" => Past(parser)
         /\ \E fail \in BOOLEAN : ParserStep(fail)
<1>1. phase = "read" /\ \E fail \in BOOLEAN : ParserStep(fail)
  BY DEF Parse
<1>2. go # "out"
  BY <1>1 DEF ParserStep, HeaderOverflow, RequestLine, UrlStart, HeaderFieldStart, HeaderEnd,
     ChunkLine, UrlByte, HeaderField, HeaderValueStart, HeaderValue, HeadersAlmostDone,
     HeadersDone, BodyIdentity, MessageDone, ChunkData, EndOfBuffer, At
<1>3. PInv /\ data \in Text /\ Marked /\ parser.http_errno = "HPE_OK"
  BY <1>2 DEF RInv, PInv
<1>4. /\ Reads(q) /\ q.parse_state # "PS_ERROR" /\ (parser.state \in ValueStates => HasHeader(q))
  BY <1>1, <1>3 DEF RInv
<1>5. /\ AllMarked
      /\ Header(q.header) /\ q.path_with_query \in Text \cup {Qnil} /\ IsSequence(q.body)
      /\ parser.state \in ValueStates /\ q.last_field = Qnil => KeyOf(q) \in DOMAIN q.header
      /\ q.parse_state = "PS_HEADERS_COMPLETE" => Past(parser)
  BY <1>1, <1>2, <1>3 DEF Joining
<1> QED BY <1>1, <1>2, <1>3, <1>4, <1>5

(* A callback leaves a header of texts, and a body that is a sequence.     *)
LEMMA CallbackJoins ==
  ASSUME Reads(q), q.parse_state # "PS_ERROR", Header(q.header), IsSequence(q.body),
         q.path_with_query \in Text \cup {Qnil},
         NEW c, c.on \in Names, c.data \in Text, c.on = "header_value" => HasHeader(q)
  PROVE  LET n == Callback(q, c)
         IN  /\ Header(n.header) /\ n.path_with_query \in Text \cup {Qnil} /\ IsSequence(n.body)
             /\ n.parse_state = "PS_HEADERS_COMPLETE" =>
                  \/ c.on = "headers_complete" \/ c.on = "body"
                  \/ q.parse_state = "PS_HEADERS_COMPLETE" /\ c.on # "message_complete"
<1> DEFINE n == Callback(q, c)
<1>1. CASE c.on = "url"
  <2>1. n = on_url(q, c.data)
    BY <1>1 DEF Callback
  <2>2. n.body = q.body /\ n.parse_state = q.parse_state
    BY <2>1, FieldsOfRequest DEF on_url, Reads, Texts
  <2> QED BY <1>1, <2>1, <2>2, UrlJoins
<1>2. CASE c.on = "header_field"
  <2>1. n = on_header_field(q, c.data)
    BY <1>2 DEF Callback
  <2>2. n.header = q.header /\ n.path_with_query = q.path_with_query /\ n.body = q.body
    BY <2>1, NameJoins DEF Same, SameUrl
  <2>3. n.parse_state = q.parse_state
    BY <2>1, NameReads
  <2> QED BY <1>2, <2>2, <2>3
<1>3. CASE c.on = "header_value"
  <2>1. n = on_header_value(q, c.data)
    BY <1>3 DEF Callback
  <2> QED BY <1>3, <2>1, ValueJoins, ValueReads DEF Same, SameUrl
<1>4. CASE c.on = "headers_complete"
  <2>1. n = on_headers_complete(q)
    BY <1>4 DEF Callback
  <2>2. IsSequence(<<>>)
    BY DEF IsSequence
  <2> QED BY <1>4, <2>1, <2>2, HeadersLeave DEF SameUrl
<1>5. CASE c.on = "body"
  <2>1. n = on_body(q, c.data)
    BY <1>5 DEF Callback
  <2>2. Keeps(n)
    BY <2>1, KeepsItself, BodyReads
  <2> QED BY <1>5, <2>2 DEF Keeps, Extends
<1>6. CASE c.on = "message_complete"
  <2>1. n = [q EXCEPT !.parse_state = "PS_MESSAGE_COMPLETE"]
    BY <1>6 DEF Callback
  <2> QED BY <1>6, <2>1, CompleteLeaves DEF Same, SameUrl
<1> QED BY <1>1, <1>2, <1>3, <1>4, <1>5, <1>6 DEF Names

LEMMA JoiningParse ==
  ASSUME RInv, Joining, Parse
  PROVE  Joining'
<1>1. /\ phase = "read" /\ PInv /\ data \in Text /\ Marked /\ AllMarked
      /\ Reads(q) /\ q.parse_state # "PS_ERROR"
      /\ Header(q.header) /\ q.path_with_query \in Text \cup {Qnil} /\ IsSequence(q.body)
      /\ parser.state \in ValueStates /\ q.last_field = Qnil => KeyOf(q) \in DOMAIN q.header
      /\ q.parse_state = "PS_HEADERS_COMPLETE" => Past(parser)
      /\ parser.state \in ValueStates => HasHeader(q)
  BY InCall
<1>2. PICK fail \in BOOLEAN : ParserStep(fail)
  BY InCall
<1>3. /\ go' # "out" => AllMarked'
      /\ go' = "out" => mark' = NoMarks
  BY <1>1, <1>2, TextsMove
<1>4. PICK r : Rest(r, calls') /\ (parser'.http_errno = "HPE_OK" => parser' = r)
  BY <1>1, <1>2, TextsMove
<1>5. phase' \in {"read", "raised"}
  BY <1>1 DEF Parse
<1>6. parser'.http_errno = "HPE_OK" /\ parser'.state \in ValueStates => Announced(parser', calls')
  BY CallbackRun
<1>7. CASE calls' = <<>> /\ q' = q
  <2>1. \A c : calls' # <<c>>
    BY <1>7
  <2>2. parser'.http_errno = "HPE_OK" /\ q.parse_state = "PS_HEADERS_COMPLETE" => Past(parser')
    BY <1>1, <1>4, <2>1 DEF Rest
  <2>3. parser'.http_errno = "HPE_OK" /\ parser'.state \in ValueStates => parser.state \in ValueStates
    BY <1>6, <1>7 DEF Announced
  <2> QED BY <1>1, <1>3, <1>5, <1>7, <2>2, <2>3 DEF Joining, KeyOf
<1>8. ASSUME NEW c, calls' = <<c>>, q' = Callback(q, c), c.on \in Names, c.data \in Text,
             c.on = "header_value" => HasHeader(q)
      PROVE  Joining'
  <2>1. /\ Header(q'.header) /\ q'.path_with_query \in Text \cup {Qnil} /\ IsSequence(q'.body)
        /\ q'.parse_state = "PS_HEADERS_COMPLETE" =>
             \/ c.on = "headers_complete" \/ c.on = "body"
             \/ q.parse_state = "PS_HEADERS_COMPLETE" /\ c.on # "message_complete"
    BY <1>1, <1>8, CallbackJoins
  <2>2. parser'.http_errno = "HPE_OK" /\ q'.parse_state = "PS_HEADERS_COMPLETE" => Past(parser')
    <3> SUFFICES ASSUME parser'.http_errno = "HPE_OK", q'.parse_state = "PS_HEADERS_COMPLETE"
                 PROVE  Past(parser')
      OBVIOUS
    <3>1. /\ c.on = "body" => Past(parser)
          /\ c.on = "headers_complete" => Past(parser')
          /\ Past(parser) => Past(parser') \/ \E d : calls' = <<d>> /\ d.on = "message_complete"
      BY <1>4, <1>8 DEF Rest
    <3>2. \A d : calls' = <<d>> => d = c
      BY <1>8
    <3> QED BY <1>1, <2>1, <3>1, <3>2
  <2>3. ASSUME parser'.http_errno = "HPE_OK", parser'.state \in ValueStates, q'.last_field = Qnil
        PROVE  KeyOf(q') \in DOMAIN q'.header
    <3>1. \/ c.on = "header_field"
          \/ parser.state \in ValueStates /\ c.on = "header_value"
      <4>1. calls' # <<>> /\ calls'[1] = c
        BY <1>8
      <4> QED BY <1>6, <2>3, <4>1 DEF Announced
    <3>2. CASE c.on = "header_field"
      <4>1. q' = on_header_field(q, c.data)
        BY <1>8, <3>2 DEF Callback
      <4>2. q'.last_field # Qnil
        BY <1>1, <1>8, <4>1, NameJoins
      <4> QED BY <2>3, <4>2
    <3>3. CASE parser.state \in ValueStates /\ c.on = "header_value"
      <4>1. q' = on_header_value(q, c.data)
        BY <1>8, <3>3 DEF Callback
      <4> QED BY <1>1, <1>8, <3>3, <4>1, ValueJoins
    <3> QED BY <3>1, <3>2, <3>3
  <2>4. parser'.http_errno = "HPE_OK" /\ parser'.state \in ValueStates /\ q'.last_field = Qnil =>
          KeyOf(q)' \in DOMAIN q'.header
    BY <2>3 DEF KeyOf
  <2> QED BY <1>3, <1>5, <2>1, <2>2, <2>4 DEF Joining, Past
<1> QED BY <1>7, <1>8, CallbackRun

LEMMA JoiningRead ==
  ASSUME RInv, Joining, NEW k \in 1..Len(net), Read(k)
  PROVE  Joining'
<1>1. Execute(SubSeq(net, 1, k)) /\ q' = q /\ phase' = phase /\ go = "out" /\ phase = "read"
      /\ parser' = parser /\ mark = NoMarks
  BY DEF Read, Execute, Joining
<1>2. CASE parser.http_errno # "HPE_OK"
  <2>1. go' = "out" /\ mark' = NoMarks
    BY <1>1, <1>2 DEF Execute
  <2> QED BY <1>1, <2>1 DEF Joining, KeyOf, Past
<1>3. CASE parser.http_errno = "HPE_OK"
  <2>1. AllMarked' /\ go' = "byte"
    BY <1>1, <1>3, BeginMarks, TextCallsAre DEF AllMarked, TextCalls
  <2> QED BY <1>1, <2>1 DEF Joining, KeyOf, Past
<1> QED BY <1>2, <1>3

LEMMA JoiningStep ==
  ASSUME RInv, Joining, [Next]_vars
  PROVE  Joining'
<1>1. CASE Parse
  BY <1>1, JoiningParse
<1>2. ASSUME NEW k \in 1..Len(net), Read(k) PROVE Joining'
  BY <1>2, JoiningRead
<1>3. CASE Event \/ EAGAIN \/ Dispatch \/ UNCHANGED vars
  <2>1. UNCHANGED <<pvars, q>> /\ (phase' # "raised" => phase # "raised")
        /\ (go # "out" => phase' \in {"read", "raised"})
    BY <1>3 DEF Event, EAGAIN, Dispatch, vars, rvars, Joining
  <2>2. go' = go /\ mark' = mark /\ q' = q /\ parser' = parser
    BY <2>1 DEF pvars
  <2> QED BY <2>1, <2>2 DEF Joining, AllMarked, KeyOf, Past
<1> QED BY <1>1, <1>2, <1>3 DEF Next

(* While the rest of a message is read, only trailers change the head.     *)
LEMMA HeadStableParse ==
  ASSUME RInv, Joining, Parse, q.parse_state = "PS_HEADERS_COMPLETE"
  PROVE  /\ q'.method = q.method /\ q'.path = q.path /\ q'.query = q.query
         /\ q'.header # q.header => "F_TRAILING" \in parser.flags
         /\ IsPrefix(q.body, q'.body)
<1>1. /\ PInv /\ data \in Text /\ Marked /\ AllMarked /\ Reads(q) /\ q.parse_state # "PS_ERROR"
      /\ Header(q.header) /\ IsSequence(q.body) /\ Past(parser)
  BY InCall
<1>2. PICK fail \in BOOLEAN : ParserStep(fail)
  BY InCall
<1>3. PICK r : Rest(r, calls')
  BY <1>1, <1>2, TextsMove
<1>4. IsPrefix(q.body, q.body)
  BY <1>1, KeepsItself DEF Keeps, Extends
<1>5. CASE calls' = <<>> /\ q' = q
  BY <1>4, <1>5
<1>6. ASSUME NEW c, calls' = <<c>>, q' = Callback(q, c), c.on \in Names, c.data \in Text,
             c.on = "header_value" => HasHeader(q)
      PROVE  /\ q'.method = q.method /\ q'.path = q.path /\ q'.query = q.query
             /\ q'.header # q.header => "F_TRAILING" \in parser.flags
             /\ IsPrefix(q.body, q'.body)
  <2>1. \/ c.on \in {"body", "message_complete"}
        \/ c.on \in {"header_field", "header_value"} /\ "F_TRAILING" \in parser.flags
    BY <1>1, <1>3, <1>6 DEF Rest
  <2>2. CASE c.on = "body"
    <3>1. q' = on_body(q, c.data)
      BY <1>6, <2>2 DEF Callback
    <3>2. Keeps(q')
      BY <1>1, <1>6, <3>1, KeepsItself, BodyReads
    <3> QED BY <1>1, <3>2 DEF Keeps, Extends
  <2>3. CASE c.on = "message_complete"
    <3>1. q' = [q EXCEPT !.parse_state = "PS_MESSAGE_COMPLETE"]
      BY <1>6, <2>3 DEF Callback
    <3> QED BY <1>1, <1>4, <3>1, CompleteLeaves DEF Same
  <2>4. CASE c.on = "header_field" /\ "F_TRAILING" \in parser.flags
    <3>1. q' = on_header_field(q, c.data)
      BY <1>6, <2>4 DEF Callback
    <3> QED BY <1>1, <1>4, <1>6, <2>4, <3>1, NameJoins DEF Same
  <2>5. CASE c.on = "header_value" /\ "F_TRAILING" \in parser.flags
    <3>1. q' = on_header_value(q, c.data)
      BY <1>6, <2>5 DEF Callback
    <3> QED BY <1>1, <1>4, <1>6, <2>5, <3>1, ValueJoins DEF Same
  <2> QED BY <2>1, <2>2, <2>3, <2>4, <2>5
<1> QED BY <1>5, <1>6, CallbackRun

(* A text that moves and what is given of it, a, to what is given then, b. *)
LEMMA TextJoins ==
  ASSUME NEW f \in TextCalls, Moves(f), NEW a \in Text, NEW b, Held(f) \in Text,
         (\A c : calls' = <<c>> => c.on # f) => b = a,
         \A s : calls' = <<[on |-> f, data |-> s]>> => b = a \o s
  PROVE  b \o Held(f)' = With(a \o Held(f), TakesText(f))
<1> DEFINE h == Held(f)
           k == Held(f)'
<1>1. a \o <<>> = a
  BY DEF Text
<1>2. CASE /\ h = <<>> /\ k = <<>> /\ ~TakesText(f)
           /\ \A c : calls' = <<c>> => c.on # f
  BY <1>1, <1>2 DEF With
<1>3. CASE calls' = <<>> /\ TakesText(f) /\ k = Append(h, ch)
  <2>1. b = a
    <3>1. \A c : calls' # <<c>>
      BY <1>3
    <3> QED BY <3>1
  <2>2. a \o Append(h, ch) = Append(a \o h, ch)
    <3> DEFINE U == STRING \cup {ch}
    <3>1. a \in Seq(U) /\ h \in Seq(U) /\ ch \in U
      BY DEF Text
    <3> HIDE DEF U, h
    <3> QED BY <3>1
  <2> QED BY <1>3, <2>1, <2>2 DEF With
<1>4. CASE calls' = <<[on |-> f, data |-> h]>> /\ ~TakesText(f) /\ k = <<>>
  <2>1. b = a \o h
    BY <1>4
  <2>2. (a \o h) \o <<>> = a \o h
    BY DEF Text
  <2> QED BY <1>4, <2>1, <2>2 DEF With
<1> QED BY <1>2, <1>3, <1>4 DEF Moves

LEMMA HeldIsText ==
  ASSUME PInv, data \in Text, NEW f \in TextCalls
  PROVE  Held(f) \in Text
<1>1. mark[f] \in Nat /\ p \in 1..(Len(data) + 1) /\ Len(data) \in Nat
  BY DEF PInv, MarkType, TextCalls, Text
<1>2. CASE mark[f] = 0
  <2>1. <<>> \in Text
    BY DEF Text
  <2> QED BY <1>2, <2>1 DEF Held
<1>3. CASE mark[f] # 0
  <2>1. p - 1 \in Nat /\ p - 1 <= Len(data) /\ mark[f] \in Nat \ {0}
    BY <1>1, <1>3
  <2> QED BY <1>3, <2>1, Piece DEF Held
<1> QED BY <1>2, <1>3

LEMMA UrlPieces ==
  ASSUME RInv, Joining, Parse, parser'.http_errno = "HPE_OK"
  PROVE  UrlSoFar' = With(UrlSoFar, TakesUrl)
<1>1. /\ PInv /\ data \in Text /\ Marked /\ AllMarked /\ Reads(q) /\ q.parse_state # "PS_ERROR"
      /\ Header(q.header) /\ q.path_with_query \in Text \cup {Qnil}
  BY InCall
<1>2. PICK fail \in BOOLEAN : ParserStep(fail)
  BY InCall
<1>3. Moves("url") /\ Held("url") \in Text /\ "url" \in TextCalls
  BY <1>1, <1>2, TextsMove, HeldIsText DEF TextCalls
<1> DEFINE a == Given(q.path_with_query)
           b == Given(q'.path_with_query)
<1>4. a \in Text
  <2>1. <<>> \in Text
    BY DEF Text
  <2> QED BY <1>1, <2>1 DEF Given
<1>5. (\A c : calls' = <<c>> => c.on # "url") => b = a
  <2>1. CASE calls' = <<>> /\ q' = q
    BY <2>1
  <2>2. ASSUME NEW c, calls' = <<c>>, q' = Callback(q, c), c.on \in Names, c.data \in Text,
               c.on = "header_value" => HasHeader(q), c.on # "url"
        PROVE  SameUrl(q', q)
    <3>1. CASE c.on = "header_field"
      BY <1>1, <2>2, <3>1, NameJoins DEF Callback
    <3>2. CASE c.on = "header_value"
      BY <1>1, <2>2, <3>2, ValueJoins DEF Callback
    <3>3. CASE c.on = "headers_complete"
      BY <1>1, <2>2, <3>3, HeadersLeave DEF Callback
    <3>4. CASE c.on = "body"
      <4>1. q' = on_body(q, c.data)
        BY <2>2, <3>4 DEF Callback
      <4> QED BY <1>1, <2>2, <4>1, KeepsItself, BodyReads DEF Keeps, SameUrl
    <3>5. CASE c.on = "message_complete"
      <4>1. q' = [q EXCEPT !.parse_state = "PS_MESSAGE_COMPLETE"]
        BY <2>2, <3>5 DEF Callback
      <4> QED BY <1>1, <4>1, CompleteLeaves
    <3> QED BY <2>2, <3>1, <3>2, <3>3, <3>4, <3>5 DEF Names
  <2> QED BY <2>1, <2>2, CallbackRun DEF SameUrl
<1>6. ASSUME NEW s, calls' = <<[on |-> "url", data |-> s]>> PROVE b = a \o s
  <2>1. PICK c : calls' = <<c>> /\ q' = Callback(q, c) /\ c.data \in Text
    BY <1>6, CallbackRun
  <2>2. c.on = "url" /\ c.data = s
    BY <1>6, <2>1
  <2>3. q' = on_url(q, s)
    BY <2>1, <2>2 DEF Callback
  <2> QED BY <1>1, <2>1, <2>2, <2>3, UrlJoins
<1> HIDE DEF a, b
<1>7. b \o Held("url")' = With(a \o Held("url"), TakesText("url"))
  BY <1>3, <1>4, <1>5, <1>6, TextJoins
<1>8. TakesText("url") <=> TakesUrl
  BY DEF TakesText
<1> QED BY <1>7, <1>8 DEF UrlSoFar, With, a, b

(* In a name only its own callback runs, in a value the value's.           *)
LEMMA OwnCalls ==
  ASSUME RInv, Joining, Parse, NEW c, calls' = <<c>>, parser.state \in NameStates \cup ValueStates
  PROVE  /\ q' = Callback(q, c) /\ c.data \in Text
         /\ parser.state \in NameStates => c.on = "header_field"
         /\ parser.state \in ValueStates => c.on = "header_value"
<1>1. PInv /\ data \in Text /\ Marked /\ AllMarked
  BY InCall
<1>2. PICK fail \in BOOLEAN : ParserStep(fail)
  BY InCall
<1>3. PICK r : Rest(r, calls')
  BY <1>1, <1>2, TextsMove
<1>4. PICK d : calls' = <<d>> /\ q' = Callback(q, d) /\ d.data \in Text
  BY CallbackRun
<1>5. d = c
  BY <1>4
<1> QED BY <1>3, <1>4, <1>5 DEF Rest

LEMMA NamePieces ==
  ASSUME RInv, Joining, Parse, parser'.http_errno = "HPE_OK",
         parser.state \in NameStates \cup ValueStates
  PROVE  \/ NameSoFar' = With(NameSoFar, TakesName)
         \/ NameSoFar' = <<>> /\ q.last_field # Qnil /\ q'.last_key = NameSoFar
<1>1. /\ PInv /\ data \in Text /\ Marked /\ AllMarked /\ Reads(q) /\ Header(q.header)
      /\ parser.state \in ValueStates => HasHeader(q)
  BY InCall
<1>2. PICK fail \in BOOLEAN : ParserStep(fail)
  BY InCall
<1> DEFINE f == "header_field"
<1>3. Moves(f) /\ Held(f) \in Text /\ f \in TextCalls
  BY <1>1, <1>2, TextsMove, HeldIsText DEF TextCalls
<1>4. q.last_field \in Text \cup {Qnil} /\ <<>> \in Text
  BY <1>1 DEF Reads, Texts, Text
<1> DEFINE a == Given(q.last_field)
           b == Given(q'.last_field)
<1>5. a \in Text
  BY <1>4 DEF Given
<1>6. TakesText(f) <=> TakesName
  BY DEF TakesText
<1>7. ASSUME NEW c, calls' = <<c>>, c.on = "header_value", q.last_field # Qnil
      PROVE  NameSoFar' = <<>> /\ q'.last_key = NameSoFar
  <2>1. q' = on_header_value(q, c.data) /\ c.data \in Text /\ HasHeader(q)
    BY <1>7, OwnCalls DEF Callback, HasHeader
  <2>2. q'.last_field = Qnil /\ q'.last_key = q.last_field
    BY <1>1, <1>7, <2>1, ValueJoins
  <2>3. Held(f) = <<>> /\ Held(f)' = <<>>
    <3>1. \A s : calls' # <<[on |-> f, data |-> s]>>
      BY <1>7
    <3>2. calls' # <<>>
      BY <1>7
    <3> QED BY <1>3, <3>1, <3>2 DEF Moves
  <2>4. a = q.last_field /\ b = <<>>
    BY <1>7, <2>2 DEF Given
  <2>5. a \o <<>> = a /\ <<>> \o <<>> = <<>>
    BY <1>5 DEF Text
  <2> HIDE DEF a, b
  <2>6. b \o Held(f)' = <<>> /\ a \o Held(f) = q.last_field
    BY <2>3, <2>4, <2>5
  <2> QED BY <2>2, <2>6 DEF NameSoFar, a, b
<1>8. ASSUME \A c : calls' = <<c>> /\ c.on = "header_value" => q.last_field = Qnil
      PROVE  NameSoFar' = With(NameSoFar, TakesName)
  <2>1. ASSUME \A c : calls' = <<c>> => c.on # f PROVE b = a
    <3>1. CASE calls' = <<>> /\ q' = q
      BY <3>1
    <3>2. ASSUME NEW c, calls' = <<c>> PROVE q'.last_field = q.last_field
      <4>1. c.on = "header_value" /\ q' = Callback(q, c) /\ c.data \in Text
            /\ parser.state \in ValueStates
        BY <2>1, <3>2, OwnCalls
      <4>2. q' = on_header_value(q, c.data) /\ q.last_field = Qnil
        BY <1>8, <3>2, <4>1 DEF Callback
      <4> QED BY <1>1, <4>1, <4>2, ValueJoins
    <3> QED BY <3>1, <3>2, CallbackRun
  <2>2. ASSUME NEW s, calls' = <<[on |-> f, data |-> s]>> PROVE b = a \o s
    <3> DEFINE c == [on |-> f, data |-> s]
    <3>1. calls' = <<c>> /\ c.on = f /\ c.data = s
      BY <2>2
    <3> HIDE DEF c
    <3>2. q' = Callback(q, c) /\ s \in Text
      BY <3>1, OwnCalls
    <3>3. q' = on_header_field(q, s)
      BY <3>1, <3>2 DEF Callback
    <3> QED BY <1>1, <3>2, <3>3, NameJoins
  <2> HIDE DEF a, b, f
  <2>3. b \o Held(f)' = With(a \o Held(f), TakesText(f))
    BY <1>3, <1>5, <2>1, <2>2, TextJoins
  <2> QED BY <1>6, <2>3 DEF NameSoFar, With, a, b, f
<1> QED BY <1>7, <1>8

LEMMA ValuePieces ==
  ASSUME RInv, Joining, Parse, parser'.http_errno = "HPE_OK", parser.state \in ValueStates
  PROVE  ValueSoFar' = With(ValueSoFar, TakesValue)
<1>1. /\ PInv /\ data \in Text /\ Marked /\ AllMarked /\ Reads(q) /\ Header(q.header)
      /\ HasHeader(q) /\ (q.last_field = Qnil => KeyOf(q) \in DOMAIN q.header)
  BY InCall
<1>2. PICK fail \in BOOLEAN : ParserStep(fail)
  BY InCall
<1> DEFINE f == "header_value"
           ValueOf(r) == IF r.last_field # Qnil THEN <<>> ELSE r.header[KeyOf(r)]
           a == ValueOf(q)
           b == ValueOf(q')
<1>3. Moves(f) /\ Held(f) \in Text /\ f \in TextCalls
  BY <1>1, <1>2, TextsMove, HeldIsText DEF TextCalls
<1>4. <<>> \in Text
  BY DEF Text
<1>5. a \in Text
  BY <1>1, <1>4 DEF Header
<1>6. TakesText(f) <=> TakesValue
  BY DEF TakesText
<1>7. ASSUME \A c : calls' = <<c>> => c.on # f PROVE b = a
  <2>1. \A c : calls' # <<c>>
    BY <1>7, OwnCalls
  <2> QED BY <2>1, CallbackRun
<1>8. ASSUME NEW s, calls' = <<[on |-> f, data |-> s]>> PROVE b = a \o s
  <2> DEFINE c == [on |-> f, data |-> s]
  <2>1. calls' = <<c>> /\ c.on = f /\ c.data = s
    BY <1>8
  <2> HIDE DEF c
  <2>2. q' = Callback(q, c) /\ s \in Text
    BY <2>1, OwnCalls
  <2>3. q' = on_header_value(q, s)
    BY <2>1, <2>2 DEF Callback
  <2>4. /\ q'.last_field = Qnil
        /\ q.last_field # Qnil => q'.header[KeyOf(q')] = s
        /\ q.last_field = Qnil => q'.header[KeyOf(q')] = q.header[KeyOf(q)] \o s
    BY <1>1, <2>2, <2>3, ValueJoins
  <2>5. <<>> \o s = s
    BY <2>2 DEF Text
  <2> QED BY <2>4, <2>5
<1>9. ValueSoFar = a \o Held(f) /\ ValueSoFar' = b \o Held(f)'
  BY DEF ValueSoFar, KeyOf
<1> HIDE DEF a, b, f
<1>10. b \o Held(f)' = With(a \o Held(f), TakesText(f))
  BY <1>3, <1>5, <1>7, <1>8, TextJoins
<1> QED BY <1>6, <1>9, <1>10 DEF With

(* Between the calls of http_parser_execute nothing is taken.              *)
LEMMA QuietJoins ==
  ASSUME go = "out", q' = q, \A f \in TextCalls : Held(f) = <<>> /\ Held(f)' = <<>>
  PROVE  /\ UrlSoFar' = With(UrlSoFar, TakesUrl) /\ NameSoFar' = With(NameSoFar, TakesName)
         /\ ValueSoFar' = With(ValueSoFar, TakesValue)
<1>1. ~TakesUrl /\ ~TakesName /\ ~TakesValue
  BY DEF TakesUrl, TakesName, TakesValue, Takes
<1>2. /\ Held("url")' = Held("url") /\ Held("header_field")' = Held("header_field")
      /\ Held("header_value")' = Held("header_value")
  BY DEF TextCalls
<1>3. UrlSoFar' = UrlSoFar /\ NameSoFar' = NameSoFar /\ ValueSoFar' = ValueSoFar
  BY <1>2 DEF UrlSoFar, NameSoFar, ValueSoFar
<1> QED BY <1>1, <1>3 DEF With

(* A call begins with nothing held, though a text goes on.                 *)
LEMMA BeginsEmpty ==
  ASSUME RInv, Joining, NEW k \in 1..Len(net), Read(k), NEW f \in TextCalls
  PROVE  Held(f) = <<>> /\ Held(f)' = <<>>
<1>1. mark[f] = 0 /\ go = "out" /\ Execute(SubSeq(net, 1, k)) /\ SubSeq(net, 1, k) \in Text
  BY ReadPiece DEF Joining, Read, NoMarks, TextCalls, RInv
<1>2. CASE parser.http_errno # "HPE_OK"
  BY <1>1, <1>2 DEF Execute, Held
<1>3. CASE parser.http_errno = "HPE_OK"
  <2>1. mark'[f] \in 0..1 /\ p' = 1 /\ data' \in Text
    BY <1>1, <1>3, BeginMarks DEF TextCalls
  <2>2. SubSeq(data', 1, 1 - 1) = <<>>
    BY <2>1 DEF Text
  <2>3. Held(f)' = <<>>
    BY <2>1, <2>2 DEF Held
  <2> QED BY <1>1, <2>3 DEF Held
<1> QED BY <1>2, <1>3

(* What is not a step of a call leaves what is held.                       *)
LEMMA RestsBetween ==
  ASSUME RInv, Joining, Event \/ EAGAIN \/ Dispatch
  PROVE  go = "out" /\ q' = q /\ \A f \in TextCalls : Held(f) = <<>> /\ Held(f)' = <<>>
<1>1. phase \in {"idle", "dispatch"} \/ go = "out"
  BY DEF Event, EAGAIN, Dispatch
<1>2. go = "out" /\ mark = NoMarks /\ mark' = mark /\ q' = q
  BY <1>1 DEF Joining, Event, EAGAIN, Dispatch, pvars
<1>3. \A f \in TextCalls : mark[f] = 0 /\ mark'[f] = 0
  BY <1>2 DEF NoMarks, TextCalls
<1> QED BY <1>2, <1>3 DEF Held

(* What the action was started with, and routed by, does not change while  *)
(* the rest of the message is read: on_url, on_headers_complete and, but   *)
(* for trailers, on_header_value run before PS_HEADERS_COMPLETE            *)
(* (request_parse.c:85-126, 192-212), and of a body more is only added.    *)
THEOREM HeadStableAlways == Spec => HeadStable
<1>1. RInv /\ Joining /\ [Next]_vars =>
        [q.parse_state = "PS_HEADERS_COMPLETE" =>
           /\ q'.method = q.method /\ q'.path = q.path /\ q'.query = q.query
           /\ q'.header # q.header => "F_TRAILING" \in parser.flags
           /\ IsPrefix(q.body, q'.body)]_vars
  <2> SUFFICES ASSUME RInv, Joining, Next, q.parse_state = "PS_HEADERS_COMPLETE"
               PROVE  /\ q'.method = q.method /\ q'.path = q.path /\ q'.query = q.query
                      /\ q'.header # q.header => "F_TRAILING" \in parser.flags
                      /\ IsPrefix(q.body, q'.body)
    OBVIOUS
  <2>1. CASE Parse
    BY <2>1, HeadStableParse
  <2>2. CASE q' = q
    <3>1. phase # "raised"
      BY DEF Next, Event, Read, Parse, EAGAIN, Dispatch
    <3>2. IsSequence(q.body)
      BY <3>1 DEF Joining
    <3>3. IsPrefix(q.body, q.body)
      BY <3>2, KeepsItself DEF Keeps, Extends
    <3> QED BY <2>2, <3>3
  <2>3. Parse \/ q' = q
    BY DEF Next, Event, Read, EAGAIN, Dispatch
  <2> QED BY <2>1, <2>2, <2>3
<1>2. Init => RInv /\ Joining
  BY RInvInit, JoiningInit
<1>3. RInv /\ Joining /\ [Next]_vars => (RInv /\ Joining)'
  BY RInvStep, JoiningStep
<1> QED BY <1>1, <1>2, <1>3, PTL DEF Spec, HeadStable

(* Every byte of a url, a name and a value is read once and in its place:  *)
(* what http_parser has marked when a piece of the message ends is given   *)
(* to the callbacks and goes on with the next piece (http_parser.c:612-632 *)
(* and 1817-1836), and the callbacks append (request_parse.c:85-126).      *)
THEOREM PiecesJoinAlways == Spec => PiecesJoin
<1>1. RInv /\ Joining /\ [Next]_vars =>
        [parser'.http_errno = "HPE_OK" =>
           /\ UrlSoFar' = With(UrlSoFar, TakesUrl)
           /\ parser.state \in NameStates \cup ValueStates =>
                \/ NameSoFar' = With(NameSoFar, TakesName)
                \/ NameSoFar' = <<>> /\ q.last_field # Qnil /\ q'.last_key = NameSoFar
           /\ parser.state \in ValueStates => ValueSoFar' = With(ValueSoFar, TakesValue)]_vars
  <2> SUFFICES ASSUME RInv, Joining, Next, parser'.http_errno = "HPE_OK"
               PROVE  /\ UrlSoFar' = With(UrlSoFar, TakesUrl)
                      /\ parser.state \in NameStates \cup ValueStates =>
                           \/ NameSoFar' = With(NameSoFar, TakesName)
                           \/ NameSoFar' = <<>> /\ q.last_field # Qnil /\ q'.last_key = NameSoFar
                      /\ parser.state \in ValueStates =>
                           ValueSoFar' = With(ValueSoFar, TakesValue)
    OBVIOUS
  <2>1. CASE Parse
    BY <2>1, UrlPieces, NamePieces, ValuePieces
  <2>2. ASSUME NEW k \in 1..Len(net), Read(k)
        PROVE  go = "out" /\ q' = q /\ \A f \in TextCalls : Held(f) = <<>> /\ Held(f)' = <<>>
    BY <2>2, BeginsEmpty DEF Read
  <2>3. CASE go = "out" /\ q' = q /\ \A f \in TextCalls : Held(f) = <<>> /\ Held(f)' = <<>>
    BY <2>3, QuietJoins
  <2> QED BY <2>1, <2>2, <2>3, RestsBetween DEF Next
<1>2. Init => RInv /\ Joining
  BY RInvInit, JoiningInit
<1>3. RInv /\ Joining /\ [Next]_vars => (RInv /\ Joining)'
  BY RInvStep, JoiningStep
<1> QED BY <1>1, <1>2, <1>3, PTL DEF Spec, PiecesJoin
=============================================================================
