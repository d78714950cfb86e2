-------------------------- MODULE HttpParserProofs --------------------------
(* No assert of http_parser_execute fails, whatever bytes come in whatever *)
(* pieces, and whichever callbacks fail.                                   *)
EXTENDS HttpParser, TLAPS

Fields == {"state", "method", "index", "header_state", "flags", "content_length",
           "nread", "upgrade", "http_errno"}
IsParser(r) == r = [f \in Fields |-> r[f]]
MarkedStates == {"s_chunk_data", "s_chunk_data_almost_done"}

(* What a parser knows in its state.                                       *)
WordsKnown(r) ==
  /\ r.state = "s_header_field" => r.header_state \in Starts(FieldWords) \cup {h_general}
  /\ r.state = "s_header_value" =>
       r.header_state \in Starts(ValueWords) \cup {h_general, h_content_length}
LengthKnown(r) ==
  /\ r.state \in {"s_body_identity", "s_chunk_data"} => r.content_length \notin {0, ULLONG_MAX}
  /\ r.state \in ChunkSizeStates \ {"s_chunk_size_start"} => r.content_length # ULLONG_MAX
  /\ r.state = "s_chunk_data_almost_done" => r.content_length = 0
ChunksFlagged(r) == r.state \in ChunkSizeStates \cup ChunkDataStates => "F_CHUNKED" \in r.flags
CountReset(r) == r.state = "s_chunk_size_start" => r.nread = 0

Typed(r) == IsParser(r) /\ r.content_length \in 0..ULLONG_MAX /\ r.nread \in Nat
Known(r) == WordsKnown(r) /\ LengthKnown(r) /\ ChunksFlagged(r) /\ CountReset(r)
Sound(r) == Typed(r) /\ (r.http_errno = "HPE_OK" => Known(r))

(* The states in which data of a callback may be marked.                   *)
Home == [header_field |-> {"s_header_field"}, header_value |-> {"s_header_value"},
         url |-> UrlStates, body |-> {"s_body_identity"} \cup MarkedStates]
Placed(r, marks) == \A f \in DOMAIN NoMarks : marks[f] # 0 => r.state \in Home[f]
MarkType == [{"header_field", "header_value", "url", "body"} -> Nat]

PInv ==
  /\ Sound(parser) /\ data \in Seq(STRING) /\ p \in 1..(Len(data) + 1)
  /\ mark \in MarkType /\ go \in {"out", "byte", "again"}
  /\ go # "out" => /\ parser.http_errno = "HPE_OK" /\ Placed(parser, mark)
                   /\ parser.state = "s_chunk_size_start" => go = "byte"

-----------------------------------------------------------------------------
LEMMA Failed ==
  ASSUME NEW r, NEW e, Typed(r), e # "HPE_OK"
  PROVE  /\ Sound(Fail(r, e)) /\ Fail(r, e).http_errno = e
         /\ Fail(r, e).state = r.state
BY DEF Typed, Sound, Fail, IsParser, Fields

LEMMA Returned ==
  ASSUME PInv, NEW r, Sound(r), Return(r)
  PROVE  PInv'
<1>1. <<>> \in Seq(STRING) /\ Len(<<>>) = 0 /\ NoMarks \in MarkType
  BY DEF NoMarks, MarkType
<1> QED BY <1>1 DEF Return, PInv

(* What keeps the invariant, when a byte changes the parser to r.          *)
LEMMA StepKeeps ==
  ASSUME PInv, NEW r, NEW marks, NEW callbacks, NEW next \in {"out", "byte", "again"}, NEW at,
         NEW fail, Step(r, marks, callbacks, next, at, fail),
         Sound(r),
         r.http_errno = "HPE_OK" /\ next # "out" =>
           /\ marks \in MarkType /\ Placed(r, marks) /\ at \in 1..(Len(data) + 1)
           /\ r.state = "s_chunk_size_start" => next = "byte"
  PROVE  PInv'
<1>1. CASE fail
  <2>1. Sound(Fail(r, "HPE_CB"))
    BY Failed DEF Sound
  <2> QED BY <1>1, <2>1, Returned DEF Step
<1>2. CASE ~fail /\ (r.http_errno # "HPE_OK" \/ next = "out")
  BY <1>2, Returned DEF Step
<1>3. CASE ~fail /\ r.http_errno = "HPE_OK" /\ next # "out"
  <2>1. parser' = r /\ mark' = marks /\ go' = next /\ p' = at /\ data' = data
    BY <1>3 DEF Step
  <2>2. Sound(parser)' /\ Placed(parser, mark)'
    BY <1>3, <2>1 DEF Sound, Placed, Typed, Known, IsParser, WordsKnown, LengthKnown, ChunksFlagged, CountReset
  <2> QED BY <1>3, <2>1, <2>2 DEF PInv
<1> QED BY <1>1, <1>2, <1>3

LEMMA CountedFields ==
  ASSUME Typed(parser)
  PROVE  /\ Typed(Counted) /\ Counted.state = parser.state
         /\ Counted.header_state = parser.header_state /\ Counted.flags = parser.flags
         /\ Counted.content_length = parser.content_length
         /\ Counted.http_errno = parser.http_errno
         /\ Counted.method = parser.method
BY DEF Counted, Typed, IsParser, Fields

(* What holds at a byte.                                                   *)
LEMMA AtByte ==
  ASSUME PInv, NEW S, At(S)
  PROVE  /\ parser.state \in S /\ go \in {"byte", "again"} /\ p \in 1..Len(data)
         /\ p + 1 \in 1..(Len(data) + 1) /\ Len(data) \in Nat
         /\ parser.http_errno = "HPE_OK" /\ Known(parser) /\ Typed(parser)
         /\ Typed(Counted) /\ Counted.state = parser.state
         /\ Counted.header_state = parser.header_state /\ Counted.flags = parser.flags
         /\ Counted.content_length = parser.content_length
         /\ Counted.http_errno = "HPE_OK" /\ Counted.method = parser.method
         /\ mark \in MarkType /\ Placed(parser, mark)
<1>1. /\ Typed(parser) /\ Known(parser) /\ parser.http_errno = "HPE_OK"
      /\ parser.state \in S /\ go \in {"byte", "again"}
      /\ mark \in MarkType /\ Placed(parser, mark)
  BY DEF PInv, At, Sound
<1>2. data \in Seq(STRING) /\ p \in 1..(Len(data) + 1) /\ p <= Len(data)
  BY DEF PInv, At
<1>3. Len(data) \in Nat /\ p \in 1..Len(data) /\ p + 1 \in 1..(Len(data) + 1)
  BY <1>2
<1> QED BY <1>1, <1>3, CountedFields

Plain == UrlStates \cup RequestLineStates \cup
  {"s_req_spaces_before_url", "s_header_field_start", "s_header_value_start",
   "s_header_almost_done", "s_header_value_lws", "s_headers_almost_done", "s_headers_done",
   "s_message_done", "s_dead"}

LEMMA PlainIsSound ==
  ASSUME NEW r, Typed(r), r.state \in Plain
  PROVE  Sound(r) /\ r.state # "s_chunk_size_start"
BY DEF Plain, UrlStates, RequestLineStates, Sound, Known, WordsKnown, LengthKnown,
       ChunksFlagged, CountReset, ChunkSizeStates, ChunkDataStates

Unmarking == (Plain \ UrlStates) \cup ChunkSizeStates \cup {"s_chunk_data_done"}
LEMMA NothingMarked ==
  ASSUME mark \in MarkType, Placed(parser, mark), parser.state \in Unmarking
  PROVE  (\A f \in DOMAIN NoMarks : mark[f] = 0) /\ \A r : Placed(r, mark)
<1>1. /\ "header_field" \in DOMAIN NoMarks /\ "header_value" \in DOMAIN NoMarks
      /\ "url" \in DOMAIN NoMarks /\ "body" \in DOMAIN NoMarks
      /\ DOMAIN NoMarks = {"header_field", "header_value", "url", "body"}
  BY DEF NoMarks
<1>2. \A f \in DOMAIN NoMarks : parser.state \notin Home[f]
  BY <1>1 DEF Unmarking, Plain, RequestLineStates, ChunkSizeStates, Home, MarkedStates, UrlStates
<1>3. \A f \in DOMAIN NoMarks : mark[f] = 0
  BY <1>2 DEF Placed
<1> QED BY <1>3 DEF Placed

LEMMA AloneMarked ==
  ASSUME mark \in MarkType, NEW f \in DOMAIN NoMarks,
         \A g \in DOMAIN NoMarks \ {f} : mark[g] = 0, p \in Nat
  PROVE  /\ MARK(f) \in MarkType /\ Clear(f) \in MarkType
         /\ \A r : Placed(r, Clear(f))
         /\ \A r : r.state \in Home[f] => Placed(r, MARK(f))
<1>1. DOMAIN NoMarks = {"header_field", "header_value", "url", "body"}
  BY DEF NoMarks
<1>2. \A g \in DOMAIN NoMarks : mark[g] \in Nat
  BY <1>1 DEF MarkType
<1>3. /\ MARK(f) \in MarkType /\ Clear(f) \in MarkType
  BY <1>1, <1>2 DEF MARK, Clear, MarkType
<1>4. \A g \in DOMAIN NoMarks : Clear(f)[g] = 0 /\ (g # f => MARK(f)[g] = 0)
  BY <1>1 DEF MARK, Clear, MarkType
<1> QED BY <1>3, <1>4 DEF Placed

-----------------------------------------------------------------------------
(* The request line                                                        *)

LEMMA RequestLineKeeps ==
  ASSUME PInv, RequestLine
  PROVE  PInv'
<1> DEFINE r == CASE parser.state = "s_start_req" -> StartReq(Counted, ch)
                  [] parser.state = "s_req_method" -> ReqMethod(Counted, ch)
                  [] OTHER -> Version(Counted, ch)
<1>1. At(RequestLineStates) /\ Step(r, mark, <<>>, "byte", p + 1, FALSE)
  BY DEF RequestLine, Byte
<1>2. Typed(r) /\ r.state \in Plain
  <2>0. Typed(Counted) /\ Counted.state \in RequestLineStates
    BY <1>1, AtByte
  <2>1. CASE parser.state = "s_start_req"
    <3>1. Typed(StartReq(Counted, ch)) /\ StartReq(Counted, ch).state \in Plain
      <4> DEFINE fresh == [Counted EXCEPT !.flags = {}, !.content_length = ULLONG_MAX]
      <4>1. Typed(fresh) /\ fresh.state = Counted.state /\ fresh.http_errno = Counted.http_errno
        <5>1. ULLONG_MAX \in 0..ULLONG_MAX
          BY WidthAssumption
        <5> QED BY <2>0, <5>1 DEF Typed, IsParser, Fields
      <4> HIDE DEF fresh
      <4>2. \A m : LET new == [fresh EXCEPT !.method = m, !.index = 1, !.state = "s_req_method"]
                   IN  Typed(new) /\ new.state = "s_req_method"
        BY <4>1 DEF Typed, IsParser, Fields
      <4>3. Typed(Fail(fresh, "HPE_INVALID_METHOD")) /\ Fail(fresh, "HPE_INVALID_METHOD").state = Counted.state
        BY <4>1, Failed DEF Sound
      <4>4. \/ StartReq(Counted, ch) = Counted
            \/ StartReq(Counted, ch) = Fail(fresh, "HPE_INVALID_METHOD")
            \/ \E m : StartReq(Counted, ch) =
                  [fresh EXCEPT !.method = m, !.index = 1, !.state = "s_req_method"]
        BY DEF StartReq, fresh
      <4>5. "s_start_req" \in Plain /\ "s_req_method" \in Plain /\ Counted.state \in Plain
        BY <2>0 DEF Plain, RequestLineStates
      <4>6. CASE \E m : StartReq(Counted, ch) =
                   [fresh EXCEPT !.method = m, !.index = 1, !.state = "s_req_method"]
        BY <4>2, <4>5, <4>6
      <4> QED BY <2>0, <4>3, <4>4, <4>5, <4>6
    <3> QED BY <2>1, <3>1
  <2>2. CASE parser.state = "s_req_method"
    <3>1. Typed(ReqMethod(Counted, ch)) /\ ReqMethod(Counted, ch).state \in Plain
      BY <2>0 DEF ReqMethod, Fail, Typed, IsParser, Fields, Plain, RequestLineStates
    <3> QED BY <2>2, <3>1
  <2>3. CASE parser.state \notin {"s_start_req", "s_req_method"}
    <3>1. Typed(Version(Counted, ch)) /\ Version(Counted, ch).state \in Plain
      BY <2>0 DEF Version, Fail, Typed, IsParser, Fields, Plain, RequestLineStates
    <3> QED BY <2>3, <3>1
  <2> QED BY <2>1, <2>2, <2>3
<1>3. Sound(r) /\ r.state # "s_chunk_size_start"
  BY <1>2, PlainIsSound
<1>4. mark \in MarkType /\ Placed(r, mark) /\ p + 1 \in 1..(Len(data) + 1)
  <2>1. parser.state \in Unmarking
    BY <1>1, AtByte DEF Unmarking, Plain, RequestLineStates, UrlStates
  <2> QED BY <1>1, <2>1, AtByte, NothingMarked
<1> HIDE DEF r
<1> QED BY <1>1, <1>3, <1>4, StepKeeps

LEMMA UrlTyped ==
  ASSUME NEW r, Typed(r), NEW c, r.http_errno = "HPE_OK",
         r.state \in UrlStates \cup {"s_req_spaces_before_url"}
  PROVE  /\ Typed(Url(r, c)) /\ Url(r, c).state \in Plain
         /\ Url(r, c).http_errno = "HPE_OK" => Url(r, c).state \in UrlStates
<1> DEFINE from == IF r.state = "s_req_spaces_before_url" /\ r.method = "CONNECT"
                   THEN "s_req_server_start" ELSE r.state
           to == parse_url_char(from, c)
<1>1. from \in UrlStates \cup {"s_req_spaces_before_url"}
  BY DEF UrlStates
<1>2. to \in UrlStates \cup {"s_dead"}
  <2> HIDE DEF from
  <2>1. CASE (c \in {SP, CR, LF}) \/ from \in {"s_req_schema", "s_req_schema_slash", "s_req_schema_slash_slash"}
    BY <1>1, <2>1 DEF parse_url_char, UrlStates
  <2>2. CASE ~(c \in {SP, CR, LF}) /\ from = "s_req_spaces_before_url"
    BY <1>1, <2>2 DEF parse_url_char, UrlStates
  <2>3. CASE ~(c \in {SP, CR, LF}) /\ from \in {"s_req_server_start", "s_req_server", "s_req_server_with_at"}
    BY <1>1, <2>3 DEF parse_url_char, UrlStates
  <2>4. CASE ~(c \in {SP, CR, LF}) /\ from = "s_req_path"
    BY <1>1, <2>4 DEF parse_url_char, UrlStates
  <2>5. CASE ~(c \in {SP, CR, LF}) /\ from \in {"s_req_query_string_start", "s_req_query_string",
                                "s_req_fragment_start", "s_req_fragment"}
    BY <1>1, <2>5 DEF parse_url_char, UrlStates
  <2> QED BY <1>1, <2>1, <2>2, <2>3, <2>4, <2>5 DEF UrlStates
<1> HIDE DEF to
<1>3. /\ Typed([r EXCEPT !.state = to]) /\ [r EXCEPT !.state = to].state = to
      /\ [r EXCEPT !.state = to].http_errno = "HPE_OK"
  BY DEF Typed, IsParser, Fields
<1>4. Url(r, c) = IF to = "s_dead" THEN Fail([r EXCEPT !.state = to], "HPE_INVALID_URL")
                  ELSE [r EXCEPT !.state = to]
  BY DEF Url, to
<1>5. to = "s_dead" => to \in Plain
  BY DEF Plain
<1>6. to \in UrlStates => to # "s_dead" /\ to \in Plain
  BY DEF Plain, UrlStates
<1> DEFINE there == [r EXCEPT !.state = to]
<1> HIDE DEF there
<1>7. CASE to = "s_dead"
  <2>1. Url(r, c) = Fail(there, "HPE_INVALID_URL")
    BY <1>4, <1>7 DEF there
  <2>3. Typed(there) /\ there.state = to
    BY <1>3 DEF there
  <2>2. Typed(Url(r, c)) /\ Url(r, c).http_errno = "HPE_INVALID_URL" /\ Url(r, c).state = to
    BY <2>1, <2>3, Failed DEF Sound
  <2> QED BY <1>5, <1>7, <2>2
<1>8. CASE to # "s_dead"
  BY <1>2, <1>3, <1>4, <1>6, <1>8
<1> QED BY <1>7, <1>8

LEMMA UrlStartKeeps ==
  ASSUME PInv, UrlStart
  PROVE  PInv'
<1>1. At({"s_req_spaces_before_url"})
  BY DEF UrlStart
<1>2. /\ parser.state = "s_req_spaces_before_url" /\ Typed(Counted) /\ mark \in MarkType
      /\ Counted.state = parser.state /\ Counted.http_errno = "HPE_OK"
      /\ p + 1 \in 1..(Len(data) + 1) /\ p \in Nat /\ Placed(parser, mark)
  BY <1>1, AtByte
<1>3. (\A f \in DOMAIN NoMarks : mark[f] = 0) /\ \A r : Placed(r, mark)
  BY <1>2, NothingMarked DEF Unmarking, Plain, UrlStates
<1>4. CASE ch = SP
  <2>1. Step(Counted, mark, <<>>, "byte", p + 1, FALSE)
    BY <1>4 DEF UrlStart, Byte
  <2>2. Sound(Counted)
    BY <1>2, PlainIsSound DEF Plain
  <2> QED BY <1>2, <1>3, <2>1, <2>2, StepKeeps
<1>5. CASE ch # SP
  <2> DEFINE r == Url(Counted, ch)
  <2>1. Step(r, MARK("url"), <<>>, "byte", p + 1, FALSE)
    BY <1>5 DEF UrlStart
  <2>2. Typed(r) /\ r.state \in Plain /\ (r.http_errno = "HPE_OK" => r.state \in UrlStates)
    BY <1>2, UrlTyped
  <2>3. Sound(r) /\ r.state # "s_chunk_size_start"
    BY <2>2, PlainIsSound
  <2>4. "url" \in DOMAIN NoMarks /\ Home["url"] = UrlStates
    BY DEF NoMarks, Home
  <2>5. MARK("url") \in MarkType /\ \A x : x.state \in UrlStates => Placed(x, MARK("url"))
    BY <1>2, <1>3, <2>4, AloneMarked
  <2> HIDE DEF r
  <2> QED BY <1>2, <2>1, <2>2, <2>3, <2>5, StepKeeps
<1> QED BY <1>4, <1>5

(* Of the marks, only that of a state may be set.                          *)
LEMMA OnlyMark ==
  ASSUME PInv, NEW S, At(S), NEW f \in DOMAIN NoMarks, S \subseteq Home[f]
  PROVE  /\ MARK(f) \in MarkType /\ Clear(f) \in MarkType
         /\ \A r : Placed(r, Clear(f))
         /\ \A r : r.state \in Home[f] => Placed(r, MARK(f)) /\ Placed(r, mark)
<1>1. parser.state \in Home[f] /\ p \in Nat /\ mark \in MarkType /\ Placed(parser, mark)
  BY AtByte
<1>2. DOMAIN NoMarks = {"header_field", "header_value", "url", "body"}
  BY DEF NoMarks
<1>3. \A g \in DOMAIN NoMarks \ {f} : Home[f] \cap Home[g] = {}
  BY <1>2 DEF Home, UrlStates, MarkedStates
<1>4. \A g \in DOMAIN NoMarks \ {f} : mark[g] = 0
  BY <1>1, <1>3 DEF Placed
<1>5. \A r : r.state \in Home[f] => Placed(r, mark)
  BY <1>4 DEF Placed
<1> QED BY <1>1, <1>4, <1>5, AloneMarked

LEMMA Moved ==
  ASSUME NEW r, Typed(r), NEW s
  PROVE  LET there == [r EXCEPT !.state = s]
         IN  /\ Typed(there) /\ there.state = s /\ there.http_errno = r.http_errno
             /\ there.header_state = r.header_state /\ there.flags = r.flags
             /\ there.content_length = r.content_length /\ there.nread = r.nread
BY DEF Typed, IsParser, Fields

LEMMA UrlByteKeeps ==
  ASSUME PInv, NEW fail \in BOOLEAN, UrlByte(fail)
  PROVE  PInv'
<1>1. At(UrlStates) /\ "url" \in DOMAIN NoMarks /\ Home["url"] = UrlStates
  BY DEF UrlByte, NoMarks, Home
<1>2. /\ parser.state \in UrlStates /\ Typed(Counted) /\ mark \in MarkType
      /\ Counted.state = parser.state /\ Counted.http_errno = "HPE_OK"
      /\ p + 1 \in 1..(Len(data) + 1)
  BY <1>1, AtByte
<1>3. /\ Clear("url") \in MarkType /\ \A r : Placed(r, Clear("url"))
      /\ \A r : r.state \in UrlStates => Placed(r, mark)
  BY <1>1, OnlyMark
<1> DEFINE ends == ch \in {SP, CR, LF} /\ parser.state \notin {"s_req_schema", "s_req_schema_slash",
                     "s_req_schema_slash_slash", "s_req_server_start"}
<1>4. CASE ends
  <2> DEFINE s == CASE ch = SP -> "s_req_http_start" [] ch = CR -> "s_req_line_almost_done"
                    [] ch = LF -> "s_header_field_start"
             r == [Counted EXCEPT !.state = s]
  <2>1. Step(r, Clear("url"), CALLBACK_DATA(mark, "url", p), "byte", p + 1, fail)
    BY <1>4 DEF UrlByte
  <2>2. s \in Plain
    BY <1>4 DEF Plain, RequestLineStates
  <2>3. Typed(r) /\ r.state \in Plain
    <3> HIDE DEF s
    <3> QED BY <1>2, <2>2, Moved
  <2>4. Sound(r) /\ r.state # "s_chunk_size_start"
    BY <2>3, PlainIsSound
  <2> HIDE DEF r
  <2> QED BY <1>2, <1>3, <2>1, <2>4, StepKeeps
<1>5. CASE ~ends
  <2> DEFINE r == Url(Counted, ch)
  <2>1. Step(r, mark, <<>>, "byte", p + 1, FALSE)
    BY <1>5 DEF UrlByte, Byte
  <2>2. Typed(r) /\ r.state \in Plain /\ (r.http_errno = "HPE_OK" => r.state \in UrlStates)
    BY <1>2, UrlTyped
  <2>3. Sound(r) /\ r.state # "s_chunk_size_start"
    BY <2>2, PlainIsSound
  <2> HIDE DEF r
  <2> QED BY <1>2, <1>3, <2>1, <2>2, <2>3, StepKeeps
<1> QED BY <1>4, <1>5

-----------------------------------------------------------------------------
(* Headers                                                                 *)

LEMMA Matched ==
  ASSUME NEW h, NEW c, NEW words, NEW Extra, h \in Starts(words) \cup Extra
  PROVE  Match(h, c, words) \in Starts(words) \cup Extra \cup {h_general}
BY DEF Match

LEMMA HeaderFieldStartKeeps ==
  ASSUME PInv, HeaderFieldStart
  PROVE  PInv'
<1>1. At({"s_header_field_start"})
  BY DEF HeaderFieldStart
<1>2. /\ parser.state = "s_header_field_start" /\ Typed(Counted) /\ mark \in MarkType
      /\ Counted.state = parser.state /\ Counted.http_errno = "HPE_OK" /\ Placed(parser, mark)
      /\ p + 1 \in 1..(Len(data) + 1) /\ p \in 1..(Len(data) + 1) /\ p \in Nat
  BY <1>1, AtByte
<1>3. (\A f \in DOMAIN NoMarks : mark[f] = 0) /\ \A r : Placed(r, mark)
  BY <1>2, NothingMarked DEF Unmarking, Plain, UrlStates
<1>4. CASE ch \in {CR, LF}
  <2> DEFINE r == [Counted EXCEPT !.state = "s_headers_almost_done"]
  <2>1. PICK next \in {"byte", "again"}, at \in {p, p + 1} : Step(r, mark, <<>>, next, at, FALSE)
    BY <1>4 DEF HeaderFieldStart, Byte, CR, LF
  <2>2. Typed(r) /\ r.state \in Plain
    BY <1>2, Moved, SMTT(30) DEF Plain
  <2>3. Sound(r) /\ r.state # "s_chunk_size_start"
    BY <2>2, PlainIsSound
  <2> HIDE DEF r
  <2> QED BY <1>2, <1>3, <2>1, <2>3, StepKeeps
<1>5. CASE ch \notin {CR, LF}
  <2> DEFINE r == FieldStart(Counted, ch)
  <2>1. Step(r, MARK("header_field"), <<>>, "byte", p + 1, FALSE)
    BY <1>5 DEF HeaderFieldStart
  <2>2. CASE TOKEN(ch)
    <3> DEFINE h == IF <<LOWER(ch)>> \in Starts(FieldWords) THEN <<LOWER(ch)>> ELSE h_general
    <3>1. h \in Starts(FieldWords) \cup {h_general}
      OBVIOUS
    <3>2. r = [Counted EXCEPT !.state = "s_header_field", !.index = 0, !.header_state = h]
      BY <2>2 DEF FieldStart
    <3> HIDE DEF h, r
    <3>3. Typed(r) /\ r.state = "s_header_field" /\ r.header_state = h
      BY <1>2, <3>2 DEF Typed, IsParser, Fields
    <3>4. Sound(r)
      BY <3>1, <3>3 DEF Sound, Known, WordsKnown, LengthKnown, ChunksFlagged, CountReset,
                        ChunkSizeStates, ChunkDataStates
    <3>5. "header_field" \in DOMAIN NoMarks /\ r.state \in Home["header_field"]
      BY <3>3 DEF NoMarks, Home
    <3>6. MARK("header_field") \in MarkType /\ Placed(r, MARK("header_field"))
      BY <1>2, <1>3, <3>5, AloneMarked
    <3> QED BY <1>2, <2>1, <3>3, <3>4, <3>6, StepKeeps
  <2>3. CASE ~TOKEN(ch)
    <3>1. Sound(r) /\ r.http_errno # "HPE_OK"
      BY <1>2, <2>3, Failed DEF FieldStart
    <3> HIDE DEF r
    <3> QED BY <2>1, <3>1, StepKeeps
  <2> QED BY <2>2, <2>3
<1> QED BY <1>4, <1>5

LEMMA HeaderFieldKeeps ==
  ASSUME PInv, NEW fail \in BOOLEAN, HeaderField(fail)
  PROVE  PInv'
<1>1. At({"s_header_field"}) /\ "header_field" \in DOMAIN NoMarks
      /\ Home["header_field"] = {"s_header_field"}
  BY DEF HeaderField, NoMarks, Home
<1>2. /\ parser.state = "s_header_field" /\ Typed(Counted) /\ Known(parser)
      /\ Counted.state = parser.state /\ Counted.header_state = parser.header_state
      /\ p + 1 \in 1..(Len(data) + 1) /\ mark \in MarkType
  BY <1>1, AtByte
<1>3. /\ Clear("header_field") \in MarkType /\ \A r : Placed(r, Clear("header_field"))
      /\ \A r : r.state = "s_header_field" => Placed(r, mark)
  BY <1>1, OnlyMark
<1>4. CASE ch \in {":", CR, LF}
  <2> DEFINE s == CASE ch = ":" -> "s_header_value_start" [] ch = CR -> "s_header_almost_done"
                    [] ch = LF -> "s_header_field_start"
             r == [Counted EXCEPT !.state = s]
  <2>1. Step(r, Clear("header_field"), CALLBACK_DATA(mark, "header_field", p), "byte", p + 1, fail)
    BY <1>4 DEF HeaderField
  <2>2. s \in Plain
    BY <1>4 DEF Plain
  <2>3. Typed(r) /\ r.state \in Plain
    <3> HIDE DEF s
    <3>1. Typed(Counted)
      BY <1>2
    <3>2. Typed(r) /\ r.state = s
      BY <3>1, Moved
    <3> QED BY <2>2, <3>2
  <2>4. Sound(r) /\ r.state # "s_chunk_size_start"
    BY <2>3, PlainIsSound
  <2> HIDE DEF r
  <2> QED BY <1>2, <1>3, <2>1, <2>4, StepKeeps
<1>5. CASE ch \notin {":", CR, LF}
  <2> DEFINE r == Field(Counted, ch)
  <2>1. Step(r, mark, <<>>, "byte", p + 1, FALSE)
    BY <1>5 DEF HeaderField, Byte
  <2>2. CASE TOKEN(ch)
    <3> DEFINE h == Match(Counted.header_state, LOWER(ch), FieldWords)
    <3>1. h \in Starts(FieldWords) \cup {h_general}
      <4>1. Counted.header_state \in Starts(FieldWords) \cup {h_general}
        BY <1>2 DEF Known, WordsKnown
      <4> QED BY <4>1, Matched
    <3>2. r = [Counted EXCEPT !.header_state = h]
      BY <2>2 DEF Field
    <3> HIDE DEF h, r
    <3>3. Typed(r) /\ r.state = "s_header_field" /\ r.header_state = h
      BY <1>2, <3>2 DEF Typed, IsParser, Fields
    <3>4. Sound(r)
      BY <3>1, <3>3 DEF Sound, Known, WordsKnown, LengthKnown, ChunksFlagged, CountReset,
                        ChunkSizeStates, ChunkDataStates
    <3> QED BY <1>2, <1>3, <2>1, <3>3, <3>4, StepKeeps
  <2>3. CASE ~TOKEN(ch)
    <3>1. Sound(r) /\ r.http_errno # "HPE_OK"
      BY <1>2, <2>3, Failed DEF Field
    <3> HIDE DEF r
    <3> QED BY <2>1, <3>1, StepKeeps
  <2> QED BY <2>2, <2>3
<1> QED BY <1>4, <1>5

LEMMA ValueWord ==
  /\ h_transfer_encoding \notin Starts(ValueWords) \cup {h_general, h_content_length}
  /\ h_general \notin Starts(ValueWords) /\ h_content_length # h_general
<1>1. Starts(ValueWords) = {<<"chunk">>, <<"chunk", "ed">>}
  BY DEF Starts, ValueWords, h_transfer_encoding_chunked
<1> QED BY <1>1 DEF h_transfer_encoding, h_general, h_content_length

LEMMA Numeral ==
  ASSUME NEW c, IS_HEX(c)
  PROVE  Unhex(c) \in 0..15
BY DEF Unhex, IS_HEX

LEMMA Numerals ==
  ASSUME NEW c, IS_NUM(c)
  PROVE  Unhex(c) \in 0..15
<1>1. IS_HEX(c)
  BY DEF IS_NUM, IS_HEX
<1> QED BY <1>1, Numeral

LEMMA DigitSound ==
  ASSUME NEW r, Typed(r), r.http_errno = "HPE_OK", NEW base \in Nat, NEW n \in Nat
  PROVE  LET next == Digit(r, base, n)
         IN  /\ Typed(next) /\ next.state = r.state /\ next.header_state = r.header_state
             /\ next.flags = r.flags
             /\ next.http_errno = "HPE_OK" => next.content_length # ULLONG_MAX
<1> DEFINE t == (r.content_length * base + n) % (ULLONG_MAX + 1)
<1>1. t \in 0..ULLONG_MAX
  <2> DEFINE x == r.content_length * base + n
             w == ULLONG_MAX + 1
  <2>1. x \in Nat /\ w \in Nat /\ w > 0
    BY WidthAssumption DEF Typed
  <2> HIDE DEF x, w
  <2>2. x % w \in 0..(w - 1)
    BY <2>1
  <2> QED BY <2>2, WidthAssumption DEF x, w
<1> HIDE DEF t
<1>2. Digit(r, base, n) = IF t < r.content_length \/ t = ULLONG_MAX
                          THEN Fail(r, "HPE_INVALID_CONTENT_LENGTH")
                          ELSE [r EXCEPT !.content_length = t]
  BY DEF Digit, t
<1>3. /\ Typed([r EXCEPT !.content_length = t]) /\ [r EXCEPT !.content_length = t].state = r.state
      /\ [r EXCEPT !.content_length = t].header_state = r.header_state
      /\ [r EXCEPT !.content_length = t].flags = r.flags
      /\ [r EXCEPT !.content_length = t].content_length = t
  BY <1>1 DEF Typed, IsParser, Fields
<1>4. LET bad == Fail(r, "HPE_INVALID_CONTENT_LENGTH")
      IN  /\ Typed(bad) /\ bad.state = r.state /\ bad.header_state = r.header_state
          /\ bad.flags = r.flags /\ bad.http_errno # "HPE_OK"
  BY DEF Fail, Typed, IsParser, Fields
<1> QED BY <1>2, <1>3, <1>4

LEMMA InValue ==
  ASSUME NEW r, Typed(r), r.state = "s_header_value",
         r.http_errno = "HPE_OK" =>
           r.header_state \in Starts(ValueWords) \cup {h_general, h_content_length}
  PROVE  Sound(r)
BY DEF Sound, Known, WordsKnown, LengthKnown, ChunksFlagged, CountReset,
       ChunkSizeStates, ChunkDataStates

LEMMA ValueStartSound ==
  ASSUME NEW r, Typed(r), r.http_errno = "HPE_OK", NEW c
  PROVE  Sound(ValueStart(r, c)) /\ ValueStart(r, c).state = "s_header_value"
<1> DEFINE value == [r EXCEPT !.state = "s_header_value", !.index = 0]
<1>1. Typed(value) /\ value.state = "s_header_value" /\ value.http_errno = "HPE_OK"
      /\ value.header_state = r.header_state
  BY DEF Typed, IsParser, Fields
<1> HIDE DEF value
<1>2. CASE r.header_state = h_upgrade
  <2>1. ValueStart(r, c) = [value EXCEPT !.flags = @ \cup {"F_UPGRADE"}, !.header_state = h_general]
    BY <1>2 DEF ValueStart, value, h_upgrade, h_content_length, h_transfer_encoding
  <2> DEFINE new == [value EXCEPT !.flags = @ \cup {"F_UPGRADE"}, !.header_state = h_general]
  <2>2. Typed(new) /\ new.state = "s_header_value" /\ new.header_state = h_general
    BY <1>1 DEF Typed, IsParser, Fields
  <2> QED BY <2>1, <2>2, InValue
<1>3. CASE r.header_state = h_transfer_encoding
  <2> DEFINE h == IF <<LOWER(c)>> \in Starts(ValueWords) THEN <<LOWER(c)>> ELSE h_general
             new == [value EXCEPT !.header_state = h]
  <2>1. ValueStart(r, c) = new
    BY <1>3 DEF ValueStart, value, h_upgrade, h_content_length, h_transfer_encoding
  <2>2. h \in Starts(ValueWords) \cup {h_general, h_content_length}
    OBVIOUS
  <2> HIDE DEF h
  <2>3. Typed(new) /\ new.state = "s_header_value" /\ new.header_state = h
    BY <1>1 DEF Typed, IsParser, Fields
  <2> QED BY <2>1, <2>2, <2>3, InValue
<1>4. CASE r.header_state = h_content_length
  <2>1. ValueStart(r, c) = IF IS_NUM(c) THEN [value EXCEPT !.content_length = Unhex(c)]
                           ELSE Fail(value, "HPE_INVALID_CONTENT_LENGTH")
    BY <1>4 DEF ValueStart, value, h_upgrade, h_content_length, h_transfer_encoding
  <2>2. CASE IS_NUM(c)
    <3> DEFINE n == Unhex(c)
               new == [value EXCEPT !.content_length = n]
    <3>1. n \in 0..ULLONG_MAX
      BY <2>2, Numerals, WidthAssumption
    <3> HIDE DEF n
    <3>2. Typed(new) /\ new.state = "s_header_value" /\ new.header_state = h_content_length
      BY <1>1, <1>4, <3>1 DEF Typed, IsParser, Fields
    <3> QED BY <2>1, <2>2, <3>2, InValue DEF n
  <2>3. CASE ~IS_NUM(c)
    BY <1>1, <2>1, <2>3, Failed DEF Sound
  <2> QED BY <2>2, <2>3
<1>5. CASE r.header_state \notin {h_upgrade, h_transfer_encoding, h_content_length}
  <2> DEFINE new == [value EXCEPT !.header_state = h_general]
  <2>1. ValueStart(r, c) = new
    BY <1>5 DEF ValueStart, value
  <2>2. Typed(new) /\ new.state = "s_header_value" /\ new.header_state = h_general
    BY <1>1 DEF Typed, IsParser, Fields
  <2> QED BY <2>1, <2>2, InValue
<1> QED BY <1>2, <1>3, <1>4, <1>5

LEMMA ValueSound ==
  ASSUME NEW r, Typed(r), r.http_errno = "HPE_OK", r.state = "s_header_value",
         r.header_state \in Starts(ValueWords) \cup {h_general, h_content_length}, NEW c
  PROVE  Sound(Value(r, c)) /\ Value(r, c).state = "s_header_value"
<1>1. CASE r.header_state # h_content_length
  <2> DEFINE h == Match(r.header_state, LOWER(c), ValueWords)
             new == [r EXCEPT !.header_state = h]
  <2>1. Value(r, c) = new
    BY <1>1 DEF Value
  <2>2. h \in Starts(ValueWords) \cup {h_general, h_content_length}
    <3>1. r.header_state \in Starts(ValueWords) \cup {h_general}
      BY <1>1
    <3> QED BY <3>1, Matched
  <2> HIDE DEF h
  <2>3. Typed(new) /\ new.state = "s_header_value" /\ new.header_state = h
    BY DEF Typed, IsParser, Fields
  <2> QED BY <2>1, <2>2, <2>3, InValue
<1>2. CASE r.header_state = h_content_length /\ c = SP
  BY <1>2, InValue DEF Value
<1>3. CASE r.header_state = h_content_length /\ c # SP /\ IS_NUM(c)
  <2>1. Unhex(c) \in Nat /\ 10 \in Nat
    BY <1>3, Numerals
  <2>2. Value(r, c) = Digit(r, 10, Unhex(c))
    BY <1>3 DEF Value
  <2>3. /\ Typed(Value(r, c)) /\ Value(r, c).state = "s_header_value"
        /\ Value(r, c).header_state = h_content_length
    BY <1>3, <2>1, <2>2, DigitSound
  <2> QED BY <2>3, InValue
<1>4. CASE r.header_state = h_content_length /\ c # SP /\ ~IS_NUM(c)
  BY <1>4, Failed DEF Value
<1> QED BY <1>1, <1>2, <1>3, <1>4

LEMMA HeaderValueStartKeeps ==
  ASSUME PInv, NEW fail \in BOOLEAN, HeaderValueStart(fail)
  PROVE  PInv'
<1>1. At({"s_header_value_start"}) /\ "header_value" \in DOMAIN NoMarks
      /\ Home["header_value"] = {"s_header_value"}
  BY DEF HeaderValueStart, NoMarks, Home
<1>2. /\ parser.state = "s_header_value_start" /\ Typed(Counted) /\ mark \in MarkType
      /\ Counted.state = parser.state /\ Counted.http_errno = "HPE_OK" /\ Placed(parser, mark)
      /\ p + 1 \in 1..(Len(data) + 1) /\ p \in Nat
  BY <1>1, AtByte
<1>3. (\A f \in DOMAIN NoMarks : mark[f] = 0) /\ \A r : Placed(r, mark)
  BY <1>2, NothingMarked DEF Unmarking, Plain, UrlStates
<1>4. /\ MARK("header_value") \in MarkType /\ Clear("header_value") \in MarkType
      /\ \A r : Placed(r, Clear("header_value"))
      /\ \A r : r.state = "s_header_value" => Placed(r, MARK("header_value"))
  BY <1>1, <1>2, <1>3, AloneMarked
<1>5. CASE ch \in {SP, "TAB"}
  <2>1. Step(Counted, mark, <<>>, "byte", p + 1, FALSE)
    BY <1>5 DEF HeaderValueStart, Byte, SP, CR, LF
  <2>2. Sound(Counted)
    BY <1>2, PlainIsSound DEF Plain
  <2> QED BY <1>2, <1>3, <2>1, <2>2, StepKeeps
<1>6. CASE ch \in {CR, LF}
  <2> DEFINE h == IF ch = CR THEN h_general ELSE Counted.header_state
             s == IF ch = CR THEN "s_header_almost_done" ELSE "s_header_field_start"
             r == [Counted EXCEPT !.index = 0, !.header_state = h, !.state = s]
  <2>1. Step(r, Clear("header_value"), CALLBACK_DATA(MARK("header_value"), "header_value", p),
             "byte", p + 1, fail)
    BY <1>6 DEF HeaderValueStart, SP, CR, LF
  <2>2. s \in Plain
    BY DEF Plain
  <2> HIDE DEF s, h
  <2>3. Typed(r) /\ r.state = s
    BY <1>2 DEF Typed, IsParser, Fields
  <2>4. Sound(r) /\ r.state # "s_chunk_size_start"
    BY <2>2, <2>3, PlainIsSound
  <2> HIDE DEF r
  <2> QED BY <1>2, <1>4, <2>1, <2>4, StepKeeps
<1>7. CASE ch \notin {SP, "TAB", CR, LF}
  <2> DEFINE r == ValueStart(Counted, ch)
  <2>1. Step(r, MARK("header_value"), <<>>, "byte", p + 1, FALSE)
    BY <1>7 DEF HeaderValueStart
  <2>2. Sound(r) /\ r.state = "s_header_value"
    BY <1>2, ValueStartSound
  <2> HIDE DEF r
  <2> QED BY <1>2, <1>4, <2>1, <2>2, StepKeeps
<1> QED BY <1>5, <1>6, <1>7

LEMMA HeaderValueKeeps ==
  ASSUME PInv, NEW fail \in BOOLEAN, HeaderValue(fail)
  PROVE  PInv'
<1>1. At({"s_header_value"}) /\ "header_value" \in DOMAIN NoMarks
      /\ Home["header_value"] = {"s_header_value"}
  BY DEF HeaderValue, NoMarks, Home
<1>2. /\ parser.state = "s_header_value" /\ Typed(Counted) /\ Known(parser)
      /\ Counted.state = parser.state /\ Counted.header_state = parser.header_state
      /\ Counted.http_errno = "HPE_OK" /\ mark \in MarkType
      /\ p + 1 \in 1..(Len(data) + 1) /\ p \in 1..(Len(data) + 1)
  BY <1>1, AtByte
<1>3. /\ Clear("header_value") \in MarkType /\ \A r : Placed(r, Clear("header_value"))
      /\ \A r : r.state = "s_header_value" => Placed(r, mark)
  BY <1>1, OnlyMark
<1>4. CASE ch \in {CR, LF}
  <2> DEFINE r == [Counted EXCEPT !.state = "s_header_almost_done"]
  <2>1. PICK next \in {"byte", "again"}, at \in {p, p + 1} :
          Step(r, Clear("header_value"), CALLBACK_DATA(mark, "header_value", p), next, at, fail)
    BY <1>4 DEF HeaderValue
  <2>2. Typed(r) /\ r.state \in Plain
    BY <1>2, Moved, SMTT(30) DEF Plain
  <2>3. Sound(r) /\ r.state # "s_chunk_size_start"
    BY <2>2, PlainIsSound
  <2> HIDE DEF r
  <2> QED BY <1>2, <1>3, <2>1, <2>3, StepKeeps
<1>5. CASE ch \notin {CR, LF}
  <2> DEFINE r == Value(Counted, ch)
  <2>1. Step(r, mark, <<>>, "byte", p + 1, FALSE)
    BY <1>5 DEF HeaderValue, Byte
  <2>2. Sound(r) /\ r.state = "s_header_value"
    BY <1>2, ValueSound DEF Known, WordsKnown
  <2> HIDE DEF r
  <2> QED BY <1>2, <1>3, <2>1, <2>2, StepKeeps
<1> QED BY <1>4, <1>5

LEMMA HeaderEndKeeps ==
  ASSUME PInv, HeaderEnd
  PROVE  PInv'
<1>0. At({"s_header_almost_done"}) \/ At({"s_header_value_lws"})
  BY DEF HeaderEnd
<1>2. /\ parser.state \in {"s_header_almost_done", "s_header_value_lws"}
      /\ Typed(Counted) /\ mark \in MarkType /\ Placed(parser, mark)
      /\ p + 1 \in 1..(Len(data) + 1) /\ p \in 1..(Len(data) + 1)
  BY <1>0, AtByte
<1>3. \A r : Placed(r, mark)
  BY <1>2, NothingMarked DEF Unmarking, Plain, UrlStates
<1>4. ASSUME NEW r, Typed(r), r.state \in Plain,
             NEW next \in {"byte", "again"}, NEW at \in {p, p + 1},
             Step(r, mark, <<>>, next, at, FALSE)
      PROVE  PInv'
  <2>1. Sound(r) /\ r.state # "s_chunk_size_start"
    BY <1>4, PlainIsSound
  <2> QED BY <1>2, <1>3, <1>4, <2>1, StepKeeps
<1>5. CASE At({"s_header_almost_done"}) /\ Byte(HeaderAlmostDone(Counted))
  <2> DEFINE new == [Counted EXCEPT !.state = "s_header_value_lws",
                       !.flags = IF Counted.header_state = h_transfer_encoding_chunked
                                 THEN @ \cup {"F_CHUNKED"} ELSE @]
  <2>1. HeaderAlmostDone(Counted) = new
    BY DEF HeaderAlmostDone
  <2>2. Typed(new) /\ new.state \in Plain
    BY <1>2 DEF Typed, IsParser, Fields, Plain
  <2>3. Step(new, mark, <<>>, "byte", p + 1, FALSE)
    BY <1>5, <2>1 DEF Byte
  <2> HIDE DEF new
  <2> QED BY <1>4, <2>2, <2>3
<1>6. CASE At({"s_header_value_lws"})
  <2>1. \A s \in {"s_header_value_start", "s_header_field_start"} :
          Typed([Counted EXCEPT !.state = s]) /\ [Counted EXCEPT !.state = s].state \in Plain
    BY <1>2, Moved, ZenonT(30) DEF Plain
  <2>2. CASE ch \in {SP, "TAB"} /\ Byte([Counted EXCEPT !.state = "s_header_value_start"])
    BY <1>4, <2>1, <2>2 DEF Byte
  <2>3. CASE Step([Counted EXCEPT !.state = "s_header_field_start"], mark, <<>>, "again", p, FALSE)
    BY <1>4, <2>1, <2>3
  <2>4. parser.state = "s_header_value_lws"
    BY <1>6, AtByte
  <2>5. ~At({"s_header_almost_done"})
    BY <2>4 DEF At
  <2> QED BY <1>6, <2>2, <2>3, <2>5 DEF HeaderEnd
<1> QED BY <1>5, <1>6 DEF HeaderEnd

-----------------------------------------------------------------------------
(* The end of the headers                                                  *)

LEMMA HeadersAlmostDoneKeeps ==
  ASSUME PInv, NEW fail \in BOOLEAN, HeadersAlmostDone(fail)
  PROVE  PInv'
<1>1. At({"s_headers_almost_done"})
  BY DEF HeadersAlmostDone
<1>2. /\ parser.state = "s_headers_almost_done" /\ Typed(Counted)
      /\ mark \in MarkType /\ Placed(parser, mark)
      /\ p + 1 \in 1..(Len(data) + 1) /\ p \in 1..(Len(data) + 1)
  BY <1>1, AtByte
<1>3. \A r : Placed(r, mark)
  BY <1>2, NothingMarked DEF Unmarking, Plain, UrlStates
<1>4. ASSUME NEW r, Typed(r), r.state \in {"s_start_req", "s_headers_done"}, NEW callbacks,
             NEW next \in {"byte", "again"}, NEW at \in {p, p + 1},
             Step(r, mark, callbacks, next, at, fail)
      PROVE  PInv'
  <2>1. Sound(r) /\ r.state # "s_chunk_size_start"
    BY <1>4, PlainIsSound DEF Plain, RequestLineStates
  <2> QED BY <1>2, <1>3, <1>4, <2>1, StepKeeps
<1>5. CASE "F_TRAILING" \in parser.flags
  <2> DEFINE r == [Counted EXCEPT !.state = "s_start_req"]
  <2>1. Step(r, mark, CALLBACK_NOTIFY("message_complete"), "byte", p + 1, fail)
    BY <1>5 DEF HeadersAlmostDone
  <2>2. Typed(r) /\ r.state = "s_start_req"
    BY <1>2, Moved
  <2> HIDE DEF r
  <2> QED BY <1>4, <2>1, <2>2
<1>6. CASE "F_TRAILING" \notin parser.flags
  <2> DEFINE u == "F_UPGRADE" \in parser.flags \/ parser.method = "CONNECT"
             r == [Counted EXCEPT !.state = "s_headers_done", !.upgrade = u]
  <2>1. Step(r, mark, CALLBACK_NOTIFY("headers_complete"), "again", p, fail)
    BY <1>6 DEF HeadersAlmostDone
  <2> HIDE DEF u
  <2>2. Typed(r) /\ r.state = "s_headers_done"
    BY <1>2 DEF Typed, IsParser, Fields
  <2> HIDE DEF r
  <2> QED BY <1>4, <2>1, <2>2
<1> QED BY <1>5, <1>6

LEMMA HeadersDoneKeeps ==
  ASSUME PInv, NEW fail \in BOOLEAN, HeadersDone(fail)
  PROVE  PInv'
<1>1. At({"s_headers_done"})
  BY DEF HeadersDone
<1>2. /\ parser.state = "s_headers_done" /\ Typed(Counted) /\ Counted.flags = parser.flags
      /\ Counted.content_length = parser.content_length
      /\ mark \in MarkType /\ Placed(parser, mark)
      /\ p + 1 \in 1..(Len(data) + 1)
  BY <1>1, AtByte
<1>3. \A r : Placed(r, mark)
  BY <1>2, NothingMarked DEF Unmarking, Plain, UrlStates
<1> DEFINE reset == [Counted EXCEPT !.nread = 0]
<1>4. /\ Typed(reset) /\ reset.nread = 0 /\ reset.flags = parser.flags
      /\ reset.content_length = parser.content_length
  BY <1>2 DEF Typed, IsParser, Fields
<1> HIDE DEF reset
<1>5. CASE parser.upgrade \/ ("F_CHUNKED" \notin parser.flags
                               /\ parser.content_length \in {0, ULLONG_MAX})
  <2> DEFINE r == [reset EXCEPT !.state = "s_start_req"]
  <2>1. PICK next, callbacks : /\ next \in {"byte", "out"}
                               /\ Step(r, mark, callbacks, next, p + 1, fail)
    BY <1>5 DEF HeadersDone, reset
  <2>2. Typed(r) /\ r.state = "s_start_req"
    BY <1>4, Moved
  <2>3. Sound(r)
    BY <2>2, PlainIsSound DEF Plain, RequestLineStates
  <2> HIDE DEF r
  <2> QED BY <1>2, <1>3, <2>1, <2>2, <2>3, StepKeeps
<1>6. CASE ~parser.upgrade /\ "F_CHUNKED" \in parser.flags
  <2> DEFINE r == [reset EXCEPT !.state = "s_chunk_size_start"]
  <2>1. Step(r, mark, <<>>, "byte", p + 1, FALSE)
    BY <1>6 DEF HeadersDone, Byte, reset
  <2>2. Typed(r) /\ r.state = "s_chunk_size_start" /\ r.nread = 0 /\ r.flags = parser.flags
    BY <1>4, Moved
  <2> HIDE DEF r
  <2>3. Sound(r)
    BY <1>6, <2>2 DEF Sound, Known, WordsKnown, LengthKnown, ChunksFlagged, CountReset, ChunkSizeStates
  <2> QED BY <1>2, <1>3, <2>1, <2>3, StepKeeps
<1>7. CASE ~parser.upgrade /\ "F_CHUNKED" \notin parser.flags
           /\ parser.content_length \notin {0, ULLONG_MAX}
  <2> DEFINE r == [reset EXCEPT !.state = "s_body_identity"]
  <2>1. Step(r, mark, <<>>, "byte", p + 1, FALSE)
    BY <1>7 DEF HeadersDone, Byte, reset
  <2>2. /\ Typed(r) /\ r.state = "s_body_identity"
        /\ r.content_length = parser.content_length
    BY <1>4, Moved
  <2> HIDE DEF r
  <2>3. Sound(r)
    BY <1>7, <2>2 DEF Sound, Known, WordsKnown, LengthKnown, ChunksFlagged, CountReset,
                      ChunkSizeStates, ChunkDataStates
  <2> QED BY <1>2, <1>3, <2>1, <2>2, <2>3, StepKeeps
<1> QED BY <1>5, <1>6, <1>7

-----------------------------------------------------------------------------
(* Bodies                                                                  *)

LEMMA SomeAvailable ==
  ASSUME p \in 1..Len(data), Len(data) \in Nat, Typed(parser), parser.content_length # 0
  PROVE  /\ Available \in 1..parser.content_length
         /\ p + Available \in 1..(Len(data) + 1) /\ p + Available - 1 \in 1..(Len(data) + 1)
         /\ parser.content_length - Available \in 0..ULLONG_MAX
         /\ parser.content_length - Available # ULLONG_MAX
<1>1. parser.content_length \in 1..ULLONG_MAX /\ ULLONG_MAX \in Nat
  BY WidthAssumption DEF Typed
<1> QED BY <1>1 DEF Available

LEMMA BodyIdentityKeeps ==
  ASSUME PInv, NEW fail \in BOOLEAN, BodyIdentity(fail)
  PROVE  PInv'
<1>1. At({"s_body_identity"}) /\ "body" \in DOMAIN NoMarks /\ "s_body_identity" \in Home["body"]
  BY DEF BodyIdentity, NoMarks, Home
<1>2. /\ parser.state = "s_body_identity" /\ Typed(Counted) /\ Counted.state = parser.state
      /\ parser.content_length # 0 /\ Typed(parser)
      /\ p \in 1..Len(data) /\ Len(data) \in Nat
  BY <1>1, AtByte DEF Known, LengthKnown
<1>3. /\ MARK("body") \in MarkType /\ Clear("body") \in MarkType
      /\ \A r : Placed(r, Clear("body"))
      /\ \A r : r.state = "s_body_identity" => Placed(r, MARK("body"))
  BY <1>1, OnlyMark
<1> DEFINE left == parser.content_length - Available
           r == [Counted EXCEPT !.content_length = left]
           end == p + Available
<1>4. /\ left \in 0..ULLONG_MAX /\ left # ULLONG_MAX
      /\ end \in 1..(Len(data) + 1) /\ end - 1 \in 1..(Len(data) + 1)
  BY <1>2, SomeAvailable
<1>5. /\ left = 0 => Step([r EXCEPT !.state = "s_message_done"], Clear("body"),
                          CALLBACK_DATA(MARK("body"), "body", end), "again", end - 1, fail)
      /\ left # 0 => Step(r, MARK("body"), <<>>, "byte", end, FALSE)
  BY DEF BodyIdentity
<1> HIDE DEF left, end
<1>6. Typed(r) /\ r.state = "s_body_identity" /\ r.content_length = left
  BY <1>2, <1>4 DEF Typed, IsParser, Fields
<1> HIDE DEF r
<1>7. CASE left = 0
  <2> DEFINE done == [r EXCEPT !.state = "s_message_done"]
  <2>1. Typed(done) /\ done.state = "s_message_done"
    BY <1>6, Moved
  <2>2. Sound(done)
    BY <2>1, PlainIsSound DEF Plain
  <2>3. Step(done, Clear("body"), CALLBACK_DATA(MARK("body"), "body", end), "again", end - 1, fail)
    BY <1>5, <1>7
  <2> HIDE DEF done
  <2> QED BY <1>3, <1>4, <2>1, <2>2, <2>3, StepKeeps
<1>8. CASE left # 0
  <2>1. Sound(r)
    BY <1>4, <1>6, <1>8 DEF Sound, Known, WordsKnown, LengthKnown, ChunksFlagged, CountReset,
                            ChunkSizeStates, ChunkDataStates
  <2> QED BY <1>3, <1>4, <1>5, <1>6, <1>8, <2>1, StepKeeps
<1> QED BY <1>7, <1>8

LEMMA MessageDoneKeeps ==
  ASSUME PInv, NEW fail \in BOOLEAN, MessageDone(fail)
  PROVE  PInv'
<1>1. At({"s_message_done"})
  BY DEF MessageDone
<1>2. /\ parser.state = "s_message_done" /\ Typed(Counted) /\ mark \in MarkType
      /\ Placed(parser, mark) /\ p + 1 \in 1..(Len(data) + 1)
  BY <1>1, AtByte
<1>3. \A r : Placed(r, mark)
  BY <1>2, NothingMarked DEF Unmarking, Plain, UrlStates
<1> DEFINE r == [Counted EXCEPT !.state = "s_start_req"]
<1>4. Step(r, mark, CALLBACK_NOTIFY("message_complete"), "byte", p + 1, fail)
  BY DEF MessageDone
<1>5. Typed(r) /\ r.state = "s_start_req"
  BY <1>2, Moved
<1>6. Sound(r)
  BY <1>5, PlainIsSound DEF Plain, RequestLineStates
<1> HIDE DEF r
<1> QED BY <1>2, <1>3, <1>4, <1>5, <1>6, StepKeeps

LEMMA InChunks ==
  ASSUME NEW r, Typed(r), "F_CHUNKED" \in r.flags, r.content_length # ULLONG_MAX,
         \/ r.state \in ChunkSizeStates \ {"s_chunk_size_start"}
         \/ r.state = "s_chunk_data" /\ r.content_length # 0
         \/ r.state = "s_chunk_data_almost_done" /\ r.content_length = 0
         \/ r.state = "s_chunk_data_done"
  PROVE  Sound(r) /\ r.state # "s_chunk_size_start"
BY DEF Sound, Known, WordsKnown, LengthKnown, ChunksFlagged, CountReset,
       ChunkSizeStates, ChunkDataStates

LEMMA HexApart ==
  ASSUME NEW c, IS_HEX(c)
  PROVE  c \notin {CR, ";", SP}
<1>1. PICK i \in 1..16 : c \in Hex[i]
  BY DEF IS_HEX
<1>2. /\ Hex[1] = {"0"} /\ Hex[2] = {"1"} /\ Hex[3] = {"2"} /\ Hex[4] = {"3"}
      /\ Hex[5] = {"4"} /\ Hex[6] = {"5"} /\ Hex[7] = {"6"} /\ Hex[8] = {"7"}
      /\ Hex[9] = {"8"} /\ Hex[10] = {"9"} /\ Hex[11] = {"A", "a"} /\ Hex[12] = {"B", "b"}
      /\ Hex[13] = {"C", "c"} /\ Hex[14] = {"D", "d"} /\ Hex[15] = {"E", "e"}
      /\ Hex[16] = {"F", "f"}
  BY DEF Hex
<1>3. c \in {"0", "1", "2", "3", "4", "5", "6", "7", "8", "9", "A", "a", "B", "b",
             "C", "c", "D", "d", "E", "e", "F", "f"}
  BY <1>1, <1>2
<1> QED BY <1>3 DEF CR, SP

LEMMA ChunkSizeSound ==
  ASSUME NEW r, Typed(r), r.http_errno = "HPE_OK", r.state \in ChunkSizeStates,
         "F_CHUNKED" \in r.flags, NEW c,
         r.state # "s_chunk_size_start" => r.content_length # ULLONG_MAX
  PROVE  /\ Sound(ChunkSize(r, c))
         /\ ChunkSize(r, c).http_errno = "HPE_OK" => ChunkSize(r, c).state # "s_chunk_size_start"
<1> DEFINE new == ChunkSize(r, c)
<1>1. CASE r.state = "s_chunk_size_start" /\ IS_HEX(c)
  <2> DEFINE n == Unhex(c)
             sized == [r EXCEPT !.content_length = n, !.state = "s_chunk_size"]
  <2>1. new = sized
    BY <1>1 DEF ChunkSize
  <2>2. n \in 0..ULLONG_MAX /\ n # ULLONG_MAX
    BY <1>1, Numeral, WidthAssumption
  <2> HIDE DEF n
  <2>3. /\ Typed(sized) /\ sized.state = "s_chunk_size" /\ sized.flags = r.flags
        /\ sized.content_length = n
    BY <2>2 DEF Typed, IsParser, Fields
  <2>4. Sound(sized)
    BY <2>2, <2>3, InChunks DEF ChunkSizeStates
  <2> QED BY <2>1, <2>3, <2>4
<1>2. CASE r.state = "s_chunk_size" /\ IS_HEX(c)
  <2>1. Unhex(c) \in Nat /\ 16 \in Nat
    BY <1>2, Numeral
  <2>2. new = Digit(r, 16, Unhex(c))
    BY <1>2, HexApart DEF ChunkSize
  <2>3. /\ Typed(new) /\ new.state = "s_chunk_size" /\ new.flags = r.flags
        /\ new.http_errno = "HPE_OK" => new.content_length # ULLONG_MAX
    BY <1>2, <2>1, <2>2, DigitSound
  <2>4. new.http_errno = "HPE_OK" => Sound(new)
    BY <2>3, InChunks DEF ChunkSizeStates
  <2>5. new.http_errno # "HPE_OK" => Sound(new)
    BY <2>3 DEF Sound
  <2> QED BY <2>3, <2>4, <2>5
<1>3. ASSUME NEW s \in ChunkSizeStates \ {"s_chunk_size_start"}, new = [r EXCEPT !.state = s],
             r.state # "s_chunk_size_start"
      PROVE  Sound(new) /\ new.state # "s_chunk_size_start"
  <2>1. Typed(new) /\ new.state = s /\ new.flags = r.flags /\ new.content_length = r.content_length
    BY <1>3, Moved
  <2> QED BY <1>3, <2>1, InChunks
<1>4. CASE r.state \in {"s_chunk_size", "s_chunk_parameters"} /\ c = CR
  <2>1. new = [r EXCEPT !.state = "s_chunk_size_almost_done"]
    BY <1>4, HexApart DEF ChunkSize, CR, SP
  <2> QED BY <1>3, <1>4, <2>1 DEF ChunkSizeStates
<1>5. CASE r.state = "s_chunk_size" /\ c # CR /\ ~IS_HEX(c) /\ c \in {";", SP}
  <2>1. new = [r EXCEPT !.state = "s_chunk_parameters"]
    BY <1>5 DEF ChunkSize
  <2> QED BY <1>3, <1>5, <2>1 DEF ChunkSizeStates
<1>6. CASE r.state = "s_chunk_parameters" /\ c # CR
  <2>1. new = r
    BY <1>6 DEF ChunkSize
  <2> QED BY <1>6, <2>1, InChunks DEF ChunkSizeStates
<1>7. CASE r.state = "s_chunk_size_almost_done" /\ r.content_length = 0
  <2> DEFINE last == [r EXCEPT !.nread = 0, !.flags = @ \cup {"F_TRAILING"},
                               !.state = "s_header_field_start"]
  <2>1. new = last
    BY <1>7 DEF ChunkSize
  <2>2. Typed(last) /\ last.state = "s_header_field_start"
    BY DEF Typed, IsParser, Fields
  <2> QED BY <2>1, <2>2, PlainIsSound DEF Plain
<1>8. CASE r.state = "s_chunk_size_almost_done" /\ r.content_length # 0
  <2> DEFINE begun == [r EXCEPT !.nread = 0, !.state = "s_chunk_data"]
  <2>1. new = begun
    BY <1>8 DEF ChunkSize
  <2>2. /\ Typed(begun) /\ begun.state = "s_chunk_data" /\ begun.flags = r.flags
        /\ begun.content_length = r.content_length
    BY DEF Typed, IsParser, Fields
  <2> QED BY <1>8, <2>1, <2>2, InChunks
<1>9. CASE \/ r.state = "s_chunk_size_start" /\ ~IS_HEX(c)
           \/ r.state = "s_chunk_size" /\ ~IS_HEX(c) /\ c \notin {CR, ";", SP}
  <2>1. new = Fail(r, "HPE_INVALID_CHUNK_SIZE")
    BY <1>9 DEF ChunkSize
  <2> QED BY <2>1, Failed
<1> HIDE DEF new
<1> QED BY <1>1, <1>2, <1>4, <1>5, <1>6, <1>7, <1>8, <1>9 DEF ChunkSizeStates, new

LEMMA ChunkLineKeeps ==
  ASSUME PInv, ChunkLine
  PROVE  PInv'
<1>1. At(ChunkSizeStates) /\ Step(ChunkSize(Counted, ch), mark, <<>>, "byte", p + 1, FALSE)
  BY DEF ChunkLine, Byte
<1>2. /\ parser.state \in ChunkSizeStates /\ Typed(Counted) /\ Counted.state = parser.state
      /\ Counted.http_errno = "HPE_OK" /\ Counted.flags = parser.flags
      /\ Counted.content_length = parser.content_length /\ Known(parser)
      /\ mark \in MarkType /\ Placed(parser, mark) /\ p + 1 \in 1..(Len(data) + 1)
  BY <1>1, AtByte
<1>3. \A r : Placed(r, mark)
  BY <1>2, NothingMarked DEF Unmarking
<1>4. Sound(ChunkSize(Counted, ch))
  <2>1. "F_CHUNKED" \in Counted.flags
    BY <1>2 DEF Known, ChunksFlagged
  <2>2. Counted.state # "s_chunk_size_start" => Counted.content_length # ULLONG_MAX
    BY <1>2 DEF Known, LengthKnown
  <2> QED BY <1>2, <2>1, <2>2, ChunkSizeSound
<1> QED BY <1>1, <1>2, <1>3, <1>4, StepKeeps

LEMMA ChunkDataKeeps ==
  ASSUME PInv, NEW fail \in BOOLEAN, ChunkData(fail)
  PROVE  PInv'
<1>1. At(ChunkDataStates) /\ "body" \in DOMAIN NoMarks /\ MarkedStates \subseteq Home["body"]
  BY DEF ChunkData, NoMarks, Home
<1>2. /\ parser.state \in ChunkDataStates /\ Typed(Counted) /\ Counted.state = parser.state
      /\ Counted.flags = parser.flags /\ Counted.content_length = parser.content_length
      /\ Typed(parser) /\ Known(parser) /\ "F_CHUNKED" \in Counted.flags
      /\ p \in 1..Len(data) /\ Len(data) \in Nat /\ p + 1 \in 1..(Len(data) + 1)
      /\ mark \in MarkType /\ Placed(parser, mark)
  BY <1>1, AtByte DEF Known, ChunksFlagged
<1>3. CASE parser.state \in MarkedStates
  <2>1. At(MarkedStates)
    BY <1>1, <1>3 DEF At
  <2>2. /\ MARK("body") \in MarkType /\ Clear("body") \in MarkType
        /\ \A r : Placed(r, Clear("body"))
        /\ \A r : r.state \in MarkedStates => Placed(r, MARK("body"))
    BY <1>1, <2>1, OnlyMark
  <2>3. CASE parser.state = "s_chunk_data"
    <3> DEFINE left == parser.content_length - Available
               s == IF left = 0 THEN "s_chunk_data_almost_done" ELSE Counted.state
               r == [Counted EXCEPT !.content_length = left, !.state = s]
               at == p + Available
    <3>1. Step(r, MARK("body"), <<>>, "byte", at, FALSE)
      BY <2>3 DEF ChunkData
    <3>2. left \in 0..ULLONG_MAX /\ left # ULLONG_MAX /\ at \in 1..(Len(data) + 1)
      <4>1. parser.content_length # 0
        BY <1>2, <2>3 DEF Known, LengthKnown
      <4> QED BY <1>2, <4>1, SomeAvailable
    <3>3. s = IF left = 0 THEN "s_chunk_data_almost_done" ELSE "s_chunk_data"
      BY <1>2, <2>3
    <3> HIDE DEF left, s, at
    <3>4. /\ Typed(r) /\ r.state = s /\ r.flags = Counted.flags
          /\ r.content_length = left
      BY <1>2, <3>2 DEF Typed, IsParser, Fields
    <3> HIDE DEF r
    <3>5. Sound(r) /\ r.state # "s_chunk_size_start" /\ r.state \in MarkedStates
      BY <1>2, <3>2, <3>3, <3>4, InChunks DEF MarkedStates
    <3> QED BY <2>2, <3>1, <3>2, <3>5, StepKeeps
  <2>4. CASE parser.state = "s_chunk_data_almost_done"
    <3> DEFINE r == [Counted EXCEPT !.state = "s_chunk_data_done"]
    <3>1. Step(r, Clear("body"), CALLBACK_DATA(mark, "body", p), "byte", p + 1, fail)
      BY <2>4 DEF ChunkData
    <3>0. Typed(Counted) /\ Counted.content_length = parser.content_length
      BY <1>2
    <3>2. /\ Typed(r) /\ r.state = "s_chunk_data_done" /\ r.flags = Counted.flags
          /\ r.content_length = parser.content_length
      BY <3>0, Moved
    <3>3. parser.content_length = 0 /\ 0 # ULLONG_MAX
      BY <1>2, <2>4, WidthAssumption DEF Known, LengthKnown
    <3> HIDE DEF r
    <3>4. Sound(r) /\ r.state # "s_chunk_size_start"
      BY <1>2, <3>2, <3>3, InChunks
    <3> QED BY <1>2, <2>2, <3>1, <3>4, StepKeeps
  <2> QED BY <1>3, <2>3, <2>4 DEF MarkedStates
<1>4. CASE parser.state = "s_chunk_data_done"
  <2> DEFINE r == [Counted EXCEPT !.nread = 0, !.state = "s_chunk_size_start"]
  <2>1. Step(r, mark, <<>>, "byte", p + 1, FALSE)
    BY <1>4 DEF ChunkData, Byte
  <2>2. Typed(r) /\ r.state = "s_chunk_size_start" /\ r.nread = 0 /\ r.flags = Counted.flags
    BY <1>2 DEF Typed, IsParser, Fields
  <2> HIDE DEF r
  <2>3. Sound(r)
    BY <1>2, <2>2 DEF Sound, Known, WordsKnown, LengthKnown, ChunksFlagged, CountReset, ChunkSizeStates
  <2>4. Placed(r, mark)
    BY <1>2, <1>4, NothingMarked DEF Unmarking
  <2> QED BY <1>2, <2>1, <2>3, <2>4, StepKeeps
<1> QED BY <1>2, <1>3, <1>4 DEF ChunkDataStates, MarkedStates

-----------------------------------------------------------------------------
(* Calls                                                                   *)

LEMMA EndOfBufferKeeps ==
  ASSUME PInv, NEW fail \in BOOLEAN, EndOfBuffer(fail)
  PROVE  PInv'
<1>1. PICK callbacks : Step(parser, NoMarks, callbacks, "out", p, fail)
  BY DEF EndOfBuffer
<1>2. Sound(parser)
  BY DEF PInv
<1> QED BY <1>1, <1>2, StepKeeps

LEMMA HeaderOverflowKeeps ==
  ASSUME PInv, HeaderOverflow
  PROVE  PInv'
<1>1. Typed(Counted)
  BY CountedFields DEF PInv, Sound
<1>2. Sound(Fail(Counted, "HPE_HEADER_OVERFLOW"))
  BY <1>1, Failed
<1> QED BY <1>2, Returned DEF HeaderOverflow

LEMMA ExecuteKeeps ==
  ASSUME PInv, NEW bytes \in Seq(STRING), Execute(bytes)
  PROVE  PInv'
<1>1. CASE parser.http_errno # "HPE_OK"
  BY <1>1 DEF Execute, PInv
<1>2. CASE parser.http_errno = "HPE_OK"
  <2>1. /\ parser' = parser /\ data' = bytes /\ p' = 1 /\ go' = "byte"
        /\ mark' = [NoMarks EXCEPT
             !.header_field = IF parser.state = "s_header_field" THEN 1 ELSE 0,
             !.header_value = IF parser.state = "s_header_value" THEN 1 ELSE 0,
             !.url = IF parser.state \in UrlStates THEN 1 ELSE 0]
    BY <1>2 DEF Execute
  <2> DEFINE f1 == IF parser.state = "s_header_field" THEN 1 ELSE 0
             v1 == IF parser.state = "s_header_value" THEN 1 ELSE 0
             u1 == IF parser.state \in UrlStates THEN 1 ELSE 0
             marks == [NoMarks EXCEPT !.header_field = f1, !.header_value = v1, !.url = u1]
  <2>9. mark' = marks
    BY <2>1, Zenon
  <2>2. f1 \in Nat /\ v1 \in Nat /\ u1 \in Nat
    OBVIOUS
  <2>3. /\ f1 # 0 => parser.state = "s_header_field"
        /\ v1 # 0 => parser.state = "s_header_value"
        /\ u1 # 0 => parser.state \in UrlStates
    OBVIOUS
  <2> HIDE DEF f1, v1, u1
  <2>4. /\ marks \in MarkType
        /\ marks["header_field"] = f1 /\ marks["header_value"] = v1
        /\ marks["url"] = u1 /\ marks["body"] = 0
    <3>1. NoMarks \in MarkType /\ NoMarks["body"] = 0
      BY DEF NoMarks, MarkType
    <3> QED BY <2>2, <3>1 DEF MarkType
  <2> HIDE DEF marks
  <2>5. Placed(parser, marks)
    <3>1. DOMAIN NoMarks = {"header_field", "header_value", "url", "body"}
      BY DEF NoMarks
    <3> QED BY <2>3, <2>4, <3>1 DEF Placed, Home
  <2>6. Sound(parser)
    BY DEF PInv
  <2>7. Len(bytes) \in Nat /\ p' \in 1..(Len(data') + 1)
    BY <2>1
  <2>8. Sound(parser') /\ Placed(parser', mark') /\ parser'.http_errno = "HPE_OK"
    BY <1>2, <2>1, <2>9, <2>5, <2>6
  <2> QED BY <2>1, <2>9, <2>4, <2>7, <2>8 DEF PInv, Sound, Placed, Typed, Known, IsParser,
                WordsKnown, LengthKnown, ChunksFlagged, CountReset
<1> QED BY <1>1, <1>2

LEMMA PInvInit ==
  ASSUME ParserInit
  PROVE  PInv
<1>1. Typed(parser)
  <2>1. 0 \in 0..ULLONG_MAX /\ parser = Parser0
    BY WidthAssumption DEF ParserInit
  <2>2. IsParser(Parser0) /\ Parser0.content_length = 0 /\ Parser0.nread = 0
    BY DEF Parser0, IsParser, Fields
  <2> QED BY <2>1, <2>2 DEF Typed
<1>2. Sound(parser)
  <2>1. parser.state \in Plain
    BY DEF ParserInit, Parser0, Plain, RequestLineStates
  <2> QED BY <1>1, <2>1, PlainIsSound
<1>3. <<>> \in Seq(STRING) /\ Len(<<>>) = 0 /\ NoMarks \in MarkType
  BY DEF NoMarks, MarkType
<1> QED BY <1>2, <1>3 DEF ParserInit, PInv

LEMMA PInvStep ==
  ASSUME PInv, [ParserNext]_pvars
  PROVE  PInv'
<1>1. ASSUME NEW fail \in BOOLEAN, ParserStep(fail) PROVE PInv'
  <2>1. CASE HeaderOverflow \/ RequestLine \/ UrlStart \/ HeaderFieldStart \/ HeaderEnd \/ ChunkLine
    BY <2>1, HeaderOverflowKeeps, RequestLineKeeps, UrlStartKeeps, HeaderFieldStartKeeps,
       HeaderEndKeeps, ChunkLineKeeps
  <2>2. CASE UrlByte(fail) \/ HeaderField(fail) \/ HeaderValueStart(fail) \/ HeaderValue(fail)
    BY <2>2, UrlByteKeeps, HeaderFieldKeeps, HeaderValueStartKeeps, HeaderValueKeeps
  <2>3. CASE \/ HeadersAlmostDone(fail) \/ HeadersDone(fail) \/ BodyIdentity(fail)
             \/ MessageDone(fail) \/ ChunkData(fail) \/ EndOfBuffer(fail)
    BY <2>3, HeadersAlmostDoneKeeps, HeadersDoneKeeps, BodyIdentityKeeps, MessageDoneKeeps,
       ChunkDataKeeps, EndOfBufferKeeps
  <2> QED BY <1>1, <2>1, <2>2, <2>3 DEF ParserStep
<1>2. CASE UNCHANGED pvars
  BY <1>2 DEF pvars, PInv, Sound, Placed, Typed, Known, IsParser,
              WordsKnown, LengthKnown, ChunksFlagged, CountReset
<1> QED BY <1>1, <1>2, ExecuteKeeps DEF ParserNext

LEMMA PInvAssertions ==
  ASSUME PInv
  PROVE  Assertions
<1> SUFFICES ASSUME go # "out" PROVE Assertions
  BY DEF Assertions
<1>1. /\ Known(parser) /\ Typed(parser) /\ Placed(parser, mark)
      /\ parser.state = "s_chunk_size_start" => go = "byte"
  BY DEF PInv, Sound
<1>2. \A f, g \in DOMAIN mark : mark[f] # 0 /\ mark[g] # 0 => f = g
  <2>1. DOMAIN mark = {"header_field", "header_value", "url", "body"} /\ DOMAIN NoMarks = DOMAIN mark
    BY DEF PInv, MarkType, NoMarks
  <2>2. \A f, g \in DOMAIN mark : f # g => Home[f] \cap Home[g] = {}
    BY <2>1 DEF Home, UrlStates, MarkedStates
  <2> QED BY <1>1, <2>1, <2>2 DEF Placed
<1>3. parser.state = "s_header_field" => parser.header_state \in Starts(FieldWords) \cup {h_general}
  BY <1>1 DEF Known, WordsKnown
<1>4. parser.state = "s_header_value" => parser.header_state # h_transfer_encoding
  BY <1>1, ValueWord DEF Known, WordsKnown
<1>5. /\ parser.state \in {"s_body_identity", "s_chunk_data"} =>
           parser.content_length \notin {0, ULLONG_MAX}
      /\ parser.state = "s_chunk_data_almost_done" => parser.content_length = 0
  BY <1>1 DEF Known, LengthKnown
<1>6. parser.state \in ChunkSizeStates \cup ChunkDataStates => "F_CHUNKED" \in parser.flags
  BY <1>1 DEF Known, ChunksFlagged
<1>7. ASSUME parser.state = "s_chunk_size_start" PROVE Counted.nread = 1
  <2>1. go = "byte" /\ parser.nread = 0 /\ PARSING_HEADER(parser.state)
    BY <1>1, <1>7 DEF Known, CountReset, PARSING_HEADER, BodyStates, ChunkDataStates
  <2>2. Counted = [parser EXCEPT !.nread = 1]
    BY <2>1 DEF Counted
  <2> QED BY <1>1, <2>2 DEF Typed, IsParser, Fields
<1> QED BY <1>2, <1>3, <1>4, <1>5, <1>6, <1>7 DEF Assertions

(* No assert of http_parser_execute fails, whatever bytes come in whatever *)
(* pieces, whichever callbacks fail, and however large buffers, lengths    *)
(* and the limits of headers are (http_parser.c:1326,1444,1649,1694,1778,  *)
(* 1797,1827).                                                             *)
THEOREM AssertionsAlways == ParserSpec => []Assertions
<1>1. ParserInit => PInv
  BY PInvInit
<1>2. PInv /\ [ParserNext]_pvars => PInv'
  BY PInvStep
<1>3. PInv => Assertions
  BY PInvAssertions
<1> QED BY <1>1, <1>2, <1>3, PTL DEF ParserSpec
=============================================================================
