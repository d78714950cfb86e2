----------------------------- MODULE HttpParser -----------------------------
(***************************************************************************)
(* http_parser_execute, ext/http-parser/http_parser.c, as Nyara uses it:   *)
(* requests only, built without HTTP_PARSER_STRICT.  A call of it is the   *)
(* action Execute, a step for each byte, or for each piece of a body, and  *)
(* EndOfBuffer; the callbacks a step runs are its calls.                   *)
(*                                                                         *)
(* A byte is a symbol of module Symbols.  header_state is the part of a    *)
(* word that was matched, <<>> for h_general.  Left out are the response   *)
(* states, Connection headers, whose flags nothing reads in this build, and*)
(* NUL bytes.  Definitions marked "bug" are not part of the model.         *)
(***************************************************************************)
EXTENDS Naturals, Sequences, SequencesExt, Symbols

CONSTANTS HTTP_MAX_HEADER_SIZE, \* limit of nread
          ULLONG_MAX            \* the largest content_length, and "none"

ASSUME HeaderSizeAssumption == HTTP_MAX_HEADER_SIZE \in Nat \ {0}
ASSUME WidthAssumption == ULLONG_MAX \in Nat /\ ULLONG_MAX > 15

VARIABLES
  parser, \* the struct http_parser
  data,   \* the buffer of this call, <<>> outside of calls
  p,      \* the place in data
  mark,   \* where the data of a callback starts, 0 for NULL
  go,     \* out of a call, or at a byte, or at a byte executed again
  calls   \* callbacks of the last step

pvars == <<parser, data, p, mark, go, calls>>

IS_URL_CHAR(c) == c \notin {SP, CR, LF, "#", "?"}
UserinfoMarks == Characters("-_.!~*'()%;:&=+$,")
IS_USERINFO_CHAR(c) == IS_ALPHA(c) \/ IS_NUM(c) \/ c \in UserinfoMarks
Separators == {CR, LF, "TAB"} \cup Characters("()<>@,;:\\\"/[]?={}")
TOKEN(c) == c \notin Separators

h_general == <<>>
h_content_length == <<"content-", "length">>
h_transfer_encoding == <<"transfer-", "encoding">>
h_upgrade == <<"up", "grade">>
h_transfer_encoding_chunked == <<"chunk", "ed">>
FieldWords == {h_content_length, h_transfer_encoding, h_upgrade}
ValueWords == {h_transfer_encoding_chunked}
Starts(words) == {SubSeq(w, 1, n) : w \in words, n \in 1..2}

(* The word matched so far and one more symbol.                            *)
Match(h, c, words) ==
  IF h = h_general THEN h_general
  ELSE IF Append(h, c) \in Starts(words) THEN Append(h, c)
  ELSE IF h \in words /\ c = SP THEN h ELSE h_general

(* A record for the struct http_parser, as http_parser_init leaves it.     *)
Parser0 == [state |-> "s_start_req", method |-> "DELETE", index |-> 0,
            header_state |-> h_general, flags |-> {}, content_length |-> 0,
            nread |-> 0, upgrade |-> FALSE, http_errno |-> "HPE_OK"]

UrlStates == {"s_req_schema", "s_req_schema_slash", "s_req_schema_slash_slash",
  "s_req_server_start", "s_req_server", "s_req_server_with_at", "s_req_path",
  "s_req_query_string_start", "s_req_query_string", "s_req_fragment_start",
  "s_req_fragment"}
RequestLineStates == {"s_start_req", "s_req_method", "s_req_http_start",
  "s_req_first_http_major", "s_req_http_minor", "s_req_line_almost_done"}
HeaderStates == {"s_header_field_start", "s_header_field", "s_header_value_start",
  "s_header_value", "s_header_almost_done", "s_header_value_lws",
  "s_headers_almost_done", "s_headers_done"}
ChunkSizeStates == {"s_chunk_size_start", "s_chunk_size", "s_chunk_parameters",
  "s_chunk_size_almost_done"}
ChunkDataStates == {"s_chunk_data", "s_chunk_data_almost_done", "s_chunk_data_done"}
BodyStates == ChunkDataStates \cup {"s_body_identity", "s_message_done"}
PARSING_HEADER(state) == state \notin BodyStates

-----------------------------------------------------------------------------
(* The request line                                                        *)

Fail(r, errno) == [r EXCEPT !.http_errno = errno]

FirstMethods == {"CONNECT", "DELETE", "GET", "HEAD", "LOCK", "MKCOL", "NOTIFY",
  "OPTIONS", "POST", "REPORT", "SUBSCRIBE", "TRACE", "UNLOCK"}
Retargets == {
  <<"CONNECT", 1, "H", "CHECKOUT">>, <<"CONNECT", 2, "P", "COPY">>,
  <<"MKCOL", 1, "O", "MOVE">>, <<"MKCOL", 1, "E", "MERGE">>,
  <<"MKCOL", 1, "-", "M-SEARCH">>, <<"MKCOL", 2, "A", "MKACTIVITY">>,
  <<"SUBSCRIBE", 1, "E", "SEARCH">>, <<"POST", 1, "R", "PROPFIND">>,
  <<"POST", 1, "U", "PUT">>, <<"POST", 1, "A", "PATCH">>,
  <<"PUT", 2, "R", "PURGE">>, <<"UNLOCK", 2, "S", "UNSUBSCRIBE">>,
  <<"PROPFIND", 4, "P", "PROPPATCH">>}
Letter(m, i) == IF i < Len(m) THEN SubSeq(m, i + 1, i + 1) ELSE "\\0"

StartReq(r, c) ==
  LET fresh == [r EXCEPT !.flags = {}, !.content_length = ULLONG_MAX]
      named == {m \in FirstMethods : Letter(m, 0) = c}
  IN  IF c \in {CR, LF} THEN r
      ELSE IF named = {} THEN Fail(fresh, "HPE_INVALID_METHOD")
      ELSE [fresh EXCEPT !.method = CHOOSE m \in named : TRUE,
                         !.index = 1, !.state = "s_req_method"]

(* The letter at place 2 is not checked, but for methods of three of the   *)
(* first letters.                                                          *)
ReqMethod(r, c) ==
  LET next == [r EXCEPT !.index = @ + 1]
      others == {t \in Retargets : t[1] = r.method /\ t[2] = r.index /\ t[3] = c}
  IN  IF c = SP /\ Letter(r.method, r.index) = "\\0"
      THEN [next EXCEPT !.state = "s_req_spaces_before_url"]
      ELSE IF c = Letter(r.method, r.index) THEN next
      ELSE IF others # {} THEN [next EXCEPT !.method = (CHOOSE t \in others : TRUE)[4]]
      ELSE IF r.index = 2 /\ r.method \notin {"CONNECT", "MKCOL", "SUBSCRIBE"} THEN next
      ELSE Fail(r, "HPE_INVALID_METHOD")

parse_url_char(s, c) ==
  IF c \in {SP, CR, LF} THEN "s_dead" ELSE
  CASE s = "s_req_spaces_before_url" /\ c \in {"/", "*"} -> "s_req_path"
    [] s = "s_req_spaces_before_url" /\ IS_ALPHA(c) -> "s_req_schema"
    [] s = "s_req_schema" /\ IS_ALPHA(c) -> s
    [] s = "s_req_schema" /\ c = ":" -> "s_req_schema_slash"
    [] s = "s_req_schema_slash" /\ c = "/" -> "s_req_schema_slash_slash"
    [] s = "s_req_schema_slash_slash" /\ c = "/" -> "s_req_server_start"
    [] s \in {"s_req_server_start", "s_req_server", "s_req_server_with_at"} ->
         (CASE c = "/" -> "s_req_path"
            [] c = "?" -> "s_req_query_string_start"
            [] c = "@" -> IF s = "s_req_server_with_at" THEN "s_dead" ELSE "s_req_server_with_at"
            [] IS_USERINFO_CHAR(c) \/ c \in {"[", "]"} -> "s_req_server"
            [] OTHER -> "s_dead")
    [] s = "s_req_path" ->
         (CASE c = "?" -> "s_req_query_string_start"
            [] c = "#" -> "s_req_fragment_start"
            [] OTHER -> s)
    [] s \in {"s_req_query_string_start", "s_req_query_string"} ->
         IF c = "#" THEN "s_req_fragment_start" ELSE "s_req_query_string"
    [] s \in {"s_req_fragment_start", "s_req_fragment"} ->
         IF c = "#" THEN s ELSE "s_req_fragment"
    [] OTHER -> "s_dead"

Url(r, c) ==
  LET from == IF r.state = "s_req_spaces_before_url" /\ r.method = "CONNECT"
              THEN "s_req_server_start" ELSE r.state
      to == parse_url_char(from, c)
  IN  IF to = "s_dead" THEN Fail([r EXCEPT !.state = to], "HPE_INVALID_URL")
                       ELSE [r EXCEPT !.state = to]

(* Spaces may be repeated before "HTTP/".                                  *)
Version(r, c) ==
  CASE r.state = "s_req_http_start" /\ c = SP -> r
    [] r.state = "s_req_http_start" /\ c = "HTTP/" ->
         [r EXCEPT !.state = "s_req_first_http_major"]
    [] r.state = "s_req_first_http_major" /\ c = "1.1" ->
         [r EXCEPT !.state = "s_req_http_minor"]
    [] r.state = "s_req_http_minor" /\ c = CR ->
         [r EXCEPT !.state = "s_req_line_almost_done"]
    [] r.state = "s_req_http_minor" /\ c = LF -> [r EXCEPT !.state = "s_header_field_start"]
    [] r.state = "s_req_line_almost_done" /\ c = LF ->
         [r EXCEPT !.state = "s_header_field_start"]
    [] OTHER -> Fail(r, "HPE_INVALID_VERSION")

-----------------------------------------------------------------------------
(* Headers and chunk sizes                                                 *)

FieldStart(r, c) ==
  IF TOKEN(c)
  THEN [r EXCEPT !.state = "s_header_field", !.index = 0,
                 !.header_state = IF <<LOWER(c)>> \in Starts(FieldWords)
                                  THEN <<LOWER(c)>> ELSE h_general]
  ELSE Fail(r, "HPE_INVALID_HEADER_TOKEN")

Field(r, c) ==
  IF TOKEN(c) THEN [r EXCEPT !.header_state = Match(@, LOWER(c), FieldWords)]
              ELSE Fail(r, "HPE_INVALID_HEADER_TOKEN")

ValueStart(r, c) ==
  LET value == [r EXCEPT !.state = "s_header_value", !.index = 0]
  IN  CASE r.header_state = h_upgrade ->
             [value EXCEPT !.flags = @ \cup {"F_UPGRADE"}, !.header_state = h_general]
        [] r.header_state = h_transfer_encoding ->
             [value EXCEPT !.header_state = IF <<LOWER(c)>> \in Starts(ValueWords)
                                            THEN <<LOWER(c)>> ELSE h_general]
        [] r.header_state = h_content_length ->
             IF IS_NUM(c) THEN [value EXCEPT !.content_length = Unhex(c)]
                          ELSE Fail(value, "HPE_INVALID_CONTENT_LENGTH")
        [] OTHER -> [value EXCEPT !.header_state = h_general]

(* One more digit of a length.  The product wraps, and the check for that  *)
(* sees only results that are smaller than before.                         *)
Digit(r, base, n) ==
  LET t == (r.content_length * base + n) % (ULLONG_MAX + 1)
  IN  IF t < r.content_length \/ t = ULLONG_MAX
      THEN Fail(r, "HPE_INVALID_CONTENT_LENGTH")
      ELSE [r EXCEPT !.content_length = t]

Value(r, c) ==
  IF r.header_state # h_content_length
  THEN [r EXCEPT !.header_state = Match(@, LOWER(c), ValueWords)]
  ELSE IF c = SP THEN r
  ELSE IF IS_NUM(c) THEN Digit(r, 10, Unhex(c))
  ELSE Fail(r, "HPE_INVALID_CONTENT_LENGTH")

HeaderAlmostDone(r) ==
  [r EXCEPT !.state = "s_header_value_lws",
            !.flags = IF r.header_state = h_transfer_encoding_chunked
                      THEN @ \cup {"F_CHUNKED"} ELSE @]

(* bug: the last chunk has data like any other *)
NoLastChunk(r, c) ==
  CASE r.state = "s_chunk_size_start" /\ IS_HEX(c) ->
         [r EXCEPT !.content_length = Unhex(c), !.state = "s_chunk_size"]
    [] r.state = "s_chunk_size" /\ IS_HEX(c) -> Digit(r, 16, Unhex(c))
    [] r.state = "s_chunk_size" /\ c = CR -> [r EXCEPT !.state = "s_chunk_size_almost_done"]
    [] r.state = "s_chunk_size_almost_done" -> [r EXCEPT !.nread = 0, !.state = "s_chunk_data"]
    [] OTHER -> Fail(r, "HPE_INVALID_CHUNK_SIZE")

ChunkSize(r, c) ==
  CASE r.state = "s_chunk_size_start" /\ IS_HEX(c) ->
         [r EXCEPT !.content_length = Unhex(c), !.state = "s_chunk_size"]
    [] r.state = "s_chunk_size" /\ IS_HEX(c) -> Digit(r, 16, Unhex(c))
    [] r.state \in {"s_chunk_size", "s_chunk_parameters"} /\ c = CR ->
         [r EXCEPT !.state = "s_chunk_size_almost_done"]
    [] r.state = "s_chunk_size" /\ c \in {";", SP} -> [r EXCEPT !.state = "s_chunk_parameters"]
    [] r.state = "s_chunk_parameters" /\ c # CR -> r
    [] r.state = "s_chunk_size_almost_done" ->
         IF r.content_length = 0
         THEN [r EXCEPT !.nread = 0, !.flags = @ \cup {"F_TRAILING"},
                        !.state = "s_header_field_start"]
         ELSE [r EXCEPT !.nread = 0, !.state = "s_chunk_data"]
    [] OTHER -> Fail(r, "HPE_INVALID_CHUNK_SIZE")

-----------------------------------------------------------------------------
(* The loop over the bytes                                                 *)

NoMarks == [header_field |-> 0, header_value |-> 0, url |-> 0, body |-> 0]
MARK(for) == [mark EXCEPT ![for] = IF @ = 0 THEN p ELSE @]
(* bug: what a callback was given stays marked *)
StaysMarked(for) == mark
Clear(for) == [mark EXCEPT ![for] = 0]

ch == data[p]
(* bug: only the bytes of headers are counted *)
CountsHeaders == IF go = "byte" /\ parser.state \in HeaderStates
                 THEN [parser EXCEPT !.nread = @ + 1] ELSE parser
Counted == IF go = "byte" /\ PARSING_HEADER(parser.state)
           THEN [parser EXCEPT !.nread = @ + 1] ELSE parser
TooLarge == Counted.nread > HTTP_MAX_HEADER_SIZE /\ go = "byte" /\ PARSING_HEADER(parser.state)
At(states) == /\ go # "out" /\ p <= Len(data)
              /\ parser.state \in states /\ ~TooLarge

(* The call of a data callback whose data ends before place end, if its    *)
(* mark is set.                                                            *)
CALLBACK_DATA(marks, for, end) ==
  IF marks[for] = 0 THEN <<>>
  ELSE <<[on |-> for, data |-> SubSeq(data, marks[for], end - 1)]>>
CALLBACK_NOTIFY(for) == <<[on |-> for, data |-> <<>>]>>

Return(r) ==
  /\ parser' = r /\ go' = "out"
  /\ data' = <<>> /\ p' = 1 /\ mark' = NoMarks

(* A byte changes the parser to r and the marks, and runs callbacks, of    *)
(* which one may fail; then the place is at.                               *)
Step(r, marks, callbacks, next, at, fail) ==
  /\ calls' = callbacks
  /\ fail => callbacks # <<>>
  /\ IF fail THEN Return(Fail(r, "HPE_CB"))
     ELSE IF r.http_errno # "HPE_OK" \/ next = "out" THEN Return(r)
     ELSE /\ parser' = r /\ mark' = marks /\ go' = next /\ p' = at
          /\ UNCHANGED data
Byte(r) == Step(r, mark, <<>>, "byte", p + 1, FALSE)

(* bug: a value that goes on in the next buffer is not marked *)
Unmarked(bytes) ==
  /\ go = "out" /\ bytes # <<>>
  /\ calls' = <<>> /\ UNCHANGED parser
  /\ IF parser.http_errno # "HPE_OK" THEN UNCHANGED <<data, p, mark, go>>
     ELSE /\ data' = bytes /\ p' = 1 /\ go' = "byte"
          /\ mark' = [NoMarks EXCEPT
                        !.header_field = IF parser.state = "s_header_field" THEN 1 ELSE 0,
                        !.url = IF parser.state \in UrlStates THEN 1 ELSE 0]

(* The call: data that goes on in a name, a value or a url starts at once. *)
Execute(bytes) ==
  /\ go = "out" /\ bytes # <<>>
  /\ calls' = <<>>
  /\ UNCHANGED parser
  /\ IF parser.http_errno # "HPE_OK" THEN UNCHANGED <<data, p, mark, go>>
     ELSE /\ data' = bytes /\ p' = 1 /\ go' = "byte"
          /\ mark' = [NoMarks EXCEPT
                        !.header_field = IF parser.state = "s_header_field" THEN 1 ELSE 0,
                        !.header_value = IF parser.state = "s_header_value" THEN 1 ELSE 0,
                        !.url = IF parser.state \in UrlStates THEN 1 ELSE 0]

HeaderOverflow ==
  /\ go # "out" /\ p <= Len(data) /\ TooLarge
  /\ calls' = <<>> /\ Return(Fail(Counted, "HPE_HEADER_OVERFLOW"))

RequestLine ==
  /\ At(RequestLineStates)
  /\ Byte(CASE parser.state = "s_start_req" -> StartReq(Counted, ch)
            [] parser.state = "s_req_method" -> ReqMethod(Counted, ch)
            [] OTHER -> Version(Counted, ch))

UrlStart ==
  /\ At({"s_req_spaces_before_url"})
  /\ IF ch = SP THEN Byte(Counted)
     ELSE Step(Url(Counted, ch), MARK("url"), <<>>, "byte", p + 1, FALSE)

(* A url that ends its line is a request of HTTP/0.9.                      *)
UrlByte(fail) ==
  /\ At(UrlStates)
  /\ IF ch \in {SP, CR, LF} /\ parser.state \notin {"s_req_schema", "s_req_schema_slash",
                                  "s_req_schema_slash_slash", "s_req_server_start"}
     THEN Step([Counted EXCEPT !.state = CASE ch = SP -> "s_req_http_start"
                                           [] ch = CR -> "s_req_line_almost_done"
                                           [] ch = LF -> "s_header_field_start"],
               Clear("url"), CALLBACK_DATA(mark, "url", p), "byte", p + 1, fail)
     ELSE /\ ~fail
          /\ Byte(Url(Counted, ch))

(* LF instead of CR LF ends the headers, too: the byte is executed again.  *)
HeaderFieldStart ==
  /\ At({"s_header_field_start"})
  /\ CASE ch = CR -> Byte([Counted EXCEPT !.state = "s_headers_almost_done"])
       [] ch = LF -> Step([Counted EXCEPT !.state = "s_headers_almost_done"],
                          mark, <<>>, "again", p, FALSE)
       [] OTHER -> Step(FieldStart(Counted, ch), MARK("header_field"), <<>>, "byte",
                        p + 1, FALSE)

HeaderField(fail) ==
  /\ At({"s_header_field"})
  /\ IF ch \in {":", CR, LF}
     THEN Step([Counted EXCEPT !.state = CASE ch = ":" -> "s_header_value_start"
                                           [] ch = CR -> "s_header_almost_done"
                                           [] ch = LF -> "s_header_field_start"],
               Clear("header_field"), CALLBACK_DATA(mark, "header_field", p), "byte",
               p + 1, fail)
     ELSE /\ ~fail
          /\ Byte(Field(Counted, ch))

HeaderValueStart(fail) ==
  /\ At({"s_header_value_start"})
  /\ CASE ch \in {SP, "TAB"} -> ~fail /\ Byte(Counted)
       [] ch \in {CR, LF} ->
            Step([Counted EXCEPT
                    !.index = 0,
                    !.header_state = IF ch = CR THEN h_general ELSE @,
                    !.state = IF ch = CR THEN "s_header_almost_done"
                                         ELSE "s_header_field_start"],
                 Clear("header_value"), CALLBACK_DATA(MARK("header_value"), "header_value", p),
                 "byte", p + 1, fail)
       [] OTHER -> ~fail /\ Step(ValueStart(Counted, ch), MARK("header_value"), <<>>,
                                 "byte", p + 1, FALSE)

HeaderValue(fail) ==
  /\ At({"s_header_value"})
  /\ IF ch \in {CR, LF}
     THEN Step([Counted EXCEPT !.state = "s_header_almost_done"],
               Clear("header_value"), CALLBACK_DATA(mark, "header_value", p),
               IF ch = CR THEN "byte" ELSE "again", IF ch = CR THEN p + 1 ELSE p, fail)
     ELSE /\ ~fail
          /\ Byte(Value(Counted, ch))

HeaderEnd ==
  \/ At({"s_header_almost_done"}) /\ Byte(HeaderAlmostDone(Counted))
  \/ /\ At({"s_header_value_lws"})
     /\ IF ch \in {SP, "TAB"}
        THEN Byte([Counted EXCEPT !.state = "s_header_value_start"])
        ELSE Step([Counted EXCEPT !.state = "s_header_field_start"], mark, <<>>, "again",
                  p, FALSE)

(* bug: trailers end like headers *)
TrailersAsHeaders(fail) ==
  /\ At({"s_headers_almost_done"})
  /\ Step([Counted EXCEPT !.state = "s_headers_done"], mark,
          CALLBACK_NOTIFY("headers_complete"), "again", p, fail)

(* The blank line after the headers, or after the trailers of chunks.      *)
HeadersAlmostDone(fail) ==
  /\ At({"s_headers_almost_done"})
  /\ IF "F_TRAILING" \in parser.flags
     THEN Step([Counted EXCEPT !.state = "s_start_req"], mark,
               CALLBACK_NOTIFY("message_complete"), "byte", p + 1, fail)
     ELSE Step([Counted EXCEPT
                  !.state = "s_headers_done",
                  !.upgrade = "F_UPGRADE" \in parser.flags \/ parser.method = "CONNECT"],
               mark, CALLBACK_NOTIFY("headers_complete"), "again", p, fail)

(* bug: a length of 0 waits for a body *)
WaitsForNothing(fail) ==
  /\ At({"s_headers_done"})
  /\ CASE "F_CHUNKED" \in parser.flags ->
            ~fail /\ Byte([Counted EXCEPT !.nread = 0, !.state = "s_chunk_size_start"])
       [] "F_CHUNKED" \notin parser.flags /\ parser.content_length = ULLONG_MAX ->
            Step([Counted EXCEPT !.nread = 0, !.state = "s_start_req"], mark,
                 CALLBACK_NOTIFY("message_complete"), "byte", p + 1, fail)
       [] OTHER -> ~fail /\ Byte([Counted EXCEPT !.nread = 0, !.state = "s_body_identity"])

(* What follows an upgrade is not parsed: the rest of the buffer is lost.  *)
HeadersDone(fail) ==
  LET r == [Counted EXCEPT !.nread = 0]
  IN  /\ At({"s_headers_done"})
      /\ CASE parser.upgrade ->
                Step([r EXCEPT !.state = "s_start_req"], mark,
                     CALLBACK_NOTIFY("message_complete"), "out", p + 1, fail)
           [] ~parser.upgrade /\ "F_CHUNKED" \in parser.flags ->
                ~fail /\ Byte([r EXCEPT !.state = "s_chunk_size_start"])
           [] ~parser.upgrade /\ "F_CHUNKED" \notin parser.flags
                /\ parser.content_length \in {0, ULLONG_MAX} ->
                Step([r EXCEPT !.state = "s_start_req"], mark,
                     CALLBACK_NOTIFY("message_complete"), "byte", p + 1, fail)
           [] OTHER -> ~fail /\ Byte([r EXCEPT !.state = "s_body_identity"])

(* As many bytes of a body as the buffer has.                              *)
Available == IF parser.content_length < Len(data) - p + 1
             THEN parser.content_length ELSE Len(data) - p + 1

BodyIdentity(fail) ==
  LET left == parser.content_length - Available
      r == [Counted EXCEPT !.content_length = left]
      end == p + Available
  IN  /\ At({"s_body_identity"})
      /\ IF left = 0
         THEN Step([r EXCEPT !.state = "s_message_done"], Clear("body"),
                   CALLBACK_DATA(MARK("body"), "body", end), "again", end - 1, fail)
         ELSE ~fail /\ Step(r, MARK("body"), <<>>, "byte", end, FALSE)

MessageDone(fail) ==
  /\ At({"s_message_done"})
  /\ Step([Counted EXCEPT !.state = "s_start_req"], mark,
          CALLBACK_NOTIFY("message_complete"), "byte", p + 1, fail)

ChunkLine == At(ChunkSizeStates) /\ Byte(ChunkSize(Counted, ch))

ChunkData(fail) ==
  LET left == parser.content_length - Available
  IN  /\ At(ChunkDataStates)
      /\ CASE parser.state = "s_chunk_data" ->
                ~fail /\ Step([Counted EXCEPT
                                 !.content_length = left,
                                 !.state = IF left = 0 THEN "s_chunk_data_almost_done" ELSE @],
                              MARK("body"), <<>>, "byte", p + Available, FALSE)
           [] parser.state = "s_chunk_data_almost_done" ->
                Step([Counted EXCEPT !.state = "s_chunk_data_done"], Clear("body"),
                     CALLBACK_DATA(mark, "body", p), "byte", p + 1, fail)
           [] OTHER -> ~fail /\ Byte([Counted EXCEPT !.nread = 0,
                                                     !.state = "s_chunk_size_start"])

(* After the last byte the data that is marked goes to its callback.       *)
EndOfBuffer(fail) ==
  LET rest(for) == CALLBACK_DATA(mark, for, p)
  IN  /\ go # "out" /\ p > Len(data)
      /\ Step(parser, NoMarks, rest("header_field") \o rest("header_value") \o rest("url")
                               \o rest("body"), "out", p, fail)

ParserStep(fail) ==
  \/ ~fail /\ (HeaderOverflow \/ RequestLine \/ UrlStart \/ HeaderFieldStart
               \/ HeaderEnd \/ ChunkLine)
  \/ UrlByte(fail) \/ HeaderField(fail) \/ HeaderValueStart(fail) \/ HeaderValue(fail)
  \/ HeadersAlmostDone(fail) \/ HeadersDone(fail) \/ BodyIdentity(fail)
  \/ MessageDone(fail) \/ ChunkData(fail) \/ EndOfBuffer(fail)

ParserInit ==
  /\ parser = Parser0 /\ data = <<>> /\ p = 1
  /\ mark = NoMarks /\ go = "out" /\ calls = <<>>
ParserNext == \/ \E bytes \in Seq(STRING) : Execute(bytes)
              \/ \E fail \in BOOLEAN : ParserStep(fail)
ParserSpec == ParserInit /\ [][ParserNext]_pvars

-----------------------------------------------------------------------------
(* Every assert of http_parser_execute holds when it is reached: of the    *)
(* marks that are left at the end of a buffer at most one is set; a value  *)
(* is not read in a state its first byte should have left; the length of a *)
(* body or chunk is known and not zero; and a chunk's size starts with the *)
(* header count just reset.                                                *)
Assertions ==
  go # "out" =>
    /\ p > Len(data) =>
         \A f, g \in DOMAIN mark : mark[f] # 0 /\ mark[g] # 0 => f = g
    /\ p <= Len(data) =>
         /\ parser.state = "s_header_field" =>
              parser.header_state \in Starts(FieldWords) \cup {h_general}
         /\ parser.state = "s_header_value" => parser.header_state # h_transfer_encoding
         /\ parser.state \in {"s_body_identity", "s_chunk_data"} =>
              parser.content_length \notin {0, ULLONG_MAX}
         /\ parser.state \in ChunkSizeStates \cup ChunkDataStates =>
              "F_CHUNKED" \in parser.flags
         /\ parser.state = "s_chunk_size_start" => Counted.nread = 1
         /\ parser.state = "s_chunk_data_almost_done" => parser.content_length = 0
=============================================================================
