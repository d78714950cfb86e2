------------------------------ MODULE Request ------------------------------
(***************************************************************************)
(* How a worker reads a request: the read loop of _handle_request,         *)
(* ext/event.c, which feeds what has arrived to http_parser (HttpParser);  *)
(* the callbacks of ext/request_parse.c, which build the Request with the  *)
(* help of Params and Multipart; and what the action sees of it.           *)
(*                                                                         *)
(* A client sends one message, net, whose bytes arrive in pieces.  The     *)
(* action starts when the headers are complete; it may wait for the body.  *)
(* Routing, the Accept header and answers are in other modules, closed     *)
(* connections and sleep in EventLoop.                                     *)
(***************************************************************************)
EXTENDS HttpParser, Params, Multipart

Text == Seq(STRING \ {"Qnil"}) \* of bytes: none is what Qnil has

CONSTANTS Messages \* what clients send: records with the fields
                   \*   bytes, the message; atonce, how many are read at once;
                   \*   and what the properties compare it with

ASSUME MessagesAssumption ==
  \A m \in Messages : m.bytes \in Text /\ m.bytes # <<>> /\ m.atonce \in 0..Len(m.bytes)

VARIABLES
  message, \* the message that the client sends
  net,     \* its bytes that are not read yet
  q,       \* the struct Request
  phase,   \* of the event loop: idle, read or dispatch; closed; raised
  fiber    \* the action: none, reading, done

rvars == <<message, net, q, phase, fiber>>
vars == <<pvars, rvars>>

Request0 == [method |-> "GET", path_with_query |-> Qnil, path |-> <<>>,
             query |-> EmptyHash, header |-> <<>>, last_field |-> Qnil,
             last_value |-> Qnil, last_key |-> Qnil, last_part |-> NoPart,
             body |-> Qnil, parse_state |-> "PS_INIT", mparser |-> NoMultipart,
             undefined |-> FALSE, raised |-> FALSE, torn |-> FALSE]

METHODS == FirstMethods \cup {t[4] : t \in Retargets}

-----------------------------------------------------------------------------
(* The callbacks                                                           *)

on_url(r, s) == [r EXCEPT !.method = parser.method,
                          !.path_with_query = IF @ = Qnil THEN s ELSE @ \o s]

on_header_field(r, s) ==
  IF r.last_field = Qnil THEN [r EXCEPT !.last_field = s, !.last_value = Qnil]
                         ELSE [r EXCEPT !.last_field = @ \o s]

(* bug: the value is not kept for its next piece *)
ForgetsValue(r, s) ==
  IF r.last_field # Qnil
  THEN [r EXCEPT !.header = rb_hash_aset(@, nyara_headerlize(r.last_field), s),
                 !.last_field = Qnil]
  ELSE [r EXCEPT !.parse_state = "PS_ERROR"]

(* The hash keeps the string that last_value is.                           *)
on_header_value(r, s) ==
  LET key(field) == nyara_headerlize(field)
  IN  IF r.last_field # Qnil
      THEN [r EXCEPT !.header = rb_hash_aset(@, key(r.last_field), s), !.last_value = s,
                     !.last_key = r.last_field, !.last_field = Qnil]
      ELSE IF r.last_value = Qnil THEN [r EXCEPT !.parse_state = "PS_ERROR"]
      ELSE [r EXCEPT !.last_value = @ \o s, !.header[key(r.last_key)] = @ \o s]

(* The query is read up to a pair that raises.  A POST may be overridden,  *)
(* by a value that is made upper case where it is.                         *)
_upcase_method(chars) ==
  [i \in DOMAIN chars |-> IF Octet(chars[i]) \in 97..122 THEN Ascii[Octet(chars[i]) - 63]
                                                        ELSE chars[i]]
_method == Chars("_method")
Overridden(r, meth) ==
  LET named == {m \in METHODS : Chars(m) = meth}
  IN  [r EXCEPT !.query = hash_aset(@, _method, AsString(meth)),
                !.method = IF named # {} THEN CHOOSE m \in named : TRUE ELSE @]
_parse_path_and_query(r) ==
  LET override(new) ==
        IF /\ r.method = "POST" /\ HasKey(new.query, _method)
           /\ "string" \in DOMAIN new.query.hash[_method]
        THEN Overridden(new, _upcase_method(new.query.hash[_method].string)) ELSE new
      with(read, path) == override([r EXCEPT !.path = @ \o path, !.query = read.output,
                                             !.undefined = read.error = "undefined"])
      split(parsed) ==
        IF parsed.query = <<>> THEN [r EXCEPT !.path = @ \o parsed.path]
        ELSE with(param_hash_parse_param(r.query, parsed.query), parsed.path)
  IN  split(nyara_parse_path(r.path_with_query))

(* \Amultipart/.*boundary="?([^";,]+)"?                                    *)
_parse_multipart_boundary(header) ==
  LET type == <<"Content-", "Type">>
      value == header[type]
      at == SelectLastInSeq(value, LAMBDA c : c = "boundary=")
      rest == SubSeq(value, at + 1, Len(value))
      from == IF rest # <<>> /\ rest[1] = "\"" THEN 2 ELSE 1
      stop == SelectInSubSeq(rest, from, Len(rest), LAMBDA c : c \in {"\"", ";", ","})
      boundary == SubSeq(rest, from, IF stop = 0 THEN Len(rest) ELSE stop - 1)
  IN  IF type \in DOMAIN header /\ value # <<>> /\ value[1] = "multipart/" /\ at # 0
      THEN boundary ELSE <<>>

on_headers_complete(r) ==
  LET boundary == _parse_multipart_boundary(r.header)
  IN  [_parse_path_and_query(r) EXCEPT
         !.last_field = Qnil, !.last_value = Qnil, !.body = <<>>,
         !.parse_state = "PS_HEADERS_COMPLETE",
         !.mparser = IF boundary = <<>> THEN @
                     ELSE multipart_parser_init(<<"-", "-">> \o boundary)]

(* It raises if the multipart parser stops early.  torn is history: a piece*)
(* of the body ended where that parser loses the bytes of a name, after "-",*)
(* or emits a value twice, after its CR.                                   *)
Multi(r) == r.mparser.state # "NULL"
on_body(r, s) ==
  LET taken(acc) ==
        [acc.q EXCEPT !.mparser = acc.mp, !.raised = acc.stopped,
                      !.torn = \/ @ \/ acc.mp.state = "s_header_value_almost_done"
                               \/ acc.mp.state = "s_header_field" /\ Last(s) = "-"]
  IN  IF ~Multi(r) THEN [r EXCEPT !.body = @ \o s]
      ELSE taken(multipart_parser_execute(r.mparser, r, s))

Callback(r, call) ==
  CASE call.on = "url" -> on_url(r, call.data)
    [] call.on = "header_field" -> on_header_field(r, call.data)
    [] call.on = "header_value" -> on_header_value(r, call.data)
    [] call.on = "headers_complete" -> on_headers_complete(r)
    [] call.on = "body" -> on_body(r, call.data)
    [] call.on = "message_complete" -> [r EXCEPT !.parse_state = "PS_MESSAGE_COMPLETE"]

-----------------------------------------------------------------------------
(* The event loop                                                          *)

Init ==
  /\ ParserInit
  /\ message \in Messages /\ net = message.bytes
  /\ q = Request0 /\ phase = "idle" /\ fiber = "none"

(* An event: a message that is complete is not read further.               *)
Event ==
  /\ phase = "idle"
  /\ phase' = IF q.parse_state \in {"PS_INIT", "PS_HEADERS_COMPLETE"}
              THEN "read" ELSE "dispatch"
  /\ UNCHANGED <<pvars, message, net, q, fiber>>

(* read() returns some of the bytes that have arrived.                     *)
Read(k) ==
  /\ phase = "read" /\ go = "out"
  /\ net = message.bytes => k >= message.atonce
  /\ Execute(SubSeq(net, 1, k))
  /\ net' = SubSeq(net, k + 1, Len(net))
  /\ UNCHANGED <<message, q, phase, fiber>>

(* A step of http_parser_execute with the callbacks it runs.  What one     *)
(* raises unwinds the event loop: the worker ends; so it may where what    *)
(* happens is undefined.                                                   *)
Parse ==
  /\ phase = "read"
  /\ \E fail \in BOOLEAN :
       /\ ParserStep(fail)
       /\ q' = FoldLeft(Callback, q, calls')
       /\ fail = (q.parse_state # "PS_ERROR" /\ q'.parse_state = "PS_ERROR")
  /\ \/ phase' = IF q'.raised THEN "raised" ELSE phase
     \/ q'.undefined /\ ~q.undefined /\ phase' = "raised"
  /\ UNCHANGED <<message, net, fiber>>

(* Nothing more has arrived yet: EAGAIN.                                   *)
EAGAIN ==
  /\ phase = "read" /\ go = "out"
  /\ Len(net) + message.atonce <= Len(message.bytes)
  /\ phase' = "dispatch"
  /\ UNCHANGED <<pvars, message, net, q, fiber>>

(* The action starts, or goes on.  It ends, upon which the connection is   *)
(* closed, or waits for the body with request.body, which returns when the *)
(* message is complete.                                                    *)
Dispatch ==
  /\ phase = "dispatch"
  /\ \/ q.parse_state = "PS_INIT" /\ phase' = "idle" /\ UNCHANGED fiber
     \/ /\ q.parse_state # "PS_INIT"
        /\ fiber' \in {"reading", "done"}
        /\ fiber' = "reading" => q.parse_state # "PS_MESSAGE_COMPLETE"
        /\ fiber = "reading" /\ fiber' = "done" => q.parse_state = "PS_MESSAGE_COMPLETE"
        /\ phase' = IF fiber' = "done" THEN "closed" ELSE "idle"
  /\ UNCHANGED <<pvars, message, net, q>>

Next == Event \/ (\E k \in 1..Len(net) : Read(k)) \/ Parse \/ EAGAIN \/ Dispatch
Spec == Init /\ [][Next]_vars

-----------------------------------------------------------------------------
(* Properties                                                              *)

TypeOK ==
  /\ parser.content_length \in 0..ULLONG_MAX
  /\ parser.nread \in 0..HTTP_MAX_HEADER_SIZE + 1
  /\ q.method \in METHODS
  /\ q.parse_state \in {"PS_INIT", "PS_HEADERS_COMPLETE", "PS_MESSAGE_COMPLETE", "PS_ERROR"}
  /\ phase \in {"idle", "read", "dispatch", "closed", "raised"}
  /\ fiber \in {"none", "reading", "done"}

(* The callbacks of http_parser never come in an order in which            *)
(* on_header_value knows no header for a value: PS_ERROR, in which a       *)
(* request would wait forever, does not happen (request_parse.c:110),      *)
(* unless it is the multipart parser's and on_body raises.                 *)
NeverError == phase # "raised" => q.parse_state # "PS_ERROR"

(* Whatever the pieces in which a message arrives, chunked or not, it is   *)
(* read as it was sent: its method, path and headers when it is complete,  *)
(* and its body, of which the action never has anything but a first part.  *)
ReadAsSent ==
  message.legal /\ q.parse_state \in {"PS_HEADERS_COMPLETE", "PS_MESSAGE_COMPLETE"} =>
    /\ q.method = message.method /\ q.path = message.path
    /\ ~Multi(q) => IsPrefix(q.body, message.body)
    /\ q.parse_state = "PS_MESSAGE_COMPLETE" /\ ~Multi(q) => q.body = message.body
    /\ q.parse_state = "PS_MESSAGE_COMPLETE" \/ ~message.trailers =>
         q.header = message.header

(* A message that has arrived to its last byte is complete when the loop   *)
(* over read() ends: nothing more would come that could complete it, and   *)
(* client and action would wait for each other.                            *)
NothingMissing ==
  message.legal /\ net = <<>> /\ phase = "dispatch" =>
    q.parse_state = "PS_MESSAGE_COMPLETE"

(* What the action was started with, and routed by, does not change under  *)
(* it while the rest of its message is read, but for what trailers add to  *)
(* the header; and what it has of the body is only added to.               *)
HeadStable ==
  [][q.parse_state = "PS_HEADERS_COMPLETE" =>
       /\ q'.method = q.method /\ q'.path = q.path /\ q'.query = q.query
       /\ q'.header # q.header => "F_TRAILING" \in parser.flags
       /\ IsPrefix(q.body, q'.body)]_vars

(* Every byte of a url, of a header's name and of its value reaches the    *)
(* request once and in its place, wherever the pieces of a message end: it *)
(* is held in the buffer, or it is with what the callbacks were given.  A  *)
(* name is taken by its value, as the key that the value has.              *)
Held(for) == IF mark[for] = 0 THEN <<>> ELSE SubSeq(data, mark[for], p - 1)
Given(s) == IF s = Qnil THEN <<>> ELSE s
UrlSoFar == Given(q.path_with_query) \o Held("url")
NameSoFar == Given(q.last_field) \o Held("header_field")
ValueSoFar == (IF q.last_field # Qnil THEN <<>> ELSE q.header[nyara_headerlize(q.last_key)])
              \o Held("header_value")

NameStates == {"s_header_field_start", "s_header_field"}
ValueStates == {"s_header_value_start", "s_header_value", "s_header_almost_done",
                "s_header_value_lws"}
Takes(states, ends) ==
  go # "out" /\ p <= Len(data) /\ parser.state \in states /\ ch \notin ends
TakesUrl == Takes(UrlStates \cup {"s_req_spaces_before_url"}, {SP, CR, LF})
TakesName == \/ Takes({"s_header_field_start"}, {CR, LF})
             \/ Takes({"s_header_field"}, {":", CR, LF})
TakesValue == \/ Takes({"s_header_value_start"}, {SP, "TAB", CR, LF})
              \/ Takes({"s_header_value"}, {CR, LF})
With(s, taken) == IF taken THEN Append(s, ch) ELSE s
PiecesJoin ==
  [][parser'.http_errno = "HPE_OK" =>
       /\ UrlSoFar' = With(UrlSoFar, TakesUrl)
       /\ parser.state \in NameStates \cup ValueStates =>
            \/ NameSoFar' = With(NameSoFar, TakesName)
            \/ NameSoFar' = <<>> /\ q.last_field # Qnil /\ q'.last_key = NameSoFar
       /\ parser.state \in ValueStates => ValueSoFar' = With(ValueSoFar, TakesValue)]_vars

(* What a client can make the worker keep before an action starts is       *)
(* bounded by the limit of http_parser, in however many pieces it comes:   *)
(* its url, the values of its header and the name that is being read.  (The*)
(* names that became keys are not counted; each was one of the latter.)    *)
Kept(r) == (IF r.path_with_query = Qnil THEN 0 ELSE Len(r.path_with_query))
  + FoldFunction(LAMBDA value, n : n + Len(value), 0, r.header)
  + (IF r.last_field = Qnil THEN 0 ELSE Len(r.last_field))
HeadBounded ==
  q.parse_state = "PS_INIT" => Kept(q) <= HTTP_MAX_HEADER_SIZE

(* The parts of a multipart body are those that were sent, though they may *)
(* hold what looks like the start of a boundary, and whatever the pieces,  *)
(* but for the two places at which a piece Tears a header.                 *)
PartsAsSent ==
  message.legal /\ Multi(q) /\ ~q.torn =>
    /\ IsPrefix(q.body, message.parts)
    /\ q.parse_state = "PS_MESSAGE_COMPLETE" => q.body = message.parts

(* A query is read as it was written: the last value of a name is at its   *)
(* place, in hashes and arrays.  Where a name takes for a hash, an array or*)
(* a value what an earlier one made another, the pairs before are kept,    *)
(* but for those in what a name without the rest of theirs replaces.       *)
Clash(j, k) == \E i \in 2..Len(k) :
  /\ i - 1 <= Len(j) /\ SubSeq(j, 1, i - 1) = SubSeq(k, 1, i - 1)
  /\ i <= Len(j) => (j[i] = <<>>) # (k[i] = <<>>)
Clashing(pairs) == {i \in DOMAIN pairs : \E h \in 1..i - 1 : Clash(pairs[h].name, pairs[i].name)}
Agreed(pairs) == IF Clashing(pairs) = {} THEN pairs
                 ELSE SubSeq(pairs, 1, Min(Clashing(pairs)) - 1)
Replaced(pairs, i) == \E h \in i + 1..Len(pairs) : IsStrictPrefix(pairs[h].name, pairs[i].name)
LastOf(pairs, name) == Last(SelectSeq(pairs, LAMBDA x : x.name = name))
Agrees(query, pairs) ==
  \A i \in DOMAIN pairs : ~Replaced(pairs, i) =>
    param_hash_nested_aref(query, pairs[i].name) = AsString(LastOf(pairs, pairs[i].name).value)
QueryAsSent ==
  message.legal /\ phase = "dispatch" /\ q.parse_state # "PS_INIT" =>
    Agrees(q.query, Agreed(message.pairs))

(* Of the cookies of one name the first one is read, the most specific one *)
(* by the order that clients send them in (hashes.c:276).                  *)
CookiesAsSent ==
  LET first(name) == SelectSeq(message.cookies, LAMBDA x : x.name = name)[1]
      agrees(read) == \A i \in DOMAIN message.cookies :
        read.output.hash[message.cookies[i].name] = AsString(first(message.cookies[i].name).value)
  IN  message.legal /\ phase = "dispatch" /\ message.cookies # <<>> =>
        agrees(param_hash_parse_cookie(EmptyHash, q.header[<<"Cookie">>]))
=============================================================================
