----------------------------- MODULE Multipart -----------------------------
(***************************************************************************)
(* multipart_parser_execute, ext/multipart-parser-c/multipart_parser.c, and*)
(* the callbacks that Nyara gives it, ext/request_parse.c.  A parser is a  *)
(* record, and q is the request, of which its callbacks change the fields  *)
(*   last_field, last_value, last_key, last_part, body and parse_state.    *)
(* A part is its head and its data; the decoding of lib/nyara/part.rb is   *)
(* left out.  Definitions marked "bug" are not part of the model.          *)
(***************************************************************************)
EXTENDS Naturals, Sequences, SequencesExt, TLC, Symbols

Qnil == <<"Qnil">>
NoPart == [kind |-> "nil", head |-> <<>>, data |-> <<>>]

(* The parts of a name with a capital first and small letters after it.    *)
nyara_headerlize(name) ==
  [i \in DOMAIN name |-> IF i = 1 \/ name[i - 1] \in Hyphened
                         THEN UPPER(name[i]) ELSE LOWER(name[i])]

(* A hash with a value for a key, in place of the one it may have.         *)
rb_hash_aset(hash, key, value) ==
  [k \in DOMAIN hash \cup {key} |-> IF k = key THEN value ELSE hash[k]]

-----------------------------------------------------------------------------
(* The callbacks                                                           *)

mp_header_field(q, s) ==
  [q EXCEPT !.last_part = IF @.kind = "nil" THEN [@ EXCEPT !.kind = "hash"] ELSE @,
            !.last_field = IF @ = Qnil THEN s ELSE @ \o s,
            !.last_value = IF q.last_field = Qnil THEN Qnil ELSE @]

(* The head keeps the string that last_value is: what is added to it later *)
(* is in the head, too.                                                    *)
mp_header_value(q, s) ==
  IF q.last_field # Qnil
  THEN [q EXCEPT !.last_part.head = rb_hash_aset(@, nyara_headerlize(q.last_field), s),
                 !.last_value = s, !.last_field = Qnil, !.last_key = q.last_field]
  ELSE IF q.last_value = Qnil THEN [q EXCEPT !.parse_state = "PS_ERROR"]
  ELSE LET key == nyara_headerlize(q.last_key)
       IN  [q EXCEPT !.last_value = @ \o s, !.last_part.head[key] = @ \o s]

mp_headers_complete(q) ==
  [q EXCEPT !.last_field = Qnil, !.last_value = Qnil, !.last_part.kind = "part"]
mp_part_data(q, s) == [q EXCEPT !.last_part.data = @ \o s]
mp_part_data_end(q) ==
  [q EXCEPT !.body = Append(@, [head |-> q.last_part.head, data |-> q.last_part.data]),
            !.last_part = NoPart]

-----------------------------------------------------------------------------
(* The parser                                                              *)

multipart_parser_init(boundary) ==
  [state |-> "s_start", index |-> 0, boundary |-> boundary]
NoMultipart == [state |-> "NULL", index |-> 0, boundary |-> <<>>]

(* bug: only what was matched of the boundary *)
WithoutCRLF(mp) == SubSeq(mp.boundary, 1, mp.index)

(* CR LF and what was matched of a boundary                                *)
lookbehind(mp) == <<CR, LF>> \o SubSeq(mp.boundary, 1, mp.index)

(* What a byte does in the state that it is executed in: acc is the parser,*)
(* the fields q, the mark, and whether the call returned early.            *)
To(acc, state) == [acc EXCEPT !.mp.state = state]
Stop(acc) == [acc EXCEPT !.stopped = TRUE]
Emitted(acc, q) == [acc EXCEPT !.q = q, !.stopped = q.parse_state = "PS_ERROR"]
Expect(acc, is, state) == IF is THEN To(acc, state) ELSE Stop(acc)

StartBoundary(acc, c) ==
  LET next(a, mp, n) ==
        IF mp.index = n + 1
        THEN Expect([a EXCEPT !.mp.index = 0], c = LF, "s_header_field_start")
        ELSE Expect([a EXCEPT !.mp.index = @ + 1],
                    c = (IF mp.index = n THEN CR ELSE mp.boundary[mp.index + 1]),
                    "s_start_boundary")
      from(a) == next(a, a.mp, Len(a.mp.boundary))
  IN  from(IF acc.mp.state = "s_start" THEN [acc EXCEPT !.mp.index = 0] ELSE acc)

HeaderName(acc, buf, i) ==
  LET emit(a, to) == [a EXCEPT !.q = mp_header_field(@, SubSeq(buf, a.mark, to))]
      read(a, c) ==
        CASE c = CR -> To(a, "s_headers_almost_done")
          [] c = "-" -> a
          [] c = ":" -> To(emit(a, i - 1), "s_header_value_start")
          [] IS_ALPHA(c) -> IF i = Len(buf) THEN emit(a, i) ELSE a
          [] OTHER -> Stop(a)
  IN  read(IF acc.mp.state = "s_header_field_start"
           THEN [To(acc, "s_header_field") EXCEPT !.mark = i] ELSE acc, buf[i])

(* A value that ends with the buffer is emitted; so is one whose CR is the *)
(* last byte of the buffer, which was emitted just before.  A callback that*)
(* knows no header for the value stops the call.                           *)
HeaderContent(acc, buf, i) ==
  LET emit(a, to) == Emitted(a, mp_header_value(a.q, SubSeq(buf, a.mark, to)))
      end(a) == IF i = Len(buf) THEN emit(a, i) ELSE a
      read(a) == end(IF buf[i] = CR THEN To(emit(a, i - 1), "s_header_value_almost_done") ELSE a)
  IN  IF acc.mp.state = "s_header_value" THEN read(acc)
      ELSE IF buf[i] = SP THEN acc
      ELSE read([To(acc, "s_header_value") EXCEPT !.mark = i])

PartData(acc, buf, i) ==
  LET emit(to) == [acc EXCEPT !.q = mp_part_data(@, SubSeq(buf, acc.mark, to))]
  IN  IF buf[i] = CR
      THEN [To(emit(i - 1), "s_part_data_almost_boundary") EXCEPT !.mark = i]
      ELSE IF i = Len(buf) THEN emit(i) ELSE acc

(* The first byte of the data of a part without headers raises: there is no*)
(* head to make a part of.                                                 *)
PartDataStart(acc, buf, i) ==
  IF acc.q.last_part.kind = "nil" THEN Stop(acc)
  ELSE PartData([To(acc, "s_part_data") EXCEPT !.mark = i, !.q = mp_headers_complete(@)],
                buf, i)

(* What looked like a boundary is data after all: the byte is looked at    *)
(* again.                                                                  *)
NoBoundary(acc, s, buf, i) ==
  PartData([To(acc, "s_part_data") EXCEPT !.mark = i, !.q = mp_part_data(@, s)], buf, i)

Boundary(acc, buf, i) ==
  LET matched(a) == IF a.mp.index < Len(a.mp.boundary) THEN a
                    ELSE [To(a, "s_part_data_almost_end") EXCEPT !.q = mp_part_data_end(@)]
  IN  IF buf[i] = acc.mp.boundary[acc.mp.index + 1] THEN matched([acc EXCEPT !.mp.index = @ + 1])
      ELSE NoBoundary(acc, lookbehind(acc.mp), buf, i)

MultipartByte(acc, buf, i) ==
  LET c == buf[i]
      s == acc.mp.state
  IN  CASE s \in {"s_start", "s_start_boundary"} -> StartBoundary(acc, c)
        [] s \in {"s_header_field_start", "s_header_field"} -> HeaderName(acc, buf, i)
        [] s = "s_headers_almost_done" -> Expect(acc, c = LF, "s_part_data_start")
        [] s \in {"s_header_value_start", "s_header_value"} -> HeaderContent(acc, buf, i)
        [] s = "s_header_value_almost_done" -> Expect(acc, c = LF, "s_header_field_start")
        [] s = "s_part_data_start" -> PartDataStart(acc, buf, i)
        [] s = "s_part_data" -> PartData(acc, buf, i)
        [] s = "s_part_data_almost_boundary" ->
             IF c = LF THEN [To(acc, "s_part_data_boundary") EXCEPT !.mp.index = 0]
                       ELSE NoBoundary(acc, <<CR>>, buf, i)
        [] s = "s_part_data_boundary" -> Boundary(acc, buf, i)
        [] s = "s_part_data_almost_end" ->
             IF c = "-" THEN To(acc, "s_part_data_final_hyphen")
                        ELSE Expect(acc, c = CR, "s_part_data_end")
        [] s = "s_part_data_final_hyphen" -> Expect(acc, c = "-", "s_end")
        [] s = "s_part_data_end" -> Expect(acc, c = LF, "s_header_field_start")
        [] s = "s_end" -> acc

(* A call starts with the mark at its first byte.  If it stops before the  *)
(* last byte its caller raises.                                            *)
multipart_parser_execute(mp, q, buf) ==
  Run(LAMBDA acc, i : IF acc.stopped THEN acc ELSE MultipartByte(acc, buf, i),
      [mp |-> mp, q |-> q, mark |-> 1, stopped |-> FALSE], Len(buf))
=============================================================================
