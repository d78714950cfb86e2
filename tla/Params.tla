------------------------------- MODULE Params -------------------------------
(***************************************************************************)
(* What is read out of urls, query strings, forms and cookies:             *)
(* ext/url_encoded.c and the parts of ext/hashes.c that build a ParamHash. *)
(* A string is a sequence of characters.  A ParamHash is a value           *)
(*   [hash |-> function], [array |-> sequence] or [string |-> characters]. *)
(* Left out are classes and encodings, symbols as keys, and octets that are*)
(* no printable characters, which stay escaped.                            *)
(* Definitions marked "bug" are not part of the model.                     *)
(***************************************************************************)
EXTENDS Naturals, Sequences, SequencesExt, TLC, Symbols

(* The characters from octet 32 on.                                        *)
Ascii == Chars(" !\"#$%&'()*+,-./0123456789:;<=>?@ABCDEFGHIJKLMNOPQRSTUVWXYZ[\\]^_")
         \o <<"backquote">> \o Chars("abcdefghijklmnopqrstuvwxyz{|}~")
Octet(c) == 31 + (CHOOSE i \in DOMAIN Ascii : Ascii[i] = c)
_hex_char(n) == Ascii[IF n < 10 THEN n + 17 ELSE n + 24]

-----------------------------------------------------------------------------
(* ext/url_encoded.c                                                       *)

(* "%" and two hexadecimal digits; an octet without a character here stays *)
(* what it is.                                                             *)
IsEscape(s, i) == /\ s[i] = "%" /\ i + 2 <= Len(s)
                  /\ IS_HEX(s[i + 1]) /\ IS_HEX(s[i + 2])
Unescaped(s, i) == LET n == 16 * Unhex(s[i + 1]) + Unhex(s[i + 2])
                   IN  IF n - 31 \in DOMAIN Ascii THEN <<Ascii[n - 31]>>
                       ELSE SubSeq(s, i, i + 2)

(* The decoded text up to the first character of stops, and the place of   *)
(* the next one.  Characters in plain stand for themselves.                *)
Decode(s, stops, plus) ==
  LET read(acc, i) ==
        IF i < acc.next \/ acc.done THEN acc ELSE
        CASE IsEscape(s, i) -> [acc EXCEPT !.text = @ \o Unescaped(s, i), !.next = i + 3]
          [] ~IsEscape(s, i) /\ s[i] \in stops -> [acc EXCEPT !.done = TRUE, !.next = i + 1]
          [] OTHER -> [acc EXCEPT !.text = Append(@, IF s[i] = "+" THEN plus ELSE s[i]),
                                  !.next = i + 1]
  IN  Run(read, [text |-> <<>>, next |-> 1, done |-> FALSE], Len(s))

(* bug: "+" stays what it is, as in a path *)
KeepsPlus(s, stop_char) == Decode(s, {stop_char}, "+")
_decode_url_seg(s, stop_char) == Decode(s, {stop_char}, " ")

Index(s, chars) == SelectInSeq(s, LAMBDA c : c \in chars)
From(s, i) == SubSeq(s, i, Len(s))

(* The path without its matrix parameters, and the query after the "?".    *)
AfterMark(s) == IF Index(s, {"?"}) = 0 THEN <<>> ELSE From(s, Index(s, {"?"}) + 1)
nyara_parse_path(s) ==
  LET split(path, after) ==
        [path |-> path.text,
         query |-> IF path.done /\ s[path.next - 1] = ";" THEN AfterMark(after) ELSE after]
      decoded(path) == split(path, From(s, path.next))
  IN  decoded(Decode(s, {"?", ";"}, "+"))

_lstrip(s) == LET i == SelectInSeq(s, LAMBDA c : c # " ")
              IN  IF i = 0 THEN <<>> ELSE From(s, i)
_rstrip(s) == SubSeq(s, 1, SelectLastInSeq(s, LAMBDA c : c # " "))

(* key=value; without "=" the value is blank.                              *)
nyara_decode_uri_kv(kv) ==
  LET pair(key, value, value_s) ==
        [key |-> key.text, value |-> value.text, raised |-> value.next <= Len(value_s)]
      decode(key_s, value_s) ==
        pair(_decode_url_seg(key_s, "="), _decode_url_seg(value_s, "&"), value_s)
      split(eq) ==
        decode(_rstrip(IF eq = 0 THEN kv ELSE SubSeq(kv, 1, eq - 1)),
               IF eq = 0 THEN <<>> ELSE _lstrip(From(kv, eq + 1)))
  IN  split(Index(kv, {"="}))

(* Escaping for a path, which leaves "/" and "+", and for a component.     *)
Alnum == {c \in ToSet(Ascii) : \/ Octet(c) \in 48..57 \/ Octet(c) \in 65..90
                               \/ Octet(c) \in 97..122}
_should_escape(c) == c \notin Alnum \cup {"_", ".", "-"}
_concat_char(c, ispath) ==
  CASE ~ispath /\ c = " " -> <<"+">>
    [] (ispath \/ c # " ") /\ _should_escape(c) /\ ~(ispath /\ c \in {"+", "/"}) ->
         <<"%", _hex_char(Octet(c) \div 16), _hex_char(Octet(c) % 16)>>
    [] OTHER -> <<c>>
ext_escape(s, ispath) == FlattenSeq([i \in DOMAIN s |-> _concat_char(s[i], ispath)])
ext_unescape(s, ispath) ==
  IF ispath THEN nyara_parse_path(s).path ELSE _decode_url_seg(s, "=").text

-----------------------------------------------------------------------------
(* ext/hashes.c                                                            *)

EmptyHash == [hash |-> <<>>]
IsHash(v) == "hash" \in DOMAIN v
IsArray(v) == "array" \in DOMAIN v
HasKey(v, k) == IsHash(v) /\ k \in DOMAIN v.hash
AsString(chars) == [string |-> chars]
hash_aset(v, k, x) == [hash |-> (k :> x) @@ v.hash]

(* a[b][] is the keys a, b and the blank one, which stands for an array.  A*)
(* bad name, which raises, has no keys.                                    *)
BadName == <<>>
BadBracket(inner, i) == \/ inner[i] = "[" /\ (i = 1 \/ inner[i - 1] # "]")
                        \/ inner[i] = "]" /\ (i = Len(inner) \/ inner[i + 1] # "[")
InnerKeys(inner, closes) ==
  [n \in 1..Len(closes) + 1 |->
     SubSeq(inner, IF n = 1 THEN 1 ELSE closes[n - 1] + 2,
                   IF n > Len(closes) THEN Len(inner) ELSE closes[n] - 1)]
_split_name(name) ==
  LET keys(first, inner) ==
        IF Last(name) # "]" \/ \E i \in DOMAIN inner : BadBracket(inner, i) THEN BadName
        ELSE <<first>> \o InnerKeys(inner, SelectSeq([i \in DOMAIN inner |-> i],
                                                    LAMBDA i : inner[i] = "]"))
      split(open) ==
        CASE name = <<>> -> BadName
          [] name # <<>> /\ open = 0 -> <<name>>
          [] open = 1 \/ (open > 1 /\ name[open] = "]") -> BadName
          [] open > 1 /\ name[open] = "[" ->
               keys(SubSeq(name, 1, open - 1), SubSeq(name, open + 1, Len(name) - 1))
  IN  split(Index(name, {"[", "]"}))

param_hash_nested_aref(v, keys) ==
  LET get(obj, key) ==
        CASE key # <<>> /\ HasKey(obj, key) -> obj.hash[key]
          [] key = <<>> /\ IsArray(obj) /\ obj.array # <<>> -> Last(obj.array)
          [] OTHER -> [nil |-> TRUE]
  IN  Run(LAMBDA obj, i : get(obj, keys[i]), v, Len(keys))

(* The way down the keys before the last: the values passed, each with the *)
(* place that the next one has in it.  Where the last element of an array  *)
(* has to be a hash it is looked into without a check that it is one; then *)
(* what happens is undefined.                                              *)
Raised == [raised |-> TRUE]
Undefined == [undefined |-> TRUE]
Down(acc, v, slot) == [way |-> Append(acc.way, [in |-> acc.at, slot |-> slot]),
                       at |-> v, failed |-> ""]
NewChild(acc, next, slot) == Down(acc, IF next = <<>> THEN [array |-> <<>>] ELSE EmptyHash, slot)
Existing(acc, next, v, slot) ==
  IF (IF next = <<>> THEN IsArray(v) ELSE IsHash(v)) THEN Down(acc, v, slot)
  ELSE [acc EXCEPT !.failed = "raised"]

(* An element of an array takes the last pair, unless it has the key.      *)
LastElement(acc, next, v, slot) ==
  CASE ~IsHash(v) -> [acc EXCEPT !.failed = "undefined"]
    [] HasKey(v, next) -> Down(acc, EmptyHash, slot + 1)
    [] IsHash(v) /\ ~HasKey(v, next) -> Down(acc, v, slot)
Descend(acc, keys, i) ==
  LET key == keys[i]
      next == keys[i + 1]
      v == acc.at
      full == Len(v.array)
  IN  CASE key # <<>> /\ HasKey(v, key) -> Existing(acc, next, v.hash[key], key)
        [] key # <<>> /\ ~HasKey(v, key) -> NewChild(acc, next, key)
        [] key = <<>> /\ v.array = <<>> -> NewChild(acc, next, 1)
        [] key = <<>> /\ v.array # <<>> ->
             IF i = Len(keys) - 1 /\ next # <<>> THEN LastElement(acc, next, v.array[full], full)
                                                 ELSE Existing(acc, next, v.array[full], full)

Put(v, slot, x) == IF IsHash(v) THEN hash_aset(v, slot, x)
                   ELSE IF slot > Len(v.array) THEN [array |-> Append(v.array, x)]
                   ELSE [array |-> [v.array EXCEPT ![slot] = x]]
PutLast(v, key, x) == Put(v, IF key = <<>> THEN Len(v.array) + 1 ELSE key, x)
_nested_aset(output, keys, value) ==
  LET down(acc, i) == IF acc.failed # "" THEN acc ELSE Descend(acc, keys, i)
      up(way, leaf) ==
        Run(LAMBDA x, i : Put(way[Len(way) + 1 - i].in, way[Len(way) + 1 - i].slot, x),
            leaf, Len(way))
      set(acc) == CASE acc.failed = "raised" -> Raised
                    [] acc.failed = "undefined" -> Undefined
                    [] OTHER -> up(acc.way, PutLast(acc.at, Last(keys), value))
  IN  IF keys[1] = <<>> THEN Raised
      ELSE set(Run(down, [way |-> <<>>, at |-> output, failed |-> ""], Len(keys) - 1))

(* The segments of s between characters of seps, blank ones left out.      *)
Segments(s, seps) ==
  LET cut(acc, i) == IF s[i] \in seps THEN Append(acc, <<>>)
                     ELSE [acc EXCEPT ![Len(acc)] = Append(@, s[i])]
  IN  SelectSeq(Run(cut, << <<>> >>, Len(s)), LAMBDA seg : _lstrip(seg) # <<>>)
_strip(s) == _rstrip(_lstrip(s))

(* A hash and whether a pair raised, after which nothing more is read.     *)
Parsed(output, error) == [output |-> output, error |-> error]
_param_kv(output, segment) ==
  LET result(new) == CASE new = Raised -> Parsed(output, "raised")
                       [] new = Undefined -> Parsed(output, "undefined")
                       [] OTHER -> Parsed(new, "")
      nested(keys, value) ==
        IF keys = BadName THEN Raised ELSE _nested_aset(output, keys, AsString(value))
      set(kv) == result(IF kv.raised THEN Raised ELSE nested(_split_name(kv.key), kv.value))
  IN  set(nyara_decode_uri_kv(_strip(segment)))
param_hash_parse_param(output, str) ==
  LET each(segments) ==
        Run(LAMBDA acc, i : IF acc.error # "" THEN acc ELSE _param_kv(acc.output, segments[i]),
            Parsed(output, ""), Len(segments))
  IN  each(Segments(str, {"&", ";"}))

(* bug: cookies are read from the first to the last *)
ForwardCookies(output, str) ==
  LET set(acc, segment) ==
        LET kv == nyara_decode_uri_kv(_strip(segment))
        IN  Parsed(hash_aset(acc.output, kv.key, AsString(kv.value)), "")
  IN  FoldLeft(set, Parsed(output, ""), Segments(str, {",", ";"}))

(* Cookies are read from the last to the first, so the first one stays.    *)
(* One character before the first separator is not read.                   *)
_cookie_kv(output, segment) ==
  LET set(kv) == IF kv.raised THEN Parsed(output, "raised")
                 ELSE Parsed(hash_aset(output, kv.key, AsString(kv.value)), "")
  IN  set(nyara_decode_uri_kv(_strip(segment)))
param_hash_parse_cookie(output, str) ==
  LET each(segments) ==
        Run(LAMBDA acc, i : IF acc.error # "" THEN acc
                            ELSE _cookie_kv(acc.output, segments[Len(segments) + 1 - i]),
            Parsed(output, ""), Len(segments))
      from(sep) == IF sep = 2 \/ (sep = 0 /\ Len(str) = 1) THEN From(str, 2) ELSE str
  IN  each(Segments(from(Index(str, {",", ";"})), {",", ";"}))
=============================================================================
