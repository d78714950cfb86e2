------------------------------ MODULE Symbols ------------------------------
(***************************************************************************)
(* The bytes of a request, as the modules of the request's parsers see     *)
(* them: a byte is a symbol, which is a character, or a hunk of a header's *)
(* name or value that is read as one, as "Content-" and "Length", "HTTP/"  *)
(* or the version.  A text is a sequence of symbols.                       *)
(***************************************************************************)
EXTENDS Naturals, Sequences

CR == "CR"
LF == "LF"
SP == " "
(* step, from base, for each of 1..n in turn                               *)
Run(step(_, _), base, n) ==
  LET at[i \in 0..n] == IF i = 0 THEN base ELSE step(at[i - 1], i) IN at[n]

Chars(string) == [i \in 1..Len(string) |-> SubSeq(string, i, i)]
Characters(string) == {SubSeq(string, i, i) : i \in 1..Len(string)}

Letters == Characters("abcdefghijklmnopqrstuvwxyzABCDEFGHIJKLMNOPQRSTUVWXYZ")
IS_ALPHA(c) == c \in Letters
Hex == <<{"0"}, {"1"}, {"2"}, {"3"}, {"4"}, {"5"}, {"6"}, {"7"}, {"8"}, {"9"},
         {"A", "a"}, {"B", "b"}, {"C", "c"}, {"D", "d"}, {"E", "e"}, {"F", "f"}>>
IS_NUM(c) == \E i \in 1..10 : c \in Hex[i]
IS_HEX(c) == \E i \in 1..16 : c \in Hex[i]
Unhex(c) == CHOOSE n \in 0..15 : c \in Hex[n + 1]

(* Hunks of headers, with a capital and in small letters                   *)
Capitals == <<"Content-", "Length", "Type", "Transfer-", "Encoding", "Up", "Chunk", "X-",
              "A", "X", "Cookie">>
Smalls   == <<"content-", "length", "type", "transfer-", "encoding", "up", "chunk", "x-",
              "a", "x", "cookie">>
Translate(c, from, to) == IF \E i \in DOMAIN from : from[i] = c
                          THEN to[CHOOSE i \in DOMAIN from : from[i] = c] ELSE c
LOWER(c) == Translate(c, Capitals, Smalls)
UPPER(c) == Translate(c, Smalls, Capitals)
Hyphened == {"Content-", "content-", "Transfer-", "transfer-", "X-", "x-", "-"}
=============================================================================
