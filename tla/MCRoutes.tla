------------------------------ MODULE MCRoutes ------------------------------
(* A model-checking instance of Routes: eight routes, of which a site has  *)
(* up to MaxRoutes, and the requests that tell them apart.                 *)
EXTENDS Routes

slash == 47
dot == 46
one == 49
a == 97
b == 98

Byte(n) == [conv |-> "none", byte |-> n]
Conv(c) == [conv |-> c, byte |-> 0]

Json == <<106>>
HtmlMime == [type |-> "text", sub |-> "html", ext |-> Html]
JsonMime == [type |-> "app", sub |-> "json", ext |-> Json]

Any(m, p, s) == [method |-> m, prefix |-> p, suffix |-> s, exts |-> {}, mimes |-> <<>>]
Formatted(p, s) == [method |-> "GET", prefix |-> p, suffix |-> s,
                    exts |-> {Html, Json}, mimes |-> <<HtmlMime, JsonMime>>]

MCTemplates == {
  Any("GET", <<slash>>, <<>>),
  Any("GET", <<slash>>, <<Conv("z")>>),
  Any("GET", <<slash, a>>, <<>>),
  Formatted(<<slash, a>>, <<>>),
  Any("GET", <<slash, a, slash>>, <<Conv("d"), Byte(a)>>),
  Formatted(<<slash, a, slash>>, <<Conv("s")>>),
  Any("GET", <<slash, b>>, <<Conv("x")>>),
  Any("POST", <<slash, a>>, <<>>)}

MCPaths == {
  <<slash>>, <<slash, a>>, <<slash, a, dot, 106>>, <<slash, a, dot>>, <<slash, a, b>>,
  <<slash, b>>, <<slash, b, one>>, <<slash, a, slash>>, <<slash, a, slash, one>>,
  <<slash, a, slash, one, a>>, <<slash, a, slash, b, slash>>}

Range(t, s, q) == [kind |-> "range", type |-> t, sub |-> s, q |-> q]
Segment(k) == [kind |-> k, type |-> "", sub |-> "", q |-> 10]

MCAccepts == {
  <<>>,
  <<Range("app", "*", 10), Range("*", "*", 10)>>,
  <<Range("text", "html", 5), Range("app", "json", 38), Range("app", "xml", 10)>>,
  <<Range("app", "json", 0), Segment("bare"), Range("text", "", 3), Segment("empty"),
    Range("app", "json", 10)>>}

MCRequests ==
  {[method |-> "GET", path |-> p, accept |-> h] : p \in MCPaths, h \in MCAccepts}
  \cup {[method |-> "POST", path |-> p, accept |-> <<>>] : p \in MCPaths}
=============================================================================
