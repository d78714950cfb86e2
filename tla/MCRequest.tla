----------------------------- MODULE MCRequest -----------------------------
(* Messages for model checking Request, as a client writes them.           *)
EXTENDS Request

EOL == <<CR, LF>>
Line(method, url) == Chars(method) \o <<SP>> \o url \o <<SP, "HTTP/", "1.1">> \o EOL
HeaderLine(name, value) == name \o <<":", SP>> \o value \o EOL
Length(digits) == HeaderLine(<<"Content-", "Length">>, Chars(digits))
Decimal(n) == (IF n > 9 THEN <<ToString(n \div 10)>> ELSE <<>>) \o <<ToString(n % 10)>>
Chunked == HeaderLine(<<"transfer-", "encoding">>, <<"Chunk", "ed">>)
XA == HeaderLine(<<"x-", "a">>, Chars("v"))
XALF == <<"x-", "a", ":", "v", LF>>

Message(bytes) ==
  [bytes |-> bytes, atonce |-> 0, legal |-> TRUE, method |-> "GET",
   path |-> Chars("/a"), pairs |-> <<>>, cookies |-> <<>>, header |-> <<>>,
   trailers |-> FALSE, body |-> <<>>, parts |-> <<>>]
Illegal(bytes) == [Message(bytes) EXCEPT !.legal = FALSE]
Whole(m) == [m EXCEPT !.atonce = Len(m.bytes)]
Get == Line("GET", Chars("/a"))
Post == Line("POST", Chars("/a"))
HasXA == <<"X-", "A">> :> Chars("v")
HasLength(digits) == <<"Content-", "Length">> :> Chars(digits)
HasChunked == <<"Transfer-", "Encoding">> :> <<"Chunk", "ed">>
Posted(bytes, header, body) ==
  [Message(bytes) EXCEPT !.method = "POST", !.header = header, !.body = body]

(* Legal messages in every kind of frame, read in any pieces               *)
Framed == {
  [Message(Get \o XA \o EOL) EXCEPT !.header = HasXA],
  [Message(Chars("GET /a") \o <<SP, SP, "HTTP/", "1.1", LF>> \o XALF \o <<LF>>)
     EXCEPT !.header = HasXA],
  [Message(Get \o <<"x-", "a", ":", CR, LF>> \o EOL) EXCEPT !.header = <<"X-", "A">> :> <<>>],
  [Message(Get \o <<"x-", "a", ":", LF, LF>>) EXCEPT !.header = <<"X-", "A">> :> <<>>],
  [Message(Get \o <<"x-", "a", ":", "v", CR, LF, SP, "w", CR, LF>> \o EOL)
     EXCEPT !.header = <<"X-", "A">> :> Chars("vw")],
  [Message(Chars("GET /a") \o EOL \o EOL) EXCEPT !.header = <<>>],
  [Message(Chars("GET /a") \o <<LF, LF>>) EXCEPT !.header = <<>>],
  [Message(Chars("GET http://u@h/a?") \o <<SP, "HTTP/", "1.1">> \o EOL \o EOL)
     EXCEPT !.path = Chars("http://u@h/a")],
  Posted(Post \o Length("0") \o EOL, HasLength("0"), <<>>),
  Posted(Post \o Length("12 ") \o EOL \o Chars("abcdefghijkl"), HasLength("12 "),
         Chars("abcdefghijkl")),
  Posted(Post \o Chunked \o EOL \o Chars("2;x") \o EOL \o Chars("ab") \o EOL
           \o Chars("1") \o EOL \o Chars("c") \o EOL \o Chars("0") \o EOL \o EOL,
         HasChunked, Chars("abc")),
  Posted(Post \o Chunked \o EOL \o Chars("10") \o EOL \o Chars("abcdefghijklmnop") \o EOL
           \o Chars("0") \o EOL \o EOL,
         HasChunked, Chars("abcdefghijklmnop")),
  [Posted(Post \o Chunked \o EOL \o Chars("1") \o EOL \o Chars("a") \o EOL
            \o Chars("0") \o EOL \o XA \o EOL,
          HasChunked @@ HasXA, Chars("a")) EXCEPT !.trailers = TRUE]}

(* Messages that are no requests, that are two, or that change the protocol*)
Other == {
  Illegal(Chars("get /")), Illegal(Chars("PONG /")), Illegal(Chars("GEX /a") \o EOL \o EOL),
  Illegal(Chars("GET ^")), Illegal(Chars("GET http:x")), Illegal(Chars("GET http://u@@")),
  Illegal(Chars("GET /a X")), Illegal(Chars("GET /a#b?c#d") \o EOL \o EOL),
  Illegal(Chars("GET /a") \o <<CR, "x">>), Illegal(Get \o Chars("(")),
  Illegal(Get \o <<"x-", "(">>), Illegal(Get \o Length("x")), Illegal(Get \o Length("1x")),
  Illegal(Post \o Length("63") \o EOL), Illegal(Post \o Length("70") \o EOL),
  Illegal(Post \o Length("99")),
  Illegal(Post \o Chunked \o EOL \o Chars("x")), Illegal(Post \o Chunked \o EOL \o Chars("1x")),
  Illegal(Post \o Chunked \o EOL \o Chars("40")),
  Illegal(Get \o <<"x-", "a", CR, LF>> \o XA \o EOL),
  Illegal(Get \o <<"x-", "a", LF>> \o XA \o EOL),
  Illegal(Get \o HeaderLine(<<"Content-", "Length">>, <<"1", CR, LF, SP, "2">>) \o EOL
            \o Chars("ab")),
  Illegal(Get \o EOL \o Chars("GET /b") \o <<LF, LF>>),
  Illegal(Get \o HeaderLine(<<"Up", "grade">>, <<"x">>) \o EOL \o Chars("GE")),
  Illegal(Chars("CONNECT h:1") \o EOL \o EOL),
  Whole(Illegal(Line("GET", Chars("/") \o [i \in 1..HTTP_MAX_HEADER_SIZE |-> "a"]))),
  Illegal(Chars("GET /a") \o <<SP>> \o [i \in 1..HTTP_MAX_HEADER_SIZE |-> SP])}

(* Parts whose data has what looks like a boundary, in any pieces; the     *)
(* value of a part's header that goes on in the body of another request    *)
Multi1 == HeaderLine(<<"Content-", "Type">>, <<"multipart/", "form-data", ";", SP,
                                               "boundary=", "b">>)
Part(name, value, bytes) == name \o <<":", SP>> \o Chars(value) \o EOL \o EOL \o bytes
Delimiter == Chars("--b")
Parts(sent) == Delimiter \o FlattenSeq([i \in DOMAIN sent |->
                 EOL \o sent[i] \o EOL \o Delimiter]) \o Chars("--")
Sent(name, value, bytes) == [head |-> name :> Chars(value), data |-> bytes]
Multi1Header == <<"Content-", "Type">> :> <<"multipart/", "form-data", ";", SP, "boundary=", "b">>
LengthHeader(body) == <<"Content-", "Length">> :> Decimal(Len(body))
MultiPost(body) ==
  LET head == Post \o Multi1 \o HeaderLine(<<"Content-", "Length">>, Decimal(Len(body))) \o EOL
  IN  [Posted(head \o body, Multi1Header @@ LengthHeader(body), <<>>)
         EXCEPT !.atonce = Len(head)]
Lookalike == <<CR, LF, "-", CR, LF, "-", "c", CR>>
Multiparts == {
  [MultiPost(Parts(<<Part(Chars("x-a"), "v", Lookalike)>>))
     EXCEPT !.parts = <<Sent(Chars("X-A"), "v", Lookalike)>>],
  [MultiPost(Parts(<<Part(Chars("a"), "v", <<"y">>), Part(Chars("a"), "w", <<>>)>>))
     EXCEPT !.parts = <<Sent(Chars("A"), "v", <<"y">>), Sent(Chars("A"), "w", <<>>)>>]}
  \cup {[Whole(MultiPost(bytes)) EXCEPT !.legal = FALSE] : bytes \in {
       Chars("--c"), Delimiter \o EOL \o EOL, Delimiter \o EOL \o EOL \o Chars("y"),
       Delimiter \o EOL \o Chars("a="), Delimiter \o EOL \o <<"a", CR, "x">>,
       Delimiter \o EOL \o <<"a", ":", "b", CR, "x">>, Delimiter \o <<CR, "x">>,
       Parts(<<Part(Chars("a"), "v", <<>>)>>) \o Chars("x")}}
  \cup {Whole(Illegal(MultiPost(Delimiter \o EOL \o Chars("a:v")).bytes
          \o Post \o HeaderLine(<<"Content-", "Type">>, <<"x">>) \o Length("1") \o EOL
          \o <<"w">>))}

(* Each method, paths with everything that is escaped, queries, cookies    *)
Methods == {Whole([Message(Line(m, Chars(IF m = "CONNECT" THEN "h/a" ELSE "/a")) \o EOL)
                   EXCEPT !.method = m, !.path = IF m = "CONNECT" THEN Chars("h/a") ELSE @])
            : m \in METHODS}
Texts == BoundedSeq(Characters("a /+%;?"), 2)
Paths == {Whole([Message(Line("GET", Chars("/") \o ext_escape(t, TRUE) \o Chars(";x?")) \o EOL)
                 EXCEPT !.path = Chars("/") \o t]) : t \in Texts}

Names == {<<Chars("a")>>, <<Chars("b")>>, <<Chars("a"), <<>> >>, <<Chars("a"), Chars("b")>>,
          <<Chars("a"), Chars("c")>>, <<Chars("a"), <<>>, Chars("b")>>,
          <<Chars("a"), <<>>, Chars("c")>>, <<Chars("a"), Chars("b"), <<>> >>}
Written(name) == name[1] \o FlattenSeq([i \in 1..Len(name) - 1 |->
                   <<"[">> \o name[i + 1] \o <<"]">>])
Encoded(pairs, sep) == FlattenSeq([i \in DOMAIN pairs |->
  (IF i = 1 THEN <<>> ELSE sep)
    \o ext_escape(Written(pairs[i].name), FALSE) \o <<"=">> \o ext_escape(pairs[i].value, FALSE)])
Query(url) == Line("GET", Chars("/a?") \o url) \o EOL
Pairs == BoundedSeq([name : Names, value : {Chars("1"), Chars("= &")}], 2)
Queries ==
  {Whole([Message(Query(Encoded(pairs, <<"&">>))) EXCEPT !.pairs = pairs]) : pairs \in Pairs}
  \cup {Whole(Illegal(Query(Chars(bad)))) : bad \in
          {"=1", "a]=1", "[a]=1", "a[=1", "a[b]c]=1", "a[[b]]=1", "[]=1", "a&&b", "a=%2&b=%",
           "a=%zz"}}
  \cup {Whole([Message(Line("POST", Chars("/a?_method=") \o Chars(m)) \o EOL)
               EXCEPT !.method = IF m = "put" THEN "PUT" ELSE "POST"]) : m \in {"put", "pet"}}
  \cup {Whole([Message(Line("GET", Chars("/a?_method=put")) \o EOL) EXCEPT !.method = "GET"])}

Jars == BoundedSeq([name : {Chars("a"), Chars("b")}, value : {Chars("1"), Chars("; ,")}], 3)
Cookie(jar) == FlattenSeq([i \in DOMAIN jar |->
  (IF i = 1 THEN <<>> ELSE Chars("; "))
    \o jar[i].name \o <<"=">> \o ext_escape(jar[i].value, FALSE)])
Cookies == {Whole([Message(Get \o HeaderLine(<<"cookie">>, Cookie(jar)) \o EOL)
                   EXCEPT !.header = <<"Cookie">> :> Cookie(jar), !.cookies = jar])
            : jar \in Jars \ {<<>>}}

MCMessages == Framed \cup Other \cup Multiparts \cup Methods \cup Paths \cup Queries \cup Cookies
=============================================================================
