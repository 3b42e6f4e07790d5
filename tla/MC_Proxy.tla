------------------------------ MODULE MC_Proxy ------------------------------
EXTENDS Proxy

Lines(lines) == FlattenSeq([i \in 1 .. Len(lines) |-> <<lines[i]>> \o CRLF]) \o CRLF
RequestLine(verb, query) == <<"line", verb, "/", query>>
Header(key, value) == <<"header", key, 1, value>>
HeaderSpaced(key, n, value) == <<"header", key, n, value>>
Code(code) == <<"status", code>>
X == <<"byte", "x">>

Get(query) == Lines(<<RequestLine("GET", query), HeaderSpaced("Host", 2, "h")>>)
HeadRequest == Lines(<<RequestLine("HEAD", "1")>>)
Post == Lines(<<RequestLine("POST", ""), HeaderSpaced("content-length", 0, "1")>>) \o <<X>>

Known == Lines(<<Code("200"), Header("Content-Length", "1")>>) \o <<X>>
NotModified == Lines(<<Code("304"), HeaderSpaced("Server", 1, "")>>)
HeadAnswer == Lines(<<Code("200"), HeaderSpaced("Content-Length", 2, "1")>>)
Chunks == <<<<"chunk", "1">>, CR, LF, X, CR, LF, <<"chunk", "0">>, CR, LF>>
Chunked == Lines(<<Code("200"), Header("Transfer-Encoding", "chunked")>>) \o Chunks \o CRLF
Trailed == Lines(<<Code("200"), Header("Transfer-Encoding", "chunked"), Header("Trailer", "t")>>)
             \o Chunks \o Lines(<<X>>)
UntilClosed == Lines(<<Code("200")>>) \o <<X>>
Interim == Lines(<<Code("100")>>)

MCWindow == [dns |-> 2, http |-> 6]

\* Inside the first line, between CR and LF, in the headers and in the body.
MCStops(m) == {1, 2, 4} \cup {Len(m) - 4, Len(m) - 1}

MCMaxCuts == <<2, 1>>

MCScripts == {<<Get("1")>>, <<Get("2")>>, <<Get("1"), Get("2")>>, <<Post, HeadRequest>>}

Keep(m) == [messages |-> <<m>>, closes |-> FALSE]
Final(m) == [messages |-> <<m>>, closes |-> TRUE]

MCAnswers ==
  [r \in {Get("1"), Get("2"), HeadRequest, Post} |->
     CASE r = Get("1") -> {Keep(Chunked), Final(UntilClosed)}
       [] r = Get("2") -> {Keep(Trailed), Keep(NotModified)}
       [] r = HeadRequest -> {Keep(HeadAnswer)}
       [] r = Post -> {Keep(Known), [messages |-> <<Interim, Known>>, closes |-> FALSE]}]
=============================================================================
