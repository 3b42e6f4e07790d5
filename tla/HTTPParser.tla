------------------------------ MODULE HTTPParser ------------------------------
(***************************************************************************)
(* The parser of a stream of HTTP messages (src/src/http): HTTPMessage and *)
(* its subclasses, the body parsers and HTTPMessageSequence.               *)
(*                                                                         *)
(* A stream is a sequence of tokens, each of which stands for one byte or  *)
(* for a run of bytes that no parser looks into:                           *)
(*   <<"CR">>, <<"LF">>            the two bytes of a line break           *)
(*   <<"line", method, path, query>>, <<"status", code>>                   *)
(*   <<"header", key, n, value>>   key, ":", n spaces, a value without     *)
(*                                 spaces before it, or none at all        *)
(*   <<"chunk", size>>             a chunk header, its size in hex         *)
(*   <<"byte", x>>                 a byte of a body                        *)
(***************************************************************************)
EXTENDS Integers, SequencesExt

CR == <<"CR">>
LF == <<"LF">>
CRLF == <<CR, LF>>

\* Op of the value of e.  TLC computes e once, where a LET would have it computed
\* again each time its name is used in an action.
Once(e, Op(_)) == CHOOSE v \in {Op(x) : x \in {e}} : TRUE

\* The position of the first occurrence of needle, 0 for npos.
find(str, needle) ==
  LET Occurs(i) == SubSeq(str, i, i + Len(needle) - 1) = needle
      last == Len(str) - Len(needle) + 1
  IN IF \E i \in 1 .. last : Occurs(i)
     THEN CHOOSE i \in 1 .. last : Occurs(i) /\ \A j \in 1 .. i - 1 : ~Occurs(j)
     ELSE 0

Without(str, n) == SubSeq(str, n + 1, Len(str))

myatoi(str) == CHOOSE n \in 0 .. 9 : ToString(n) = str

-----------------------------------------------------------------------------
(* Body parsers.  npos says that all of the input belongs to the body.      *)

npos == -1
NoParser == [type |-> "none"]
Rule5BodyParser == [type |-> "rule5"]
ChunkedBodyParser(trailers) ==
  [type |-> "chunked", state |-> "CHUNK_HDR", trailers_enabled |-> trailers,
   parser_buffer |-> <<>>, current_chunk_size |-> 0,
   acked_so_far |-> 0, parsed_so_far |-> 0]

get_chunk_size(hdr) == myatoi(hdr[1][2])

Consume(p, n, state) == [p EXCEPT !.state = state, !.parsed_so_far = @ + n,
                                  !.parser_buffer = Without(@, n)]

Result(p, n, ok) == [parser |-> p, read |-> n, ok |-> ok]

\* The loop of ChunkedBodyParser::read; `size' is that of its input.
RECURSIVE ReadChunks(_, _)
ReadChunks(p, size) ==
  LET buf == p.parser_buffer
      eol == find(buf, CRLF)
      chunk == get_chunk_size(buf)
      needle == IF p.trailers_enabled THEN CRLF \o CRLF ELSE CRLF
      loc == find(buf, needle)
      all == p.parsed_so_far + loc - 1 + Len(needle)
      Continue(q) == ReadChunks(q, size)
      more == Result([p EXCEPT !.acked_so_far = @ + size], npos, TRUE)
  IN CASE buf = <<>> -> more
       [] p.state = "CHUNK_HDR" /\ eol = 0 -> more
       [] p.state = "CHUNK_HDR" /\ eol # 0 ->
            Once(Consume([p EXCEPT !.current_chunk_size = chunk], eol + 1,
                         IF chunk = 0 THEN "TRAILER" ELSE "CHUNK"), Continue)
       [] p.state = "CHUNK" /\ Len(buf) < p.current_chunk_size + 2 -> more
       [] p.state = "CHUNK" /\ Len(buf) >= p.current_chunk_size + 2 ->
            IF SubSeq(buf, p.current_chunk_size + 1, p.current_chunk_size + 2) = CRLF
            THEN Once(Consume(p, p.current_chunk_size + 2, "CHUNK_HDR"), Continue)
            ELSE Result(p, npos, FALSE)
       [] p.state = "TRAILER" /\ loc = 0 -> more
       [] p.state = "TRAILER" /\ loc # 0 ->
            Result(p, all - p.acked_so_far, all > p.acked_so_far)

read(p, input) ==
  IF p.type = "rule5" THEN Result(p, npos, TRUE)
  ELSE Once([p EXCEPT !.parser_buffer = @ \o input],
            LAMBDA q : ReadChunks(q, Len(input)))

-----------------------------------------------------------------------------
(* Messages *)

NoRequest == [first_line |-> <<>>]

NewMessage ==
  [state |-> "FIRST_LINE_PENDING", first_line |-> <<>>, headers |-> <<>>,
   body |-> <<>>, expected_body_size |-> npos, body_parser |-> NoParser,
   request |-> NoRequest]

\* Keys are compared without regard to case.
equivalent_strings(a, b) ==
  LET lower(s) == IF s = "Content-Length" THEN "content-length" ELSE s
  IN lower(a) = lower(b)

Values(m, key) == SelectSeq(m.headers, LAMBDA h : equivalent_strings(h[2], key))
has_header(m, key) == Values(m, key) # <<>>
get_header_value(m, key) == Head(Values(m, key))[4]

\* A header is kept without the spaces before its value, unless there is nothing
\* else, and written with one space.
HTTPHeader(buf) == IF buf[4] = "" THEN buf ELSE [buf EXCEPT ![3] = 0]
header_str(h) == [h EXCEPT ![3] = @ + 1]

\* The message as one string, first line and body as they came.
str(m) == m.first_line \o CRLF
            \o FlattenSeq([i \in 1 .. Len(m.headers) |-> <<header_str(m.headers[i])>> \o CRLF])
            \o CRLF \o m.body

method(m) == m.first_line[1][2]
is_head(m) == method(m) = "HEAD"

\* calculate_expected_body_size gives <<the message>>, or <<>> if it throws.
Sized(m, n) == [m EXCEPT !.expected_body_size = n]

RequestBodySize(m) ==
  IF method(m) \in {"GET", "HEAD"} THEN <<Sized(m, 0)>>
  ELSE IF method(m) = "POST" /\ has_header(m, "Content-Length")
  THEN <<Sized(m, myatoi(get_header_value(m, "Content-Length")))>>
  ELSE <<>>

ResponseBodySize(m) ==
  LET code == m.first_line[1][2]
  IN CASE m.first_line[1][1] # "status" -> <<>>
       [] code \in {"100", "204", "304"} \/ is_head(m.request) -> <<Sized(m, 0)>>
       [] OTHER ->
          IF has_header(m, "Transfer-Encoding")
             /\ get_header_value(m, "Transfer-Encoding") = "chunked"
          THEN <<[m EXCEPT !.body_parser = ChunkedBodyParser(has_header(m, "Trailer"))]>>
          ELSE IF ~has_header(m, "Transfer-Encoding") /\ has_header(m, "Content-Length")
          THEN <<Sized(m, myatoi(get_header_value(m, "Content-Length")))>>
          ELSE IF has_header(m, "Content-Type")
                  /\ get_header_value(m, "Content-Type") = "multipart/byteranges"
          THEN <<>>
          ELSE <<[m EXCEPT !.body_parser = Rule5BodyParser]>>

\* read_in_body: the message afterwards and how much of the input it has taken.
read_in_body(m, input) ==
  LET n == Min({m.expected_body_size - Len(m.body), Len(input)})
      Takes(k, parser, done, ok) ==
        [taken |-> k, ok |-> ok,
         message |-> [m EXCEPT !.body = @ \o SubSeq(input, 1, k), !.body_parser = parser,
                               !.state = IF done THEN "COMPLETE" ELSE @]]
  IN IF m.expected_body_size # npos
     THEN Takes(n, NoParser, Len(m.body) + n = m.expected_body_size, TRUE)
     ELSE Once(read(m.body_parser, input), LAMBDA r :
            Takes(IF r.read = npos THEN Len(input) ELSE r.read, r.parser,
                  r.read # npos, r.ok))

-----------------------------------------------------------------------------
(* HTTPMessageSequence                                                      *)

\* of is "request" or "response"; status tells whether an assertion has failed
\* or an exception has been thrown.
NewSequence(of) ==
  [of |-> of, buffer |-> <<>>, message |-> NewMessage, complete |-> <<>>,
   requests |-> <<>>, status |-> "ok"]

Fail(s, how) == [s EXCEPT !.status = how]

\* mutant: the newest request is thought to be answered first
NewestFirst(s, request) == [s EXCEPT !.requests = <<request>> \o @]

new_request_arrived(s, request) == [s EXCEPT !.requests = Append(@, request)]

initialize_new_message(s) ==
  IF s.of = "request" THEN s
  ELSE IF s.requests = <<>> THEN Fail(s, "exception")
  ELSE [s EXCEPT !.message.request = Head(s.requests), !.requests = Tail(@)]

FirstLine(s, line) ==
  LET t == initialize_new_message(s)
  IN [t EXCEPT !.message.first_line = line, !.message.state = "HEADERS_PENDING"]

\* A header line without a colon throws.
HeaderLine(s, line) ==
  LET sized == IF s.of = "request" THEN RequestBodySize(s.message)
               ELSE ResponseBodySize(s.message)
  IN IF line = <<>>
     THEN IF sized = <<>> THEN Fail(s, "exception")
          ELSE [s EXCEPT !.message = [sized[1] EXCEPT !.state = "BODY_PENDING"]]
     ELSE IF line[1][1] # "header" THEN Fail(s, "exception")
     ELSE [s EXCEPT !.message.headers = Append(@, HTTPHeader(line[1]))]

Body(s) ==
  Once(read_in_body(s.message, s.buffer), LAMBDA r :
    IF ~r.ok \/ (r.taken # Len(s.buffer) /\ r.message.state # "COMPLETE")
    THEN Fail(s, "assert")
    ELSE [s EXCEPT !.buffer = Without(@, r.taken), !.message = r.message])

\* One step of the parser: the sequence afterwards, and whether to continue.
Step(s, more) == [s |-> s, more |-> more /\ s.status = "ok"]

\* Takes a complete line off the buffer, if there is one.
Line(s) ==
  Once(find(s.buffer, CRLF), LAMBDA eol :
    LET t == [s EXCEPT !.buffer = Without(@, eol + 1)]
        line == SubSeq(s.buffer, 1, eol - 1)
    IN IF eol = 0 THEN Step(s, FALSE)
       ELSE IF s.message.state = "FIRST_LINE_PENDING" THEN Step(FirstLine(t, line), TRUE)
       ELSE Step(HeaderLine(t, line), TRUE))

parsing_step(s) ==
  CASE s.message.state \in {"FIRST_LINE_PENDING", "HEADERS_PENDING"} -> Line(s)
    [] s.message.state = "BODY_PENDING" ->
         Once(Body(s), LAMBDA t : Step(t, t.message.state = "COMPLETE"))
    [] s.message.state = "COMPLETE" ->
         Step([s EXCEPT !.complete = Append(@, s.message), !.message = NewMessage], TRUE)

RECURSIVE ParseMore(_)
ParseMore(s) ==
  Once(parsing_step(s), LAMBDA r : IF r.more THEN ParseMore(r.s) ELSE r.s)

\* mutant: a body of unknown size is not ended by the end of the connection
EofIgnored(s) ==
  IF s.message.state = "HEADERS_PENDING" THEN Fail(s, "exception") ELSE s

\* HTTPMessage::eof: a body without a known size may end here.
eof_in_message(s) ==
  CASE s.message.state = "FIRST_LINE_PENDING" -> s
    [] s.message.state = "HEADERS_PENDING" -> Fail(s, "exception")
    [] s.message.state = "BODY_PENDING" ->
         IF s.message.body_parser.type = "none" THEN Fail(s, "exception")
         ELSE [s EXCEPT !.message.state = "COMPLETE"]
    [] s.message.state = "COMPLETE" -> Fail(s, "assert")

parse(s, buf) ==
  Once(IF buf = <<>> THEN eof_in_message(s) ELSE s, LAMBDA t :
    IF t.status = "ok" THEN ParseMore([t EXCEPT !.buffer = @ \o buf]) ELSE t)

pop(s) == [s EXCEPT !.complete = Tail(@)]
=============================================================================
