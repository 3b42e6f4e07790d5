-------------------------------- MODULE Proxy --------------------------------
(***************************************************************************)
(* One connection through a proxy: the thread that DNSProxy::handle_tcp    *)
(* (src/src/util/dns_proxy.cc) or HTTPProxy::handle_tcp                    *)
(* (src/src/httpserver/http_proxy.cc) starts, its Poller, the two sockets, *)
(* and a client and a server that do as they like.                         *)
(*                                                                         *)
(* The sockets are the kernel's: a read returns any part of what has       *)
(* arrived, a write is taken as far as the window of the peer reaches, and *)
(* a peer may stop sending or reset the connection at any time.            *)
(***************************************************************************)
EXTENDS ByteStreamQueue, ReplayServer

CONSTANTS
  Kinds,          \* of proxies: "dns", "http"
  Scripts,        \* the requests an HTTP client may make, one after the other
  Answers,        \* Answers[request]: what the server may say to it, records
                  \*   messages, closes (it ends the connection with them)
  Stops(_),       \* bound: where in a message an HTTP peer may stop
  Bytes,          \* bound: bytes each side sends through the DNS proxy
  MaxCuts,        \* bound: if the client makes n requests, MaxCuts[n] times a
                  \*   read of an HTTP proxy returns only a part or a peer stops
  Window,         \* Window[kind]: what a peer takes before it has to read
  scheme          \* of the connection that is recorded

VARIABLES
  kind, script,
  peer,           \* the sockets: what has arrived, end, reset, room taken
  said, got,      \* all that each peer has sent, and been sent
  eof,            \* FileDescriptor::eof_ of the two sockets
  active,         \* the actions that have not been cancelled
  from,           \* dns: from_client, from_server
  parser,         \* http: request_parser, response_parser
  pc, ready, hup, \* the thread, and what poll has found
  unwritten,      \* the rest of the message that is being written
  cuts,           \* how often they have
  recorded,       \* the backing store
  answers         \* history: the messages sent in answer to each request

Peers == {"client", "server"}
Other(p) == IF p = "client" THEN "server" ELSE "client"

socketVars == <<peer, said, got>>
dataVars == <<from, parser, recorded, cuts>>
worldVars == <<kind, script, answers>>
vars == <<kind, script, peer, said, got, eof, active, from, parser,
          pc, ready, hup, unwritten, cuts, recorded, answers>>

\* The actions of the poller in the order they are added.
Action == <<[fd |-> "server", direction |-> "In"],
            [fd |-> "client", direction |-> "In"],
            [fd |-> "server", direction |-> "Out"],
            [fd |-> "client", direction |-> "Out"]>>

Init ==
  /\ kind \in Kinds /\ script \in IF kind = "http" THEN Scripts ELSE {<<>>}
  /\ peer = [p \in Peers |-> [inbox |-> <<>>, fin |-> FALSE, reset |-> FALSE, untaken |-> 0]]
  /\ said = [p \in Peers |-> <<>>] /\ got = said
  /\ eof = [p \in Peers |-> FALSE] /\ active = DOMAIN Action
  /\ from = [p \in Peers |-> EmptyRing]
  /\ parser = [client |-> NewSequence("request"), server |-> NewSequence("response")]
  /\ pc = "poll" /\ ready = {} /\ hup = {} /\ unwritten = <<>>
  /\ cuts = 0 /\ recorded = <<>> /\ answers = <<>>

-----------------------------------------------------------------------------
(* The peers *)

Ended == pc \in {"exit", "thrown", "asserted"}
Open(p) == ~Ended /\ ~peer[p].fin /\ ~peer[p].reset

Says(p, bytes, closes) ==
  /\ Open(p)
  /\ said' = [said EXCEPT ![p] = @ \o bytes]
  /\ peer' = [peer EXCEPT ![p].inbox = @ \o bytes, ![p].fin = closes]
  /\ UNCHANGED <<kind, script, got, eof, active, from, parser, recorded, pc, ready, hup, unwritten>>

CountsCut == cuts < MaxCuts[Len(script)] /\ cuts' = cuts + 1

\* A byte through the DNS proxy.
SayByte(p) ==
  /\ kind = "dns" /\ Len(said[p]) < Bytes
  /\ Says(p, <<<<"byte", ToString(Len(said[p]))>>>>, FALSE)
  /\ UNCHANGED <<answers, cuts>>

Asked(n) == FlattenSeq(SubSeq(script, 1, n))

\* The next request of an HTTP client, which need not wait for an answer.  It may
\* stop in the middle and say nothing more.
Ask ==
  /\ kind = "http"
  /\ \E n \in 1 .. Len(script) :
       /\ said["client"] = Asked(n - 1)
       /\ \/ Says("client", script[n], FALSE) /\ UNCHANGED cuts
          \/ /\ CountsCut
             /\ \E k \in Stops(script[n]) : Says("client", SubSeq(script[n], 1, k), FALSE)
  /\ UNCHANGED answers

Whole(n) == \E a \in Answers[script[n]] : answers[n] = a.messages

\* The server answers the next request once it has all of it.  It may stop in the
\* middle of the last message.
Answer ==
  LET n == Len(answers) + 1
  IN /\ kind = "http" /\ n <= Len(script) /\ Len(got["server"]) >= Len(Asked(n))
     /\ \A m \in DOMAIN answers : Whole(m)
     /\ \E a \in Answers[script[n]] :
          \/ /\ Says("server", FlattenSeq(a.messages), a.closes)
             /\ answers' = Append(answers, a.messages) /\ UNCHANGED cuts
          \/ /\ CountsCut
             /\ \E k \in Stops(Last(a.messages)) :
                  LET part == Front(a.messages) \o <<SubSeq(Last(a.messages), 1, k)>>
                  IN Says("server", FlattenSeq(part), FALSE) /\ answers' = Append(answers, part)

Close(p) == Says(p, <<>>, TRUE) /\ UNCHANGED <<answers, cuts>>

\* One of the peers may be gone for good.
Reset(p) ==
  /\ ~Ended /\ \A q \in Peers : ~peer[q].reset
  /\ peer' = [peer EXCEPT ![p].reset = TRUE]
  /\ UNCHANGED <<said, got, eof, active, dataVars, pc, ready, hup, unwritten, worldVars>>

\* A peer reads what it has been sent, the slowest there is: once it must.
Take(p) ==
  /\ ~Ended /\ ~peer[p].reset /\ peer[p].untaken = Window[kind]
  /\ peer' = [peer EXCEPT ![p].untaken = 0]
  /\ UNCHANGED <<said, got, eof, active, dataVars, pc, ready, hup, unwritten, worldVars>>

-----------------------------------------------------------------------------
(* Poller::poll *)

\* mutant: responses are waited for after the client has gone
WhenNotFull(a) ==
  IF kind = "dns"
  THEN IF a.direction = "In" THEN space_available(from[a.fd])
       ELSE non_empty(from[Other(a.fd)])
  ELSE IF a.direction = "In" THEN TRUE
       ELSE parser[Other(a.fd)].complete # <<>>

when_interested(a) ==
  IF kind = "dns"
  THEN IF a.direction = "In" THEN space_available(from[a.fd])
       ELSE non_empty(from[Other(a.fd)])
  ELSE IF a.direction = "In" THEN ~eof[Other(a.fd)]
       ELSE parser[Other(a.fd)].complete # <<>>

events == {i \in active : /\ when_interested(Action[i])
                          /\ ~(Action[i].direction = "In" /\ eof[Action[i].fd])}

Found(i) ==
  LET s == peer[Action[i].fd]
  IN IF Action[i].direction = "In" THEN s.inbox # <<>> \/ s.fin ELSE s.untaken < Window[kind]

revents == {i \in events : Found(i)}
HungUp == {i \in DOMAIN Action : peer[Action[i].fd].reset}

\* A time-out leads back to poll.
poll ==
  /\ pc = "poll"
  /\ IF events = {}
     THEN pc' = "exit" /\ UNCHANGED <<ready, hup>>
     ELSE /\ revents \cup HungUp # {}
          /\ pc' = "serve" /\ ready' = revents /\ hup' = HungUp
  /\ UNCHANGED <<socketVars, eof, active, dataVars, unwritten, worldVars>>

-----------------------------------------------------------------------------
(* The callbacks *)

After(status) == CASE status = "ok" -> IF ready' \cup hup' = {} THEN "poll" ELSE "serve"
                   [] status = "exception" -> "thrown"
                   [] status = "assert" -> "asserted"

\* FileDescriptor::read: what it returns, the empty string at the end.  A socket
\* that has been reset gives up what has arrived, or an error.
Reads(s, limit) ==
  IF s.inbox = <<>> THEN IF s.reset THEN {} ELSE {<<>>}
  ELSE {SubSeq(s.inbox, 1, n) : n \in 1 .. Min({limit, Len(s.inbox)})}

TakeIn(p, chunk) ==
  /\ peer' = [peer EXCEPT ![p].inbox = Without(@, Len(chunk))]
  /\ eof' = [eof EXCEPT ![p] = @ \/ chunk = <<>>]
  /\ UNCHANGED <<said, got, recorded, unwritten, worldVars>>

read_fails(i) ==
  /\ peer[Action[i].fd].reset
  /\ pc' = "thrown"
  /\ UNCHANGED <<socketVars, eof, active, dataVars, unwritten, worldVars>>

push(i) ==
  LET p == Action[i].fd
  IN \E chunk \in Reads(peer[p], IF space_available(from[p]) THEN PushLimit(from[p]) ELSE 1) :
       /\ TakeIn(p, chunk)
       /\ active' = IF chunk = <<>> THEN active \ {i} ELSE active
       /\ from' = [from EXCEPT ![p] = pushed(@, chunk)]
       /\ pc' = After(IF /\ space_available(from[p])
                         /\ chunk # <<>> => non_empty(from'[p])
                      THEN "ok" ELSE "assert")
       /\ UNCHANGED <<parser, cuts>>

read_and_parse(i) ==
  LET p == Action[i].fd
  IN \E chunk \in Reads(peer[p], Len(peer[p].inbox)) :
       /\ TakeIn(p, chunk)
       /\ \E parsed \in {parse(parser[p], chunk)} :
            parser' = [parser EXCEPT ![p] = parsed] /\ pc' = After(parsed.status)
       /\ IF chunk = peer[p].inbox THEN UNCHANGED cuts ELSE CountsCut
       /\ UNCHANGED <<active, from>>

Written(p, bytes) ==
  /\ got' = [got EXCEPT ![p] = @ \o bytes]
  /\ peer' = [peer EXCEPT ![p].untaken = @ + Len(bytes)]
  /\ UNCHANGED said

Room(p) == Window[kind] - peer[p].untaken

\* A write to a socket that has been reset throws, or ends the process.
write_fails(p) ==
  /\ peer[p].reset
  /\ pc' = "thrown"
  /\ UNCHANGED <<socketVars, dataVars, unwritten>>

pop_and_write(p) ==
  LET q == from[Other(p)]
  IN /\ ~peer[p].reset
     /\ IF ~non_empty(q)
        THEN pc' = After("assert") /\ UNCHANGED <<socketVars, from>>
        ELSE \E n \in 1 .. Min({PopLimit(q), Room(p)}) :
               /\ Written(p, ToPop(q, n))
               /\ from' = [from EXCEPT ![Other(p)] = popped(q, n)]
               /\ pc' = After("ok")
     /\ UNCHANGED <<parser, recorded, cuts, unwritten>>

\* The message is written to its end before anything else is done.
write_message(p) ==
  /\ ~peer[p].reset
  /\ unwritten' = str(Head(parser[Other(p)].complete))
  /\ pc' = "write"
  /\ UNCHANGED <<socketVars, dataVars>>

\* HTTPDiskStore::save
save(response) == Append(recorded, [scheme |-> scheme, request |-> response.request,
                                    response |-> response])

\* What the callbacks do after the write.
sent(p) ==
  LET m == Head(parser[Other(p)].complete)
  IN IF p = "server"
     THEN /\ parser' = [client |-> pop(parser["client"]),
                        server |-> new_request_arrived(parser["server"], m)]
          /\ UNCHANGED recorded
     ELSE /\ parser' = [parser EXCEPT !["server"] = pop(@)]
          /\ recorded' = save(m)

write(p) ==
  LET n == Min({Room(p), Len(unwritten)})
  IN /\ pc = "write" /\ p = Action[Min(ready)].fd /\ UNCHANGED hup
     /\ \/ /\ ~peer[p].reset /\ n > 0
           /\ Written(p, SubSeq(unwritten, 1, n))
           /\ unwritten' = Without(unwritten, n)
           /\ IF n = Len(unwritten)
              THEN sent(p) /\ ready' = ready \ {Min(ready)} /\ pc' = After("ok")
              ELSE UNCHANGED <<parser, recorded, ready, pc>>
           /\ UNCHANGED <<from, cuts>>
        \/ write_fails(p) /\ UNCHANGED ready
     /\ UNCHANGED <<eof, active, worldVars>>

\* The loop over the descriptors: a hang-up ends it.
serve ==
  LET i == Min(ready \cup hup)
  IN /\ pc = "serve"
     /\ IF i \in hup
        THEN /\ pc' = "exit"
             /\ UNCHANGED <<socketVars, eof, active, dataVars, ready, hup, unwritten, worldVars>>
        ELSE /\ UNCHANGED hup
             /\ IF Action[i].direction = "In"
                THEN /\ ready' = ready \ {i}
                     /\ \/ read_fails(i)
                        \/ kind = "dns" /\ push(i)
                        \/ kind = "http" /\ read_and_parse(i)
                ELSE /\ \/ /\ ready' = ready \ {i}
                           /\ \/ write_fails(Action[i].fd)
                              \/ kind = "dns" /\ pop_and_write(Action[i].fd)
                        \/ kind = "http" /\ ready' = ready /\ write_message(Action[i].fd)
                     /\ UNCHANGED <<eof, active, worldVars>>

Thread == poll \/ serve \/ \E p \in Peers : write(p)

Next ==
  \/ Thread
  \/ Ask \/ Answer
  \/ \E p \in Peers : SayByte(p) \/ Close(p) \/ Reset(p) \/ Take(p)

\* The thread runs, and peers that have not been reset read.
Spec == Init /\ [][Next]_vars /\ WF_vars(Thread) /\ \A p \in Peers : WF_vars(Take(p))

-----------------------------------------------------------------------------
(* Properties *)

TypeOK ==
  /\ \A p \in Peers : /\ peer[p].untaken \in 0 .. Window[kind]
                       /\ {peer[p].fin, peer[p].reset, eof[p]} \subseteq BOOLEAN
                       /\ {from[p].next_byte_to_push, from[p].next_byte_to_pop}
                            \subseteq 0 .. RingSize - 1
                       /\ parser[p].status \in {"ok", "exception", "assert"}
  /\ active \subseteq DOMAIN Action /\ ready \subseteq DOMAIN Action
  /\ hup \subseteq DOMAIN Action
  /\ pc \in {"poll", "serve", "write", "exit", "thrown", "asserted"}

\* A stream but for the spaces before the values of its headers.
Unspaced(stream) ==
  [i \in 1 .. Len(stream) |->
     IF stream[i][1] = "header" THEN [stream[i] EXCEPT ![3] = 0] ELSE stream[i]]

\* However the stream is cut into reads and writes, wherever it wraps around in
\* the ring buffer, and whatever is parsed and put together again, each peer gets
\* what the other has sent and nothing else (bytestream_queue.cc,
\* HTTPMessageSequence, HTTPMessage::str): byte for byte through the DNS proxy;
\* through the HTTP proxy but for the spaces before the value of a header
\* (http_header.cc:29-35, http_header.hh:21).
Heard(streams) == [p \in Peers |-> Unspaced(streams[p])]
Stream == INSTANCE ByteStream WITH said <- Heard(said), got <- Heard(got)
Transparent == Stream!Spec

\* The server has answered one of the first n requests with an interim response
\* (100 Continue) and a final one.
InterimBefore(n) == \E j \in DOMAIN answers : j <= n /\ Len(answers[j]) > 1

\* A connection that ends by itself, without a reset, has delivered all: through
\* the DNS proxy both ways, although one side may have closed long before; through
\* the HTTP proxy to the side that has not closed, all but a first line that the
\* other side has left without its line break, which is dropped without a word
\* (http_message.cc:64-65).  A message that stops later is delivered as far as it
\* came, or the thread throws.  Interim responses are left out:
\* the parser takes each for the answer to a request of its own, so that the final
\* one may be cut off as an answer to HEAD (http_response_parser.cc:12).
NothingLost ==
  pc = "exit" /\ (\A p \in Peers : ~peer[p].reset) /\ ~InterimBefore(Len(script)) =>
    IF kind = "dns"
    THEN \A p \in Peers : got[p] = said[Other(p)]
    ELSE \A p \in Peers : ~eof[p] =>
           LET lost == Without(said[Other(p)], Len(got[p]))
           IN /\ Unspaced(got[p] \o lost) = Unspaced(said[Other(p)])
              /\ find(lost, CRLF) = 0

\* The backing store holds each response under the request it answers, although
\* the parser knows only their order, the client does not wait for answers, and
\* where a response ends depends on its request.  What follows an interim response
\* is left out, as above.
PairedRight ==
  \A k \in DOMAIN recorded :
    ~InterimBefore(k - 1) =>
      /\ Unspaced(str(recorded[k].request)) = Unspaced(script[k])
      /\ Unspaced(str(recorded[k].response)) = Unspaced(answers[k][1])

\* No assertion fails: between the call of when_interested and the callback
\* nothing takes the space or the bytes it has seen (bytestream_queue.cc:36, 67),
\* and the chunked parser never acknowledges less than it has before
\* (chunked_parser.cc:116), wherever the reads have cut the body; the indices of
\* the ring stay inside it.
AssertionsHold == TypeOK /\ pc # "asserted"

\* Each request that has been recorded, made again, finds an answer, and one to a
\* request with the same first line and host (replayserver.cc).
ReplaysRecorded ==
  \A k \in DOMAIN recorded :
    LET best == best_matches(recorded, recorded[k].request, scheme)
    IN /\ best # {}
       /\ \A b \in best :
            /\ recorded[b].request.first_line = recorded[k].request.first_line
            /\ Values(recorded[b].request, "Host") = Values(recorded[k].request, "Host")

\* The thread ends once the connection is closed: by either side through the HTTP
\* proxy, by both through the DNS proxy, whose poll has a time-out but no limit.
EndsAfterClose ==
  (IF kind = "http" THEN \E p \in Peers : peer[p].fin ELSE \A p \in Peers : peer[p].fin)
    ~> Ended
=============================================================================
