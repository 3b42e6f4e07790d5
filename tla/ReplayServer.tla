----------------------------- MODULE ReplayServer -----------------------------
(***************************************************************************)
(* How mm-webreplay finds the recorded answer to a request                 *)
(* (src/src/frontend/replayserver.cc).  A record is a pair of messages     *)
(* with the scheme it was recorded under.  The web server hands over the   *)
(* request line and two of the headers of the request.                     *)
(***************************************************************************)
EXTENDS HTTPParser

\* The first line, character by character as far as the comparison goes.
Characters(line) ==
  IF line[4] = "" THEN <<line[2], line[3], "HTTP/1.1">>
  ELSE <<line[2], line[3], "?", line[4], "HTTP/1.1">>

\* The values of a header, none or the first one, match.
header_match(key, request, saved_request) ==
  /\ has_header(request, key) <=> has_header(saved_request, key)
  /\ has_header(request, key)
       => get_header_value(request, key) = get_header_value(saved_request, key)

strip_query(line) ==
  LET index == find(line, <<"?">>)
  IN IF index = 0 THEN line ELSE SubSeq(line, 1, index - 1)

common_prefix(a, b) ==
  LET max_match == Min({Len(a), Len(b)})
      differ == {i \in 1 .. max_match : a[i] # b[i]}
  IN IF differ = {} THEN max_match ELSE Min(differ) - 1

\* mutant: the rest of the line is not compared
ScoreOfPath(saved, request, scheme) ==
  IF /\ saved.scheme = scheme
     /\ header_match("Host", request, saved.request)
     /\ strip_query(Characters(request.first_line[1]))
          = strip_query(Characters(saved.request.first_line[1]))
  THEN 1 ELSE 0

match_score(saved, request, scheme) ==
  LET line == Characters(request.first_line[1])
      saved_line == Characters(saved.request.first_line[1])
  IN IF /\ saved.scheme = scheme
        /\ header_match("Host", request, saved.request)
        /\ header_match("User-Agent", request, saved.request)
        /\ strip_query(line) = strip_query(saved_line)
     THEN common_prefix(line, saved_line) ELSE 0

\* The best matches; the one that is listed first in the directory is replayed.
best_matches(saved, request, scheme) ==
  LET score(i) == match_score(saved[i], request, scheme)
      best_score == Max({0} \cup {score(i) : i \in DOMAIN saved})
  IN {i \in DOMAIN saved : score(i) = best_score /\ best_score > 0}
=============================================================================
