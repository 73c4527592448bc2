------------------------------- MODULE HttpLeg -------------------------------
(***************************************************************************)
(* jb::net::http::detail::CurlRequest: one accepted request and the legs   *)
(* its redirects make of it.  libcurl hands the response to the request    *)
(* line by line and then reports how the transfer ended; the request       *)
(* parses the header blocks, decides whether to follow a redirect,         *)
(* rewrites itself for the next leg or produces its one result.            *)
(***************************************************************************)
EXTENDS Naturals, Sequences, SequencesExt

CONSTANTS
    Origins,        \* scheme, host and port of a URL; a record with the field tls
    MaxRedirects,   \* HttpRequest::max_redirects
    HeaderBytes     \* maximum_parsed_response_header_bytes, in header lines

VARIABLES
    request, \* HttpRequest as rewritten for the current leg
    reply,   \* the response state of the current leg
    outcome, \* HttpCompletionResult, or None0
    sent,    \* history: the requests of all legs
    lines    \* history: the status lines and block ends of the current leg

legVars == <<request, reply, outcome, sent, lines>>

None0 == [status |-> 0, why |-> "none"]
Redirects == {301, 302, 303, 307, 308}
\* A header line as the callback gets it: a status line, a Location or other
\* field, the empty line that ends a block, or a line it refuses.
Lines == [kind : {"status"}, code : {100, 200, 301, 303}]
         \cup [kind : {"location", "field", "end", "bad"}, code : {0}]

FreshReply ==
    [state |-> "AwaitingStatus", status |-> 0, locations |-> 0,
     final |-> [status |-> 0, locations |-> 0], bytes |-> 0, error |-> FALSE]

LegInit ==
    /\ \E o \in Origins, m \in {"GET", "POST", "HEAD"}, follow \in BOOLEAN :
          request = [origin |-> o, method |-> m, body |-> m = "POST",
                     credentials |-> TRUE, follow |-> follow, redirects |-> 0]
    /\ reply = FreshReply
    /\ outcome = None0
    /\ sent = <<request>>
    /\ lines = << >>

-----------------------------------------------------------------------------
(* Header callbacks.                                                       *)

Informational(code) == code >= 100 /\ code < 200

KeepInformational(r) ==
    [r EXCEPT !.final = [status |-> r.status, locations |-> r.locations],
              !.locations = 0, !.status = 0, !.state = "Complete"]

CompleteHeaderBlock(r) ==
    [r EXCEPT !.final = IF Informational(r.status) THEN @
                        ELSE [status |-> r.status, locations |-> r.locations],
              !.locations = 0, !.status = 0, !.state = "Complete"]

\* The line is refused: the callback returns short and libcurl will end the
\* transfer with a write error.
Refused(r) == [r EXCEPT !.error = TRUE]

AppendHeader(r, l) ==
    LET s == [r EXCEPT !.bytes = @ + 1]
    IN  IF r.bytes >= HeaderBytes THEN Refused(r)
        ELSE IF l.kind = "bad" THEN Refused(s)
        ELSE IF l.kind = "status"
             THEN IF r.state = "Fields" THEN Refused(s)
                  ELSE [s EXCEPT !.locations = 0, !.status = l.code, !.state = "Fields"]
        ELSE IF r.state = "Complete" THEN s
        ELSE IF r.state # "Fields" THEN Refused(s)
        ELSE IF l.kind = "end" THEN CompleteHeaderBlock(s)
        ELSE [s EXCEPT !.locations = IF l.kind = "location" THEN @ + 1 ELSE @]

HeaderCallback(l) ==
    /\ outcome = None0
    /\ ~reply.error
    /\ reply' = AppendHeader(reply, l)
    /\ lines' = IF l.kind \in {"status", "end"} THEN Append(lines, l) ELSE lines
    /\ UNCHANGED <<request, outcome, sent>>

-----------------------------------------------------------------------------
(* The end of a leg.                                                       *)

\* A result carries the status seen: that of an unfinished final block before
\* that of a complete one.
Observed(r) ==
    IF r.status # 0 /\ ~Informational(r.status) THEN r.status ELSE r.final.status

Failure(r, why) == [status |-> Observed(r), why |-> why]

Response(r) == [status |-> r.final.status, why |-> "response"]

ChangesToGet(q, status) ==
    \/ status \in {301, 302} /\ q.method = "POST"
    \/ status = 303 /\ q.method # "HEAD"

RestoresAtHome(q, target) == q.credentials \/ target = sent[1].origin

KeepsCredentials(q, target) == q.credentials /\ q.origin = target

RedirectLeg(q, status, target) ==
    LET get == ChangesToGet(q, status)
    IN  [q EXCEPT !.origin = target, !.redirects = @ + 1,
                  !.method = IF get THEN "GET" ELSE @,
                  !.body = @ /\ ~get,
                  !.credentials = KeepsCredentials(q, target)]

Downgrade(q, target) == q.origin.tls /\ ~target.tls

ResetResponseState == FreshReply

Redirecting(status) == request.follow /\ status \in Redirects

\* Why the leg ends the request, in the order transfer_result tests it; "follow"
\* for a redirect that passes all tests.  The last three inputs are libcurl's:
\* its result, whether it counts the same status, and where Location points.
Verdict(late, code, agrees, target) ==
    LET r == reply
    IN  IF r.error THEN "callback"
        ELSE IF late THEN "timeout"
        ELSE IF r.status # 0 /\ Redirecting(r.status)
                /\ (r.locations > 1 \/ code = "weird") THEN "redirect"
        ELSE IF r.final.status # 0 /\ Redirecting(r.final.status)
                /\ r.final.locations # 1 THEN "redirect"
        ELSE IF code # "ok" THEN "transport"
        ELSE IF r.final.status = 0 \/ ~agrees THEN "protocol"
        ELSE IF ~Redirecting(r.final.status) THEN "response"
        ELSE IF request.redirects >= MaxRedirects \/ Downgrade(request, target)
             THEN "redirect"
        ELSE "follow"

TransferResult(late, code, agrees, target) ==
    /\ outcome = None0
    /\ reply.error => code # "ok"
    /\ LET v == Verdict(late, code, agrees, target)
       IN  IF v = "follow"
           THEN /\ request' = RedirectLeg(request, reply.final.status, target)
                /\ reply' = ResetResponseState
                /\ sent' = Append(sent, request')
                /\ lines' = << >>
                /\ UNCHANGED outcome
           ELSE /\ outcome' = IF v = "response" THEN Response(reply) ELSE Failure(reply, v)
                /\ UNCHANGED <<request, reply, sent, lines>>

\* Cancelled by the caller, or its deadline passed: CurlRequest reports what it
\* has seen so far.
EndEarly(why) ==
    /\ outcome = None0
    /\ outcome' = Failure(reply, why)
    /\ UNCHANGED <<request, reply, sent, lines>>

LegDone == outcome # None0 /\ UNCHANGED legVars

LegNext ==
    \/ \E l \in Lines : HeaderCallback(l)
    \/ \E late, agrees \in BOOLEAN, code \in {"ok", "weird", "error"}, o \in Origins :
          TransferResult(late, code, agrees, o)
    \/ \E why \in {"cancelled", "timeout"} : EndEarly(why)
    \/ LegDone

LegSpec == LegInit /\ [][LegNext]_legVars

-----------------------------------------------------------------------------
(* Properties.                                                             *)

\* Once a redirect leaves an origin, no later leg carries the request's
\* credential fields, not even one that comes back; and no leg sent over TLS is
\* followed by one that is not.
CredentialsStayHome ==
    /\ \A k \in 1..Len(sent) : sent[k].credentials =>
          \A i \in 1..k : sent[i].origin = sent[1].origin
    /\ \A k \in 2..Len(sent) : sent[k - 1].origin.tls => sent[k].origin.tls
    /\ Len(sent) <= MaxRedirects + 1

\* The last status line, at or before position k of ls.
StatusAt(ls, k) == SelectLastInSubSeq(ls, 1, k, LAMBDA l : l.kind = "status")

\* A response the caller is given is the last complete, not informational header
\* block of the last leg: nothing of an earlier leg, an interim response or a
\* trailer is left in it.
ResponseIsLastBlock ==
    outcome.why = "response" =>
        LET ends == {k \in DOMAIN lines :
                        /\ lines[k].kind = "end"
                        /\ StatusAt(lines, k) # 0
                        /\ ~Informational(lines[StatusAt(lines, k)].code)}
            last == CHOOSE k \in ends : \A m \in ends : m <= k
        IN  /\ ends # {}
            /\ outcome.status = lines[StatusAt(lines, last)].code
            /\ ~Redirecting(outcome.status)

\* The legs of one request do not leak into each other: neither credentials
\* forward nor headers and status backward.
LegsStayApart ==
    CredentialsStayHome /\ ResponseIsLastBlock
=============================================================================
