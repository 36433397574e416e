------------------------------- MODULE Front --------------------------------
(* The client side of an HTTP/1.1 or HTTP/2 connection: the verdict on each *)
(* request and the life of the connection.                               *)
EXTENDS Integers, Sequences, FiniteSets, SequencesExt, FiniteSetsExt

-----------------------------------------------------------------------------
(***************************************************************************)
(* What the HTTP/1 and HTTP/2 front ends of lb-l7 decide about a request   *)
(* before it is sent upstream, the header fields they forward, how each    *)
(* upstream protocol's builder translates them, and how a response's       *)
(* fields come back.  A message's fields are a multimap, as in HeaderMap:  *)
(* each name has the sequence of its values.                               *)
(***************************************************************************)

CONSTANT
    FrMaxHeaders  \* MAX_HEADERS of lb-l7

VARIABLES
    frReq,        \* the message, its fields and the listener's settings
    frOut,        \* the front end's verdict
    frMsg         \* the fields sent on

frVars == <<frReq, frOut, frMsg>>

Fields == {"host", "content-length", "transfer-encoding", "connection", "te", "keep-alive",
           "x_under", "x-custom", "x-forwarded-for", "via"}
Hop == {"transfer-encoding", "connection", "te", "keep-alive"}

(* An authority: a host, an optional port, and whether it is well formed.  *)
Auth(host, port) == [host |-> host, port |-> port, valid |-> TRUE]
Malformed == [host |-> "m", port |-> "", valid |-> FALSE]
NoAuth == [host |-> "", port |-> "", valid |-> TRUE]

(* What can vary about a message besides its fields.                       *)
Settings == {"uri", "sni", "loopback", "policy", "strict", "hooks", "ctype", "websocket"}

Usual(a) ==
    CASE a = "host" -> <<Auth("a", "")>>
      [] a \in Fields \ {"host"} -> <<>>
      [] a = "uri" -> NoAuth
      [] a = "sni" -> "a"
      [] a \in {"loopback", "strict", "websocket"} -> FALSE
      [] a = "policy" -> "Reject"
      [] a = "hooks" -> "bundle"
      [] a = "ctype" -> "none"

Unusual(a) ==
    CASE a = "host" -> {<<>>, <<Auth("b", "")>>, <<Auth("a", "80")>>, <<Malformed>>}
      [] a = "content-length" -> {<<"1">>, <<"1", "1">>, <<"1", "2">>}
      [] a = "transfer-encoding" -> {<< <<"chunked">> >>, << <<"gzip", "chunked">> >>,
                                     << <<"chunked", "gzip">> >>}
      [] a = "connection" -> {<< <<"keep-alive">> >>, << <<"x-custom">> >>,
                              << <<"x-forwarded-for">>, <<"via">> >>}
      [] a = "te" -> {<<"trailers">>, <<"gzip">>}
      [] a \in {"keep-alive", "x_under", "x-custom"} -> {<<"v">>}
      [] a \in {"x-forwarded-for", "via"} -> {<< <<"p1">> >>, << <<"p1">>, <<"p2">> >>}
      [] a = "uri" -> {Auth("a", ""), Auth("a", "81"), Auth("b", ""), Malformed}
      [] a = "sni" -> {"none"}
      [] a \in {"loopback", "strict", "websocket"} -> {TRUE}
      [] a = "policy" -> {"Drop", "Allow"}
      [] a = "hooks" -> {"noop"}
      [] a = "ctype" -> {"grpc", "grpc+"}

FieldsOf(q) == [f \in Fields |-> q[f]]
Count(h) == MapThenSumSet(LAMBDA f : Len(h[f]), Fields)

(*------------------------------ the checks ------------------------------*)

(* authority::validate_request: the URI's authority and the first Host.    *)
FirstHost(h) == IF h["host"] = <<>> THEN NoAuth ELSE h["host"][1]
ValidAuthority(q) == q["uri"].valid /\ FirstHost(q).valid

(* The checks of SmuggleDetector.                                          *)
CheckDuplicateCl(h) == Cardinality(ToSet(h["content-length"])) <= 1
CheckClTe(h) == h["content-length"] = <<>> \/ h["transfer-encoding"] = <<>>
CheckTeCl(h) == \A v \in ToSet(h["transfer-encoding"]) : Last(v) = "chunked"
CheckTeStrict(h) == \A v \in ToSet(h["transfer-encoding"]) : ToSet(v) = {"chunked"}
CheckH2Downgrade(h) ==
    /\ \A f \in Hop \ {"te"} : h[f] = <<>>
    /\ \A v \in ToSet(h["te"]) : v = "trailers"
CheckAllMode(h, mode) ==
    /\ CheckClTe(h)
    /\ CheckTeCl(h)
    /\ CheckDuplicateCl(h)
    /\ mode = "H1Strict" => CheckTeStrict(h)
    /\ mode = "H2" => CheckH2Downgrade(h)

H1Mode(q) == IF q["strict"] THEN "H1Strict" ELSE "H1"

(* HooksBundle::inspect_request: HTTP/2 is always inspected in its mode.   *)
InspectRequest(q, h) ==
    q["hooks"] = "bundle" => CheckAllMode(h, IF q["front"] = "h2" THEN "H2" ELSE H1Mode(q))

(* check_sni_authority: ports are ignored, an absent side passes.          *)
CheckSniAuthority(q, authority) ==
    q["sni"] = "none" \/ authority.host = "" \/ authority.host = q["sni"]

(* check_authority_host_agreement: same host, and same port if both say.   *)
CheckAuthorityHostAgreement(q, h) ==
    \/ q["uri"] = NoAuth
    \/ h["host"] = <<>>
    \/ /\ q["uri"].host = FirstHost(h).host
       /\ "" \in {q["uri"].port, FirstHost(h).port} \/ q["uri"].port = FirstHost(h).port

IsGrpcMedia(q) == q["ctype"] # "none"
IsGrpcRequest(q) == q["ctype"] = "grpc"

(*--------------------------- the two pipelines --------------------------*)

Reject(status, glitch) == [status |-> status, glitch |-> glitch]
Pass == Reject("forward", "")

(* The verdict of the first check that fails.                              *)
FirstFailing(checks) ==
    LET failed == {i \in DOMAIN checks : ~checks[i][1]}
    IN IF failed = {} THEN Pass ELSE checks[Min(failed)][2]

(* The underscore policy's effect on the fields.                           *)
Underscored(h, policy) ==
    IF policy = "Drop" THEN [h EXCEPT !["x_under"] = <<>>] ELSE h

(* handle_inner of h1_proxy, in its order: authority, gRPC, upgrade, ...   *)
H1Policy(q) == IF q["strict"] THEN "Reject" ELSE q["policy"]
H1Early(q) == <<
    <<ValidAuthority(q), Reject("400 authority", "")>>,
    <<~IsGrpcMedia(q), Reject("415", "")>>,
    <<~q["websocket"], Reject("websocket", "")>>,
    <<H1Policy(q) = "Reject" => q["x_under"] = <<>>, Reject("400 underscore", "")>> >>
(* ... the hooks, the TLS name, the framing checks, ...                    *)
H1Late(q) ==
    LET h == Underscored(FieldsOf(q), H1Policy(q)) IN <<
    <<InspectRequest(q, h), Reject("400 smuggling", "")>>,
    <<q["loopback"] \/ CheckSniAuthority(q, FirstHost(h)), Reject("421", "")>>,
    <<CheckAllMode(h, H1Mode(q)), Reject("400 smuggling", "")>> >>
(* ... and a backend.                                                      *)
H1Pick(q) == << <<q["backend"] # "none", Reject("502 no backend", "")>> >>

(* handle_inner of h2_proxy: the same questions in another order, each     *)
(* refusal but the hooks' with a glitch.  gRPC and WebSocket go their own  *)
(* way before the later checks.                                            *)
H2Early(q) == <<
    <<ValidAuthority(q), Reject("400 authority", "RapidReset")>>,
    <<~q["websocket"], Reject("websocket", "")>>,
    <<~(IsGrpcRequest(q) /\ q["backend"] = "none"), Reject("502 no backend", "")>>,
    <<~(IsGrpcRequest(q) /\ q["backend"] = "H3"), Reject("502 grpc", "")>>,
    <<~IsGrpcRequest(q), Reject("grpc", "")>>,
    <<q["policy"] = "Reject" => q["x_under"] = <<>>,
      Reject("400 underscore", "ContinuationFlood")>> >>
H2Authority(q, h) == IF q["uri"] = NoAuth THEN FirstHost(h) ELSE q["uri"]
\* Mutation: the name sent in the TLS handshake is compared with the Host field only.
H2LateHost(q) ==
    LET h == Underscored(FieldsOf(q), q["policy"]) IN <<
    <<InspectRequest(q, h), Reject("400 smuggling", "")>>,
    <<CheckAllMode(h, "H2"), Reject("400 smuggling", "HpackRatio")>>,
    <<q["loopback"] \/ CheckSniAuthority(q, FirstHost(h)), Reject("421", "RapidReset")>> >>
H2Late(q) ==
    LET h == Underscored(FieldsOf(q), q["policy"]) IN <<
    <<InspectRequest(q, h), Reject("400 smuggling", "")>>,
    <<CheckAllMode(h, "H2"), Reject("400 smuggling", "HpackRatio")>>,
    <<CheckAuthorityHostAgreement(q, h), Reject("400 host", "RapidReset")>>,
    <<q["loopback"] \/ CheckSniAuthority(q, H2Authority(q, h)), Reject("421", "RapidReset")>> >>
H2Pick(q) == << <<q["backend"] # "none", Reject("502 no backend", "")>> >>

H1Verdict(q) == FirstFailing(H1Early(q) \o H1Late(q) \o H1Pick(q))
H2Verdict(q) == FirstFailing(H2Early(q) \o H2Late(q) \o H2Pick(q))

(*--------------------------- forwarded fields ---------------------------*)

(* strip_hop_by_hop: the fixed list and what Connection names.             *)
Named(h) == UNION {ToSet(v) : v \in ToSet(h["connection"])}
Strip(h) == [f \in Fields |-> IF f \in Hop \cup Named(h) THEN <<>> ELSE h[f]]

(* append_xff and append_via: all values joined into one, and one more.    *)
AppendXff(h) == [h EXCEPT !["x-forwarded-for"] = <<Append(FlattenSeq(@), "peer")>>]
AppendVia(h) == [h EXCEPT !["via"] = <<Append(FlattenSeq(@), "gateway")>>]

H1Fields(q) == AppendVia(AppendXff(Strip(Underscored(FieldsOf(q), H1Policy(q)))))

(* h2_proxy also gives the request a Host when it has none.                *)
H2Fields(q) ==
    LET kept == Underscored(FieldsOf(q), q["policy"])
        auth == H2Authority(q, kept)
        sent == AppendXff(Strip(kept))
        named == IF sent["host"] = <<>> /\ auth # NoAuth
                 THEN [sent EXCEPT !["host"] = <<auth>>] ELSE sent
    IN AppendVia(named)

(*------------------------------ the bridges -----------------------------*)

(* A message of HTTP/2 or HTTP/3: an authority (or none) beside the fields.*)
Msg(authority, h) == [ok |-> TRUE, authority |-> authority, fields |-> h]
TooManyHeaders == [ok |-> FALSE, authority |-> NoAuth, fields |-> [f \in Fields |-> <<>>]]

(* H1ToH2Bridge::bridge_request: three pseudo-header fields and the Host as*)
(* authority; the limit holds before and after.                            *)
BridgeH1H2(h) ==
    LET auth == FirstHost(h)
        out == [f \in Fields |-> CASE f = "host" -> <<>>
                                   [] f = "te" -> SelectSeq(h[f], LAMBDA v : v = "trailers")
                                   [] f \in (Hop \ {"te"}) \cup Named(h) -> <<>>
                                   [] OTHER -> h[f]]
        pseudo == IF h["host"] = <<>> THEN 3 ELSE 4
    IN IF Count(h) > FrMaxHeaders \/ Count(out) + pseudo > FrMaxHeaders
       THEN TooManyHeaders ELSE Msg(auth, out)

(* H1ToH3Bridge::bridge_request does the same.                             *)
BridgeH1H3(h) == BridgeH1H2(h)

(* H2ToH2Bridge and H2ToH3Bridge pass the fields on, pseudo-header fields  *)
(* counted with them.                                                      *)
BridgeH2H2(auth, h) ==
    LET pseudo == IF auth = NoAuth THEN 3 ELSE 4
    IN IF Count(h) + pseudo > FrMaxHeaders THEN TooManyHeaders ELSE Msg(auth, h)
BridgeH2H3(auth, h) == BridgeH2H2(auth, h)

(* proxy_request of both proxies: framing is the client library's affair.  *)
ToH1Upstream(h) ==
    Msg(NoAuth, [h EXCEPT !["content-length"] = <<>>, !["transfer-encoding"] = <<>>])

BuildH1ToH2UpstreamParts(h) == BridgeH1H2(h)

(* build_h1_to_h3_fieldlist: without a Host the backend's name stands in.  *)
Sni == Auth("sni", "")
BuildH1ToH3Fieldlist(h) ==
    BridgeH1H3(IF h["host"] = <<>> THEN [h EXCEPT !["host"] = <<Sni>>] ELSE h)

BuildH2UpstreamRequestParts(q, h) == BridgeH2H2(H2Authority(q, h), h)

BuildH2ToH3Fieldlist(q, h) ==
    LET auth == H2Authority(q, h) IN BridgeH2H3(IF auth = NoAuth THEN Sni ELSE auth, h)

(*------------------------------- responses ------------------------------*)

(* finalize_response of both proxies: an HTTP/1 backend's answer.          *)
FinalizeResponse(h) == Strip(h)

(* upstream_response_to_h1 and h3_decoded_resp_head_builder: the fixed list*)
(* of h2_to_h1 only.                                                       *)
UpstreamResponseToH1(h) == [f \in Fields |-> IF f \in Hop THEN <<>> ELSE h[f]]
H3DecodedRespHeadBuilder(h) == [f \in Fields |-> IF f \in Hop THEN <<>> ELSE h[f]]
UpstreamH2ResponseToH2(h) == h
H2DecodedRespHeadBuilder(h) == h

(*---------------------------- the specification -------------------------*)

(* Messages that differ from a usual one in at most two respects.  hyper's *)
(* HTTP/2 refuses connection-specific fields before the service sees them, *)
(* of a request and of an upstream's response alike.                       *)
H2Delivers(q) == CheckH2Downgrade(q)

VerdictInit ==
    /\ \E x, y \in Fields \cup Settings :
       \E v \in Unusual(x), w \in Unusual(y) :
       \E front \in {"h1", "h2"}, phase \in {"request", "response"},
          backend \in {"none", "H1", "H2", "H3"} :
         LET pick == [a \in Fields \cup Settings \cup {"front", "phase", "backend"} |->
                        CASE a = y -> w
                          [] a = x /\ x # y -> v
                          [] a = "front" -> front
                          [] a = "phase" -> phase
                          [] a = "backend" -> backend
                          [] OTHER -> Usual(a)]
         IN /\ frReq = pick
            /\ phase = "request" /\ front = "h2" => H2Delivers(pick)
            /\ phase = "response" => /\ backend # "none"
                                     /\ {x, y} \subseteq Fields
                                     /\ backend = "H2" => H2Delivers(pick)
    /\ frOut = "none"
    /\ frMsg = TooManyHeaders

HandleH1 ==
    /\ frReq["phase"] = "request" /\ frReq["front"] = "h1"
    /\ frOut = "none"
    /\ frOut' = H1Verdict(frReq).status
    /\ frMsg' = IF frOut' # "forward" THEN frMsg
                ELSE CASE frReq["backend"] = "H1" -> ToH1Upstream(H1Fields(frReq))
                       [] frReq["backend"] = "H2" -> BuildH1ToH2UpstreamParts(H1Fields(frReq))
                       [] frReq["backend"] = "H3" -> BuildH1ToH3Fieldlist(H1Fields(frReq))
    /\ UNCHANGED frReq

HandleH2 ==
    /\ frReq["phase"] = "request" /\ frReq["front"] = "h2"
    /\ frOut = "none"
    /\ frOut' = H2Verdict(frReq).status
    /\ frMsg' = IF frOut' # "forward" THEN frMsg
                ELSE CASE frReq["backend"] = "H1" -> ToH1Upstream(H2Fields(frReq))
                       [] frReq["backend"] = "H2" ->
                            BuildH2UpstreamRequestParts(frReq, H2Fields(frReq))
                       [] frReq["backend"] = "H3" -> BuildH2ToH3Fieldlist(frReq, H2Fields(frReq))
    /\ UNCHANGED frReq

AnswerH1 ==
    /\ frReq["phase"] = "response" /\ frReq["front"] = "h1"
    /\ frOut = "none"
    /\ frOut' = "answered"
    /\ LET h == FieldsOf(frReq) IN
       frMsg' = Msg(NoAuth, CASE frReq["backend"] = "H1" -> FinalizeResponse(h)
                              [] frReq["backend"] = "H2" -> UpstreamResponseToH1(h)
                              [] frReq["backend"] = "H3" -> H3DecodedRespHeadBuilder(h))
    /\ UNCHANGED frReq

AnswerH2 ==
    /\ frReq["phase"] = "response" /\ frReq["front"] = "h2"
    /\ frOut = "none"
    /\ frOut' = "answered"
    /\ LET h == FieldsOf(frReq) IN
       frMsg' = Msg(NoAuth, CASE frReq["backend"] = "H1" -> FinalizeResponse(h)
                              [] frReq["backend"] = "H2" -> UpstreamH2ResponseToH2(h)
                              [] frReq["backend"] = "H3" -> H2DecodedRespHeadBuilder(h))
    /\ UNCHANGED frReq

VerdictNext == HandleH1 \/ HandleH2 \/ AnswerH1 \/ AnswerH2

(*------------------------------- properties -----------------------------*)

VerdictTypeOK ==
    /\ frOut \in {"none", "forward", "answered", "websocket", "grpc", "415", "421",
                  "400 authority", "400 underscore", "400 smuggling", "400 host",
                  "502 no backend", "502 grpc"}
    /\ frMsg.ok \in BOOLEAN

(* Whatever was forwarded had an authority that both the TLS name and the  *)
(* Host field agree with, unambiguous framing, and reaches the backend     *)
(* with no connection-specific field, none that Connection named, every    *)
(* earlier hop that was not, and this gateway at the end of both trails.   *)
ForwardedIsSound ==
    frOut = "forward" =>
        LET q == frReq
            named == Named(q)
            auth == IF q["front"] = "h2" THEN H2Authority(q, q) ELSE FirstHost(q)
            hops(f) == IF f \in named THEN <<>> ELSE FlattenSeq(q[f])
        IN /\ auth.valid
           /\ q["sni"] # "none" /\ ~q["loopback"] => auth.host \in {"", q["sni"]}
           /\ q["front"] = "h2" /\ q["uri"].host # "" /\ q["host"] # <<>> =>
                q["uri"].host = q["host"][1].host
           /\ CheckDuplicateCl(q) /\ CheckClTe(q) /\ CheckTeCl(q)
           /\ frMsg.ok =>
                /\ \A f \in Hop \cup (named \ {"x-forwarded-for", "via"}) :
                     frMsg.fields[f] = <<>>
                /\ frMsg.fields["x-forwarded-for"] =
                     <<Append(hops("x-forwarded-for"), "peer")>>
                /\ frMsg.fields["via"] = <<Append(hops("via"), "gateway")>>
                /\ q["policy"] # "Allow" => frMsg.fields["x_under"] = <<>>
                /\ q["backend"] # "H1" => frMsg.authority \in {auth, Sni}

(* A message is refused for its number of fields only near the limit: with *)
(* the pseudo-header fields, the two trails and a Host it would exceed it. *)
RefusedOnlyWhenFull ==
    frOut = "forward" /\ ~frMsg.ok => Count(frReq) + 6 > FrMaxHeaders

(* Both front ends take and refuse the same plain requests: one that names *)
(* its authority by Host only and is not strict gets the same status.      *)
FrontsAgree ==
    LET q == frReq IN
    /\ q["uri"] = NoAuth /\ ~q["strict"] /\ ~q["websocket"] /\ q["ctype"] = "none"
    /\ CheckH2Downgrade(q)
    => H1Verdict(q).status = H2Verdict(q).status

(* No client sees a connection-specific field of an HTTP/1 backend, and an *)
(* HTTP/1 client sees none of any backend.                                 *)
AnswersAreClean ==
    frOut = "answered" /\ (frReq["front"] = "h1" \/ frReq["backend"] = "H1") =>
        \A f \in Hop : frMsg.fields[f] = <<>>

(* A request the HTTP/2 front end refuses for its framing counts as the    *)
(* heaviest glitch ("highest glitch weight so a smuggle burst drains the   *)
(* connection fast", h2_proxy.rs:1173-1176).                               *)
SmuggleIsGlitch ==
    LET q == frReq IN
    q["phase"] = "request" /\ q["front"] = "h2" /\ H2Verdict(q).status = "400 smuggling" =>
        H2Verdict(q).glitch = "HpackRatio"

-----------------------------------------------------------------------------
(***************************************************************************)
(* The connection drivers of the HTTP/1 and HTTP/2 front ends of lb-l7:    *)
(* the select loop around hyper's connection future (shutdown token, total *)
(* timer, keep-alive cap), the per-connection glitch counter of HTTP/2 and *)
(* the FIN-then-drain close of CleanCloseIo.                               *)
(***************************************************************************)

CONSTANTS
    FcH1,         \* connections served by H1Proxy
    FcH2,         \* connections served by H2Proxy
    FcKeepAlive,  \* max_keepalive_requests, 0 when there is no cap
    FcThreshold,  \* the glitch score a connection may reach
    FcWindow,     \* DEFAULT_GLITCHES_WINDOW in ticks
    FcBudget,     \* CleanCloseIo::DRAIN_CAP in reads
    FcRequests,   \* bound: requests a client sends on one connection
    FcSends,      \* bound: reads' worth of bytes a client sends after the FIN
    FcTicks       \* bound: the clock of the glitch window

VARIABLES
    fcParent,     \* the listener's CancellationToken: is it cancelled, and was that asked for
    fcConn,       \* the driver and hyper's side of each connection
    fcGlitch,     \* GlitchesCounter and child token of each HTTP/2 connection
    fcIo,         \* CleanCloseIo and the peer's bytes behind it
    fcTerms,      \* keepalive_cap_terminations
    fcClock

fcVars == <<fcParent, fcConn, fcGlitch, fcIo, fcTerms, fcClock>>

FcConns == FcH1 \cup FcH2

(* What the handlers of h2_proxy record: ContinuationFlood, RapidReset and *)
(* HpackRatio, with the weights of GlitchKind::weight.                     *)
GlitchKind == {"ContinuationFlood", "RapidReset", "HpackRatio"}
Weight(kind) ==
    CASE kind = "ContinuationFlood" -> 1
      [] kind = "RapidReset" -> 5
      [] kind = "HpackRatio" -> 10

TotalWeight(events) ==
    LET Add(e, sum) == sum + e.weight IN FoldSeq(Add, 0, events)

TypeOK ==
    /\ fcParent \in [cancelled: BOOLEAN, asked: BOOLEAN]
    /\ fcConn \in [FcConns -> [at: {"serving", "draining", "closed"},
                               open: BOOLEAN,
                               shutting: BOOLEAN,
                               done: BOOLEAN,
                               served: 0..FcRequests,
                               handling: 0..FcRequests,
                               writing: 0..FcRequests,
                               signal: BOOLEAN,
                               why: {"", "finished", "total", "drain timeout", "client"},
                               lost: 0..FcRequests]]
    /\ \A c \in FcConns : /\ fcGlitch[c].sum \in Nat
                          /\ fcGlitch[c].child \in BOOLEAN
    /\ fcIo \in [FcConns -> [fin: {"no", "sent", "failed"},
                             budget: 0..FcBudget,
                             unread: 0..FcSends]]
    /\ fcTerms \in Nat
    /\ fcClock \in 0..FcTicks

NewGlitch == [events |-> <<>>, sum |-> 0, child |-> FALSE, all |-> <<>>]
NewIo == [fin |-> "no", budget |-> FcBudget, unread |-> 0]

(* serve_connection_with_cancel_sni of both proxies before the select.     *)
Init ==
    /\ fcParent = [cancelled |-> FALSE, asked |-> FALSE]
    /\ fcConn = [c \in FcConns |->
         [at |-> "serving", open |-> TRUE, shutting |-> FALSE, done |-> FALSE,
          served |-> 0, handling |-> 0, writing |-> 0, signal |-> FALSE,
          why |-> "", lost |-> 0]]
    /\ fcGlitch = [c \in FcConns |-> NewGlitch]
    /\ fcIo = [c \in FcConns |-> NewIo]
    /\ fcTerms = 0
    /\ fcClock = 0

Alive(c) == fcConn[c].at # "closed"
InFlight(c) == fcConn[c].handling + fcConn[c].writing

(*--------------------------- hyper, the peer ----------------------------*)

(* hyper hands the next request to the service: HTTP/1 one at a time, both *)
(* only while the connection still takes requests.                         *)
Ready(c) ==
    /\ Alive(c)
    /\ fcConn[c].open
    /\ fcConn[c].served < FcRequests
    /\ c \in FcH1 => InFlight(c) = 0

(* hyper is through with the connection: nothing in flight and, for        *)
(* HTTP/2, poll_shutdown of CleanCloseIo has returned.                     *)
HyperEnds(c) ==
    /\ Alive(c)
    /\ ~fcConn[c].open
    /\ InFlight(c) = 0
    /\ ~fcConn[c].shutting
    /\ ~fcConn[c].done
    /\ fcConn' = [fcConn EXCEPT ![c].done = (c \in FcH1), ![c].shutting = (c \in FcH2)]
    /\ UNCHANGED <<fcParent, fcGlitch, fcIo, fcTerms, fcClock>>

(* A response body has been written out.                                   *)
Written(c) ==
    /\ Alive(c)
    /\ fcConn[c].writing > 0
    /\ fcConn' = [fcConn EXCEPT ![c].writing = @ - 1]
    /\ UNCHANGED <<fcParent, fcGlitch, fcIo, fcTerms, fcClock>>

(* The client closes its side while requests may be in flight: hyper ends  *)
(* with what is in flight dropped.                                         *)
ClientCloses(c) ==
    /\ Alive(c)
    /\ ~fcConn[c].done
    /\ ~fcConn[c].shutting
    /\ fcConn' = [fcConn EXCEPT ![c].done = TRUE, ![c].open = FALSE, ![c].handling = 0,
                                ![c].writing = 0, ![c].why = "client", ![c].lost = InFlight(c)]
    /\ UNCHANGED <<fcParent, fcGlitch, fcIo, fcTerms, fcClock>>

(* Bytes of the peer that reach the socket once hyper has stopped reading. *)
PeerSends(c) ==
    /\ Alive(c)
    /\ fcConn[c].shutting
    /\ ~fcConn[c].done
    /\ fcIo[c].unread + (FcBudget - fcIo[c].budget) < FcSends
    /\ fcIo' = [fcIo EXCEPT ![c].unread = @ + 1]
    /\ UNCHANGED <<fcParent, fcConn, fcGlitch, fcTerms, fcClock>>

Tick ==
    /\ fcClock < FcTicks
    /\ fcClock' = fcClock + 1
    /\ UNCHANGED <<fcParent, fcConn, fcGlitch, fcIo, fcTerms>>

(*------------------------------- services -------------------------------*)

(* ProxyService::call of h1_proxy, up to the await of the handler: the     *)
(* request number decides later whether the answer closes the connection.  *)
ForceClose(count) == FcKeepAlive > 0 /\ count >= FcKeepAlive

CallH1(c) ==
    /\ c \in FcH1
    /\ Ready(c)
    /\ fcConn' = [fcConn EXCEPT ![c].served = @ + 1, ![c].handling = 1]
    /\ UNCHANGED <<fcParent, fcGlitch, fcIo, fcTerms, fcClock>>

(* The rest of the call: `Connection: close` (after which hyper takes no   *)
(* further request), the termination counter and the wake-up of the driver.*)
RespondH1(c) ==
    /\ c \in FcH1
    /\ Alive(c)
    /\ fcConn[c].handling = 1
    /\ LET count == fcConn[c].served
           force == ForceClose(count)
       IN /\ fcConn' = [fcConn EXCEPT ![c].handling = 0, ![c].writing = 1,
                                      ![c].open = @ /\ ~force,
                                      ![c].signal = @ \/ force]
          /\ fcTerms' = IF force /\ count = FcKeepAlive THEN fcTerms + 1 ELSE fcTerms
    /\ UNCHANGED <<fcParent, fcGlitch, fcIo, fcClock>>

(* ProxyService::call of h2_proxy: any number of streams at once.          *)
CallH2(c) ==
    /\ c \in FcH2
    /\ Ready(c)
    /\ fcConn' = [fcConn EXCEPT ![c].served = @ + 1, ![c].handling = @ + 1]
    /\ UNCHANGED <<fcParent, fcGlitch, fcIo, fcTerms, fcClock>>

RespondH2(c) ==
    /\ c \in FcH2
    /\ Alive(c)
    /\ fcConn[c].handling > 0
    /\ fcConn' = [fcConn EXCEPT ![c].handling = @ - 1, ![c].writing = @ + 1]
    /\ UNCHANGED <<fcParent, fcGlitch, fcIo, fcTerms, fcClock>>

(*------------------------------- glitches -------------------------------*)

(* GlitchesCounter::prune and ::record: events older than the window leave *)
(* with their weight, then the new one is added.                           *)
Prune(events) == SelectSeq(events, LAMBDA e : e.when >= fcClock - FcWindow)

RecordOf(g, kind) ==
    LET event == [when |-> fcClock, weight |-> Weight(kind)]
        kept == Prune(g.events)
        gone == TotalWeight(g.events) - TotalWeight(kept)
    IN [g EXCEPT !.events = Append(kept, event),
                 !.sum = (@ - gone) + Weight(kind),
                 !.all = Append(@, event)]

(* GlitchConnState::record: a score over the threshold cancels the child   *)
(* token, which the driver of this connection alone waits on.              *)
\* Mutation: the counter holds the listener's token instead of a child of it.
RecordOnParent(c, kind) ==
    LET g == RecordOf(fcGlitch[c], kind) IN
    /\ fcGlitch' = [fcGlitch EXCEPT ![c] = g]
    /\ fcParent' = [fcParent EXCEPT !.cancelled = @ \/ g.sum > FcThreshold]
Record(c, kind) ==
    LET g == RecordOf(fcGlitch[c], kind) IN
    /\ fcGlitch' = [fcGlitch EXCEPT ![c] = [g EXCEPT !.child = @ \/ g.sum > FcThreshold]]
    /\ UNCHANGED fcParent

(* handle_inner of h2_proxy turns a request down and counts the glitch.    *)
RejectH2(c) ==
    /\ c \in FcH2
    /\ Alive(c)
    /\ fcConn[c].handling > 0
    /\ fcConn' = [fcConn EXCEPT ![c].handling = @ - 1, ![c].writing = @ + 1]
    /\ \E kind \in GlitchKind : Record(c, kind)
    /\ UNCHANGED <<fcIo, fcTerms, fcClock>>

(*-------------------------------- drivers -------------------------------*)

(* The process asks the listener's connections to drain.                   *)
Shutdown ==
    /\ ~fcParent.asked
    /\ fcParent' = [cancelled |-> TRUE, asked |-> TRUE]
    /\ UNCHANGED <<fcConn, fcGlitch, fcIo, fcTerms, fcClock>>

(* A child token is cancelled with its parent.                             *)
Cancelled(c) == fcParent.cancelled \/ fcGlitch[c].child

(* The cancel arm: graceful_shutdown lets what is in flight finish.        *)
GracefulShutdown(c) == fcConn' = [fcConn EXCEPT ![c].at = "draining", ![c].open = FALSE]

CancelArm(c) ==
    /\ fcConn[c].at = "serving"
    /\ Cancelled(c)
    /\ GracefulShutdown(c)
    /\ UNCHANGED <<fcParent, fcGlitch, fcIo, fcTerms, fcClock>>

(* The connection's counter and socket go with its future.                 *)
Dropped(c) == /\ fcGlitch' = [fcGlitch EXCEPT ![c] = NewGlitch]
              /\ fcIo' = [fcIo EXCEPT ![c] = NewIo]

(* The connection future returns, in the select or in the drain.           *)
ConnArm(c) ==
    /\ Alive(c)
    /\ fcConn[c].at = "serving" => ~Cancelled(c)
    /\ fcConn[c].done
    /\ fcConn' = [fcConn EXCEPT ![c].at = "closed",
                                ![c].why = IF @ = "" THEN "finished" ELSE @]
    /\ Dropped(c)
    /\ UNCHANGED <<fcParent, fcTerms, fcClock>>

(* The total timer, or the second one that bounds a drain, drops the       *)
(* connection future with whatever is in flight.                           *)
Expire(c, why) ==
    /\ ~fcConn[c].done
    /\ fcConn' = [fcConn EXCEPT ![c].at = "closed", ![c].open = FALSE, ![c].why = why,
                                ![c].handling = 0, ![c].writing = 0, ![c].lost = InFlight(c)]
    /\ Dropped(c)
    /\ UNCHANGED <<fcParent, fcTerms, fcClock>>

TimerArm(c) == fcConn[c].at = "serving" /\ ~Cancelled(c) /\ Expire(c, "total")
DrainTimeout(c) == fcConn[c].at = "draining" /\ Expire(c, "drain timeout")

(* The cap arm of h1_proxy, the last of the biased select.                 *)
CapArm(c) ==
    /\ fcConn[c].at = "serving"
    /\ ~Cancelled(c)
    /\ ~fcConn[c].done
    /\ fcConn[c].signal
    /\ GracefulShutdown(c)
    /\ UNCHANGED <<fcParent, fcGlitch, fcIo, fcTerms, fcClock>>

(*------------------------------ CleanCloseIo ----------------------------*)

Closing(c) == Alive(c) /\ fcConn[c].shutting /\ ~fcConn[c].done

(* poll_shutdown: the FIN first (the inner shutdown may fail), ...         *)
SendFin(c) ==
    /\ Closing(c)
    /\ fcIo[c].fin = "no"
    /\ \E how \in {"sent", "failed"} :
         /\ fcIo' = [fcIo EXCEPT ![c].fin = how]
         /\ fcConn' = [fcConn EXCEPT ![c].done = (how = "failed")]
    /\ UNCHANGED <<fcParent, fcGlitch, fcTerms, fcClock>>

(* ... then reads that are thrown away, within the byte budget, ...        *)
DrainRead(c) ==
    /\ Closing(c)
    /\ fcIo[c].fin = "sent"
    /\ fcIo[c].budget > 0
    /\ fcIo[c].unread > 0
    /\ fcIo' = [fcIo EXCEPT ![c].unread = @ - 1, ![c].budget = @ - 1]
    /\ UNCHANGED <<fcParent, fcConn, fcGlitch, fcTerms, fcClock>>

(* ... until the budget is used up or, with nothing to read, the peer's    *)
(* end, an error or the linger deadline ends it.                           *)
DrainEnds(c) == fcIo[c].budget = 0 \/ fcIo[c].unread = 0

DrainDone(c) ==
    /\ Closing(c)
    /\ fcIo[c].fin = "sent"
    /\ DrainEnds(c)
    /\ fcConn' = [fcConn EXCEPT ![c].done = TRUE]
    /\ UNCHANGED <<fcParent, fcGlitch, fcIo, fcTerms, fcClock>>

(*---------------------------- the specification -------------------------*)

Serve(c) == CallH1(c) \/ CallH2(c)
Handle(c) == RespondH1(c) \/ RespondH2(c) \/ RejectH2(c)
Driver(c) == CancelArm(c) \/ ConnArm(c) \/ TimerArm(c) \/ CapArm(c) \/ DrainTimeout(c)
Close(c) == SendFin(c) \/ DrainRead(c) \/ DrainDone(c)
Hyper(c) == HyperEnds(c) \/ Written(c) \/ ClientCloses(c) \/ PeerSends(c)

Next ==
    \/ Shutdown
    \/ Tick
    \/ \E c \in FcConns : Serve(c) \/ Handle(c) \/ Driver(c) \/ Close(c) \/ Hyper(c)

Spec == Init /\ [][Next]_fcVars /\ \A c \in FcConns : WF_fcVars(Driver(c))

(*------------------------------- properties -----------------------------*)

(* Of an HTTP/1 connection no request is taken past the keep-alive cap,    *)
(* and each connection that answered its capped request was counted once   *)
(* (RFC-style `Connection: close` of ProxyService::call).                  *)
CapExact ==
    FcKeepAlive > 0 =>
        /\ \A c \in FcH1 : fcConn[c].served <= FcKeepAlive
        /\ fcTerms = Cardinality({c \in FcH1 : fcConn[c].signal})

(* Requests in flight are lost only to a timer or to the client: neither a *)
(* shutdown, nor the cap, nor a glitch drain drops one.                    *)
DropsHaveCause ==
    \A c \in FcConns :
        fcConn[c].lost > 0 => fcConn[c].why \in {"total", "drain timeout", "client"}

(* A glitch drain is local: without a shutdown no connection drains except *)
(* one whose own glitches of one window went over the threshold, or one at *)
(* its keep-alive cap.                                                     *)
OverThreshold(g) ==
    \E i \in 1..Len(g.all) :
        TotalWeight(SelectSeq(SubSeq(g.all, 1, i),
                              LAMBDA e : e.when >= g.all[i].when - FcWindow)) > FcThreshold
GlitchDrainLocal ==
    ~fcParent.asked => \A c \in FcConns :
        fcConn[c].at = "draining" => \/ c \in FcH1 /\ fcConn[c].signal
                                     \/ c \in FcH2 /\ OverThreshold(fcGlitch[c])

(* The child token is cancelled exactly when some window was too full, so  *)
(* the incrementally kept score never drifts from the events it stands for.*)
GlitchScoreExact ==
    \A c \in FcH2 : fcGlitch[c].child = OverThreshold(fcGlitch[c])

(* An HTTP/2 connection that ends by itself has sent its FIN and left no   *)
(* byte of the peer unread, unless the drain budget was used up or the     *)
(* socket failed.                                                          *)
ClosesCleanly ==
    \A c \in FcH2 :
        /\ Alive(c) /\ fcConn[c].shutting /\ fcConn[c].done
        /\ fcIo[c].fin # "failed" /\ fcIo[c].budget > 0
        => fcIo[c].fin = "sent" /\ fcIo[c].unread = 0

(* Every connection ends.                                                  *)
ConnEnds == \A c \in FcConns : <>(fcConn[c].at = "closed")
=============================================================================
