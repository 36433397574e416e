-------------------------------- MODULE Boot --------------------------------
(* The configuration, its validation, and the boot of a process from it. *)
EXTENDS Integers, Sequences, FiniteSets, TLC, SequencesExt

-----------------------------------------------------------------------------
(* The configuration of the gateway and the validation every boot and      *)
(* every reload runs on it: lb-config/src/lib.rs.                           *)
(*                                                                          *)
(* A configuration is a record with the fields of the TOML document that a *)
(* check or a builder reads.  An optional field or block is a set with at  *)
(* most one element.  A text is a string; the ones that differ from        *)
(* another only by blanks are listed in Trimmed.                            *)

Trimmed == (" " :> "") @@ (" quic" :> "quic") @@ (" tls" :> "tls")

Trim(text) == IF text \in DOMAIN Trimmed THEN Trimmed[text] ELSE text

Blank(text) == Trim(text) = ""

OrElse(option, default) == IF option = {} THEN default ELSE CHOOSE v \in option : TRUE

-----------------------------------------------------------------------------
(* The blocks of the document with the values serde fills in.              *)

RuntimeTable ==
  [xdp_enabled |-> FALSE, xdp_interface |-> {}, drain_timeout_ms |-> 10000,
   readiness_settle_ms |-> 11000, drain_jitter_ms |-> {},
   handshake_timeout_ms |-> 5000, max_inflight_connections |-> 65536,
   connect_timeout_ms |-> 5000, per_ip_connection_cap |-> 1024,
   watchdog |-> {}, max_keepalive_requests |-> 100,
   max_requests_per_h3_connection |-> 1000,
   xdp_new_flow_cap_per_sec_per_cpu |-> 125000]

WatchdogTable ==
  [header_deadline_ms |-> 5000, body_progress_min_bps |-> 64,
   sweep_interval_ms |-> 1000]

ListenerTable ==
  [address |-> "l:1", protocol |-> "tcp", tls |-> {}, quic |-> {},
   alt_svc |-> {}, http |-> {}, h2_security |-> {}, websocket |-> {},
   grpc |-> {}, drain_timeout_ms |-> {}, drain_jitter_ms |-> {},
   backends |-> <<>>]

GrpcTable == [enabled |-> TRUE, max_deadline_seconds |-> 300, health_synthesized |-> TRUE]

WebsocketTable ==
  [enabled |-> TRUE, idle_timeout_seconds |-> 60,
   max_message_size_bytes |-> 16 * 1024 * 1024,
   ping_rate_limit_per_window |-> 50, ping_rate_limit_window_seconds |-> 10,
   read_frame_timeout_seconds |-> 30,
   h2_extended_connect |-> FALSE, h3_extended_connect |-> FALSE]

HttpTable ==
  [header_timeout_ms |-> 10000, body_timeout_ms |-> 30000,
   total_timeout_ms |-> 60000, head_timeout_ms |-> 60000]

TlsTable ==
  [cert_path |-> "cert", key_path |-> "key",
   ticket_rotation_interval_seconds |-> 86400,
   ticket_rotation_overlap_seconds |-> 86400]

QuicTable ==
  [cert_path |-> "cert", key_path |-> "key", retry_secret_path |-> "secret",
   max_idle_timeout_ms |-> 30000, max_recv_udp_payload_size |-> 1350,
   raw_proxy |-> {}]

RawProxyTable ==
  [backend_addr |-> "r:1", sni |-> "r", backend_ca_path |-> {},
   dgram_queue_cap |-> 1024, max_relay_streams |-> 256]

PassthroughTable ==
  [backends |-> <<"p:1">>, retry_secret_path |-> "secret",
   max_quic_connections |-> 100000, min_client_dcid_len |-> 8,
   per_flow_backlog |-> 32, audit_throttle_window_secs |-> 60,
   max_dcid_len_routed |-> 20, flow_idle_timeout_ms |-> 60000]

BackendTable ==
  [address |-> "a:1", protocol |-> "tcp", tls_ca_path |-> {},
   tls_verify_hostname |-> {}, tls_verify_peer |-> TRUE]

Document ==
  [listeners |-> <<>>, runtime |-> {}, metrics_bind |-> {},
   api_token_hash |-> {}, allow_non_loopback |-> FALSE, passthrough |-> {}]

-----------------------------------------------------------------------------
(* Inheritance of the drain budget from [runtime].                         *)

RuntimeJitter(rt) == OrElse(rt.drain_jitter_ms, rt.drain_timeout_ms \div 4)

EffectiveDrainTimeout(l, runtime) ==
  OrElse(l.drain_timeout_ms, OrElse({rt.drain_timeout_ms : rt \in runtime}, 10000))

EffectiveDrainJitter(l, runtime) ==
  OrElse(l.drain_jitter_ms, OrElse({RuntimeJitter(rt) : rt \in runtime}, 10000 \div 4))

-----------------------------------------------------------------------------
(* The checks, one operator for each function of the code.                  *)

WatchdogOk(wd) ==
  /\ wd.header_deadline_ms \in 100 .. 60000
  /\ wd.body_progress_min_bps <= 10000000
  /\ wd.sweep_interval_ms \in 100 .. 60000

\* Zero turns each cap off.
CapsOk(rt) ==
  /\ \/ rt.xdp_new_flow_cap_per_sec_per_cpu = 0
     \/ rt.xdp_new_flow_cap_per_sec_per_cpu \in 1000 .. 10000000
  /\ rt.max_keepalive_requests <= 10000000
  /\ rt.max_requests_per_h3_connection <= 10000000

RuntimeOk(rt) ==
  /\ rt.xdp_enabled => \E iface \in rt.xdp_interface : ~Blank(iface)
  /\ rt.drain_timeout_ms \in 100 .. 300000
  /\ \A j \in rt.drain_jitter_ms : j <= rt.drain_timeout_ms
  /\ rt.readiness_settle_ms <= 30000
  /\ rt.handshake_timeout_ms \in 100 .. 60000
  /\ rt.max_inflight_connections \in 100 .. 2000000
  /\ rt.connect_timeout_ms \in 100 .. 60000
  /\ rt.per_ip_connection_cap \in 1 .. 2000000
  /\ \A wd \in rt.watchdog : WatchdogOk(wd)
  /\ CapsOk(rt)

TlsListenerOk(l) ==
  /\ l.tls # {}
  /\ \A tls \in l.tls : /\ ~Blank(tls.cert_path) /\ ~Blank(tls.key_path)
                        /\ tls.ticket_rotation_interval_seconds > 0
  /\ l.quic = {}

H1sListenerOk(l) == l.tls # {} /\ l.quic = {} /\ TlsListenerOk(l)

Family(protocol) == IF protocol \in {"tcp", "h1"} THEN "h1" ELSE protocol

QuicListenerOk(l) ==
  /\ l.quic # {}
  /\ \A quic \in l.quic :
       /\ ~Blank(quic.cert_path) /\ ~Blank(quic.key_path)
       /\ ~Blank(quic.retry_secret_path)
       /\ quic.max_idle_timeout_ms > 0
       /\ quic.max_recv_udp_payload_size >= 1200
       /\ quic.raw_proxy # {} => l.backends = <<>>
  /\ l.tls = {}
  /\ Cardinality({Family(l.backends[i].protocol) : i \in DOMAIN l.backends}
                   \cap {"h1", "h2", "h3"}) <= 1

WebsocketOk(protocol, l) ==
  \A ws \in l.websocket :
    /\ protocol \in {"h1", "h1s", "quic"}
    /\ ws.idle_timeout_seconds > 0 /\ ws.max_message_size_bytes > 0
    /\ ws.ping_rate_limit_per_window > 0 /\ ws.ping_rate_limit_window_seconds > 0
    /\ ws.read_frame_timeout_seconds > 0

GrpcOk(protocol, l) ==
  \A grpc \in l.grpc : protocol = "h1s" /\ grpc.max_deadline_seconds > 0

HttpOk(l) ==
  \A http \in l.http : /\ http.header_timeout_ms > 0 /\ http.body_timeout_ms > 0
                       /\ http.total_timeout_ms > 0 /\ http.head_timeout_ms > 0

BackendTlsOk(b) ==
  IF b.protocol # "h3"
  THEN b.tls_ca_path = {} /\ b.tls_verify_hostname = {} /\ b.tls_verify_peer
  ELSE /\ b.tls_verify_peer => \E ca \in b.tls_ca_path : ca # ""
       /\ \A sni \in b.tls_verify_hostname : ~Blank(sni)

BackendListOk(l) ==
  \A i \in DOMAIN l.backends :
    LET b == l.backends[i]
    IN ~Blank(b.address) /\ b.protocol \in {"tcp", "h1", "h2", "h3"} /\ BackendTlsOk(b)

ListenerOk(l) ==
  LET protocol == Trim(l.protocol) IN
  /\ ~Blank(l.address)
  /\ \/ protocol = "tls" /\ TlsListenerOk(l)
     \/ protocol = "quic" /\ QuicListenerOk(l)
     \/ protocol = "h1s" /\ H1sListenerOk(l)
     \/ protocol \in {"h1", "tcp"} /\ l.tls = {} /\ l.quic = {}
  /\ WebsocketOk(protocol, l) /\ GrpcOk(protocol, l) /\ HttpOk(l) /\ BackendListOk(l)
  /\ \A t \in l.drain_timeout_ms : t \in 100 .. 300000
  /\ \A j \in l.drain_jitter_ms : j <= OrElse(l.drain_timeout_ms, 300000)

PassthroughOk(pt) ==
  /\ pt.backends # <<>>
  /\ pt.max_quic_connections \in 1 .. 2000000
  /\ pt.min_client_dcid_len \in 8 .. 20
  /\ pt.per_flow_backlog \in 1 .. 8192
  /\ pt.audit_throttle_window_secs > 0
  /\ pt.max_dcid_len_routed \in 1 .. 20
  /\ pt.retry_secret_path # ""

\* metrics_bind is "local" (loopback), "public", blank or not an address.
ObservabilityOk(cfg) ==
  \A bind \in cfg.metrics_bind : ~Blank(bind) /\ bind \in {"local", "public"}

InheritedJitterOk(cfg) ==
  \A i \in DOMAIN cfg.listeners :
    EffectiveDrainJitter(cfg.listeners[i], cfg.runtime)
      <= EffectiveDrainTimeout(cfg.listeners[i], cfg.runtime)

ValidateConfig(cfg) ==
  /\ cfg.listeners # <<>> \/ cfg.passthrough # {}
  /\ \A pt \in cfg.passthrough : PassthroughOk(pt)
  /\ \A i \in DOMAIN cfg.listeners : ListenerOk(cfg.listeners[i])
  /\ \A rt \in cfg.runtime : RuntimeOk(rt)
  /\ InheritedJitterOk(cfg)
  /\ ObservabilityOk(cfg)

-----------------------------------------------------------------------------
(* From a configuration file to a serving process: async_main up to the    *)
(* signal loop, with the builders it calls, and the rebuild of a listener  *)
(* that a reload performs.  lb/src/main.rs.                                 *)
(*                                                                          *)
(* Boot is one task, but every listener it starts serves from then on, and *)
(* signals arrive at any moment.  Name resolution, the loading of          *)
(* certificates and the binding of sockets succeed or fail at will.         *)

CONSTANTS
  Configs,     \* the configuration files
  Edits(_)     \* what a listener's block may be edited to

VARIABLES
  config,      \* the file boot reads
  stage,       \* where async_main is
  next,        \* index of the next listener to start
  started,     \* the listeners started, with what serves them
  process,     \* "booting", "running", "failed" (exit with an error) or "killed"
  probe,       \* ProbeState: "starting" or "ready"
  handled,     \* the signal streams are installed
  admin        \* the admin endpoint: "off", "serving" or "failed"

boot == <<config, stage, next, started, process, probe, handled, admin>>

-----------------------------------------------------------------------------
(* Addresses: "a:1" and "b:1" split into a host and a port, "c" does not.  *)

HostOf == ("a:1" :> "a") @@ ("b:1" :> "b") @@ ("l:1" :> "l") @@ ("m:1" :> "m") @@ ("r:1" :> "r")

SplitHostPort(address) == IF address \in DOMAIN HostOf THEN {HostOf[address]} ELSE {}

ParseUpstreamProto(protocol) == Family(protocol)

BuildUpstreamBackends(l) ==
  [i \in DOMAIN l.backends |->
     LET b == l.backends[i]
         proto == ParseUpstreamProto(b.protocol)
     IN [addr |-> b.address, proto |-> proto,
         sni |-> IF proto = "h3" THEN {OrElse(b.tls_verify_hostname,
                                              OrElse(SplitHostPort(b.address), ""))}
                 ELSE {}]]

Needs(upstreams, proto) == \E i \in DOMAIN upstreams : upstreams[i].proto = proto

CollectH3Backends(l) == SelectSeq(l.backends, LAMBDA b : b.protocol = "h3")

\* An interval of zero turns the keep-alive pings off.
Pings(interval) == IF interval = 0 THEN {} ELSE {interval}

\* The pool for HTTP/2 upstreams takes some of the listener's thresholds.
BuildH2Pool(l) ==
  [streams |-> OrElse(UNION {c.max_concurrent_streams : c \in l.h2_security}, 256),
   pings |-> Pings(OrElse(UNION {c.keep_alive_interval_ms : c \in l.h2_security}, 30000))]

MergeH2Security(l) ==
  [streams |-> OrElse(UNION {c.max_concurrent_streams : c \in l.h2_security}, 256),
   pings |-> Pings(OrElse(UNION {c.keep_alive_interval_ms : c \in l.h2_security}, 30000))]

\* One pool cannot dial under two trust roots.
H3TrustAgrees(backends) ==
  /\ backends # <<>>
  /\ \A i \in DOMAIN backends :
       /\ backends[i].tls_verify_peer = backends[1].tls_verify_peer
       /\ backends[i].tls_ca_path = backends[1].tls_ca_path
  /\ backends[1].tls_verify_peer => \E ca \in backends[1].tls_ca_path : ca # ""

BuildH3Pool(backends) ==
  [verify |-> backends[1].tls_verify_peer,
   ca |-> IF backends[1].tls_verify_peer THEN backends[1].tls_ca_path ELSE {}]

UpstreamsBuildable(l) ==
  /\ l.backends # <<>>
  /\ Needs(BuildUpstreamBackends(l), "h3") => H3TrustAgrees(CollectH3Backends(l))

H2PoolFor(l) == IF Needs(BuildUpstreamBackends(l), "h2") THEN {BuildH2Pool(l)} ELSE {}

H3PoolFor(l) ==
  IF Needs(BuildUpstreamBackends(l), "h3") THEN {BuildH3Pool(CollectH3Backends(l))} ELSE {}

BuildH1Proxy(upstreams, h2pool, h3pool, l, https, keepalive) ==
  [upstreams |-> upstreams, h2pool |-> h2pool, h3pool |-> h3pool,
   alt_svc |-> l.alt_svc, http |-> OrElse(l.http, HttpTable),
   websocket |-> {ws.enabled : ws \in l.websocket}, https |-> https,
   keepalive |-> keepalive]

\* Extended CONNECT is offered only with a WebSocket block.
BuildH2Proxy(upstreams, h2pool, h3pool, l, https) ==
  [upstreams |-> upstreams, h2pool |-> h2pool, h3pool |-> h3pool,
   alt_svc |-> l.alt_svc, http |-> OrElse(l.http, HttpTable),
   h2_security |-> MergeH2Security(l),
   websocket |-> {ws.enabled : ws \in l.websocket},
   extended_connect |-> \E ws \in l.websocket : ws.h2_extended_connect,
   grpc |-> l.grpc, https |-> https]

-----------------------------------------------------------------------------
(* What serves a listener.  The mode is chosen by the protocol as written, *)
(* where validation looked at the trimmed one.                              *)

BuildListenerMode(l, keepalive) ==
  LET upstreams == BuildUpstreamBackends(l) IN
  CASE l.protocol = "tls" -> [kind |-> "Tls", alpn |-> <<>>]
    [] l.protocol = "h1" ->
         [kind |-> "H1",
          h1 |-> BuildH1Proxy(upstreams, H2PoolFor(l), H3PoolFor(l), l, FALSE, keepalive)]
    [] l.protocol = "h1s" ->
         [kind |-> "H1s", alpn |-> <<"h2", "http/1.1">>,
          h1 |-> BuildH1Proxy(upstreams, H2PoolFor(l), H3PoolFor(l), l, TRUE, keepalive),
          h2 |-> BuildH2Proxy(upstreams, H2PoolFor(l), H3PoolFor(l), l, TRUE)]
    [] OTHER -> [kind |-> "PlainTcp"]

ModeBuildable(l) ==
  /\ l.protocol \in {"tls", "h1", "h1s", "tcp"}
  /\ l.protocol \in {"tls", "h1s"} => l.tls # {}
  /\ l.protocol \in {"h1", "h1s"} => UpstreamsBuildable(l)

\* Mutation: the second proxy keeps what it had.
RebuildFirstOnly(l, mode, keepalive) ==
  LET upstreams == BuildUpstreamBackends(l) IN
  [mode EXCEPT !.h1 = BuildH1Proxy(upstreams, H2PoolFor(l), H3PoolFor(l), l,
                                   mode.kind = "H1s", keepalive)]

\* A reload builds new proxies and stores them; the TLS side is kept.
RebuildL7Proxies(l, mode, keepalive) ==
  LET upstreams == BuildUpstreamBackends(l) IN
  IF mode.kind = "H1"
  THEN [mode EXCEPT !.h1 = BuildH1Proxy(upstreams, H2PoolFor(l), H3PoolFor(l), l,
                                        FALSE, keepalive)]
  ELSE [mode EXCEPT !.h1 = BuildH1Proxy(upstreams, H2PoolFor(l), H3PoolFor(l), l,
                                        TRUE, keepalive),
                    !.h2 = BuildH2Proxy(upstreams, H2PoolFor(l), H3PoolFor(l), l, TRUE)]

\* Extended CONNECT over HTTP/3 needs termination and both switches.
WsOverH3(l, raw) ==
  ~raw /\ \E ws \in l.websocket : ws.enabled /\ ws.h3_extended_connect

\* A raw proxy verifies its backend always; without a CA it uses the system's.
BuildRawQuicBackend(rp) ==
  [addr |-> rp.backend_addr, sni |-> rp.sni, verify |-> TRUE, ca |-> rp.backend_ca_path,
   queue |-> rp.dgram_queue_cap, streams |-> rp.max_relay_streams]

\* The family of the first backend decides; only HTTP/1 uses all of them,
\* and only there is a launcher for WebSocket tunnels installed.
WireH3Backends(l, ws) ==
  LET first == l.backends[1]
      proto == ParseUpstreamProto(first.protocol)
  IN CASE proto = "h1" -> [proto |-> "h1", launcher |-> ws,
                           addrs |-> [i \in DOMAIN l.backends |-> l.backends[i].address]]
       [] proto = "h2" -> [proto |-> "h2", launcher |-> FALSE,
                           pool |-> BuildH2Pool(l), addrs |-> <<first.address>>]
       [] OTHER -> [proto |-> "h3", launcher |-> FALSE,
                    pool |-> BuildH3Pool(CollectH3Backends(l)), addrs |-> <<first.address>>,
                    sni |-> OrElse(first.tls_verify_hostname,
                                   OrElse(SplitHostPort(first.address), first.address))]

SpawnQuic(l, cap) ==
  LET quic == CHOOSE q \in l.quic : TRUE
      raw == quic.raw_proxy # {}
      ws == WsOverH3(l, raw)
  IN [kind |-> IF raw THEN "RawQuic" ELSE "H3", ws |-> ws, cap |-> cap,
      raw |-> {BuildRawQuicBackend(rp) : rp \in quic.raw_proxy},
      backends |-> IF ~raw /\ l.backends # <<>> THEN {WireH3Backends(l, ws)} ELSE {}]

QuicBuildable(l) ==
  /\ l.quic # {}
  /\ l.address \in DOMAIN HostOf
  /\ \A quic \in l.quic : \A rp \in quic.raw_proxy : rp.backend_addr \in DOMAIN HostOf
  /\ l.backends # <<>> /\ l.backends[1].protocol = "h3" => H3TrustAgrees(CollectH3Backends(l))

Resolvable(l) == \A i \in DOMAIN l.backends : SplitHostPort(l.backends[i].address) # {}

-----------------------------------------------------------------------------
(* Knobs that boot derives from the file.                                   *)

Keepalive(cfg) == OrElse({rt.max_keepalive_requests : rt \in cfg.runtime}, 100)

H3RequestCap(cfg) == OrElse({rt.max_requests_per_h3_connection : rt \in cfg.runtime}, 1000)

Largest(S) == CHOOSE x \in S : \A y \in S : y <= x

\* The drain waits as long as the listener with the largest budget may take.
DrainBudget(cfg) ==
  Largest({OrElse({rt.drain_timeout_ms : rt \in cfg.runtime}, 10000)}
            \cup {EffectiveDrainTimeout(cfg.listeners[i], cfg.runtime) :
                     i \in DOMAIN cfg.listeners})

\* LabelBudget::check: four HTTP versions, five status classes, 64 routes and
\* a ceiling of 10,000 series for each metric family.
LabelBudgetOk(cfg) ==
  LET listeners == Len(cfg.listeners)
      backends == Largest({0} \cup {Len(cfg.listeners[i].backends) :
                                      i \in DOMAIN cfg.listeners})
  IN /\ listeners * 64 * 4 * 5 <= 10000
     /\ listeners * backends * 5 <= 10000

TokenParses(cfg) == \A token \in cfg.api_token_hash : token = "hex64"

ValidateBind(cfg, bind) ==
  bind = "public" => cfg.allow_non_loopback /\ cfg.api_token_hash # {}

-----------------------------------------------------------------------------

BootInit ==
  /\ config \in Configs
  /\ stage = "validate" /\ next = 1 /\ started = <<>>
  /\ process = "booting" /\ probe = "starting"
  /\ handled = FALSE /\ admin = "off"

\* async_main returns an error: the process exits with every listener it started.
Bail ==
  /\ process' = "failed"
  /\ UNCHANGED <<config, stage, next, started, probe, handled, admin>>

At(s) == process \in {"booting", "running"} /\ stage = s

Goto(s) == stage' = s

BootValidate ==
  /\ At("validate")
  /\ IF ValidateConfig(config) /\ LabelBudgetOk(config)
     THEN Goto("admin") /\ UNCHANGED <<config, next, started, process, probe, handled, admin>>
     ELSE Bail

\* A refused token or address ends boot; a socket that does not bind is logged.
StartAdmin ==
  /\ At("admin")
  /\ IF \A bind \in config.metrics_bind : TokenParses(config) /\ ValidateBind(config, bind)
     THEN /\ admin' \in (IF config.metrics_bind = {} THEN {"off"} ELSE {"serving", "failed"})
          /\ Goto("listeners")
          /\ UNCHANGED <<config, next, started, process, probe, handled>>
     ELSE Bail

Serve(l, mode) ==
  /\ started' = Append(started, [listener |-> l, mode |-> mode])
  /\ next' = next + 1
  /\ UNCHANGED <<config, stage, process, probe, handled, admin>>

StartListener ==
  /\ At("listeners") /\ next <= Len(config.listeners)
  /\ LET l == config.listeners[next] IN
     IF l.protocol = "quic"
     THEN \/ QuicBuildable(l) /\ (l.backends # <<>> => Resolvable(l))
             /\ Serve(l, SpawnQuic(l, H3RequestCap(config)))
          \/ Bail
     ELSE IF l.backends = <<>>
     THEN /\ next' = next + 1
          /\ UNCHANGED <<config, stage, started, process, probe, handled, admin>>
     ELSE \/ Resolvable(l) /\ ModeBuildable(l)
             /\ Serve(l, BuildListenerMode(l, Keepalive(config)))
          \/ Bail

Passthrough ==
  [listener |-> [ListenerTable EXCEPT !.protocol = "passthrough"],
   mode |-> [kind |-> "Passthrough"]]

StartPassthrough ==
  /\ At("listeners") /\ next > Len(config.listeners)
  /\ \/ /\ started' = started \o SetToSeq({Passthrough : pt \in config.passthrough})
        /\ Goto("ready")
        /\ UNCHANGED <<config, next, process, probe, handled, admin>>
     \/ config.passthrough # {} /\ Bail

SetReady ==
  /\ At("ready")
  /\ IF started = <<>> THEN Bail
     ELSE /\ probe' = "ready" /\ process' = "running" /\ Goto("install")
          /\ UNCHANGED <<config, next, started, handled, admin>>

InstallSignals ==
  /\ At("install")
  /\ handled' = TRUE /\ Goto("signals")
  /\ UNCHANGED <<config, next, started, process, probe, admin>>

\* The fields of two listeners at one address that differ, as the reload
\* classifies them; a change of protocol hides every other.
L7Fields == {"backends", "http", "h2_security", "websocket", "alt_svc", "grpc"}

SwappableFields == L7Fields

RestartFields == {"tls", "quic", "drain_timeout_ms", "drain_jitter_ms"}

DiffListener(old, new) ==
  IF old.protocol # new.protocol THEN [swappable |-> {}, restart |-> {"protocol"}]
  ELSE [swappable |-> {f \in SwappableFields : old[f] # new[f]},
        restart |-> {f \in RestartFields : old[f] # new[f]}]

\* What of an edited block may be applied to a running listener.
Applied(old, new) ==
  [f \in DOMAIN old |-> IF f \in L7Fields THEN new[f] ELSE old[f]]

\* A reload of one registered listener: it is rebuilt when the comparison
\* finds a swappable field, and a step that fails keeps the old proxies.
ReloadListener(i, edited) ==
  /\ At("signals") /\ i \in DOMAIN started
  /\ started[i].mode.kind \in {"H1", "H1s"}
  /\ ListenerOk(edited) /\ Resolvable(edited) /\ UpstreamsBuildable(edited)
  /\ started[i].listener.protocol = edited.protocol
  /\ started' = [started EXCEPT ![i] =
       [listener |-> Applied(@.listener, edited),
        mode |-> IF DiffListener(@.listener, edited).swappable # {}
                 THEN RebuildL7Proxies(edited, @.mode, Keepalive(config)) ELSE @.mode]]
  /\ UNCHANGED <<config, stage, next, process, probe, handled, admin>>

\* Before the streams are installed a signal has its default effect.
Signal ==
  /\ process \in {"booting", "running"} /\ ~handled
  /\ process' = "killed"
  /\ UNCHANGED <<config, stage, next, started, probe, handled, admin>>

BootNext ==
  \/ BootValidate \/ StartAdmin \/ StartListener \/ StartPassthrough
  \/ SetReady \/ InstallSignals \/ Signal
  \/ \E i \in DOMAIN started : \E l \in Edits(started[i].listener) : ReloadListener(i, l)

-----------------------------------------------------------------------------
(* Properties.                                                              *)

KindOf ==
  ("tcp" :> {"PlainTcp"}) @@ ("tls" :> {"Tls"}) @@ ("h1" :> {"H1"}) @@ ("h1s" :> {"H1s"})
  @@ ("quic" :> {"H3", "RawQuic"}) @@ ("passthrough" :> {"Passthrough"})

\* A process that reports ready serves every listener of its file in the mode
\* the validated protocol names, except those it may skip for lack of backends
\* (async_main's loop over the listeners).
ReadyIsServed ==
  process = "running" =>
    /\ \A i \in DOMAIN started :
         LET s == started[i] IN s.mode.kind \in KindOf[Trim(s.listener.protocol)]
    /\ \A i \in DOMAIN config.listeners :
         \/ \E j \in DOMAIN started :
              started[j].listener.address = config.listeners[i].address
         \/ config.listeners[i].backends = <<>>
    /\ started # <<>>

\* The trust an HTTP/3 backend asks for is the trust of the pool that dials it,
\* also after a reload (build_h3_upstream_pool).
PoolTrusts(pool, backends) ==
  \A i \in DOMAIN backends :
    backends[i].protocol = "h3" =>
      /\ pool.verify = backends[i].tls_verify_peer
      /\ pool.verify => pool.ca = backends[i].tls_ca_path /\ pool.ca # {}

TrustKept ==
  \A i \in DOMAIN started :
    LET m == started[i].mode
        bs == started[i].listener.backends
        usesH3 == \E b \in DOMAIN bs : bs[b].protocol = "h3"
    IN /\ m.kind \in {"H1", "H1s"} =>
            (m.h1.h3pool # {}) = usesH3 /\ \A p \in m.h1.h3pool : PoolTrusts(p, bs)
       /\ m.kind = "H1s" => /\ m.h2.h3pool = m.h1.h3pool /\ m.h2.upstreams = m.h1.upstreams
                            /\ \A p \in m.h2.h2pool : p = m.h2.h2_security
       /\ m.kind = "H3" => \A w \in m.backends : w.proto = "h3" => PoolTrusts(w.pool, bs)

\* A reloaded listener is served exactly as a restart would serve it
\* (rebuild_l7_proxies against build_listener_mode).
ReloadAsRestart ==
  \A i \in DOMAIN started :
    started[i].mode.kind \in {"H1", "H1s"} =>
      started[i].mode = BuildListenerMode(started[i].listener, Keepalive(config))

\* No connection's grace outlasts its listener's drain budget, nor that the
\* budget of the process (effective_drain_jitter_ms, async_main's DrainSpec).
JitterWithinBudget ==
  stage # "validate" =>
    \A i \in DOMAIN config.listeners :
      LET l == config.listeners[i] IN
      /\ EffectiveDrainJitter(l, config.runtime) <= EffectiveDrainTimeout(l, config.runtime)
      /\ EffectiveDrainTimeout(l, config.runtime) <= DrainBudget(config)

\* The admin endpoint is never open on a public address without a token.
AdminGuarded ==
  admin = "serving" /\ "public" \in config.metrics_bind =>
    config.allow_non_loopback /\ config.api_token_hash = {"hex64"}

\* A validated configuration is served as it says, and a reload of a listener
\* leaves it as a restart would (async_main, rebuild_l7_proxies).
BootSound ==
  /\ ReadyIsServed /\ TrustKept /\ ReloadAsRestart /\ JitterWithinBudget /\ AdminGuarded
  /\ stage \in {"validate", "admin", "listeners", "ready", "install", "signals"}

\* Refuted: what validation accepts can be started.  The protocol is trimmed by
\* validation only; addresses, tokens, trust settings and the label budget are
\* first looked at during boot.
ValidatedBoots ==
  ValidateConfig(config) =>
    /\ LabelBudgetOk(config)
    /\ \A bind \in config.metrics_bind : TokenParses(config) /\ ValidateBind(config, bind)
    /\ \A i \in DOMAIN config.listeners :
         LET l == config.listeners[i] IN
         /\ Resolvable(l)
         /\ IF Trim(l.protocol) = "quic" THEN QuicBuildable(l) /\ l.protocol = "quic"
            ELSE l.backends = <<>> \/ ModeBuildable(l)

\* Refuted: a process that has reported ready is not ended by a reload signal.
\* The streams are installed after set_ready.
ReadySurvivesSignals == process = "killed" => probe = "starting"
=============================================================================
