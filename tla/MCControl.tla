----------------------------- MODULE MCControl -----------------------------
(* The control plane of the process: its boot from a configuration, the    *)
(* reload of the configuration and of certificates, and what it reports    *)
(* about itself.  The parts share no state here, so a behaviour runs one   *)
(* of them (subject) and leaves the others at rest.                        *)
EXTENDS ConfigReload, Boot, TlsReload, Observability, TLC

CONSTANTS textA, textB, textC, bad, junk, l1, l2

VARIABLE subject

-----------------------------------------------------------------------------
(* The configurations reloaded: three valid ones and one that fails         *)
(* validation, over an L7 listener that one of them removes and one whose   *)
(* protocol changes.                                                        *)

Both(x, y) == (l1 :> x) @@ (l2 :> y)
Config(proto, l7, fixed, keep, wide) ==
  [proto |-> proto, l7 |-> l7, fixed |-> fixed, keep |-> keep, boot |-> wide]

MCTyped ==
  (textA :> Config(Both("l7", "raw"), Both(1, 1), Both(0, 0), 0, 0))
  @@ (textB :> Config(Both("l7", "l7"), Both(2, 2), Both(0, 0), 1, 0))
  @@ (textC :> Config(Both("absent", "raw"), Both(1, 3), Both(0, 1), 0, 1))
  @@ (bad :> Config(Both("l7", "raw"), Both(9, 1), Both(0, 0), 0, 0))

-----------------------------------------------------------------------------
(* The configurations booted: every kind of listener with every mix of      *)
(* backends and one setting changed; the process-wide settings; the admin   *)
(* endpoint; passthrough; and numbers of listeners around the label budget. *)

H3(addr) == [BackendTable EXCEPT !.address = addr, !.protocol = "h3", !.tls_ca_path = {"ca"}]
Plain(addr, p) == [BackendTable EXCEPT !.address = addr, !.protocol = p]
BackendSets ==
  {<<>>, <<Plain("a:1", "tcp")>>, <<Plain("c", "h1")>>, <<Plain("a:1", "h2"), Plain("b:1", "h1")>>,
   <<Plain("a:1", "h2"), Plain("b:1", "h2")>>,
   <<H3("a:1"), H3("b:1")>>,
   <<H3("a:1"), [H3("b:1") EXCEPT !.tls_verify_peer = FALSE]>>,
   <<H3("a:1"), [H3("b:1") EXCEPT !.tls_ca_path = {"other"}]>>,
   <<[H3("a:1") EXCEPT !.tls_ca_path = {}], H3("b:1")>>,
   <<[H3("a:1") EXCEPT !.tls_verify_peer = FALSE, !.tls_ca_path = {}, !.tls_verify_hostname = {"n"}]>>,
   <<Plain("a:1", "h1"), H3("b:1"), Plain("a:1", "h2")>>}
Bases ==
  {[ListenerTable EXCEPT !.protocol = p] : p \in {"tcp", "h1", "h2"}}
  \cup {[ListenerTable EXCEPT !.protocol = p, !.tls = {TlsTable}] : p \in {"tls", " tls", "h1s"}}
  \cup {[ListenerTable EXCEPT !.protocol = p, !.quic = {QuicTable}] : p \in {"quic", " quic"}}
  \cup {[ListenerTable EXCEPT !.protocol = p, !.quic = {[QuicTable EXCEPT !.raw_proxy = {RawProxyTable}]}] : p \in {"quic", " quic"}}
H2S(s, k) == [max_concurrent_streams |-> s, keep_alive_interval_ms |-> k]
Knobs(l) ==
  {l, [l EXCEPT !.websocket = {[WebsocketTable EXCEPT !.h2_extended_connect = TRUE, !.h3_extended_connect = TRUE]}],
   [l EXCEPT !.grpc = {GrpcTable}], [l EXCEPT !.grpc = {[GrpcTable EXCEPT !.max_deadline_seconds = 0]}],
   [l EXCEPT !.http = {[HttpTable EXCEPT !.head_timeout_ms = 0]}],
   [l EXCEPT !.h2_security = {H2S({}, {0})}], [l EXCEPT !.h2_security = {H2S({7}, {})}],
   [l EXCEPT !.drain_timeout_ms = {100}], [l EXCEPT !.drain_jitter_ms = {300000}],
   [l EXCEPT !.drain_timeout_ms = {300000}, !.drain_jitter_ms = {200000}],
   [l EXCEPT !.address = "bad"], [l EXCEPT !.tls = {}]}
ListenersOf == UNION {Knobs([l EXCEPT !.backends = bs]) : l \in Bases, bs \in BackendSets}
One(l) == [Document EXCEPT !.listeners = <<l>>]
Runtimes == {RuntimeTable, [RuntimeTable EXCEPT !.drain_jitter_ms = {0}],
  [RuntimeTable EXCEPT !.drain_timeout_ms = 300000, !.drain_jitter_ms = {300000}],
  [RuntimeTable EXCEPT !.drain_timeout_ms = 99],
  [RuntimeTable EXCEPT !.watchdog = {[WatchdogTable EXCEPT !.sweep_interval_ms = 60001]}],
  [RuntimeTable EXCEPT !.xdp_enabled = TRUE],
  [RuntimeTable EXCEPT !.xdp_new_flow_cap_per_sec_per_cpu = 999]}
Simple == [ListenerTable EXCEPT !.backends = <<Plain("a:1", "tcp")>>]
MCConfigs ==
  {One(l) : l \in ListenersOf}
  \cup {[One(l) EXCEPT !.runtime = {rt}] : l \in Knobs(Simple), rt \in Runtimes}
  \cup {[One(Simple) EXCEPT !.metrics_bind = {bind}, !.api_token_hash = hash, !.allow_non_loopback = open] :
          bind \in {"local", "public", "junk", " "}, hash \in {{}, {"hex64"}, {"short"}}, open \in BOOLEAN}
  \cup {[Document EXCEPT !.passthrough = {pt}] :
          pt \in {PassthroughTable, [PassthroughTable EXCEPT !.min_client_dcid_len = 7], [PassthroughTable EXCEPT !.backends = <<>>]}}
  \cup {[Document EXCEPT !.listeners = [i \in 1 .. n |-> Simple]] : n \in {0, 7, 8}}
  \cup {[Document EXCEPT !.listeners = <<Simple, [l EXCEPT !.address = "m:1"]>>] : l \in ListenersOf}
MCEdits(l) == {[l EXCEPT !.backends = bs] : bs \in BackendSets}
              \cup {[l EXCEPT !.alt_svc = {1}], [l EXCEPT !.grpc = {GrpcTable}],
  [l EXCEPT !.websocket = {WebsocketTable}], [l EXCEPT !.http = {[HttpTable EXCEPT !.body_timeout_ms = 1]}]}

MCTlsListeners == <<"tls", "h1s">>

controlVars == <<subject, vars, boot, registry, report, adminvars, tlsvars>>

OnReload(A) == subject = "reload" /\ A /\ UNCHANGED <<subject, boot, registry, report, adminvars, tlsvars>>
OnBoot(A) == subject = "boot" /\ A /\ UNCHANGED <<subject, vars, registry, report, adminvars, tlsvars>>
OnRegistry(A) == subject = "registry" /\ A /\ UNCHANGED <<subject, vars, boot, report, adminvars, tlsvars>>
OnReport(s, A) == subject = s /\ A /\ UNCHANGED <<subject, vars, boot, registry, adminvars, tlsvars>>
OnAdmin(A) == subject = "admin" /\ A /\ UNCHANGED <<subject, vars, boot, registry, report, tlsvars>>
OnTls(A) == subject = "tls" /\ A /\ UNCHANGED <<subject, vars, boot, registry, report, adminvars>>

\* A part that is not the subject starts in one state of its own.
ControlInit ==
  /\ subject \in {"reload", "boot", "registry", "panics", "sampler", "labels", "admin", "tls"}
  /\ IF subject = "reload" THEN TRUE ELSE file = textA
  /\ IF subject = "boot" THEN TRUE ELSE config = One(Simple)
  /\ IF subject = "sampler" THEN TRUE ELSE stats = [cpu \in Cpus |-> 0]
  /\ IF subject = "admin" THEN TRUE ELSE token = FALSE
  /\ IF subject = "tls" THEN TRUE
     ELSE strict = FALSE /\ keyFile = [state |-> "ok", pair |-> 1, mode |-> "owner"]
  /\ Init /\ BootInit /\ RegistryInit /\ ReportInit /\ AdminInit /\ TlsInit

ControlNext ==
  \/ OnReload(Next) \/ OnBoot(BootNext) \/ OnRegistry(RegistryNext)
  \/ OnReport("panics", PanicNext) \/ OnReport("sampler", SamplerNext)
  \/ OnReport("labels", LabelNext) \/ OnAdmin(AdminNext) \/ OnTls(TlsNext)

\* The main task is scheduled; DNS lookups and disk writes return.
ControlSpec == ControlInit /\ [][ControlNext]_controlVars /\ WF_vars(subject = "reload" /\ Main)
============================================================================
