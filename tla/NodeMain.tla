------------------------------ MODULE NodeMain ------------------------------
(***************************************************************************)
(* The life of one node process: main() of sources/cellframe-node.c on     *)
(* Linux, which brings the modules up one after the other, waits in the    *)
(* event loop, takes modules down and returns; and the signal handler of   *)
(* sources/sig_unix_handler.c, which may end it at any step.               *)
(*                                                                         *)
(* A stage brings up one module.  A failure with a code makes main return  *)
(* it at once; a failure without one is only logged (or its result is      *)
(* ignored) and main goes on.  The modules are those of the SDK: whether   *)
(* an init succeeds is its choice, what main does about it is modelled.    *)
(***************************************************************************)
EXTENDS Integers, Sequences

CONSTANTS
  LoopCodes,  \* what dap_events_wait may return
  MaxSoft     \* bound on the logged failures of one life

ASSUME CodesAssumption == LoopCodes \subseteq Int /\ MaxSoft \in Nat

VARIABLES
  cfg,        \* the options of cellframe-node.cfg that main consults
  phase,      \* "boot", "loop", "deinit" or "ended"
  pos,        \* the next stage, or the next deinit call
  up,         \* modules that are up
  bare,       \* modules taken down that were not up
  soft,       \* failures logged so far
  why,        \* how the process ended, or "none"
  loopRc,     \* what the event loop returned
  status      \* exit status as the parent sees it

vars == <<cfg, phase, pos, up, bare, soft, why, loopRc, status>>

Options == {"server", "plugins", "dns", "vpn", "geoip"}

Stage(mod, code, need) == [mod |-> mod, code |-> code, need |-> need]
Fatal(mod, code) == Stage(mod, code, "always")
Logged(mod) == Stage(mod, 0, "always")

\* Mutant of EarlyStages: a failed single-instance check is only logged.
EarlyStagesLax ==
  << Fatal("sys_dir", -1), Fatal("log_dir", -2), Fatal("common", -3),
     Fatal("config_dir", -4), Fatal("config", -5), Logged("pid_check") >>

\* Directories, logs, configuration and the single-instance check.
EarlyStages ==
  << Fatal("sys_dir", -1), Fatal("log_dir", -2), Fatal("common", -3),
     Fatal("config_dir", -4), Fatal("config", -5), Fatal("pid_check", 2) >>

CoreStages ==
  << Fatal("enc", -56), Logged("events"), Stage("server", -4, "server"),
     Fatal("http", -5), Fatal("http_folder", -55), Fatal("http_simple", -9),
     Fatal("enc_http", -81), Fatal("stream", -82), Fatal("stream_ctl", -83),
     Logged("client"), Logged("notify"), Fatal("global_db", -58),
     Fatal("mempool", -59), Fatal("chain", -60) >>

ChainStages ==
  << Logged("pos_delegate"), Fatal("cs_dag", -62), Fatal("cs_dag_poa", -63),
     Fatal("cs_blocks", -62), Fatal("cs_esbocs", -69), Fatal("nonconsensus", -71),
     Fatal("chain_net", -65), Fatal("policy", -66), Fatal("wallet", -61),
     Fatal("net_srv", -66) >>

ServiceStages ==
  << Logged("xchange"), Logged("dex"), Logged("voting"), Logged("bridge"),
     Logged("stake_ext"), Logged("stake_lock"), Logged("vpn_pre"),
     Fatal("sig", -12), Fatal("node_cli", -11), Fatal("wallet_cache", -61),
     Stage("plugins", 0, "plugins") >>

LateStages ==
  << Logged("net_load"), Fatal("wallet_shared", -61), Fatal("srv_order", -67),
     Fatal("node_list_clean", -131), Fatal("global_db_clean", -133),
     Logged("autoproc"), Stage("listener", 0, "server"),
     Stage("json_rpc", -12, "listener"), Stage("dns", 0, "dns"),
     Stage("vpn", -70, "vpn"), Fatal("vpn_client", -72), Stage("geoip", -73, "geoip"),
     Stage("plugins_run", 0, "plugins_up"), Logged("online") >>

Stages == EarlyStages \o CoreStages \o ChainStages \o ServiceStages \o LateStages

\* The deinit calls after the event loop, in their order; the one of the server
\* has a condition.
DeinitCallsOf(server) ==
  << Stage("plugins_run", 0, "plugins_up"), Stage("plugins", 0, "plugins_up"),
     Logged("dns"), Logged("stream"), Logged("stream_ctl"), Logged("http_folder"),
     Logged("http"), server, Logged("enc_ks"), Logged("autoproc"),
     Logged("xchange"), Logged("pos_delegate"), Logged("stake_lock"), Logged("bridge"),
     Logged("voting"), Logged("chain_net"), Logged("global_db"), Logged("chain"),
     Logged("config"), Logged("interval_timer"), Logged("common") >>

\* Mutants of DeinitCalls: the server is taken down whether it was started or
\* not, or only with its listener.
DeinitServerAlways == DeinitCallsOf(Logged("server"))
DeinitServerListening == DeinitCallsOf(Stage("server", 0, "listener"))

DeinitCalls == DeinitCallsOf(Stage("server", 0, "server"))

\* The condition main puts around a stage.
Needed(s) ==
  CASE s.need = "always"     -> TRUE
    [] s.need = "listener"   -> "listener" \in up
    [] s.need = "dns"        -> "listener" \in up /\ cfg["dns"]
    [] s.need = "plugins_up" -> "plugins" \in up
    [] OTHER                 -> cfg[s.need]

\* An init whose code has no failing path, or that returns nothing.
Infallible == {"sig", "net_load", "plugins_run", "online"}

-----------------------------------------------------------------------------
Init ==
  /\ cfg \in [Options -> BOOLEAN]
  /\ phase = "boot"
  /\ pos = 1
  /\ up = {}
  /\ bare = {}
  /\ soft = 0
  /\ why = "none"
  /\ loopRc = 0
  /\ status = 0

\* Mutant of End: the status is not cut to eight bits.
EndWide(reason, code) ==
  /\ phase' = "ended"
  /\ why' = reason
  /\ status' = code

End(reason, code) ==
  /\ phase' = "ended"
  /\ why' = reason
  /\ status' = code % 256

\* cellframe-node -version
VersionOnly ==
  /\ phase = "boot" /\ pos = 1
  /\ End("version", 0)
  /\ UNCHANGED <<cfg, pos, up, bare, soft, loopRc>>

Booting == phase = "boot" /\ pos <= Len(Stages)

StageOk ==
  /\ Booting
  /\ Needed(Stages[pos])
  /\ up' = up \cup {Stages[pos].mod}
  /\ pos' = pos + 1
  /\ UNCHANGED <<cfg, phase, bare, soft, why, loopRc, status>>

StageSkipped ==
  /\ Booting
  /\ ~Needed(Stages[pos])
  /\ pos' = pos + 1
  /\ UNCHANGED <<cfg, phase, up, bare, soft, why, loopRc, status>>

\* Mutant of StageLogged: a failure with a code is only logged, too.
StageLoggedAll ==
  /\ Booting
  /\ Needed(Stages[pos])
  /\ Stages[pos].mod \notin Infallible
  /\ soft < MaxSoft
  /\ soft' = soft + 1
  /\ pos' = pos + 1
  /\ UNCHANGED <<cfg, phase, up, bare, why, loopRc, status>>

\* A failure main only logs, or does not look at.  When plugins fail to
\* initialise l_plugins_enabled becomes false: nothing of them is up.
StageLogged ==
  /\ Booting
  /\ Needed(Stages[pos])
  /\ Stages[pos].code = 0 /\ Stages[pos].mod \notin Infallible
  /\ soft < MaxSoft
  /\ soft' = soft + 1
  /\ pos' = pos + 1
  /\ UNCHANGED <<cfg, phase, up, bare, why, loopRc, status>>

\* Mutant of StageFatal: main returns 0.
StageFatalZero ==
  /\ Booting
  /\ Needed(Stages[pos])
  /\ Stages[pos].code # 0 /\ Stages[pos].mod \notin Infallible
  /\ End("fatal", 0)
  /\ UNCHANGED <<cfg, pos, up, bare, soft, loopRc>>

\* A failure main returns: no module is taken down.
StageFatal ==
  /\ Booting
  /\ Needed(Stages[pos])
  /\ Stages[pos].code # 0 /\ Stages[pos].mod \notin Infallible
  /\ End("fatal", Stages[pos].code)
  /\ UNCHANGED <<cfg, pos, up, bare, soft, loopRc>>

EnterLoop ==
  /\ phase = "boot" /\ pos > Len(Stages)
  /\ phase' = "loop"
  /\ UNCHANGED <<cfg, pos, up, bare, soft, why, loopRc, status>>

\* dap_events_wait returns.
LoopEnds ==
  /\ phase = "loop"
  /\ loopRc' \in LoopCodes
  /\ phase' = "deinit"
  /\ pos' = 1
  /\ UNCHANGED <<cfg, up, bare, soft, why, status>>

DeinitStep ==
  /\ phase = "deinit" /\ pos <= Len(DeinitCalls)
  /\ LET d == DeinitCalls[pos] IN
       IF Needed(d)
         THEN /\ up' = up \ {d.mod}
              /\ bare' = IF d.mod \in up THEN bare ELSE bare \cup {d.mod}
         ELSE UNCHANGED <<up, bare>>
  /\ pos' = pos + 1
  /\ UNCHANGED <<cfg, phase, soft, why, loopRc, status>>

\* return rc * 10
Return ==
  /\ phase = "deinit" /\ pos > Len(DeinitCalls)
  /\ End("loop", loopRc * 10)
  /\ UNCHANGED <<cfg, pos, up, bare, soft, loopRc>>

\* SIGINT, SIGHUP, SIGTERM, SIGQUIT or SIGTSTP: exit(0) once the handler is
\* installed; before that the default action, a death by signal, for which 143
\* (128 + SIGTERM) stands.  SIGTSTP then only suspends, which is no step.
Signal ==
  /\ phase # "ended"
  /\ End("signal", IF "sig" \in up THEN 0 ELSE 143)
  /\ UNCHANGED <<cfg, pos, up, bare, soft, loopRc>>

\* Restart=always starts a new process.
Respawn ==
  /\ phase = "ended"
  /\ phase' = "boot"
  /\ pos' = 1
  /\ up' = {}
  /\ bare' = {}
  /\ soft' = 0
  /\ why' = "none"
  /\ loopRc' = 0
  /\ status' = 0
  /\ cfg' = cfg

Next ==
  \/ VersionOnly \/ StageOk \/ StageSkipped \/ StageLogged \/ StageFatal \/ EnterLoop
  \/ LoopEnds \/ DeinitStep \/ Return \/ Signal \/ Respawn

Spec == Init /\ [][Next]_vars

-----------------------------------------------------------------------------
Modules == {Stages[i].mod : i \in DOMAIN Stages}

TypeOK ==
  /\ cfg \in [Options -> BOOLEAN]
  /\ phase \in {"boot", "loop", "deinit", "ended"}
  /\ pos \in 1..(Len(Stages) + 1)
  /\ up \subseteq Modules
  /\ bare \subseteq {DeinitCalls[i].mod : i \in DOMAIN DeinitCalls}
  /\ soft \in 0..MaxSoft
  /\ why \in {"none", "version", "fatal", "loop", "signal"}
  /\ loopRc \in LoopCodes \cup {0}
  /\ status \in 0..255

\* Modules main takes down although it may not have brought them up: the
\* services whose failed init is only logged, the DNS server that is stopped
\* unconditionally, and the two that other modules bring up.
Tolerant ==
  {"xchange", "pos_delegate", "stake_lock", "bridge", "voting", "autoproc", "dns",
   "enc_ks", "interval_timer"}

\* Whatever the options and whichever inits failed, the deinit sequence takes
\* down no other module that is not up, and none twice.
NoBareDeinit == bare \subseteq Tolerant

\* Modules for which main has no deinit call.
Kept == Modules \ {DeinitCalls[i].mod : i \in DOMAIN DeinitCalls}

\* A process whose event loop ended leaves up only what main never takes down:
\* the conditions around the deinit calls match those around the inits.
LoopLeavesNothing == why = "loop" => up \subseteq Kept

\* A node that serves has every module whose failure main treats as fatal and
\* whose condition holds, the pid file lock included, and its plugins run
\* exactly when they were asked for and initialised.
ServesComplete ==
  phase = "loop" =>
    /\ \A i \in DOMAIN Stages :
         Stages[i].code # 0 /\ Needed(Stages[i]) => Stages[i].mod \in up
    /\ "plugins_run" \in up <=> "plugins" \in up
    /\ "plugins" \in up => cfg["plugins"]

\* The parent sees status 0 only of a process that printed its version, was
\* told to stop after boot had installed the handler, or whose loop returned a
\* multiple of 128; a fatal boot is never taken for a success.
StatusTruthful ==
  phase = "ended" /\ status = 0 =>
    \/ why = "version"
    \/ why = "signal" /\ "sig" \in up
    \/ why = "loop" /\ loopRc % 128 = 0

\* Shared data is open only in a process that passed the single-instance check,
\* and is closed before the configuration and the log it reports to.
DataGuarded ==
  phase # "ended" =>
    /\ "global_db" \in up => {"pid_check", "config", "common"} \subseteq up
    /\ "chain_net" \in up => {"global_db", "chain"} \subseteq up
=============================================================================
