----------------------------- MODULE LaunchArgs -----------------------------
(***************************************************************************)
(* The command line and the environment the browser is started with, as    *)
(* the clients put them together: rust/src/launch.rs, with the switches of *)
(* captcha.rs and settle.rs, and the launch() of the Node and Python       *)
(* adapters.  Pure operators; Launcher uses them.                          *)
(*                                                                         *)
(* A flag is a record of its switch name and its value: the clients look   *)
(* no further into one than its first "=".                                 *)
(***************************************************************************)
EXTENDS SequencesExt

CONSTANTS Var,        \* names of environment variables
          ProxyVar,   \* those with PROXY in their name, in any case
          Inherited   \* [a subset of Var -> value]: the controller's own,
                      \* those that are not UTF-8 left out

ASSUME EnvAssumption == ProxyVar \subseteq Var /\ DOMAIN Inherited \subseteq Var

Bare == ""            \* the value of a flag that has none
Unset == "unset"      \* an option that was not given

Flag(switch, value) == [switch |-> switch, value |-> value]

Switches(args) == {args[i].switch : i \in DOMAIN args}

MutMergeByFlag(args, extra) ==
  LET merged[n \in 0 .. Len(extra)] ==
        IF n = 0 THEN args
        ELSE merged[n-1] \o IF extra[n] \in ToSet(merged[n-1]) THEN <<>> ELSE <<extra[n]>>
  IN merged[Len(extra)]

\* extra merged into args, flag by flag: a switch that is there already stays
\* as it is.
MergeLaunchArgs(args, extra) ==
  LET merged[n \in 0 .. Len(extra)] ==
        IF n = 0 THEN args
        ELSE merged[n-1] \o IF extra[n].switch \in Switches(merged[n-1]) THEN <<>> ELSE <<extra[n]>>
  IN merged[Len(extra)]

WebRtc == Flag("--webrtc-ip-handling-policy", "disable_non_proxied_udp")

\* The flag of an option, if it was given.
Chosen(switch, value) == IF value = Unset THEN <<>> ELSE <<Flag(switch, value)>>

CaptchaLaunchArgs(path) ==
  <<Flag("--captcha-solver", Bare)>> \o Chosen("--captcha-model-path", path)

\* SettleTuning: every field unset but what the caller chose.
Untuned == [quiet_window_ms |-> Unset, min_chars |-> Unset, timeout_ms |-> Unset,
            sample_interval_ms |-> Unset, pierce_shadow |-> FALSE]

SettleLaunchArgs(tuning) ==
  <<Flag("--page-settle", Bare)>>
  \o Chosen("--page-settle-quiet-window-ms", tuning.quiet_window_ms)
  \o Chosen("--page-settle-min-chars", tuning.min_chars)
  \o Chosen("--page-settle-timeout-ms", tuning.timeout_ms)
  \o Chosen("--page-settle-sample-interval-ms", tuning.sample_interval_ms)
  \o Chosen("--page-settle-pierce-shadow", IF tuning.pierce_shadow THEN Bare ELSE Unset)

\* What a caller with a driver of its own asks for, in one merge less than
\* the launcher's: Rust's launch_args.
CaptchaExtra(captcha, path) ==
  IF captcha \/ path # Unset THEN CaptchaLaunchArgs(path) ELSE <<>>

DriverArgs(args, captcha, path) ==
  MergeLaunchArgs(args, <<WebRtc>> \o CaptchaExtra(captcha, path))

\* The launcher's line.  settle is <<>> or <<tuning>>, an Option.
BuildArgs(l) ==
  LET args == DriverArgs(l.args, l.captcha, l.captcha_model_path)
  IN IF l.page_settle = <<>> THEN args
     ELSE MergeLaunchArgs(args, SettleLaunchArgs(l.page_settle[1]))

\* launch() of the Node and Python adapters: one merge of everything.
AdapterArgs(args, captcha, path, settle) ==
  MergeLaunchArgs(args, <<WebRtc>> \o CaptchaExtra(captcha, path)
                        \o IF settle = <<>> THEN <<>> ELSE SettleLaunchArgs(settle[1]))

\* How Chromium reads a line: of a switch given twice, the last one counts.
Effective(line, switch) ==
  LET at == {i \in DOMAIN line : line[i].switch = switch}
  IN IF at = {} THEN Unset ELSE line[Max(at)].value

FilterProxyEnv(env) == Restrict(env, DOMAIN env \ ProxyVar)

Overlay(over, under) == [v \in DOMAIN over \cup DOMAIN under |->
                           IF v \in DOMAIN over THEN over[v] ELSE under[v]]

\* What the caller set wins over what is inherited; neither may name a proxy.
BuildEnv(l) ==
  Overlay(FilterProxyEnv(l.env_overrides),
          IF l.inherit_env THEN FilterProxyEnv(Inherited) ELSE <<>>)
=============================================================================
