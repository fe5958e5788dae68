------------------------------ MODULE Launcher ------------------------------
(***************************************************************************)
(* rust/src/launch.rs Launcher: a builder that collects flags, options and *)
(* environment variables in any order, and spawn_and_wait, which starts    *)
(* the browser and polls its debugging port for the DevTools endpoint      *)
(* until a deadline, from any number of threads that share the launcher.   *)
(*                                                                         *)
(* The browser process and whoever else may hold a port are external.      *)
(* Timers count down with Tick.  Steps take no time next to the timers: a  *)
(* Tick waits for the launches that have something to do.                  *)
(***************************************************************************)
EXTENDS Integers, LaunchArgs

CONSTANTS Launch,      \* calls of spawn_and_wait
          Port, Nobody, Stranger,
          HandFlag,    \* flags a caller passes with arg()
          Tuning,      \* arguments of page_settle_tuning()
          Model,       \* arguments of captcha_model_path()
          Assignment,  \* arguments of env(): <<name, value>>
          Timeout,     \* of spawn_and_wait, in ticks
          ReadTimeout, \* of one read of the answer, in ticks
          Sleep,       \* between two polls, in ticks
          MaxCalls,    \* bound: builder calls
          Launched,    \* bound: the builder calls after which a launch may come
          Held,        \* bound: ports a stranger may hold at the start
          MaxPieces    \* bound: pieces a stranger's answer comes in

ASSUME TimerAssumption == /\ Timeout \in Nat /\ ReadTimeout \in Nat \ {0}
                          /\ Sleep \in Nat \ {0} /\ MaxPieces \in Nat
ASSUME PortAssumption == Held \subseteq Port
ASSUME PeerAssumption == Nobody \notin Launch /\ Stranger \notin Launch
ASSUME AssignmentAssumption == \A a \in Assignment : a[1] \in Var
ASSUME OptionAssumption == /\ Unset \notin Port \cup Model
                           /\ \A f \in HandFlag : f.value # Unset

VARIABLES calls,     \* the builder calls made, in their order
          launcher,  \* the builder's fields
          step,      \* [Launch -> Step]
          child,     \* [Launch -> Process]: the browser it spawned
          left,      \* [Launch -> Int]: ticks to its deadline
          wait,      \* [Launch -> Nat]: ticks to the end of its sleep or read
          peer,      \* [Launch -> whoever is at the other end of its request]
          pieces,    \* [Launch -> Nat]: pieces of the answer so far
          owner      \* [Port -> who listens on it]

building == <<calls, launcher>>
launching == <<step, child, left, wait, peer, pieces, owner>>
vars == <<building, launching>>

Step == {"idle", "polling", "reading", "sleeping", "killing", "reaping", "returned", "failed"}
Process == {"none", "starting", "serving", "deaf", "exited", "reaped"}
Peer == Launch \cup {Nobody, Stranger}

Running(l) == child[l] \in {"starting", "serving", "deaf"}

TypeOK == /\ launcher.debugging_port \in Port \cup {Unset}
          /\ launcher.page_settle \in {<<>>} \cup {<<t>> : t \in Tuning \cup {Untuned}}
          /\ launcher.captcha_model_path \in Model \cup {Unset}
          /\ DOMAIN launcher.env_overrides \subseteq Var
          /\ step \in [Launch -> Step]
          /\ child \in [Launch -> Process]
          /\ left \in [Launch -> Int] /\ wait \in [Launch -> Nat] /\ pieces \in [Launch -> Nat]
          /\ peer \in [Launch -> Peer]
          /\ owner \in [Port -> Peer]
          /\ \A l \in Launch : /\ child[l] = "none" => step[l] \in {"idle", "failed"}
                               /\ peer[l] # Nobody <=> step[l] \in {"reading", "returned"}
                               /\ wait[l] > 0 => step[l] \in {"reading", "sleeping"}
          /\ \A p \in Port : owner[p] \in Launch => child[owner[p]] = "serving"

NewLauncher == [args |-> <<>>, env_overrides |-> <<>>, inherit_env |-> TRUE, captcha |-> FALSE,
                captcha_model_path |-> Unset, page_settle |-> <<>>, debugging_port |-> Unset]

Init == /\ calls = <<>>
        /\ launcher = NewLauncher
        /\ step = [l \in Launch |-> "idle"]
        /\ child = [l \in Launch |-> "none"]
        /\ left = [l \in Launch |-> 0]
        /\ wait = [l \in Launch |-> 0]
        /\ peer = [l \in Launch |-> Nobody]
        /\ pieces = [l \in Launch |-> 0]
        /\ \E taken \in SUBSET Held : owner = [p \in Port |-> IF p \in taken THEN Stranger ELSE Nobody]

-----------------------------------------------------------------------------
(* The builder.  Each call takes the launcher and gives it back changed.   *)

Call(op, arg, l) == /\ Len(calls) < MaxCalls
                    /\ \A i \in Launch : step[i] = "idle"
                    /\ calls' = Append(calls, [op |-> op, arg |-> arg])
                    /\ launcher' = l
                    /\ UNCHANGED launching

\* arg(), args(), and the calls that only format a flag: user_data_dir,
\* fingerprint_os, fingerprint_seed, config_file.
Arg(flag) == Call("arg", flag, [launcher EXCEPT !.args = Append(@, flag)])

PortFlag(p) == Flag("--remote-debugging-port", p)

RemoteDebuggingPort(p) ==
  Call("remote_debugging_port", p,
       [launcher EXCEPT !.debugging_port = p, !.args = Append(@, PortFlag(p))])

Captcha(on) == Call("captcha", on, [launcher EXCEPT !.captcha = on])

CaptchaModelPath(m) == Call("captcha_model_path", m, [launcher EXCEPT !.captcha_model_path = m])

\* Off forgets the tuning, on keeps one that is there.
PageSettle(on) ==
  Call("page_settle", on,
       [launcher EXCEPT !.page_settle = IF ~on THEN <<>> ELSE IF @ = <<>> THEN <<Untuned>> ELSE @])

PageSettleTuning(t) == Call("page_settle_tuning", t, [launcher EXCEPT !.page_settle = <<t>>])

Env(a) == Call("env", a, [launcher EXCEPT !.env_overrides = Overlay([v \in {a[1]} |-> a[2]], @)])

ClearEnv == Call("clear_env", Unset, [launcher EXCEPT !.inherit_env = FALSE])

Build == \/ \E flag \in HandFlag : Arg(flag)
         \/ \E p \in Port : RemoteDebuggingPort(p)
         \/ \E on \in BOOLEAN : Captcha(on) \/ PageSettle(on)
         \/ \E m \in Model : CaptchaModelPath(m)
         \/ \E t \in Tuning : PageSettleTuning(t)
         \/ \E a \in Assignment : Env(a)
         \/ ClearEnv

-----------------------------------------------------------------------------
(* spawn_and_wait *)

\* A launch looks at nothing the builder collected but the ports, so only
\* the histories of Launched are launched.
Launchable(l) == step[l] = "idle" /\ calls \in Launched

InProgress(l) == step[l] \in {"polling", "reading", "sleeping", "killing", "reaping"}

Goto(l, s) == step' = [step EXCEPT ![l] = s]

\* The process is gone and its port is free.
Exit(l) == /\ child' = [child EXCEPT ![l] = "exited"]
           /\ owner' = [p \in Port |-> IF owner[p] = l THEN Nobody ELSE owner[p]]

\* No port: InvalidInput, before anything is spawned.
NoPort(l) == /\ Launchable(l)
             /\ launcher.debugging_port = Unset
             /\ Goto(l, "failed")
             /\ UNCHANGED <<building, child, left, wait, peer, pieces, owner>>

SpawnFails(l) == /\ Launchable(l)
                 /\ launcher.debugging_port # Unset
                 /\ Goto(l, "failed")
                 /\ UNCHANGED <<building, child, left, wait, peer, pieces, owner>>

Spawn(l) == /\ Launchable(l)
            /\ launcher.debugging_port # Unset
            /\ Goto(l, "polling")
            /\ child' = [child EXCEPT ![l] = "starting"]
            /\ left' = [left EXCEPT ![l] = Timeout]
            /\ UNCHANGED <<building, wait, peer, pieces, owner>>

\* Mutants: give up without a kill; look at the deadline only when refused.
MutPollGivesUp(l) ==
  /\ step[l] = "polling"
  /\ Goto(l, IF left[l] <= 0 THEN "failed" ELSE "sleeping")
  /\ wait' = [wait EXCEPT ![l] = IF left[l] <= 0 THEN 0 ELSE Sleep]
  /\ UNCHANGED <<building, child, left, peer, pieces, owner>>

MutPollConnectsFirst(l) ==
  /\ step[l] = "polling"
  /\ LET at == owner[launcher.debugging_port]
     IN \/ /\ at = Nobody /\ left[l] <= 0
           /\ Goto(l, "killing")
           /\ UNCHANGED <<wait, peer, pieces>>
        \/ /\ at = Nobody /\ left[l] > 0
           /\ Goto(l, "sleeping")
           /\ wait' = [wait EXCEPT ![l] = Sleep]
           /\ UNCHANGED <<peer, pieces>>
        \/ /\ at # Nobody
           /\ Goto(l, "reading")
           /\ wait' = [wait EXCEPT ![l] = ReadTimeout]
           /\ peer' = [peer EXCEPT ![l] = at]
           /\ pieces' = [pieces EXCEPT ![l] = 0]
  /\ UNCHANGED <<building, child, left, owner>>

\* The head of devtools_url's loop, and the connect of json_version.
Poll(l) ==
  /\ step[l] = "polling"
  /\ LET at == owner[launcher.debugging_port]
     IN \/ /\ left[l] <= 0
           /\ Goto(l, "killing")
           /\ UNCHANGED <<wait, peer, pieces>>
        \/ /\ left[l] > 0 /\ at = Nobody
           /\ Goto(l, "sleeping")
           /\ wait' = [wait EXCEPT ![l] = Sleep]
           /\ UNCHANGED <<peer, pieces>>
        \/ /\ left[l] > 0 /\ at # Nobody
           /\ Goto(l, "reading")
           /\ wait' = [wait EXCEPT ![l] = ReadTimeout]
           /\ peer' = [peer EXCEPT ![l] = at]
           /\ pieces' = [pieces EXCEPT ![l] = 0]
  /\ UNCHANGED <<building, child, left, owner>>

\* Nothing stops a peer from sending a header line, or a part of one, within
\* every read timeout: each read is bounded, the answer is not.
Piece(l) == /\ step[l] = "reading"
            /\ peer[l] = Stranger /\ pieces[l] < MaxPieces
            /\ pieces' = [pieces EXCEPT ![l] = @ + 1]
            /\ wait' = [wait EXCEPT ![l] = ReadTimeout]
            /\ UNCHANGED <<building, step, child, left, peer, owner>>

Return(l) == /\ Goto(l, "returned")
             /\ wait' = [wait EXCEPT ![l] = 0]
             /\ left' = [left EXCEPT ![l] = 0]
             /\ UNCHANGED peer

Retry(l) == /\ Goto(l, "sleeping")
            /\ wait' = [wait EXCEPT ![l] = Sleep]
            /\ peer' = [peer EXCEPT ![l] = Nobody]
            /\ UNCHANGED left

\* A body with a webSocketDebuggerUrl; or the connection closed, a body that
\* is not UTF-8, not JSON, or has no such member.
Answer(l) == /\ step[l] = "reading" /\ wait[l] > 0
             /\ \/ (peer[l] \in Launch => child[peer[l]] = "serving") /\ Return(l)
                \/ Retry(l)
             /\ UNCHANGED <<building, child, pieces, owner>>

\* Without a Content-Length, what had come by then is the body.
TimesOut(l) == /\ step[l] = "reading" /\ wait[l] = 0
               /\ \/ pieces[l] > 0 /\ Return(l)
                  \/ Retry(l)
               /\ UNCHANGED <<building, child, pieces, owner>>

\* Mutant: polls on without the pause.
MutNoPause(l) == /\ step[l] = "sleeping"
                 /\ Goto(l, "polling")
                 /\ UNCHANGED <<building, child, left, wait, peer, pieces, owner>>

Wake(l) == /\ step[l] = "sleeping" /\ wait[l] = 0
           /\ Goto(l, "polling")
           /\ UNCHANGED <<building, child, left, wait, peer, pieces, owner>>

\* Mutant: only waits for it.
MutNoKill(l) == /\ step[l] = "killing"
                /\ Goto(l, "reaping")
                /\ UNCHANGED <<building, child, left, wait, peer, pieces, owner>>

Kill(l) == /\ step[l] = "killing"
           /\ Goto(l, "reaping")
           /\ Exit(l)
           /\ UNCHANGED <<building, left, wait, peer, pieces>>

Reap(l) == /\ step[l] = "reaping" /\ child[l] = "exited"
           /\ Goto(l, "failed")
           /\ child' = [child EXCEPT ![l] = "reaped"]
           /\ left' = [left EXCEPT ![l] = 0]
           /\ UNCHANGED <<building, wait, peer, pieces, owner>>

LaunchStep(l) == Poll(l) \/ TimesOut(l) \/ Wake(l) \/ Kill(l) \/ Reap(l)

-----------------------------------------------------------------------------
(* The browsers, whoever else is on the ports, and time *)

\* The browser takes the port its command line ends up with, and runs on
\* without one when it is taken.
Listen(l) ==
  /\ child[l] = "starting"
  /\ LET p == Effective(BuildArgs(launcher), "--remote-debugging-port")
     IN IF owner[p] = Nobody
        THEN /\ child' = [child EXCEPT ![l] = "serving"]
             /\ owner' = [owner EXCEPT ![p] = l]
        ELSE /\ child' = [child EXCEPT ![l] = "deaf"]
             /\ UNCHANGED owner
  /\ UNCHANGED <<building, step, left, wait, peer, pieces>>

Dies(l) == /\ Running(l)
           /\ Exit(l)
           /\ UNCHANGED <<building, step, left, wait, peer, pieces>>

StrangerLeaves(p) == /\ owner[p] = Stranger
                     /\ owner' = [owner EXCEPT ![p] = Nobody]
                     /\ UNCHANGED <<building, step, child, left, wait, peer, pieces>>

Timed(l) == step[l] \in {"reading", "sleeping"} /\ wait[l] > 0

Tick == /\ \E l \in Launch : Timed(l)
        /\ \A l \in Launch : InProgress(l) => Timed(l)
        /\ left' = [l \in Launch |-> IF InProgress(l) THEN left[l] - 1 ELSE left[l]]
        /\ wait' = [l \in Launch |-> IF Timed(l) THEN wait[l] - 1 ELSE wait[l]]
        /\ UNCHANGED <<building, step, child, peer, pieces, owner>>

Next == \/ Build
        \/ \E l \in Launch : \/ NoPort(l) \/ SpawnFails(l) \/ Spawn(l) \/ LaunchStep(l)
                             \/ Piece(l) \/ Answer(l) \/ Listen(l) \/ Dies(l)
        \/ \E p \in Port : StrangerLeaves(p)
        \/ Tick

\* The thread runs and time passes; no peer need ever answer.
Fairness == /\ \A l \in Launch : WF_vars(LaunchStep(l))
            /\ WF_vars(Tick)

Spec == Init /\ [][Next]_vars /\ Fairness

-----------------------------------------------------------------------------
(* What the caller asked for, read off the calls alone *)

PushedFlag(c) == CASE c.op = "arg" -> <<c.arg>>
                   [] c.op = "remote_debugging_port" -> <<PortFlag(c.arg)>>
                   [] OTHER -> <<>>

PushedBy(history) == LET pushed[n \in 0 .. Len(history)] ==
                           IF n = 0 THEN <<>> ELSE pushed[n-1] \o PushedFlag(history[n])
                     IN pushed[Len(history)]

Pushed == PushedBy(calls)

\* The last call of an operation among ops, or 0.
LastCall(ops) == Max({0} \cup {i \in DOMAIN calls : calls[i].op \in ops})

Asked(op) == \E i \in DOMAIN calls : calls[i].op = op

AskedCaptcha == \/ Asked("captcha") /\ calls[LastCall({"captcha"})].arg
                \/ Asked("captcha_model_path")

AskedSettle == LET c == LastCall({"page_settle", "page_settle_tuning"})
               IN c > 0 /\ (calls[c].op = "page_settle" => calls[c].arg)

\* The last tuning, unless page_settle(false) came after it.
AskedTuning ==
  LET t == LastCall({"page_settle_tuning"})
  IN IF t = 0 \/ \E i \in t + 1 .. Len(calls) : calls[i].op = "page_settle" /\ ~calls[i].arg
     THEN Untuned ELSE calls[t].arg

\* The value a switch must have for the browser: the caller's own last flag
\* for it if there is one, else that of the options asked for.
AskedValue(switch) ==
  LET pushed == Effective(Pushed, switch)
      tuned == Effective(SettleLaunchArgs(AskedTuning), switch)
  IN IF pushed # Unset THEN pushed ELSE
     CASE switch = WebRtc.switch -> WebRtc.value
       [] switch = "--captcha-solver" -> IF AskedCaptcha THEN Bare ELSE Unset
       [] switch = "--captcha-model-path" ->
            IF Asked("captcha_model_path") THEN calls[LastCall({"captcha_model_path"})].arg ELSE Unset
       [] OTHER -> IF AskedSettle THEN tuned ELSE Unset

AskedEnv(v) ==
  LET set == {i \in DOMAIN calls : calls[i].op = "env" /\ calls[i].arg[1] = v}
  IN CASE v \in ProxyVar -> Unset
       [] set # {} /\ v \notin ProxyVar -> calls[Max(set)].arg[2]
       [] OTHER -> IF Asked("clear_env") \/ v \notin DOMAIN Inherited THEN Unset ELSE Inherited[v]

-----------------------------------------------------------------------------
(* Properties *)

\* Whatever the order of the builder calls: the caller's own flags come
\* first and unchanged, no switch is added twice or beside one of theirs,
\* every switch ends up with the value asked for last, and the Node and
\* Python launch() would give the same line.  (build_args, merge_launch_args)
CommandLineAsAsked ==
  LET line == BuildArgs(launcher)
      own == Len(Pushed)
  IN /\ SubSeq(line, 1, own) = Pushed
     /\ \A i \in own + 1 .. Len(line), j \in DOMAIN line :
          line[i].switch = line[j].switch => i = j
     /\ \A switch \in Switches(line) \cup Switches(SettleLaunchArgs(AskedTuning))
                      \cup {WebRtc.switch, "--captcha-solver", "--captcha-model-path"} :
          Effective(line, switch) = AskedValue(switch)
     /\ line = AdapterArgs(Pushed, AskedCaptcha, launcher.captcha_model_path, launcher.page_settle)

\* Whatever the order of the builder calls: the browser's environment holds what
\* the caller set last, over what is inherited unless that was turned off, and
\* no PROXY variable from either.  (env, clear_env, build_env, filter_proxy_env)
EnvironmentAsAsked ==
  LET env == BuildEnv(launcher)
  IN /\ DOMAIN env \cap ProxyVar = {}
     /\ \A v \in Var : AskedEnv(v) = IF v \in DOMAIN env THEN env[v] ELSE Unset

\* The browser is started as it was asked for, whatever the order of the calls:
\* with that command line and that environment.  (Launcher::command)
LaunchedAsAsked == CommandLineAsAsked /\ EnvironmentAsAsked

\* A launch that fails, at whatever point, leaves no browser behind: not
\* running, not a zombie, not on a port.  (spawn_and_wait's error arm)
FailedLeavesNothing ==
  \A l \in Launch : step[l] = "failed" =>
    child[l] \in {"none", "reaped"} /\ \A p \in Port : owner[p] # l

\* The deadline is looked at only between two polls, so a launch may outlast
\* it, but by no more than one read for the request and for each piece of
\* an answer, and one sleep.  (devtools_url, json_version's read timeout)
Prompt == \A l \in Launch :
            InProgress(l) => left[l] > -(ReadTimeout * (1 + pieces[l]) + Sleep)

\* A launch whose port nobody serves, or only mute peers, still ends.
LaunchEnds == \A l \in Launch : InProgress(l) ~> step[l] \in {"returned", "failed"}
=============================================================================
