--------------------------- MODULE LauncherProofs ---------------------------
(***************************************************************************)
(* Proofs about Launcher, for any number of launches, ports, flags and     *)
(* tunings, any timeouts and any answer a stranger sends: its types, that  *)
(* the browser is started as it was asked for, that a failed launch leaves *)
(* no browser behind, and how far a launch can outlast its deadline.       *)
(*                                                                         *)
(* The deadline is looked at in one place only, so the bound on it has to  *)
(* be carried through the read and the sleep that come between two looks:  *)
(* what is left, less what is still to be waited for, stays above it.      *)
(***************************************************************************)
EXTENDS Launcher, TLAPS, SequenceTheorems, WellFoundedInduction

Options == {"args", "env_overrides", "inherit_env", "captcha", "captcha_model_path",
            "page_settle", "debugging_port"}

CallRecord == [op : {"arg"}, arg : HandFlag]
              \cup [op : {"remote_debugging_port"}, arg : Port]
              \cup [op : {"captcha", "page_settle"}, arg : BOOLEAN]
              \cup [op : {"captcha_model_path"}, arg : Model]
              \cup [op : {"page_settle_tuning"}, arg : Tuning]
              \cup [op : {"env"}, arg : Assignment]
              \cup [op : {"clear_env"}, arg : {Unset}]

\* The i-th call sets the variable v.
Sets(i, v) == calls[i].op = "env" /\ calls[i].arg[1] = v

\* A variable is overridden if a call set it, and has the value of the last one.
OverridesOK ==
  /\ \A v \in DOMAIN launcher.env_overrides :
       \E i \in 1 .. Len(calls) :
         /\ Sets(i, v)
         /\ launcher.env_overrides[v] = calls[i].arg[2]
         /\ \A j \in 1 .. Len(calls) : Sets(j, v) => j <= i
  /\ \A i \in 1 .. Len(calls) :
       calls[i].op = "env" => calls[i].arg[1] \in DOMAIN launcher.env_overrides

\* clear_env() cannot be taken back.
InheritOK == /\ launcher.inherit_env \in BOOLEAN
             /\ (launcher.inherit_env = FALSE) <=> \E i \in 1 .. Len(calls) : calls[i].op = "clear_env"

CallsOK == calls \in Seq(CallRecord) /\ OverridesOK /\ InheritOK

\* The builder's fields; no launch goes past its first check without a port.
BuilderOK == /\ DOMAIN launcher = Options
             /\ launcher.debugging_port \in Port \cup {Unset}
             /\ launcher.page_settle \in {<<>>} \cup {<<t>> : t \in Tuning \cup {Untuned}}
             /\ launcher.captcha_model_path \in Model \cup {Unset}
             /\ DOMAIN launcher.env_overrides \subseteq Var
             /\ \A l \in Launch : step[l] \notin {"idle", "failed"} => launcher.debugging_port \in Port

FunctionsOK == /\ step \in [Launch -> Step]
               /\ child \in [Launch -> Process]
               /\ left \in [Launch -> Int]
               /\ wait \in [Launch -> Nat]
               /\ pieces \in [Launch -> Nat]
               /\ peer \in [Launch -> Peer]
               /\ owner \in [Port -> Peer]

\* A launch has a browser from its spawn on, and a failed one has reaped it.
ChildOK(l) == /\ step[l] = "idle" => child[l] = "none"
              /\ child[l] = "none" => step[l] \in {"idle", "failed"}
              /\ step[l] = "failed" => child[l] \in {"none", "reaped"}

PeerOK(l) == peer[l] # Nobody <=> step[l] \in {"reading", "returned"}

WaitOK(l) == wait[l] > 0 => step[l] \in {"reading", "sleeping"}

\* Only a browser that serves holds a port.
OwnerOK == \A p \in Port : owner[p] \in Launch => child[owner[p]] = "serving"

\* What the reads of an answer of n pieces may take.
ReadTime(n) == ReadTimeout * (1 + n)

\* A read started before the deadline; a sleep started before it or after a read.
PaceOK(l) == /\ InProgress(l) => left[l] - wait[l] > -(ReadTime(pieces[l]) + Sleep)
             /\ step[l] = "reading" => left[l] - wait[l] > -ReadTime(pieces[l])

IInv == /\ CallsOK
        /\ BuilderOK
        /\ FunctionsOK
        /\ \A l \in Launch : ChildOK(l) /\ PeerOK(l) /\ WaitOK(l) /\ PaceOK(l)
        /\ OwnerOK

-----------------------------------------------------------------------------
(* The arithmetic of the deadline.                                         *)

\* One more piece is one more read.
LEMMA OneMoreRead ==
  ASSUME NEW n \in Nat
  PROVE  /\ ReadTime(n) \in Nat
         /\ ReadTime(n) > 0
         /\ ReadTime(n + 1) = ReadTime(n) + ReadTimeout
<1>1. PICK r \in Nat \ {0} : r = ReadTimeout  BY TimerAssumption
<1>2. r * (1 + n) \in Nat /\ r * (1 + n) > 0  OBVIOUS
<1>3. r * (1 + (n + 1)) = r * (1 + n) + r  OBVIOUS
<1> QED  BY <1>1, <1>2, <1>3 DEF ReadTime

\* The invariant is as strong as the properties the runs check.
LEMMA Strong == IInv => TypeOK /\ FailedLeavesNothing /\ Prompt
<1> SUFFICES ASSUME IInv PROVE TypeOK /\ FailedLeavesNothing /\ Prompt
  OBVIOUS
<1>1. TypeOK
  BY DEF IInv, BuilderOK, FunctionsOK, ChildOK, PeerOK, WaitOK, OwnerOK, TypeOK
<1>2. FailedLeavesNothing
  BY DEF IInv, ChildOK, OwnerOK, FailedLeavesNothing
<1>3. Prompt
  <2> SUFFICES ASSUME NEW l \in Launch, InProgress(l)
               PROVE  left[l] > -(ReadTimeout * (1 + pieces[l]) + Sleep)
    BY DEF Prompt
  <2>1. /\ left[l] \in Int /\ wait[l] \in Nat /\ pieces[l] \in Nat
        /\ left[l] - wait[l] > -(ReadTime(pieces[l]) + Sleep)
    BY DEF IInv, FunctionsOK, PaceOK
  <2>2. ReadTime(pieces[l]) \in Nat  BY <2>1, OneMoreRead
  <2>3. left[l] > -(ReadTime(pieces[l]) + Sleep)  BY <2>1, <2>2, TimerAssumption
  <2> QED  BY <2>3 DEF ReadTime
<1> QED  BY <1>1, <1>2, <1>3

\* The last call of a set of calls.
LEMMA MaxIs ==
  ASSUME NEW S \in SUBSET Int, NEW x \in S, \A y \in S : y <= x
  PROVE  Max(S) = x
<1>1. \A z \in S : (\A y \in S : z >= y) => z = x  OBVIOUS
<1>2. \A y \in S : x >= y  OBVIOUS
<1> QED  BY <1>1, <1>2 DEF Max

\* What the browser is given is what the calls ask for, variable by variable.
LEMMA EnvStrong == IInv => EnvironmentAsAsked
<1> SUFFICES ASSUME IInv PROVE EnvironmentAsAsked
  OBVIOUS
<1> DEFINE env == BuildEnv(launcher)
           ov == launcher.env_overrides
<1>1. /\ calls \in Seq(CallRecord) /\ OverridesOK /\ InheritOK
      /\ DOMAIN calls = 1 .. Len(calls) /\ Len(calls) \in Nat
  BY DEF IInv, CallsOK
<1>2. Asked("clear_env") <=> launcher.inherit_env = FALSE
  BY <1>1 DEF InheritOK, Asked
<1>3. /\ DOMAIN env = (DOMAIN ov \ ProxyVar) \cup
                        (IF launcher.inherit_env = TRUE THEN DOMAIN Inherited \ ProxyVar ELSE {})
      /\ \A v \in DOMAIN ov \ ProxyVar : env[v] = ov[v]
      /\ \A v \in DOMAIN Inherited \ (ProxyVar \cup DOMAIN ov) :
           launcher.inherit_env = TRUE => env[v] = Inherited[v]
  <2>1. CASE launcher.inherit_env = TRUE
    BY <2>1 DEF BuildEnv, Overlay, FilterProxyEnv, Restrict
  <2>2. CASE launcher.inherit_env = FALSE
    BY <2>2 DEF BuildEnv, Overlay, FilterProxyEnv, Restrict
  <2> QED  BY <1>1, <2>1, <2>2 DEF InheritOK
<1> HIDE DEF env
<1>4. ASSUME NEW v \in Var PROVE AskedEnv(v) = IF v \in DOMAIN env THEN env[v] ELSE Unset
  <2> DEFINE set == {i \in DOMAIN calls : calls[i].op = "env" /\ calls[i].arg[1] = v}
  <2>1. set = {} <=> v \notin DOMAIN ov
    BY <1>1 DEF OverridesOK, Sets
  <2>2. ASSUME v \in DOMAIN ov PROVE ov[v] = calls[Max(set)].arg[2]
    <3>1. PICK i \in 1 .. Len(calls) :
            /\ Sets(i, v)
            /\ ov[v] = calls[i].arg[2]
            /\ \A j \in 1 .. Len(calls) : Sets(j, v) => j <= i
      BY <1>1, <2>2 DEF OverridesOK
    <3>2. set \in SUBSET Int /\ i \in set /\ \A j \in set : j <= i
      BY <1>1, <3>1 DEF Sets
    <3>3. Max(set) = i  BY <3>2, MaxIs
    <3> QED  BY <3>1, <3>3
  <2>3. AskedEnv(v) = CASE v \in ProxyVar -> Unset
                        [] set # {} /\ v \notin ProxyVar -> calls[Max(set)].arg[2]
                        [] OTHER -> IF Asked("clear_env") \/ v \notin DOMAIN Inherited
                                    THEN Unset ELSE Inherited[v]
    BY DEF AskedEnv
  <2> HIDE DEF set
  <2>4. CASE v \in ProxyVar  BY <1>3, <2>3, <2>4
  <2>5. CASE v \notin ProxyVar /\ v \in DOMAIN ov  BY <1>3, <2>1, <2>2, <2>3, <2>5
  <2>6. CASE v \notin ProxyVar /\ v \notin DOMAIN ov
    <3>1. AskedEnv(v) = IF Asked("clear_env") \/ v \notin DOMAIN Inherited
                        THEN Unset ELSE Inherited[v]
      BY <2>1, <2>3, <2>6
    <3> QED  BY <1>1, <1>2, <1>3, <2>6, <3>1 DEF InheritOK
  <2> QED  BY <2>4, <2>5, <2>6
<1> QED  BY <1>3, <1>4 DEF EnvironmentAsAsked, env

\* Outside of the builder nothing touches what it collected.
LEMMA CallsKept == CallsOK /\ UNCHANGED building => CallsOK'
BY DEF CallsOK, OverridesOK, InheritOK, Sets, building

\* A fresh builder, nothing launched.
LEMMA InitIInv == Init => IInv
<1> SUFFICES ASSUME Init PROVE IInv
  OBVIOUS
<1>1. BuilderOK
  BY DEF Init, NewLauncher, BuilderOK, Options
<1>0. CallsOK
  <2>1. calls \in Seq(CallRecord) /\ Len(calls) = 0  BY DEF Init
  <2>2. launcher.env_overrides = <<>> /\ launcher.inherit_env = TRUE  BY DEF Init, NewLauncher
  <2>3. DOMAIN launcher.env_overrides = {} /\ 1 .. Len(calls) = {}
    BY <2>1, <2>2
  <2>4. OverridesOK  BY <2>3 DEF OverridesOK
  <2>5. InheritOK  BY <2>2, <2>3 DEF InheritOK
  <2> QED  BY <2>1, <2>4, <2>5 DEF CallsOK
<1>2. FunctionsOK
  BY DEF Init, FunctionsOK, Step, Process, Peer
<1>3. \A l \in Launch : ChildOK(l) /\ PeerOK(l) /\ WaitOK(l) /\ PaceOK(l)
  BY DEF Init, ChildOK, PeerOK, WaitOK, PaceOK, InProgress
<1>4. OwnerOK
  BY PeerAssumption DEF Init, OwnerOK
<1> QED  BY <1>0, <1>1, <1>2, <1>3, <1>4 DEF IInv

-----------------------------------------------------------------------------
(* The builder: no launch is under way, and none is disturbed.             *)

\* What each call has to show: its launcher is one.
LEMMA CallIInv ==
  ASSUME IInv, UNCHANGED launching, \A i \in Launch : step[i] = "idle", CallsOK',
         DOMAIN launcher' = Options,
         launcher'.debugging_port \in Port \cup {Unset},
         launcher'.page_settle \in {<<>>} \cup {<<t>> : t \in Tuning \cup {Untuned}},
         launcher'.captcha_model_path \in Model \cup {Unset},
         DOMAIN launcher'.env_overrides \subseteq Var
  PROVE  IInv'
<1>1. BuilderOK'
  BY DEF BuilderOK, launching
<1>2. FunctionsOK'
  BY DEF IInv, FunctionsOK, launching
<1>3. ASSUME NEW l \in Launch PROVE (ChildOK(l) /\ PeerOK(l) /\ WaitOK(l) /\ PaceOK(l))'
  BY DEF IInv, launching, ChildOK, PeerOK, WaitOK, PaceOK, InProgress
<1>4. OwnerOK'
  BY DEF IInv, OwnerOK, launching
<1> QED  BY <1>1, <1>2, <1>3, <1>4 DEF IInv

\* The calls before the last stay as they were.
LEMMA OneMoreCall ==
  ASSUME calls \in Seq(CallRecord), NEW c \in CallRecord, calls' = Append(calls, c)
  PROVE  /\ calls' \in Seq(CallRecord)
         /\ Len(calls) \in Nat /\ Len(calls') = Len(calls) + 1
         /\ calls'[Len(calls')] = c
         /\ \A i \in 1 .. Len(calls) : calls'[i] = calls[i]
OBVIOUS

\* A call that sets no variable.
LEMMA QuietCall ==
  ASSUME CallsOK, NEW c \in CallRecord, calls' = Append(calls, c), c.op \notin {"env", "clear_env"},
         launcher'.env_overrides = launcher.env_overrides,
         launcher'.inherit_env = launcher.inherit_env
  PROVE  CallsOK'
<1>1. /\ calls' \in Seq(CallRecord)
      /\ Len(calls) \in Nat /\ Len(calls') = Len(calls) + 1
      /\ calls'[Len(calls')] = c
      /\ \A i \in 1 .. Len(calls) : calls'[i] = calls[i]
  BY OneMoreCall DEF CallsOK
<1>2. \A i \in 1 .. Len(calls') : calls'[i].op \in {"env", "clear_env"} =>
                                    i \in 1 .. Len(calls) /\ calls'[i] = calls[i]
  BY <1>1
<1>3. 1 .. Len(calls) \subseteq 1 .. Len(calls')  BY <1>1
<1>4. OverridesOK'
  BY <1>1, <1>2, <1>3 DEF CallsOK, OverridesOK, Sets
<1>5. InheritOK'
  BY <1>1, <1>2, <1>3 DEF CallsOK, InheritOK
<1> QED  BY <1>1, <1>4, <1>5 DEF CallsOK

\* env(): the call becomes the last that set its variable.
LEMMA EnvCall ==
  ASSUME CallsOK, NEW a \in Assignment, calls' = Append(calls, [op |-> "env", arg |-> a]),
         DOMAIN launcher'.env_overrides = {a[1]} \cup DOMAIN launcher.env_overrides,
         launcher'.env_overrides[a[1]] = a[2],
         \A v \in DOMAIN launcher.env_overrides \ {a[1]} :
           launcher'.env_overrides[v] = launcher.env_overrides[v],
         launcher'.inherit_env = launcher.inherit_env
  PROVE  CallsOK'
<1> DEFINE c == [op |-> "env", arg |-> a]
<1>0. c \in CallRecord /\ c.op = "env" /\ c.arg = a  BY DEF CallRecord
<1>1. /\ calls' \in Seq(CallRecord)
      /\ Len(calls) \in Nat /\ Len(calls') = Len(calls) + 1
      /\ calls'[Len(calls')] = c
      /\ \A i \in 1 .. Len(calls) : calls'[i] = calls[i]
  BY <1>0, OneMoreCall DEF CallsOK
<1> HIDE DEF c
<1>2. ASSUME NEW v \in DOMAIN launcher'.env_overrides
      PROVE  \E i \in 1 .. Len(calls') :
               /\ Sets(i, v)'
               /\ launcher'.env_overrides[v] = calls'[i].arg[2]
               /\ \A j \in 1 .. Len(calls') : Sets(j, v)' => j <= i
  <2>1. CASE v = a[1]
    <3>1. PICK n \in 1 .. Len(calls') : n = Len(calls')
      BY <1>1
    <3>2. Sets(n, v)' /\ launcher'.env_overrides[v] = calls'[n].arg[2]
      BY <1>0, <1>1, <2>1, <3>1 DEF Sets
    <3>3. \A j \in 1 .. Len(calls') : j <= n
      BY <1>1, <3>1
    <3> QED  BY <3>1, <3>2, <3>3
  <2>2. CASE v # a[1]
    <3>1. v \in DOMAIN launcher.env_overrides
          /\ launcher'.env_overrides[v] = launcher.env_overrides[v]
      BY <1>2, <2>2
    <3>2. PICK i \in 1 .. Len(calls) :
            /\ Sets(i, v)
            /\ launcher.env_overrides[v] = calls[i].arg[2]
            /\ \A j \in 1 .. Len(calls) : Sets(j, v) => j <= i
      BY <3>1 DEF CallsOK, OverridesOK
    <3>3. \A j \in 1 .. Len(calls') : Sets(j, v)' => j \in 1 .. Len(calls) /\ Sets(j, v)
      BY <1>0, <1>1, <2>2 DEF Sets
    <3>4. i \in 1 .. Len(calls') /\ Sets(i, v)' /\ calls'[i] = calls[i]
      BY <1>1, <3>2 DEF Sets
    <3> QED  BY <3>1, <3>2, <3>3, <3>4
  <2> QED  BY <2>1, <2>2
<1>3. ASSUME NEW i \in 1 .. Len(calls'), calls'[i].op = "env"
      PROVE  calls'[i].arg[1] \in DOMAIN launcher'.env_overrides
  <2>1. CASE i \in 1 .. Len(calls)  BY <1>1, <1>3, <2>1 DEF CallsOK, OverridesOK
  <2>2. CASE i = Len(calls')  BY <1>0, <1>1, <2>2
  <2> QED  BY <1>1, <2>1, <2>2
<1>4. OverridesOK'
  BY <1>2, <1>3 DEF OverridesOK, Sets
<1>5. InheritOK'
  <2>1. \A i \in 1 .. Len(calls') : calls'[i].op = "clear_env" =>
                                      i \in 1 .. Len(calls) /\ calls'[i] = calls[i]
    BY <1>0, <1>1
  <2>2. 1 .. Len(calls) \subseteq 1 .. Len(calls')  BY <1>1
  <2> QED  BY <1>1, <2>1, <2>2 DEF CallsOK, InheritOK
<1> QED  BY <1>1, <1>4, <1>5 DEF CallsOK

\* clear_env().
LEMMA ClearCall ==
  ASSUME CallsOK, calls' = Append(calls, [op |-> "clear_env", arg |-> Unset]),
         launcher'.env_overrides = launcher.env_overrides,
         launcher'.inherit_env = FALSE
  PROVE  CallsOK'
<1> DEFINE c == [op |-> "clear_env", arg |-> Unset]
<1>0. c \in CallRecord /\ c.op = "clear_env"  BY DEF CallRecord
<1>1. /\ calls' \in Seq(CallRecord)
      /\ Len(calls) \in Nat /\ Len(calls') = Len(calls) + 1
      /\ calls'[Len(calls')] = c
      /\ \A i \in 1 .. Len(calls) : calls'[i] = calls[i]
  BY <1>0, OneMoreCall DEF CallsOK
<1> HIDE DEF c
<1>2. \A i \in 1 .. Len(calls') : calls'[i].op = "env" =>
                                    i \in 1 .. Len(calls) /\ calls'[i] = calls[i]
  BY <1>0, <1>1
<1>3. 1 .. Len(calls) \subseteq 1 .. Len(calls')  BY <1>1
<1>4. OverridesOK'
  BY <1>1, <1>2, <1>3 DEF CallsOK, OverridesOK, Sets
<1>5. InheritOK'
  <2>1. Len(calls') \in 1 .. Len(calls') /\ calls'[Len(calls')].op = "clear_env"
    BY <1>0, <1>1
  <2> QED  BY <2>1 DEF InheritOK
<1> QED  BY <1>1, <1>4, <1>5 DEF CallsOK

\* Each call changes fields the record has.
LEMMA BuildIInv == IInv /\ Build => IInv'
<1> SUFFICES ASSUME IInv, Build PROVE IInv'
  OBVIOUS
<1> USE DEF Call
<1>0. BuilderOK /\ CallsOK  BY DEF IInv
<1>1. ASSUME NEW flag \in HandFlag, Arg(flag) PROVE IInv'
  <2>1. CallsOK'
    BY <1>0, <1>1, QuietCall DEF Arg, BuilderOK, Options, CallRecord
  <2> QED  BY <1>0, <1>1, <2>1, CallIInv DEF Arg, BuilderOK, Options
<1>2. ASSUME NEW p \in Port, RemoteDebuggingPort(p) PROVE IInv'
  <2>1. CallsOK'
    BY <1>0, <1>2, QuietCall DEF RemoteDebuggingPort, BuilderOK, Options, CallRecord
  <2> QED  BY <1>0, <1>2, <2>1, CallIInv DEF RemoteDebuggingPort, BuilderOK, Options
<1>3. ASSUME NEW on \in BOOLEAN, Captcha(on) PROVE IInv'
  <2>1. CallsOK'
    BY <1>0, <1>3, QuietCall DEF Captcha, BuilderOK, Options, CallRecord
  <2> QED  BY <1>0, <1>3, <2>1, CallIInv DEF Captcha, BuilderOK, Options
<1>4. ASSUME NEW on \in BOOLEAN, PageSettle(on) PROVE IInv'
  <2>1. CallsOK'
    BY <1>0, <1>4, QuietCall DEF PageSettle, BuilderOK, Options, CallRecord
  <2> QED  BY <1>0, <1>4, <2>1, CallIInv DEF PageSettle, BuilderOK, Options
<1>5. ASSUME NEW m \in Model, CaptchaModelPath(m) PROVE IInv'
  <2>1. CallsOK'
    BY <1>0, <1>5, QuietCall DEF CaptchaModelPath, BuilderOK, Options, CallRecord
  <2> QED  BY <1>0, <1>5, <2>1, CallIInv DEF CaptchaModelPath, BuilderOK, Options
<1>6. ASSUME NEW t \in Tuning, PageSettleTuning(t) PROVE IInv'
  <2>1. CallsOK'
    BY <1>0, <1>6, QuietCall DEF PageSettleTuning, BuilderOK, Options, CallRecord
  <2> QED  BY <1>0, <1>6, <2>1, CallIInv DEF PageSettleTuning, BuilderOK, Options
<1>7. ASSUME NEW a \in Assignment, Env(a) PROVE IInv'
  <2> DEFINE old == launcher.env_overrides
  <2>1. /\ calls' = Append(calls, [op |-> "env", arg |-> a])
        /\ launcher'.env_overrides = Overlay([v \in {a[1]} |-> a[2]], old)
        /\ launcher'.inherit_env = launcher.inherit_env
    BY <1>0, <1>7 DEF Env, BuilderOK, Options
  <2>2. /\ DOMAIN launcher'.env_overrides = {a[1]} \cup DOMAIN old
        /\ launcher'.env_overrides[a[1]] = a[2]
        /\ \A v \in DOMAIN old \ {a[1]} : launcher'.env_overrides[v] = old[v]
    BY <2>1 DEF Overlay
  <2>3. CallsOK'
    BY <1>0, <2>1, <2>2, EnvCall
  <2>4. {a[1]} \cup DOMAIN old \subseteq Var
    BY <1>0, AssignmentAssumption DEF BuilderOK
  <2> QED  BY <1>0, <1>7, <2>2, <2>3, <2>4, CallIInv DEF Env, BuilderOK, Options
<1>8. CASE ClearEnv
  <2>1. /\ calls' = Append(calls, [op |-> "clear_env", arg |-> Unset])
        /\ launcher'.env_overrides = launcher.env_overrides
        /\ launcher'.inherit_env = FALSE
    BY <1>0, <1>8 DEF ClearEnv, BuilderOK, Options
  <2>2. CallsOK'
    BY <1>0, <2>1, ClearCall
  <2> QED  BY <1>0, <1>8, <2>2, CallIInv DEF ClearEnv, BuilderOK, Options
<1> QED  BY <1>1, <1>2, <1>3, <1>4, <1>5, <1>6, <1>7, <1>8 DEF Build

-----------------------------------------------------------------------------
(* The steps of one launch.                                                *)

SameBut(l) == \A i \in Launch \ {l} : /\ step'[i] = step[i] /\ child'[i] = child[i]
                                      /\ left'[i] = left[i] /\ wait'[i] = wait[i]
                                      /\ peer'[i] = peer[i] /\ pieces'[i] = pieces[i]

\* What a step of launch l has to show: nothing of the others.
LEMMA MoveIInv ==
  ASSUME IInv, NEW l \in Launch, UNCHANGED building, FunctionsOK', SameBut(l),
         step'[l] \notin {"idle", "failed"} => launcher.debugging_port \in Port,
         ChildOK(l)', PeerOK(l)', WaitOK(l)', PaceOK(l)', OwnerOK'
  PROVE  IInv'
<1>1. BuilderOK'
  BY DEF IInv, BuilderOK, building, SameBut
<1>0. CallsOK'
  BY CallsKept DEF IInv
<1>2. ASSUME NEW i \in Launch PROVE (ChildOK(i) /\ PeerOK(i) /\ WaitOK(i) /\ PaceOK(i))'
  <2>1. CASE i = l  BY <2>1
  <2>2. CASE i # l
    <3>1. ChildOK(i) /\ PeerOK(i) /\ WaitOK(i) /\ PaceOK(i)  BY DEF IInv
    <3>2. /\ step'[i] = step[i] /\ child'[i] = child[i] /\ left'[i] = left[i]
          /\ wait'[i] = wait[i] /\ peer'[i] = peer[i] /\ pieces'[i] = pieces[i]
      BY <2>2 DEF SameBut
    <3> QED  BY <3>1, <3>2 DEF ChildOK, PeerOK, WaitOK, PaceOK, InProgress
  <2> QED  BY <2>1, <2>2
<1> QED  BY <1>0, <1>1, <1>2 DEF IInv

\* A launch that goes no further has spawned nothing.
LEMMA RefusedIInv ==
  ASSUME IInv, NEW l \in Launch, NoPort(l) \/ SpawnFails(l)
  PROVE  IInv'
<1>1. /\ step[l] = "idle" /\ step' = [step EXCEPT ![l] = "failed"]
      /\ UNCHANGED <<building, child, left, wait, peer, pieces, owner>>
  BY DEF NoPort, SpawnFails, Launchable, Goto
<1>2. FunctionsOK  BY DEF IInv
<1>3. FunctionsOK' /\ SameBut(l)
  BY <1>1, <1>2 DEF FunctionsOK, SameBut, Step
<1>4. ChildOK(l) /\ PeerOK(l) /\ WaitOK(l) /\ PaceOK(l) /\ OwnerOK  BY DEF IInv
<1>5. (ChildOK(l) /\ PeerOK(l) /\ WaitOK(l) /\ PaceOK(l))'
  BY <1>1, <1>2, <1>4 DEF FunctionsOK, ChildOK, PeerOK, WaitOK, PaceOK, InProgress
<1>6. OwnerOK'
  BY <1>1, <1>4 DEF OwnerOK
<1> QED  BY <1>1, <1>2, <1>3, <1>5, <1>6, MoveIInv DEF FunctionsOK

\* The deadline is set when the browser has been started.
LEMMA SpawnIInv ==
  ASSUME IInv, NEW l \in Launch, Spawn(l)
  PROVE  IInv'
<1>1. /\ step[l] = "idle" /\ launcher.debugging_port # Unset
      /\ step' = [step EXCEPT ![l] = "polling"]
      /\ child' = [child EXCEPT ![l] = "starting"]
      /\ left' = [left EXCEPT ![l] = Timeout]
      /\ UNCHANGED <<building, wait, peer, pieces, owner>>
  BY DEF Spawn, Launchable, Goto
<1>2. FunctionsOK  BY DEF IInv
<1>3. FunctionsOK' /\ SameBut(l)
  BY <1>1, <1>2, TimerAssumption DEF FunctionsOK, SameBut, Step, Process
<1>4. ChildOK(l) /\ PeerOK(l) /\ WaitOK(l) /\ OwnerOK  BY DEF IInv
<1>5. (ChildOK(l) /\ PeerOK(l) /\ WaitOK(l))'
  BY <1>1, <1>2, <1>4 DEF FunctionsOK, ChildOK, PeerOK, WaitOK
<1>6. PaceOK(l)'
  <2>1. pieces[l] \in Nat /\ wait[l] = 0  BY <1>1, <1>2, <1>4 DEF FunctionsOK, WaitOK
  <2>2. left'[l] = Timeout /\ wait'[l] = 0 /\ pieces'[l] = pieces[l] /\ step'[l] = "polling"
    BY <1>1, <1>2, <2>1 DEF FunctionsOK
  <2>3. ReadTime(pieces[l]) \in Nat /\ Sleep \in Nat \ {0} /\ Timeout \in Nat
    BY <2>1, OneMoreRead, TimerAssumption
  <2>4. Timeout - 0 > -(ReadTime(pieces[l]) + Sleep)  BY <2>3
  <2> QED  BY <2>2, <2>4 DEF PaceOK, ReadTime
<1>7. OwnerOK'
  <2>1. ASSUME NEW p \in Port, owner[p] \in Launch PROVE owner[p] # l
    BY <1>1, <1>4, <2>1 DEF OwnerOK, ChildOK
  <2> QED  BY <1>1, <1>2, <1>4, <2>1 DEF OwnerOK, FunctionsOK
<1>8. launcher.debugging_port \in Port  BY <1>1 DEF IInv, BuilderOK
<1> QED  BY <1>1, <1>3, <1>5, <1>6, <1>7, <1>8, MoveIInv

\* The one look at the deadline: a read or a sleep begins before it.
LEMMA PollIInv ==
  ASSUME IInv, NEW l \in Launch, Poll(l)
  PROVE  IInv'
<1> DEFINE at == owner[launcher.debugging_port]
<1>1. FunctionsOK /\ ChildOK(l) /\ PeerOK(l) /\ WaitOK(l) /\ PaceOK(l) /\ OwnerOK  BY DEF IInv
<1>2. step[l] = "polling" /\ UNCHANGED <<building, child, left, owner>>  BY DEF Poll
<1>3. launcher.debugging_port \in Port  BY <1>2 DEF IInv, BuilderOK
<1>4. at \in Peer  BY <1>1, <1>3 DEF FunctionsOK
<1>5. wait[l] = 0 /\ peer[l] = Nobody /\ left[l] \in Int /\ pieces[l] \in Nat /\ Sleep \in Nat
  BY <1>1, <1>2, TimerAssumption DEF FunctionsOK, WaitOK, PeerOK
<1>6. OwnerOK'  BY <1>1, <1>2 DEF OwnerOK
<1>7. CASE left[l] <= 0 /\ Goto(l, "killing") /\ UNCHANGED <<wait, peer, pieces>>
  <2>1. FunctionsOK' /\ SameBut(l)
    BY <1>1, <1>2, <1>7 DEF FunctionsOK, SameBut, Goto, Step
  <2>2. (ChildOK(l) /\ PeerOK(l) /\ WaitOK(l) /\ PaceOK(l))'
    BY <1>1, <1>2, <1>7
    DEF FunctionsOK, Goto, ChildOK, PeerOK, WaitOK, PaceOK, InProgress
  <2> QED  BY <1>2, <1>3, <1>6, <2>1, <2>2, MoveIInv
<1>8. CASE /\ left[l] > 0 /\ Goto(l, "sleeping")
           /\ wait' = [wait EXCEPT ![l] = Sleep] /\ UNCHANGED <<peer, pieces>>
  <2>1. FunctionsOK' /\ SameBut(l)
    BY <1>1, <1>2, <1>5, <1>8 DEF FunctionsOK, SameBut, Goto, Step
  <2>2. /\ step'[l] = "sleeping" /\ left'[l] = left[l]
        /\ wait'[l] = Sleep /\ pieces'[l] = pieces[l]
    BY <1>1, <1>2, <1>8 DEF FunctionsOK, Goto
  <2>3. (ChildOK(l) /\ PeerOK(l) /\ WaitOK(l))'
    BY <1>1, <1>2, <1>8, <2>2 DEF ChildOK, PeerOK, WaitOK
  <2>4. left[l] - Sleep > -(ReadTime(pieces[l]) + Sleep)
    BY <1>5, <1>8, OneMoreRead
  <2>5. PaceOK(l)'
    BY <2>2, <2>4 DEF PaceOK, ReadTime
  <2> QED  BY <1>2, <1>3, <1>6, <2>1, <2>3, <2>5, MoveIInv
<1>9. CASE /\ left[l] > 0 /\ at # Nobody /\ Goto(l, "reading")
           /\ wait' = [wait EXCEPT ![l] = ReadTimeout]
           /\ peer' = [peer EXCEPT ![l] = at]
           /\ pieces' = [pieces EXCEPT ![l] = 0]
  <2>1. FunctionsOK' /\ SameBut(l)
    BY <1>1, <1>2, <1>4, <1>9, TimerAssumption DEF FunctionsOK, SameBut, Goto, Step
  <2>2. /\ step'[l] = "reading" /\ left'[l] = left[l] /\ peer'[l] = at
        /\ wait'[l] = ReadTimeout /\ pieces'[l] = 0
    BY <1>1, <1>2, <1>9 DEF FunctionsOK, Goto
  <2>3. (ChildOK(l) /\ PeerOK(l) /\ WaitOK(l))'
    BY <1>1, <1>2, <1>9, <2>2 DEF ChildOK, PeerOK, WaitOK
  <2>4. ReadTime(0) = ReadTimeout  BY TimerAssumption DEF ReadTime
  <2>5. /\ left[l] - ReadTimeout > -ReadTime(0)
        /\ left[l] - ReadTimeout > -(ReadTime(0) + Sleep)
    BY <1>5, <1>9, <2>4, TimerAssumption
  <2>6. PaceOK(l)'
    BY <2>2, <2>5 DEF PaceOK, ReadTime
  <2> QED  BY <1>2, <1>3, <1>6, <2>1, <2>3, <2>6, MoveIInv
<1> QED  BY <1>7, <1>8, <1>9 DEF Poll

\* A piece restarts the read timeout, and is counted.
LEMMA PieceIInv ==
  ASSUME IInv, NEW l \in Launch, Piece(l)
  PROVE  IInv'
<1>1. FunctionsOK /\ ChildOK(l) /\ PeerOK(l) /\ WaitOK(l) /\ PaceOK(l) /\ OwnerOK  BY DEF IInv
<1>2. /\ step[l] = "reading"
      /\ pieces' = [pieces EXCEPT ![l] = @ + 1]
      /\ wait' = [wait EXCEPT ![l] = ReadTimeout]
      /\ UNCHANGED <<building, step, child, left, peer, owner>>
  BY DEF Piece
<1>3. /\ left[l] \in Int /\ wait[l] \in Nat /\ pieces[l] \in Nat
      /\ Sleep \in Nat /\ ReadTimeout \in Nat
  BY <1>1, TimerAssumption DEF FunctionsOK
<1>4. FunctionsOK' /\ SameBut(l)
  BY <1>1, <1>2, <1>3 DEF FunctionsOK, SameBut
<1>5. /\ step'[l] = "reading" /\ left'[l] = left[l]
      /\ wait'[l] = ReadTimeout /\ pieces'[l] = pieces[l] + 1
  BY <1>1, <1>2 DEF FunctionsOK
<1>6. (ChildOK(l) /\ PeerOK(l) /\ WaitOK(l) /\ OwnerOK)'
  BY <1>1, <1>2 DEF ChildOK, PeerOK, WaitOK, OwnerOK
<1>7. left[l] - wait[l] > -ReadTime(pieces[l])  BY <1>1, <1>2 DEF PaceOK
<1>8. /\ left[l] - ReadTimeout > -ReadTime(pieces[l] + 1)
      /\ left[l] - ReadTimeout > -(ReadTime(pieces[l] + 1) + Sleep)
  BY <1>3, <1>7, OneMoreRead
<1>9. PaceOK(l)'
  BY <1>5, <1>8 DEF PaceOK, ReadTime
<1>10. launcher.debugging_port \in Port  BY <1>2 DEF IInv, BuilderOK
<1> QED  BY <1>2, <1>4, <1>6, <1>9, <1>10, MoveIInv

\* A read ends: in an endpoint, or in a pause before the next poll.
LEMMA ReadEndsIInv ==
  ASSUME IInv, NEW l \in Launch, Answer(l) \/ TimesOut(l)
  PROVE  IInv'
<1>1. FunctionsOK /\ ChildOK(l) /\ PeerOK(l) /\ WaitOK(l) /\ PaceOK(l) /\ OwnerOK  BY DEF IInv
<1>2. /\ step[l] = "reading"
      /\ Return(l) \/ Retry(l)
      /\ UNCHANGED <<building, child, pieces, owner>>
  BY DEF Answer, TimesOut
<1>3. /\ left[l] \in Int /\ wait[l] \in Nat /\ pieces[l] \in Nat
      /\ Sleep \in Nat /\ ReadTimeout \in Nat
  BY <1>1, TimerAssumption DEF FunctionsOK
<1>4. OwnerOK'  BY <1>1, <1>2 DEF OwnerOK
<1>5. launcher.debugging_port \in Port  BY <1>2 DEF IInv, BuilderOK
<1>6. CASE Return(l)
  <2>1. FunctionsOK' /\ SameBut(l)
    BY <1>1, <1>2, <1>6 DEF FunctionsOK, SameBut, Return, Goto, Step
  <2>2. (ChildOK(l) /\ PeerOK(l) /\ WaitOK(l) /\ PaceOK(l))'
    BY <1>1, <1>2, <1>6
    DEF FunctionsOK, Return, Goto, ChildOK, PeerOK, WaitOK, PaceOK, InProgress
  <2> QED  BY <1>2, <1>4, <1>5, <2>1, <2>2, MoveIInv
<1>7. CASE Retry(l)
  <2>1. FunctionsOK' /\ SameBut(l)
    BY <1>1, <1>2, <1>3, <1>7 DEF FunctionsOK, SameBut, Retry, Goto, Step, Peer
  <2>2. /\ step'[l] = "sleeping" /\ left'[l] = left[l] /\ peer'[l] = Nobody
        /\ wait'[l] = Sleep /\ pieces'[l] = pieces[l]
    BY <1>1, <1>2, <1>7 DEF FunctionsOK, Retry, Goto
  <2>3. (ChildOK(l) /\ PeerOK(l) /\ WaitOK(l))'
    BY <1>1, <1>2, <2>2 DEF ChildOK, PeerOK, WaitOK
  <2>4. left[l] - wait[l] > -ReadTime(pieces[l])  BY <1>1, <1>2 DEF PaceOK
  <2>5. left[l] - Sleep > -(ReadTime(pieces[l]) + Sleep)
    BY <1>3, <2>4, OneMoreRead
  <2>6. PaceOK(l)'
    BY <2>2, <2>5 DEF PaceOK, ReadTime
  <2> QED  BY <1>2, <1>4, <1>5, <2>1, <2>3, <2>6, MoveIInv
<1> QED  BY <1>2, <1>6, <1>7

\* The pause is over.
LEMMA WakeIInv ==
  ASSUME IInv, NEW l \in Launch, Wake(l)
  PROVE  IInv'
<1>1. FunctionsOK /\ ChildOK(l) /\ PeerOK(l) /\ WaitOK(l) /\ PaceOK(l) /\ OwnerOK  BY DEF IInv
<1>2. /\ step[l] = "sleeping" /\ step' = [step EXCEPT ![l] = "polling"]
      /\ wait[l] = 0 /\ UNCHANGED <<building, child, left, wait, peer, pieces, owner>>
  BY DEF Wake, Goto
<1>3. FunctionsOK' /\ SameBut(l)
  BY <1>1, <1>2 DEF FunctionsOK, SameBut, Step
<1>4. (ChildOK(l) /\ PeerOK(l) /\ WaitOK(l) /\ PaceOK(l) /\ OwnerOK)'
  BY <1>1, <1>2
  DEF FunctionsOK, ChildOK, PeerOK, WaitOK, PaceOK, InProgress, OwnerOK
<1>5. launcher.debugging_port \in Port  BY <1>2 DEF IInv, BuilderOK
<1> QED  BY <1>2, <1>3, <1>4, <1>5, MoveIInv

\* A process that exits gives up its port.
LEMMA ExitFreesPort ==
  ASSUME FunctionsOK, OwnerOK, NEW l \in Launch, Exit(l)
  PROVE  /\ child' \in [Launch -> Process]
         /\ owner' \in [Port -> Peer]
         /\ child'[l] = "exited"
         /\ \A i \in Launch \ {l} : child'[i] = child[i]
         /\ OwnerOK'
<1>1. child' \in [Launch -> Process] /\ owner' \in [Port -> Peer]
  BY DEF Exit, FunctionsOK, Process, Peer
<1>2. child'[l] = "exited" /\ \A i \in Launch \ {l} : child'[i] = child[i]
  BY DEF Exit, FunctionsOK
<1>3. ASSUME NEW p \in Port, owner'[p] \in Launch PROVE child'[owner'[p]] = "serving"
  <2>1. owner'[p] = owner[p] /\ owner[p] # l
    BY <1>3, PeerAssumption DEF Exit
  <2> QED  BY <1>2, <1>3, <2>1 DEF OwnerOK
<1> QED  BY <1>1, <1>2, <1>3 DEF OwnerOK

\* The deadline has passed: the browser goes first.
LEMMA KillIInv ==
  ASSUME IInv, NEW l \in Launch, Kill(l)
  PROVE  IInv'
<1>1. FunctionsOK /\ ChildOK(l) /\ PeerOK(l) /\ WaitOK(l) /\ PaceOK(l) /\ OwnerOK  BY DEF IInv
<1>2. /\ step[l] = "killing" /\ step' = [step EXCEPT ![l] = "reaping"]
      /\ Exit(l) /\ UNCHANGED <<building, left, wait, peer, pieces>>
  BY DEF Kill, Goto
<1>3. /\ child' \in [Launch -> Process] /\ owner' \in [Port -> Peer]
      /\ child'[l] = "exited" /\ \A i \in Launch \ {l} : child'[i] = child[i]
      /\ OwnerOK'
  BY <1>1, <1>2, ExitFreesPort
<1>4. FunctionsOK' /\ SameBut(l)
  BY <1>1, <1>2, <1>3 DEF FunctionsOK, SameBut, Step
<1>5. (ChildOK(l) /\ PeerOK(l) /\ WaitOK(l) /\ PaceOK(l))'
  BY <1>1, <1>2, <1>3 DEF FunctionsOK, ChildOK, PeerOK, WaitOK, PaceOK, InProgress
<1>6. launcher.debugging_port \in Port  BY <1>2 DEF IInv, BuilderOK
<1> QED  BY <1>2, <1>3, <1>4, <1>5, <1>6, MoveIInv

\* The launch fails once its browser has been reaped.
LEMMA ReapIInv ==
  ASSUME IInv, NEW l \in Launch, Reap(l)
  PROVE  IInv'
<1>1. FunctionsOK /\ ChildOK(l) /\ PeerOK(l) /\ WaitOK(l) /\ PaceOK(l) /\ OwnerOK  BY DEF IInv
<1>2. /\ step[l] = "reaping" /\ step' = [step EXCEPT ![l] = "failed"]
      /\ child[l] = "exited" /\ child' = [child EXCEPT ![l] = "reaped"]
      /\ left' = [left EXCEPT ![l] = 0]
      /\ UNCHANGED <<building, wait, peer, pieces, owner>>
  BY DEF Reap, Goto
<1>3. FunctionsOK' /\ SameBut(l)
  BY <1>1, <1>2 DEF FunctionsOK, SameBut, Step, Process
<1>4. (ChildOK(l) /\ PeerOK(l) /\ WaitOK(l) /\ PaceOK(l))'
  BY <1>1, <1>2 DEF FunctionsOK, ChildOK, PeerOK, WaitOK, PaceOK, InProgress
<1>5. OwnerOK'
  BY <1>1, <1>2 DEF FunctionsOK, OwnerOK
<1> QED  BY <1>2, <1>3, <1>4, <1>5, MoveIInv DEF FunctionsOK

-----------------------------------------------------------------------------
(* The browsers, whoever else is on the ports, and time.                   *)

\* A browser takes a port only if nobody has it.
LEMMA ListenIInv ==
  ASSUME IInv, NEW l \in Launch, Listen(l)
  PROVE  IInv'
<1>1. FunctionsOK /\ ChildOK(l) /\ PeerOK(l) /\ WaitOK(l) /\ PaceOK(l) /\ OwnerOK  BY DEF IInv
<1>2. child[l] = "starting" /\ UNCHANGED <<building, step, left, wait, peer, pieces>>
  BY DEF Listen
<1>3. PICK p : \/ /\ child' = [child EXCEPT ![l] = "serving"]
                  /\ owner' = [owner EXCEPT ![p] = l]
               \/ /\ child' = [child EXCEPT ![l] = "deaf"]
                  /\ UNCHANGED owner
  BY DEF Listen
<1>4. FunctionsOK' /\ SameBut(l)
  BY <1>1, <1>2, <1>3 DEF FunctionsOK, SameBut, Process, Peer
<1>5. child'[l] \in {"serving", "deaf"} /\ \A i \in Launch \ {l} : child'[i] = child[i]
  BY <1>1, <1>3 DEF FunctionsOK
<1>6. (ChildOK(l) /\ PeerOK(l) /\ WaitOK(l) /\ PaceOK(l))'
  BY <1>1, <1>2, <1>5 DEF ChildOK, PeerOK, WaitOK, PaceOK, InProgress
<1>7. ASSUME NEW q \in Port, owner'[q] \in Launch PROVE child'[owner'[q]] = "serving"
  <2>1. CASE owner'[q] = owner[q]
    <3>1. child[owner[q]] = "serving"  BY <1>1, <1>7, <2>1 DEF OwnerOK
    <3>2. owner[q] # l  BY <1>2, <3>1
    <3> QED  BY <1>5, <1>7, <2>1, <3>1, <3>2
  <2>2. CASE owner'[q] # owner[q]
    BY <1>1, <1>3, <2>2 DEF FunctionsOK
  <2> QED  BY <2>1, <2>2
<1>8. step[l] \notin {"idle", "failed"} => launcher.debugging_port \in Port
  BY DEF IInv, BuilderOK
<1> QED  BY <1>2, <1>4, <1>6, <1>7, <1>8, MoveIInv DEF OwnerOK

\* A browser dies at any moment; what is left of it is reaped all the same.
LEMMA DiesIInv ==
  ASSUME IInv, NEW l \in Launch, Dies(l)
  PROVE  IInv'
<1>1. FunctionsOK /\ ChildOK(l) /\ PeerOK(l) /\ WaitOK(l) /\ PaceOK(l) /\ OwnerOK  BY DEF IInv
<1>2. /\ child[l] \in {"starting", "serving", "deaf"} /\ Exit(l)
      /\ UNCHANGED <<building, step, left, wait, peer, pieces>>
  BY DEF Dies, Running
<1>3. /\ child' \in [Launch -> Process] /\ owner' \in [Port -> Peer]
      /\ child'[l] = "exited" /\ \A i \in Launch \ {l} : child'[i] = child[i]
      /\ OwnerOK'
  BY <1>1, <1>2, ExitFreesPort
<1>4. FunctionsOK' /\ SameBut(l)
  BY <1>1, <1>2, <1>3 DEF FunctionsOK, SameBut
<1>5. (ChildOK(l) /\ PeerOK(l) /\ WaitOK(l) /\ PaceOK(l))'
  BY <1>1, <1>2, <1>3 DEF ChildOK, PeerOK, WaitOK, PaceOK, InProgress
<1>6. step[l] \notin {"idle", "failed"} => launcher.debugging_port \in Port
  BY DEF IInv, BuilderOK
<1> QED  BY <1>2, <1>3, <1>4, <1>5, <1>6, MoveIInv

\* A port becomes free.
LEMMA StrangerLeavesIInv ==
  ASSUME IInv, NEW p \in Port, StrangerLeaves(p)
  PROVE  IInv'
<1>1. FunctionsOK /\ BuilderOK /\ OwnerOK  BY DEF IInv
<1>2. /\ owner' = [owner EXCEPT ![p] = Nobody]
      /\ UNCHANGED <<building, step, child, left, wait, peer, pieces>>
  BY DEF StrangerLeaves
<1>3. BuilderOK' /\ CallsOK'  BY <1>1, <1>2, CallsKept DEF IInv, BuilderOK, building
<1>4. FunctionsOK'  BY <1>1, <1>2 DEF FunctionsOK, Peer
<1>5. ASSUME NEW l \in Launch PROVE (ChildOK(l) /\ PeerOK(l) /\ WaitOK(l) /\ PaceOK(l))'
  BY <1>2 DEF IInv, ChildOK, PeerOK, WaitOK, PaceOK, InProgress
<1>6. OwnerOK'
  BY <1>1, <1>2, PeerAssumption DEF OwnerOK, FunctionsOK
<1> QED  BY <1>3, <1>4, <1>5, <1>6 DEF IInv

\* Time goes by only for launches that wait for it, and both their timers run.
LEMMA TickIInv == IInv /\ Tick => IInv'
<1> SUFFICES ASSUME IInv, Tick PROVE IInv'
  OBVIOUS
<1>1. FunctionsOK /\ BuilderOK /\ OwnerOK  BY DEF IInv
<1>2. /\ \A l \in Launch : InProgress(l) => Timed(l)
      /\ left' = [l \in Launch |-> IF InProgress(l) THEN left[l] - 1 ELSE left[l]]
      /\ wait' = [l \in Launch |-> IF Timed(l) THEN wait[l] - 1 ELSE wait[l]]
      /\ UNCHANGED <<building, step, child, peer, pieces, owner>>
  BY DEF Tick
<1>3. BuilderOK' /\ OwnerOK'  BY <1>1, <1>2 DEF BuilderOK, building, OwnerOK
<1>6. CallsOK'  BY <1>2, CallsKept DEF IInv
<1>4. FunctionsOK'
  <2>1. ASSUME NEW l \in Launch PROVE left'[l] \in Int /\ wait'[l] \in Nat
    BY <1>1, <1>2 DEF FunctionsOK, Timed
  <2> QED  BY <1>1, <1>2, <2>1 DEF FunctionsOK
<1>5. ASSUME NEW l \in Launch PROVE (ChildOK(l) /\ PeerOK(l) /\ WaitOK(l) /\ PaceOK(l))'
  <2>1. ChildOK(l) /\ PeerOK(l) /\ WaitOK(l) /\ PaceOK(l) /\ left[l] \in Int /\ wait[l] \in Nat
    BY <1>1 DEF IInv, FunctionsOK
  <2>2. (ChildOK(l) /\ PeerOK(l))'  BY <1>2, <2>1 DEF ChildOK, PeerOK
  <2>3. WaitOK(l)'  BY <1>2, <2>1 DEF WaitOK, Timed
  <2>4. ASSUME InProgress(l)
        PROVE  left'[l] - wait'[l] = left[l] - wait[l]
    <3>1. Timed(l)  BY <1>2, <2>4
    <3> QED  BY <1>2, <2>1, <2>4, <3>1
  <2>5. step'[l] = step[l] /\ pieces'[l] = pieces[l]  BY <1>2
  <2>6. PaceOK(l)'
    BY <2>1, <2>4, <2>5 DEF PaceOK, InProgress, ReadTime
  <2> QED  BY <2>2, <2>3, <2>6
<1> QED  BY <1>3, <1>4, <1>5, <1>6 DEF IInv

-----------------------------------------------------------------------------
(* Induction and recursion along a sequence.  The property induced on is a *)
(* set, not an operator, and the step from n to n + 1 rests on the least   *)
(* number a set of naturals has.                                           *)

\* A set of naturals has a least element.
LEMMA Least ==
  ASSUME NEW T \in SUBSET Nat, T # {}
  PROVE  \E x \in T : \A y \in T : x <= y
<1> DEFINE R == OpToRel(<, Nat)
<1>1. IsWellFoundedOn(R, Nat)  BY NatLessThanWellFounded
<1>2. \A x, y \in Nat : y < x => <<y, x>> \in R  BY DEF OpToRel
<1> HIDE DEF R
<1>3. PICK x \in T : \A y \in T : ~(<<y, x>> \in R)  BY <1>1, WFMin
<1>4. ASSUME NEW y \in T PROVE x <= y
  <2>1. x \in Nat /\ y \in Nat /\ ~(y < x)  BY <1>2, <1>3
  <2> QED  BY <2>1
<1> QED  BY <1>4

\* Induction, with a set for the property: the naturals,
LEMMA NatSet ==
  ASSUME NEW S, 0 \in S, \A n \in Nat : n \in S => n + 1 \in S
  PROVE  Nat \subseteq S
<1> SUFFICES ASSUME Nat \ S # {} PROVE FALSE
  OBVIOUS
<1>1. PICK x \in Nat \ S : \A y \in Nat \ S : x <= y  BY Least
<1>2. x - 1 \in Nat /\ x - 1 \notin S  BY <1>1
<1> QED  BY <1>1, <1>2

\* and sequences, which grow at their end.
LEMMA SeqSet ==
  ASSUME NEW F, NEW S, <<>> \in S,
         \A s \in Seq(F), x \in F : s \in S => Append(s, x) \in S
  PROVE  Seq(F) \subseteq S
<1> DEFINE N == {n \in Nat : \A s \in Seq(F) : Len(s) = n => s \in S}
<1>1. 0 \in N
  <2>1. ASSUME NEW s \in Seq(F), Len(s) = 0 PROVE s = <<>>  BY <2>1
  <2> QED  BY <2>1
<1>2. ASSUME NEW n \in Nat, n \in N PROVE n + 1 \in N
  <2> SUFFICES ASSUME NEW s \in Seq(F), Len(s) = n + 1 PROVE s \in S
    OBVIOUS
  <2>1. PICK f \in Seq(F), x \in F : s = Append(f, x)
    BY SequenceEmptyOrAppend
  <2>2. Len(f) = n  BY <2>1
  <2> QED  BY <1>2, <2>1, <2>2
<1>3. Nat \subseteq N
  <2> HIDE DEF N
  <2> QED  BY <1>1, <1>2, NatSet
<1> QED  BY <1>3

\* r is what a recursion along s, from a on, goes through.
Solves(r, A, a, f, s) == /\ r \in [0 .. Len(s) -> A]
                         /\ r[0] = a
                         /\ \A n \in 1 .. Len(s) : r[n] = f[<<r[n-1], s[n]>>]

\* Such a recursion has a solution.
LEMMA Recursion ==
  ASSUME NEW F, NEW A, NEW a \in A, NEW f \in [A \X F -> A]
  PROVE  \A s \in Seq(F) : \E r : Solves(r, A, a, f, s)
<1> DEFINE S == {s \in Seq(F) : \E r : Solves(r, A, a, f, s)}
<1>1. <<>> \in S
  <2> DEFINE r == [n \in 0 .. Len(<<>>) |-> a]
  <2>1. Len(<<>>) = 0 /\ r[0] = a  OBVIOUS
  <2>2. r \in [0 .. Len(<<>>) -> A]  OBVIOUS
  <2> HIDE DEF r
  <2>3. <<>> \in Seq(F) /\ Solves(r, A, a, f, <<>>)  BY <2>1, <2>2 DEF Solves
  <2> QED  BY <2>3
<1>2. ASSUME NEW s \in Seq(F), NEW x \in F, s \in S PROVE Append(s, x) \in S
  <2>1. PICK r : Solves(r, A, a, f, s)  BY <1>2
  <2> DEFINE l == Len(s)
             t == Append(s, x)
             q == [n \in 0 .. l + 1 |-> IF n <= l THEN r[n] ELSE f[<<r[l], x>>]]
  <2>2. /\ l \in Nat /\ t \in Seq(F) /\ Len(t) = l + 1 /\ t[l + 1] = x
        /\ \A n \in 1 .. l : t[n] = s[n]
    OBVIOUS
  <2>3. q \in [0 .. l + 1 -> A]
    <3>1. f[<<r[l], x>>] \in A  BY <2>1, <2>2 DEF Solves
    <3> QED  BY <2>1, <2>2, <3>1 DEF Solves
  <2>4. (\A n \in 0 .. l : q[n] = r[n]) /\ q[l + 1] = f[<<r[l], x>>]
    BY <2>2
  <2> HIDE DEF q, t, l
  <2>5. q[0] = a  BY <2>1, <2>2, <2>4 DEF Solves
  <2>6. ASSUME NEW n \in 1 .. l + 1 PROVE q[n] = f[<<q[n-1], t[n]>>]
    <3>1. CASE n = l + 1
      <4>1. n - 1 = l /\ l \in 0 .. l  BY <2>2, <3>1
      <4> QED  BY <2>2, <2>4, <3>1, <4>1
    <3>2. CASE n \in 1 .. l
      <4>1. n \in 0 .. l /\ n - 1 \in 0 .. l  BY <2>2, <3>2
      <4>2. r[n] = f[<<r[n-1], s[n]>>]  BY <2>1, <3>2 DEF Solves, l
      <4> QED  BY <2>2, <2>4, <3>2, <4>1, <4>2
    <3> QED  BY <2>2, <3>1, <3>2
  <2> QED  BY <2>2, <2>3, <2>5, <2>6 DEF Solves, t
<1>3. Seq(F) \subseteq S
  <2> HIDE DEF S
  <2> QED  BY <1>1, <1>2, SeqSet
<1> QED  BY <1>3

\* Two solutions of one recursion agree as far as both go.
LEMMA Agreement ==
  ASSUME NEW m \in Nat, NEW r, NEW q, r[0] = q[0],
         \A n \in 1 .. m : r[n-1] = q[n-1] => r[n] = q[n]
  PROVE  r[m] = q[m]
<1> DEFINE S == {n \in Nat : n <= m => r[n] = q[n]}
<1>1. 0 \in S  OBVIOUS
<1>2. ASSUME NEW n \in Nat, n \in S PROVE n + 1 \in S
  <2> SUFFICES ASSUME n + 1 <= m PROVE r[n + 1] = q[n + 1]
    OBVIOUS
  <2>1. n + 1 \in 1 .. m /\ (n + 1) - 1 = n /\ r[n] = q[n]  BY <1>2
  <2> QED  BY <2>1
<1>3. Nat \subseteq S
  <2> HIDE DEF S
  <2> QED  BY <1>1, <1>2, NatSet
<1> QED  BY <1>3

-----------------------------------------------------------------------------
(* Merging flags into a command line. *)

\* One flag merged into a line.
Plus(line, flag) == line \o IF flag.switch \in Switches(line) THEN <<>> ELSE <<flag>>

\* r is the lines the merge of e into a goes through.
MergesBy(r, a, e) == /\ r[0] = a
                     /\ \A n \in 1 .. Len(e) : r[n] = Plus(r[n-1], e[n])
                     /\ MergeLaunchArgs(a, e) = r[Len(e)]

\* The merge goes through such lines, and ends with the last of them.
LEMMA MergeSteps ==
  ASSUME NEW F, NEW a \in Seq(F), NEW e \in Seq(F)
  PROVE  \E r \in [0 .. Len(e) -> Seq(F)] : MergesBy(r, a, e)
<1> DEFINE Eqn(r) == r = [n \in 0 .. Len(e) |->
                            IF n = 0 THEN a
                            ELSE r[n-1] \o IF e[n].switch \in Switches(r[n-1]) THEN <<>> ELSE <<e[n]>>]
           merged == CHOOSE r : Eqn(r)
           f == [p \in Seq(F) \X F |-> Plus(p[1], p[2])]
<1>1. MergeLaunchArgs(a, e) = merged[Len(e)]
  BY DEF MergeLaunchArgs
<1>2. f \in [Seq(F) \X F -> Seq(F)]
  <2>1. ASSUME NEW m \in Seq(F), NEW x \in F PROVE Plus(m, x) \in Seq(F)
    BY DEF Plus
  <2> QED  BY <2>1
<1>3. PICK r \in [0 .. Len(e) -> Seq(F)] :
        r[0] = a /\ \A n \in 1 .. Len(e) : r[n] = f[<<r[n-1], e[n]>>]
  <2> HIDE DEF f
  <2>1. PICK r : Solves(r, Seq(F), a, f, e)  BY <1>2, Recursion
  <2> QED  BY <2>1 DEF Solves
<1>4. \A n \in 1 .. Len(e) : r[n] = Plus(r[n-1], e[n])
  <2>1. ASSUME NEW n \in 1 .. Len(e) PROVE r[n-1] \in Seq(F) /\ e[n] \in F
    <3>1. n - 1 \in 0 .. Len(e)  OBVIOUS
    <3> QED  BY <3>1
  <2> QED  BY <1>3, <2>1
<1>5. Eqn(r)
  <2>1. r = [n \in 0 .. Len(e) |-> r[n]]  OBVIOUS
  <2>2. ASSUME NEW n \in 0 .. Len(e), n # 0
        PROVE  r[n] = r[n-1] \o IF e[n].switch \in Switches(r[n-1]) THEN <<>> ELSE <<e[n]>>
    <3>1. n \in 1 .. Len(e)  BY <2>2
    <3> QED  BY <1>4, <3>1 DEF Plus
  <2> QED  BY <1>3, <2>1, <2>2
<1> HIDE DEF Eqn
<1>6. Eqn(merged)  BY <1>5
<1> HIDE DEF merged
<1>7. /\ merged[0] = a
      /\ \A n \in 1 .. Len(e) : merged[n] = Plus(merged[n-1], e[n])
  <2>1. \A n \in 1 .. Len(e) : n \in 0 .. Len(e) /\ n # 0  OBVIOUS
  <2>2. 0 \in 0 .. Len(e)  OBVIOUS
  <2> QED  BY <1>6, <2>1, <2>2 DEF Eqn, Plus
<1>8. merged[Len(e)] = r[Len(e)]
  <2>1. ASSUME NEW n \in 1 .. Len(e), merged[n-1] = r[n-1] PROVE merged[n] = r[n]
    BY <1>4, <1>7, <2>1
  <2>2. Len(e) \in Nat /\ merged[0] = r[0]  BY <1>3, <1>7
  <2> QED  BY <2>1, <2>2, Agreement
<1> QED  BY <1>1, <1>3, <1>4, <1>8 DEF MergesBy

\* Nothing is merged into a line, or one more flag.
LEMMA MergeEquations ==
  ASSUME NEW F, NEW a \in Seq(F)
  PROVE  /\ MergeLaunchArgs(a, <<>>) = a
         /\ \A e \in Seq(F) : MergeLaunchArgs(a, e) \in Seq(F)
         /\ \A e \in Seq(F), x \in F :
              MergeLaunchArgs(a, Append(e, x)) = Plus(MergeLaunchArgs(a, e), x)
<1>1. MergeLaunchArgs(a, <<>>) = a
  <2>1. <<>> \in Seq(F) /\ Len(<<>>) = 0  OBVIOUS
  <2>2. PICK r : MergesBy(r, a, <<>>)
    BY <2>1, MergeSteps
  <2> QED  BY <2>1, <2>2 DEF MergesBy
<1>2. ASSUME NEW e \in Seq(F) PROVE MergeLaunchArgs(a, e) \in Seq(F)
  <2>1. PICK r \in [0 .. Len(e) -> Seq(F)] : MergesBy(r, a, e)
    BY MergeSteps
  <2> QED  BY <2>1 DEF MergesBy
<1>3. ASSUME NEW e \in Seq(F), NEW x \in F
      PROVE  MergeLaunchArgs(a, Append(e, x)) = Plus(MergeLaunchArgs(a, e), x)
  <2> DEFINE l == Len(e)
             t == Append(e, x)
  <2>1. /\ l \in Nat /\ t \in Seq(F) /\ Len(t) = l + 1 /\ t[l + 1] = x
        /\ \A n \in 1 .. l : t[n] = e[n]
    OBVIOUS
  <2>2. PICK r : MergesBy(r, a, e)
    BY MergeSteps
  <2> HIDE DEF t
  <2>3. PICK q : MergesBy(q, a, t)
    BY <2>1, MergeSteps
  <2>4. r[l] = q[l]
    <3>1. ASSUME NEW n \in 1 .. l, r[n-1] = q[n-1] PROVE r[n] = q[n]
      <4>1. n \in 1 .. Len(t)  BY <2>1
      <4> QED  BY <2>1, <2>2, <2>3, <3>1, <4>1 DEF MergesBy
    <3>2. l \in Nat /\ r[0] = q[0]  BY <2>1, <2>2, <2>3 DEF MergesBy
    <3> HIDE DEF l
    <3> QED  BY <3>1, <3>2, Agreement
  <2>5. q[l + 1] = Plus(q[l], x)
    <3>1. l + 1 \in 1 .. Len(t) /\ (l + 1) - 1 = l  BY <2>1
    <3> QED  BY <2>1, <2>3, <3>1 DEF MergesBy
  <2> QED  BY <2>1, <2>2, <2>3, <2>4, <2>5 DEF MergesBy, t
<1> QED  BY <1>1, <1>2, <1>3

\* Two merges are one.  (launch_args and build_args against the adapters' launch())
LEMMA MergeTwice ==
  ASSUME NEW F, NEW a \in Seq(F), NEW e \in Seq(F)
  PROVE  \A f \in Seq(F) :
           MergeLaunchArgs(MergeLaunchArgs(a, e), f) = MergeLaunchArgs(a, e \o f)
<1> DEFINE m == MergeLaunchArgs(a, e)
           S == {f \in Seq(F) : MergeLaunchArgs(m, f) = MergeLaunchArgs(a, e \o f)}
<1>1. m \in Seq(F)  BY MergeEquations
<1> HIDE DEF m
<1>2. <<>> \in S
  <2>1. <<>> \in Seq(F) /\ e \o <<>> = e  OBVIOUS
  <2>2. MergeLaunchArgs(m, <<>>) = m  BY <1>1, MergeEquations
  <2> QED  BY <2>1, <2>2 DEF m
<1>3. ASSUME NEW f \in Seq(F), NEW x \in F, f \in S PROVE Append(f, x) \in S
  <2>1. e \o f \in Seq(F) /\ e \o Append(f, x) = Append(e \o f, x) /\ Append(f, x) \in Seq(F)
    OBVIOUS
  <2>2. MergeLaunchArgs(m, Append(f, x)) = Plus(MergeLaunchArgs(m, f), x)
    BY <1>1, MergeEquations
  <2>3. MergeLaunchArgs(a, Append(e \o f, x)) = Plus(MergeLaunchArgs(a, e \o f), x)
    <3> DEFINE g == e \o f
    <3>1. g \in Seq(F)  BY <2>1
    <3> HIDE DEF g
    <3>2. MergeLaunchArgs(a, Append(g, x)) = Plus(MergeLaunchArgs(a, g), x)
      BY <3>1, MergeEquations
    <3> QED  BY <3>2 DEF g
  <2> QED  BY <1>3, <2>1, <2>2, <2>3
<1>4. Seq(F) \subseteq S
  <2> HIDE DEF S
  <2> QED  BY <1>2, <1>3, SeqSet
<1> QED  BY <1>4 DEF m

\* m is a with flags of e after it: a is unchanged, no switch is added twice or
\* beside one of a, and none of e is lost.
Merged(m, a, e) ==
  /\ Len(a) <= Len(m) /\ \A i \in 1 .. Len(a) : m[i] = a[i]
  /\ \A i \in Len(a) + 1 .. Len(m) : \E k \in 1 .. Len(e) : m[i] = e[k]
  /\ \A i \in Len(a) + 1 .. Len(m), j \in 1 .. Len(m) : m[i].switch = m[j].switch => i = j
  /\ Switches(m) = Switches(a) \cup Switches(e)

\* What merging means.
LEMMA MergeMeans ==
  ASSUME NEW F, NEW a \in Seq(F)
  PROVE  \A e \in Seq(F) : MergeLaunchArgs(a, e) \in Seq(F) /\ Merged(MergeLaunchArgs(a, e), a, e)
<1> DEFINE S == {e \in Seq(F) : Merged(MergeLaunchArgs(a, e), a, e)}
<1>1. <<>> \in S
  <2>1. Switches(<<>>) = {} /\ <<>> \in Seq(F)  BY DEF Switches
  <2>2. Merged(a, a, <<>>)  BY <2>1 DEF Merged
  <2> QED  BY <2>1, <2>2, MergeEquations
<1>2. ASSUME NEW e \in Seq(F), NEW x \in F, e \in S PROVE Append(e, x) \in S
  <2> DEFINE l == MergeLaunchArgs(a, e)
             t == Append(e, x)
             m == Plus(l, x)
  <2>1. l \in Seq(F) /\ Merged(l, a, e) /\ MergeLaunchArgs(a, t) = m
    BY <1>2, MergeEquations
  <2> HIDE DEF l
  <2>2. /\ t \in Seq(F) /\ Len(e) \in Nat /\ Len(t) = Len(e) + 1 /\ t[Len(e) + 1] = x
        /\ \A k \in 1 .. Len(e) : t[k] = e[k]
        /\ DOMAIN e = 1 .. Len(e) /\ DOMAIN t = 1 .. Len(t)
    OBVIOUS
  <2> HIDE DEF t
  <2>3. Switches(t) = Switches(e) \cup {x.switch}
    <3>1. DOMAIN t = DOMAIN e \cup {Len(e) + 1}  BY <2>2
    <3> QED  BY <2>2, <3>1 DEF Switches
  <2>4. CASE x.switch \in Switches(l)
    <3>1. m = l  BY <2>1, <2>4 DEF Plus
    <3>2. \A k \in 1 .. Len(e) : k \in 1 .. Len(t) /\ t[k] = e[k]  BY <2>2
    <3>3. Merged(m, a, t)  BY <2>1, <2>3, <2>4, <3>1, <3>2 DEF Merged
    <3> QED  BY <2>1, <2>2, <3>3 DEF t
  <2>5. CASE x.switch \notin Switches(l)
    <3>1. m = l \o <<x>>  BY <2>5 DEF Plus
    <3> HIDE DEF m
    <3>2. /\ m \in Seq(F) /\ Len(l) \in Nat /\ Len(m) = Len(l) + 1 /\ m[Len(l) + 1] = x
          /\ \A i \in 1 .. Len(l) : m[i] = l[i]
          /\ DOMAIN l = 1 .. Len(l) /\ DOMAIN m = 1 .. Len(m)
          /\ Len(a) \in Nat /\ Len(a) <= Len(l)
      BY <2>1, <3>1 DEF Merged
    <3>3. Len(a) <= Len(m) /\ \A i \in 1 .. Len(a) : m[i] = a[i]
      BY <2>1, <3>2 DEF Merged
    <3>4. ASSUME NEW i \in Len(a) + 1 .. Len(m) PROVE \E k \in 1 .. Len(t) : m[i] = t[k]
      <4>1. CASE i = Len(l) + 1
        <5>1. Len(e) + 1 \in 1 .. Len(t)  BY <2>2
        <5> QED  BY <2>2, <3>2, <4>1, <5>1
      <4>2. CASE i \in Len(a) + 1 .. Len(l)
        <5>1. PICK k \in 1 .. Len(e) : l[i] = e[k]  BY <2>1, <4>2 DEF Merged
        <5>2. k \in 1 .. Len(t) /\ i \in 1 .. Len(l)  BY <2>2, <3>2, <4>2
        <5> QED  BY <2>2, <3>2, <5>1, <5>2
      <4> QED  BY <3>2, <4>1, <4>2
    <3>5. ASSUME NEW i \in Len(a) + 1 .. Len(m), NEW j \in 1 .. Len(m), m[i].switch = m[j].switch
          PROVE  i = j
      <4>1. \A k \in 1 .. Len(l) : m[k].switch \in Switches(l)
        BY <3>2 DEF Switches
      <4>2. m[Len(l) + 1].switch \notin Switches(l)
        BY <2>5, <3>2
      <4>3. CASE i = Len(l) + 1  BY <3>2, <3>5, <4>1, <4>2, <4>3
      <4>4. CASE j = Len(l) + 1
        <5>1. i \in 1 .. Len(l) \/ i = Len(l) + 1  BY <3>2
        <5> QED  BY <3>5, <4>1, <4>2, <4>4, <5>1
      <4>5. CASE i \in Len(a) + 1 .. Len(l) /\ j \in 1 .. Len(l)
        <5>1. i \in 1 .. Len(l)  BY <3>2, <4>5
        <5> QED  BY <2>1, <3>2, <3>5, <4>5, <5>1 DEF Merged
      <4> QED  BY <3>2, <4>3, <4>4, <4>5
    <3>6. Switches(m) = Switches(a) \cup Switches(t)
      <4>1. DOMAIN m = DOMAIN l \cup {Len(l) + 1}  BY <3>2
      <4>2. Switches(m) = Switches(l) \cup {x.switch}  BY <3>2, <4>1 DEF Switches
      <4> QED  BY <2>1, <2>3, <4>2 DEF Merged
    <3> QED  BY <2>1, <2>2, <3>3, <3>4, <3>5, <3>6 DEF Merged, t
  <2> QED  BY <2>4, <2>5
<1>3. Seq(F) \subseteq S
  <2> HIDE DEF S
  <2> QED  BY <1>1, <1>2, SeqSet
<1> QED  BY <1>3, MergeEquations

-----------------------------------------------------------------------------
(* What the calls ask for. *)

\* The flags a caller can push.
OwnFlag == HandFlag \cup {PortFlag(p) : p \in Port}

\* r is the lines the calls go through.
PushesBy(r, cs) == /\ r[0] = <<>>
                   /\ \A n \in 1 .. Len(cs) : r[n] = r[n-1] \o PushedFlag(cs[n])
                   /\ PushedBy(cs) = r[Len(cs)]

\* A call of arg() or of the port pushes a flag.
LEMMA PushedFlags ==
  ASSUME NEW c \in CallRecord
  PROVE  PushedFlag(c) \in Seq(OwnFlag)
<1>1. /\ c.op = "arg" => c.arg \in OwnFlag
      /\ c.op = "remote_debugging_port" => PortFlag(c.arg) \in OwnFlag
  BY DEF CallRecord, OwnFlag
<1>2. CASE c.op = "arg"  BY <1>1, <1>2 DEF PushedFlag
<1>3. CASE c.op = "remote_debugging_port"
  <2>1. PushedFlag(c) = <<PortFlag(c.arg)>>  BY <1>3 DEF PushedFlag
  <2> QED  BY <1>1, <1>3, <2>1
<1>4. CASE c.op \notin {"arg", "remote_debugging_port"}  BY <1>4 DEF PushedFlag
<1> QED  BY <1>2, <1>3, <1>4

\* The flags pushed, call by call.
LEMMA PushSteps ==
  ASSUME NEW cs \in Seq(CallRecord)
  PROVE  \E r \in [0 .. Len(cs) -> Seq(OwnFlag)] : PushesBy(r, cs)
<1> DEFINE Eqn(r) == r = [n \in 0 .. Len(cs) |->
                            IF n = 0 THEN <<>> ELSE r[n-1] \o PushedFlag(cs[n])]
           pushed == CHOOSE r : Eqn(r)
           f == [p \in Seq(OwnFlag) \X CallRecord |-> p[1] \o PushedFlag(p[2])]
<1>1. PushedBy(cs) = pushed[Len(cs)]
  BY DEF PushedBy
<1>2. f \in [Seq(OwnFlag) \X CallRecord -> Seq(OwnFlag)]
  <2>1. ASSUME NEW m \in Seq(OwnFlag), NEW c \in CallRecord PROVE m \o PushedFlag(c) \in Seq(OwnFlag)
    <3>1. PushedFlag(c) \in Seq(OwnFlag)  BY PushedFlags
    <3> QED  BY <3>1
  <2> QED  BY <2>1
<1>3. PICK r \in [0 .. Len(cs) -> Seq(OwnFlag)] :
        r[0] = <<>> /\ \A n \in 1 .. Len(cs) : r[n] = f[<<r[n-1], cs[n]>>]
  <2> HIDE DEF f
  <2>1. <<>> \in Seq(OwnFlag)  OBVIOUS
  <2>2. PICK r : Solves(r, Seq(OwnFlag), <<>>, f, cs)  BY <1>2, <2>1, Recursion
  <2> QED  BY <2>2 DEF Solves
<1>4. \A n \in 1 .. Len(cs) : r[n] = r[n-1] \o PushedFlag(cs[n])
  <2>1. ASSUME NEW n \in 1 .. Len(cs) PROVE r[n-1] \in Seq(OwnFlag) /\ cs[n] \in CallRecord
    <3>1. n - 1 \in 0 .. Len(cs)  OBVIOUS
    <3> QED  BY <3>1
  <2> QED  BY <1>3, <2>1
<1>5. Eqn(r)
  <2>1. r = [n \in 0 .. Len(cs) |-> r[n]]  OBVIOUS
  <2>2. ASSUME NEW n \in 0 .. Len(cs), n # 0
        PROVE  r[n] = r[n-1] \o PushedFlag(cs[n])
    <3>1. n \in 1 .. Len(cs)  BY <2>2
    <3> QED  BY <1>4, <3>1
  <2> QED  BY <1>3, <2>1, <2>2
<1> HIDE DEF Eqn
<1>6. Eqn(pushed)  BY <1>5
<1> HIDE DEF pushed
<1>7. /\ pushed[0] = <<>>
      /\ \A n \in 1 .. Len(cs) : pushed[n] = pushed[n-1] \o PushedFlag(cs[n])
  <2>1. \A n \in 1 .. Len(cs) : n \in 0 .. Len(cs) /\ n # 0  OBVIOUS
  <2>2. 0 \in 0 .. Len(cs)  OBVIOUS
  <2> QED  BY <1>6, <2>1, <2>2 DEF Eqn
<1>8. pushed[Len(cs)] = r[Len(cs)]
  <2>1. ASSUME NEW n \in 1 .. Len(cs), pushed[n-1] = r[n-1] PROVE pushed[n] = r[n]
    BY <1>4, <1>7, <2>1
  <2>2. Len(cs) \in Nat /\ pushed[0] = r[0]  BY <1>3, <1>7
  <2> QED  BY <2>1, <2>2, Agreement
<1> QED  BY <1>1, <1>3, <1>4, <1>8 DEF PushesBy

\* One more call pushes one more flag, or none.
LEMMA PushEquations ==
  /\ PushedBy(<<>>) = <<>>
  /\ \A cs \in Seq(CallRecord) : PushedBy(cs) \in Seq(OwnFlag)
  /\ \A cs \in Seq(CallRecord), c \in CallRecord :
       PushedBy(Append(cs, c)) = PushedBy(cs) \o PushedFlag(c)
<1>1. PushedBy(<<>>) = <<>>
  <2>1. <<>> \in Seq(CallRecord) /\ Len(<<>>) = 0  OBVIOUS
  <2>2. PICK r : PushesBy(r, <<>>)  BY <2>1, PushSteps
  <2> QED  BY <2>1, <2>2 DEF PushesBy
<1>2. ASSUME NEW cs \in Seq(CallRecord) PROVE PushedBy(cs) \in Seq(OwnFlag)
  <2>1. PICK r \in [0 .. Len(cs) -> Seq(OwnFlag)] : PushesBy(r, cs)  BY PushSteps
  <2> QED  BY <2>1 DEF PushesBy
<1>3. ASSUME NEW cs \in Seq(CallRecord), NEW c \in CallRecord
      PROVE  PushedBy(Append(cs, c)) = PushedBy(cs) \o PushedFlag(c)
  <2> DEFINE l == Len(cs)
             t == Append(cs, c)
  <2>1. /\ l \in Nat /\ t \in Seq(CallRecord) /\ Len(t) = l + 1 /\ t[l + 1] = c
        /\ \A n \in 1 .. l : t[n] = cs[n]
    OBVIOUS
  <2>2. PICK r : PushesBy(r, cs)  BY PushSteps
  <2> HIDE DEF t
  <2>3. PICK q : PushesBy(q, t)  BY <2>1, PushSteps
  <2>4. r[l] = q[l]
    <3>1. ASSUME NEW n \in 1 .. l, r[n-1] = q[n-1] PROVE r[n] = q[n]
      <4>1. n \in 1 .. Len(t)  BY <2>1
      <4> QED  BY <2>1, <2>2, <2>3, <3>1, <4>1 DEF PushesBy
    <3>2. l \in Nat /\ r[0] = q[0]  BY <2>1, <2>2, <2>3 DEF PushesBy
    <3> HIDE DEF l
    <3> QED  BY <3>1, <3>2, Agreement
  <2>5. q[l + 1] = q[l] \o PushedFlag(c)
    <3>1. l + 1 \in 1 .. Len(t) /\ (l + 1) - 1 = l  BY <2>1
    <3> QED  BY <2>1, <2>3, <3>1 DEF PushesBy
  <2> QED  BY <2>1, <2>2, <2>3, <2>4, <2>5 DEF PushesBy, t
<1> QED  BY <1>1, <1>2, <1>3

\* A bounded set of naturals has a greatest element.
LEMMA MaxExists ==
  ASSUME NEW n \in Nat, NEW S \in SUBSET (0 .. n), S # {}
  PROVE  Max(S) \in S /\ \A y \in S : y <= Max(S)
<1> DEFINE U == {k \in Nat : \A y \in S : y <= k}
<1>1. n \in U  OBVIOUS
<1>2. PICK u \in U : \A k \in U : u <= k
  <2>1. U \in SUBSET Nat /\ U # {}  BY <1>1
  <2> HIDE DEF U
  <2> QED  BY <2>1, Least
<1>3. u \in S
  <2> SUFFICES ASSUME u \notin S PROVE FALSE
    OBVIOUS
  <2>1. \A y \in S : y \in Nat /\ y < u  BY <1>2
  <2>2. PICK y \in S : TRUE  OBVIOUS
  <2>3. u \in Nat /\ u > 0  BY <1>2, <2>1, <2>2
  <2>4. \A z \in S : z <= u - 1  BY <2>1, <2>3
  <2>5. u - 1 \in U  BY <2>3, <2>4
  <2> QED  BY <1>2, <2>3, <2>5
<1>4. S \in SUBSET Int /\ \A y \in S : y <= u  BY <1>2
<1>5. Max(S) = u
  <2> HIDE DEF U
  <2> QED  BY <1>3, <1>4, MaxIs
<1> QED  BY <1>3, <1>4, <1>5

\* What LastCall says.
LEMMA LastCallIs ==
  ASSUME calls \in Seq(CallRecord), NEW ops
  PROVE  /\ LastCall(ops) \in 0 .. Len(calls)
         /\ LastCall(ops) > 0 => calls[LastCall(ops)].op \in ops
         /\ \A j \in 1 .. Len(calls) : calls[j].op \in ops => j <= LastCall(ops)
<1> DEFINE S == {0} \cup {i \in DOMAIN calls : calls[i].op \in ops}
<1>1. Len(calls) \in Nat /\ DOMAIN calls = 1 .. Len(calls)  OBVIOUS
<1>2. S \in SUBSET (0 .. Len(calls)) /\ S # {}  BY <1>1
<1>3. LastCall(ops) = Max(S)  BY DEF LastCall
<1>4. Max(S) \in S /\ \A y \in S : y <= Max(S)
  <2> HIDE DEF S
  <2> QED  BY <1>1, <1>2, MaxExists
<1> QED  BY <1>1, <1>2, <1>3, <1>4

\* One more call is the last of its kind, and of no other.
LEMMA LastCallNext ==
  ASSUME calls \in Seq(CallRecord), NEW c \in CallRecord, calls' = Append(calls, c), NEW ops
  PROVE  LastCall(ops)' = IF c.op \in ops THEN Len(calls) + 1 ELSE LastCall(ops)
<1> DEFINE S == {0} \cup {i \in DOMAIN calls : calls[i].op \in ops}
           T == {0} \cup {i \in DOMAIN calls' : calls'[i].op \in ops}
<1>1. /\ calls' \in Seq(CallRecord)
      /\ Len(calls) \in Nat /\ Len(calls') = Len(calls) + 1
      /\ calls'[Len(calls')] = c
      /\ \A i \in 1 .. Len(calls) : calls'[i] = calls[i]
  BY OneMoreCall
<1>2. DOMAIN calls = 1 .. Len(calls) /\ DOMAIN calls' = DOMAIN calls \cup {Len(calls) + 1}
  BY <1>1
<1>3. LastCall(ops) = Max(S) /\ LastCall(ops)' = Max(T)  BY DEF LastCall
<1>4. CASE c.op \in ops
  <2>1. /\ T \in SUBSET Int /\ Len(calls) + 1 \in T
        /\ \A y \in T : y <= Len(calls) + 1
    BY <1>1, <1>2, <1>4
  <2>2. Max(T) = Len(calls) + 1
    <3> HIDE DEF T
    <3> QED  BY <2>1, MaxIs
  <2> QED  BY <1>3, <1>4, <2>2
<1>5. CASE c.op \notin ops
  <2>1. T = S  BY <1>1, <1>2, <1>5
  <2> QED  BY <1>3, <1>5, <2>1
<1> QED  BY <1>4, <1>5

\* An operation is asked for once it was called.
LEMMA AskedNext ==
  ASSUME calls \in Seq(CallRecord), NEW c \in CallRecord, calls' = Append(calls, c), NEW op
  PROVE  Asked(op)' <=> Asked(op) \/ c.op = op
<1>1. /\ Len(calls) \in Nat /\ Len(calls') = Len(calls) + 1
      /\ calls'[Len(calls')] = c
      /\ \A i \in 1 .. Len(calls) : calls'[i] = calls[i]
      /\ calls' \in Seq(CallRecord)
  BY OneMoreCall
<1>2. /\ DOMAIN calls = 1 .. Len(calls) /\ DOMAIN calls' = DOMAIN calls \cup {Len(calls) + 1}
  BY <1>1
<1> QED  BY <1>1, <1>2 DEF Asked

\* The argument of the last call of an operation.
LastArg(op) == calls[LastCall({op})].arg

\* What it is called with counts until the next call of it.
LEMMA LastArgNext ==
  ASSUME calls \in Seq(CallRecord), NEW c \in CallRecord, calls' = Append(calls, c), NEW op
  PROVE  /\ Asked(op)' <=> Asked(op) \/ c.op = op
         /\ c.op = op => LastArg(op)' = c.arg
         /\ c.op # op /\ Asked(op) => LastArg(op)' = LastArg(op)
<1>1. /\ Len(calls) \in Nat /\ Len(calls') = Len(calls) + 1
      /\ calls'[Len(calls')] = c
      /\ \A i \in 1 .. Len(calls) : calls'[i] = calls[i]
  BY OneMoreCall
<1>2. LastCall({op})' = IF c.op = op THEN Len(calls) + 1 ELSE LastCall({op})
  BY LastCallNext
<1>3. Asked(op)' <=> Asked(op) \/ c.op = op
  BY AskedNext
<1>4. Asked(op) => LastCall({op}) \in 1 .. Len(calls)
  BY LastCallIs DEF Asked
<1> QED  BY <1>1, <1>2, <1>3, <1>4 DEF LastArg

\* What the calls ask for, and what the builder has.
OptionsOK == /\ launcher.args = Pushed
             /\ launcher.captcha \in BOOLEAN
             /\ launcher.captcha <=> Asked("captcha") /\ LastArg("captcha")
             /\ launcher.captcha_model_path =
                  IF Asked("captcha_model_path") THEN LastArg("captcha_model_path") ELSE Unset
             /\ launcher.page_settle = IF AskedSettle THEN <<AskedTuning>> ELSE <<>>
             /\ ~AskedSettle => AskedTuning = Untuned

\* Settling is asked for by the last of the two calls about it.
LEMMA AskedSettleNext ==
  ASSUME calls \in Seq(CallRecord), NEW c \in CallRecord, calls' = Append(calls, c)
  PROVE  AskedSettle' <=> CASE c.op = "page_settle" -> c.arg
                            [] c.op = "page_settle_tuning" -> TRUE
                            [] OTHER -> AskedSettle
<1> DEFINE ops == {"page_settle", "page_settle_tuning"}
           l == LastCall(ops)
<1>1. /\ Len(calls) \in Nat /\ Len(calls') = Len(calls) + 1
      /\ calls'[Len(calls')] = c
      /\ \A i \in 1 .. Len(calls) : calls'[i] = calls[i]
  BY OneMoreCall
<1>2. LastCall(ops)' = IF c.op \in ops THEN Len(calls) + 1 ELSE l
  BY LastCallNext
<1>3. l \in 0 .. Len(calls)  BY LastCallIs
<1>4. AskedSettle <=> l > 0 /\ (calls[l].op = "page_settle" => calls[l].arg)
  BY DEF AskedSettle
<1>5. AskedSettle' <=> LastCall(ops)' > 0
                       /\ (calls'[LastCall(ops)'].op = "page_settle" => calls'[LastCall(ops)'].arg)
  BY DEF AskedSettle
<1> HIDE DEF l
<1>6. CASE c.op = "page_settle"
  <2>1. LastCall(ops)' = Len(calls')  BY <1>1, <1>2, <1>6
  <2>2. AskedSettle' <=> c.arg  BY <1>1, <1>5, <1>6, <2>1
  <2> QED  BY <1>6, <2>2
<1>7. CASE c.op = "page_settle_tuning"
  <2>1. LastCall(ops)' = Len(calls')  BY <1>1, <1>2, <1>7
  <2>2. AskedSettle'  BY <1>1, <1>5, <1>7, <2>1
  <2> QED  BY <1>7, <2>2
<1>8. CASE c.op \notin ops
  <2>1. LastCall(ops)' = l  BY <1>2, <1>8
  <2>2. l > 0 => calls'[l] = calls[l]  BY <1>1, <1>3
  <2>3. AskedSettle' <=> AskedSettle  BY <1>4, <1>5, <2>1, <2>2
  <2> QED  BY <1>8, <2>3
<1> QED  BY <1>6, <1>7, <1>8

\* There is a page_settle(FALSE) after the i-th call.
OffAfter(i) == \E j \in i + 1 .. Len(calls) : calls[j].op = "page_settle" /\ ~calls[j].arg

\* Its tuning is the last one, unless it was turned off after that.
LEMMA AskedTuningNext ==
  ASSUME calls \in Seq(CallRecord), NEW c \in CallRecord, calls' = Append(calls, c)
  PROVE  AskedTuning' = CASE c.op = "page_settle_tuning" -> c.arg
                          [] c.op = "page_settle" /\ ~c.arg -> Untuned
                          [] OTHER -> AskedTuning
<1> DEFINE ops == {"page_settle_tuning"}
           t == LastCall(ops)
<1>1. /\ Len(calls) \in Nat /\ Len(calls') = Len(calls) + 1
      /\ calls'[Len(calls) + 1] = c
      /\ \A i \in 1 .. Len(calls) : calls'[i] = calls[i]
  BY OneMoreCall
<1>2. LastCall(ops)' = IF c.op \in ops THEN Len(calls) + 1 ELSE t
  BY LastCallNext
<1>3. t \in 0 .. Len(calls)  BY LastCallIs
<1>4. AskedTuning = IF t = 0 \/ OffAfter(t) THEN Untuned ELSE calls[t].arg
  BY DEF AskedTuning, OffAfter
<1> DEFINE u == LastCall(ops)'
<1>5. AskedTuning' = IF u = 0 \/ \E j \in u + 1 .. Len(calls') : calls'[j].op = "page_settle" /\ ~calls'[j].arg
                     THEN Untuned ELSE calls'[u].arg
  BY DEF AskedTuning
<1> HIDE DEF t, u
<1>6. CASE c.op = "page_settle_tuning"
  <2>1. u = Len(calls) + 1  BY <1>2, <1>6 DEF u
  <2>2. AskedTuning' = c.arg  BY <1>1, <1>5, <2>1
  <2> QED  BY <1>6, <2>2
<1>7. CASE c.op # "page_settle_tuning"
  <2>1. u = t  BY <1>2, <1>7 DEF u
  <2>2. (\E j \in t + 1 .. Len(calls') : calls'[j].op = "page_settle" /\ ~calls'[j].arg)
        <=> OffAfter(t) \/ (c.op = "page_settle" /\ ~c.arg)
    <3>1. t + 1 .. Len(calls') = (t + 1 .. Len(calls)) \cup {Len(calls) + 1}  BY <1>1, <1>3
    <3>2. \A j \in t + 1 .. Len(calls) : calls'[j] = calls[j]  BY <1>1, <1>3
    <3> QED  BY <1>1, <3>1, <3>2 DEF OffAfter
  <2>3. AskedTuning' = IF t = 0 \/ OffAfter(t) \/ (c.op = "page_settle" /\ ~c.arg)
                       THEN Untuned ELSE calls'[t].arg
    BY <1>5, <2>1, <2>2
  <2>4. t # 0 => calls'[t] = calls[t]  BY <1>1, <1>3
  <2> QED  BY <1>4, <1>7, <2>3, <2>4
<1> QED  BY <1>6, <1>7

\* The builder does what the call asks for.
LEMMA OptionsNext ==
  ASSUME calls \in Seq(CallRecord), OptionsOK, NEW c \in CallRecord, calls' = Append(calls, c),
         launcher'.args = launcher.args \o PushedFlag(c),
         launcher'.captcha = IF c.op = "captcha" THEN c.arg ELSE launcher.captcha,
         launcher'.captcha_model_path = IF c.op = "captcha_model_path" THEN c.arg
                                        ELSE launcher.captcha_model_path,
         launcher'.page_settle = CASE c.op = "page_settle_tuning" -> <<c.arg>>
                                   [] c.op = "page_settle" /\ ~c.arg -> <<>>
                                   [] c.op = "page_settle" /\ c.arg /\ launcher.page_settle = <<>> -> <<Untuned>>
                                   [] OTHER -> launcher.page_settle
  PROVE  OptionsOK'
<1>1. launcher'.args = Pushed'
  BY PushEquations DEF OptionsOK, Pushed
<1>2. c.op \in {"captcha", "page_settle"} => c.arg \in BOOLEAN
  BY DEF CallRecord
<1>3. launcher'.captcha \in BOOLEAN /\ (launcher'.captcha <=> (Asked("captcha") /\ LastArg("captcha"))')
  <2>1. /\ Asked("captcha")' <=> Asked("captcha") \/ c.op = "captcha"
        /\ c.op = "captcha" => LastArg("captcha")' = c.arg
        /\ c.op # "captcha" /\ Asked("captcha") => LastArg("captcha")' = LastArg("captcha")
    BY LastArgNext
  <2> QED  BY <1>2, <2>1 DEF OptionsOK
<1>4. launcher'.captcha_model_path =
        (IF Asked("captcha_model_path") THEN LastArg("captcha_model_path") ELSE Unset)'
  <2> DEFINE op == "captcha_model_path"
  <2>1. /\ Asked(op)' <=> Asked(op) \/ c.op = op
        /\ c.op = op => LastArg(op)' = c.arg
        /\ c.op # op /\ Asked(op) => LastArg(op)' = LastArg(op)
    BY LastArgNext
  <2> QED  BY <2>1 DEF OptionsOK
<1>5. /\ launcher.page_settle = IF AskedSettle THEN <<AskedTuning>> ELSE <<>>
      /\ ~AskedSettle => AskedTuning = Untuned
  BY DEF OptionsOK
<1>6. AskedSettle' <=> CASE c.op = "page_settle" -> c.arg
                         [] c.op = "page_settle_tuning" -> TRUE
                         [] OTHER -> AskedSettle
  BY AskedSettleNext
<1>7. AskedTuning' = CASE c.op = "page_settle_tuning" -> c.arg
                       [] c.op = "page_settle" /\ ~c.arg -> Untuned
                       [] OTHER -> AskedTuning
  BY AskedTuningNext
<1>8. /\ launcher'.page_settle = IF AskedSettle' THEN <<AskedTuning'>> ELSE <<>>
      /\ ~AskedSettle' => AskedTuning' = Untuned
  <2>1. CASE c.op = "page_settle" /\ c.arg
    <3>1. AskedSettle' /\ AskedTuning' = AskedTuning  BY <1>6, <1>7, <2>1
    <3>2. CASE AskedSettle
      <4>1. launcher.page_settle = <<AskedTuning>> /\ <<AskedTuning>> # <<>>  BY <1>5, <3>2
      <4>2. launcher'.page_settle = launcher.page_settle  BY <2>1, <4>1
      <4> QED  BY <3>1, <4>1, <4>2
    <3>3. CASE ~AskedSettle
      <4>1. launcher.page_settle = <<>> /\ AskedTuning = Untuned  BY <1>5, <3>3
      <4>2. launcher'.page_settle = <<Untuned>>  BY <2>1, <4>1
      <4> QED  BY <3>1, <4>1, <4>2
    <3> QED  BY <3>2, <3>3
  <2>2. CASE c.op = "page_settle" /\ ~c.arg
    <3>1. ~AskedSettle' /\ AskedTuning' = Untuned  BY <1>6, <1>7, <2>2
    <3>2. launcher'.page_settle = <<>>  BY <2>2
    <3> QED  BY <3>1, <3>2
  <2>3. CASE c.op = "page_settle_tuning"
    <3>1. AskedSettle' /\ AskedTuning' = c.arg  BY <1>6, <1>7, <2>3
    <3>2. launcher'.page_settle = <<c.arg>>  BY <2>3
    <3> QED  BY <3>1, <3>2
  <2>4. CASE c.op \notin {"page_settle", "page_settle_tuning"}
    <3>1. (AskedSettle' <=> AskedSettle) /\ AskedTuning' = AskedTuning  BY <1>6, <1>7, <2>4
    <3>2. launcher'.page_settle = launcher.page_settle  BY <2>4
    <3> QED  BY <1>5, <3>1, <3>2
  <2> QED  BY <1>2, <2>1, <2>2, <2>3, <2>4
<1> QED  BY <1>1, <1>3, <1>4, <1>8 DEF OptionsOK

\* A fresh builder asks for nothing.
LEMMA InitOptions == Init => OptionsOK
<1> SUFFICES ASSUME Init PROVE OptionsOK
  OBVIOUS
<1>1. calls = <<>> /\ calls \in Seq(CallRecord) /\ Len(calls) = 0 /\ DOMAIN calls = {}
  BY DEF Init
<1>2. /\ launcher.args = <<>> /\ launcher.captcha = FALSE
      /\ launcher.captcha_model_path = Unset /\ launcher.page_settle = <<>>
  BY DEF Init, NewLauncher
<1>3. \A op : ~Asked(op)  BY <1>1 DEF Asked
<1>4. \A ops : LastCall(ops) = 0  BY <1>1, LastCallIs
<1>5. ~AskedSettle  BY <1>4 DEF AskedSettle
<1>6. AskedTuning = Untuned  BY <1>4 DEF AskedTuning
<1>7. Pushed = <<>>  BY <1>1, PushEquations DEF Pushed
<1> QED  BY <1>2, <1>3, <1>5, <1>6, <1>7 DEF OptionsOK

\* Each method of the builder does to the options what its call asks for.
LEMMA BuildOptions == IInv /\ OptionsOK /\ Build => OptionsOK'
<1> SUFFICES ASSUME IInv, OptionsOK, Build PROVE OptionsOK'
  OBVIOUS
<1> USE DEF Call
<1>0. BuilderOK /\ calls \in Seq(CallRecord) /\ launcher.args \in Seq(OwnFlag)
  BY PushEquations DEF IInv, CallsOK, OptionsOK, Pushed
<1>1. ASSUME NEW flag \in HandFlag, Arg(flag) PROVE OptionsOK'
  <2> DEFINE c == [op |-> "arg", arg |-> flag]
  <2>1. c \in CallRecord  BY DEF CallRecord
  <2>2. PushedFlag(c) = <<flag>> /\ flag \in OwnFlag  BY DEF PushedFlag, OwnFlag
  <2>3. Append(launcher.args, flag) = launcher.args \o <<flag>>
    BY <1>0, <2>2, AppendIsConcat
  <2>4. /\ calls' = Append(calls, c)
        /\ launcher'.args = Append(launcher.args, flag)
        /\ launcher'.captcha = launcher.captcha
        /\ launcher'.captcha_model_path = launcher.captcha_model_path
        /\ launcher'.page_settle = launcher.page_settle
    BY <1>0, <1>1 DEF Arg, BuilderOK, Options
  <2> QED  BY <1>0, <2>1, <2>2, <2>3, <2>4, OptionsNext
<1>2. ASSUME NEW p \in Port, RemoteDebuggingPort(p) PROVE OptionsOK'
  <2> DEFINE c == [op |-> "remote_debugging_port", arg |-> p]
  <2>1. c \in CallRecord  BY DEF CallRecord
  <2>2. PushedFlag(c) = <<PortFlag(p)>> /\ PortFlag(p) \in OwnFlag  BY DEF PushedFlag, OwnFlag
  <2>3. Append(launcher.args, PortFlag(p)) = launcher.args \o <<PortFlag(p)>>
    BY <1>0, <2>2, AppendIsConcat
  <2>4. /\ calls' = Append(calls, c)
        /\ launcher'.args = Append(launcher.args, PortFlag(p))
        /\ launcher'.captcha = launcher.captcha
        /\ launcher'.captcha_model_path = launcher.captcha_model_path
        /\ launcher'.page_settle = launcher.page_settle
    BY <1>0, <1>2 DEF RemoteDebuggingPort, BuilderOK, Options
  <2> QED  BY <1>0, <2>1, <2>2, <2>3, <2>4, OptionsNext
<1>3. ASSUME NEW on \in BOOLEAN, Captcha(on) PROVE OptionsOK'
  <2> DEFINE c == [op |-> "captcha", arg |-> on]
  <2>1. c \in CallRecord  BY DEF CallRecord
  <2>2. PushedFlag(c) = <<>>  BY DEF PushedFlag
  <2>3. /\ calls' = Append(calls, c)
        /\ launcher'.args = launcher.args \o PushedFlag(c)
        /\ launcher'.captcha = on
        /\ launcher'.captcha_model_path = launcher.captcha_model_path
        /\ launcher'.page_settle = launcher.page_settle
    BY <1>0, <1>3, <2>2 DEF Captcha, BuilderOK, Options
  <2> QED  BY <1>0, <2>1, <2>3, OptionsNext
<1>4. ASSUME NEW on \in BOOLEAN, PageSettle(on) PROVE OptionsOK'
  <2> DEFINE c == [op |-> "page_settle", arg |-> on]
  <2>1. c \in CallRecord  BY DEF CallRecord
  <2>2. PushedFlag(c) = <<>>  BY DEF PushedFlag
  <2>3. /\ calls' = Append(calls, c)
        /\ launcher'.args = launcher.args \o PushedFlag(c)
        /\ launcher'.captcha = launcher.captcha
        /\ launcher'.captcha_model_path = launcher.captcha_model_path
        /\ launcher'.page_settle = IF ~on THEN <<>> ELSE IF launcher.page_settle = <<>> THEN <<Untuned>> ELSE launcher.page_settle
    BY <1>0, <1>4, <2>2 DEF PageSettle, BuilderOK, Options
  <2> QED  BY <1>0, <2>1, <2>3, OptionsNext
<1>5. ASSUME NEW m \in Model, CaptchaModelPath(m) PROVE OptionsOK'
  <2> DEFINE c == [op |-> "captcha_model_path", arg |-> m]
  <2>1. c \in CallRecord  BY DEF CallRecord
  <2>2. PushedFlag(c) = <<>>  BY DEF PushedFlag
  <2>3. /\ calls' = Append(calls, c)
        /\ launcher'.args = launcher.args \o PushedFlag(c)
        /\ launcher'.captcha = launcher.captcha
        /\ launcher'.captcha_model_path = m
        /\ launcher'.page_settle = launcher.page_settle
    BY <1>0, <1>5, <2>2 DEF CaptchaModelPath, BuilderOK, Options
  <2> QED  BY <1>0, <2>1, <2>3, OptionsNext
<1>6. ASSUME NEW t \in Tuning, PageSettleTuning(t) PROVE OptionsOK'
  <2> DEFINE c == [op |-> "page_settle_tuning", arg |-> t]
  <2>1. c \in CallRecord  BY DEF CallRecord
  <2>2. PushedFlag(c) = <<>>  BY DEF PushedFlag
  <2>3. /\ calls' = Append(calls, c)
        /\ launcher'.args = launcher.args \o PushedFlag(c)
        /\ launcher'.captcha = launcher.captcha
        /\ launcher'.captcha_model_path = launcher.captcha_model_path
        /\ launcher'.page_settle = <<t>>
    BY <1>0, <1>6, <2>2 DEF PageSettleTuning, BuilderOK, Options
  <2> QED  BY <1>0, <2>1, <2>3, OptionsNext
<1>7. ASSUME NEW a \in Assignment, Env(a) PROVE OptionsOK'
  <2> DEFINE c == [op |-> "env", arg |-> a]
  <2>1. c \in CallRecord  BY DEF CallRecord
  <2>2. PushedFlag(c) = <<>>  BY DEF PushedFlag
  <2>3. /\ calls' = Append(calls, c)
        /\ launcher'.args = launcher.args \o PushedFlag(c)
        /\ launcher'.captcha = launcher.captcha
        /\ launcher'.captcha_model_path = launcher.captcha_model_path
        /\ launcher'.page_settle = launcher.page_settle
    BY <1>0, <1>7, <2>2 DEF Env, BuilderOK, Options
  <2> QED  BY <1>0, <2>1, <2>3, OptionsNext
<1>8. ASSUME ClearEnv PROVE OptionsOK'
  <2> DEFINE c == [op |-> "clear_env", arg |-> Unset]
  <2>1. c \in CallRecord  BY DEF CallRecord
  <2>2. PushedFlag(c) = <<>>  BY DEF PushedFlag
  <2>3. /\ calls' = Append(calls, c)
        /\ launcher'.args = launcher.args \o PushedFlag(c)
        /\ launcher'.captcha = launcher.captcha
        /\ launcher'.captcha_model_path = launcher.captcha_model_path
        /\ launcher'.page_settle = launcher.page_settle
    BY <1>0, <1>8, <2>2 DEF ClearEnv, BuilderOK, Options
  <2> QED  BY <1>0, <2>1, <2>3, OptionsNext
<1> QED  BY <1>1, <1>2, <1>3, <1>4, <1>5, <1>6, <1>7, <1>8 DEF Build

\* No launch touches them.
LEMMA OptionsKept == OptionsOK /\ UNCHANGED building => OptionsOK'
BY DEF OptionsOK, building, Pushed, Asked, LastArg, LastCall, AskedSettle, AskedTuning

\* So every step keeps to what was asked for.
LEMMA NextOptions == IInv /\ OptionsOK /\ [Next]_vars => OptionsOK'
<1> SUFFICES ASSUME IInv, OptionsOK, [Next]_vars PROVE OptionsOK'
  OBVIOUS
<1>1. CASE Build  BY <1>1, BuildOptions
<1>2. CASE ~Build
  <2>1. UNCHANGED building
    BY <1>2 DEF Next, NoPort, SpawnFails, Spawn, LaunchStep, Poll, TimesOut, Wake, Kill, Reap,
                Piece, Answer, Listen, Dies, StrangerLeaves, Tick, vars
  <2> QED  BY <2>1, OptionsKept
<1> QED  BY <1>1, <1>2

-----------------------------------------------------------------------------
(* How the browser reads a line. *)

\* No switch twice.
Distinct(e) == \A i, j \in 1 .. Len(e) : e[i].switch = e[j].switch => i = j

\* A switch that is not on the line has no value; one that is there has the
\* value at its last place.
LEMMA EffectiveIs ==
  ASSUME NEW F, NEW e \in Seq(F), NEW s
  PROVE  /\ s \notin Switches(e) => Effective(e, s) = Unset
         /\ s \in Switches(e) =>
              \E i \in 1 .. Len(e) :
                /\ e[i].switch = s /\ Effective(e, s) = e[i].value
                /\ \A j \in 1 .. Len(e) : e[j].switch = s => j <= i
<1> DEFINE at == {i \in DOMAIN e : e[i].switch = s}
<1>1. Len(e) \in Nat /\ DOMAIN e = 1 .. Len(e)  OBVIOUS
<1>2. Effective(e, s) = IF at = {} THEN Unset ELSE e[Max(at)].value
  BY DEF Effective
<1>3. s \in Switches(e) <=> at # {}  BY DEF Switches
<1>4. ASSUME at # {} PROVE Max(at) \in at /\ \A j \in at : j <= Max(at)
  <2>1. at \in SUBSET (0 .. Len(e))  BY <1>1
  <2> HIDE DEF at
  <2> QED  BY <1>1, <1>4, <2>1, MaxExists
<1>5. ASSUME at # {} PROVE Max(at) \in 1 .. Len(e) /\ e[Max(at)].switch = s
                           /\ \A j \in 1 .. Len(e) : e[j].switch = s => j <= Max(at)
  BY <1>1, <1>4, <1>5
<1> HIDE DEF at
<1> QED  BY <1>2, <1>3, <1>5

\* The only flag for a switch gives its value.
LEMMA EffectiveOne ==
  ASSUME NEW F, NEW e \in Seq(F), NEW i \in 1 .. Len(e),
         \A j \in 1 .. Len(e) : e[j].switch = e[i].switch => j = i
  PROVE  Effective(e, e[i].switch) = e[i].value
<1>1. DOMAIN e = 1 .. Len(e)  OBVIOUS
<1>2. e[i].switch \in Switches(e)  BY <1>1 DEF Switches
<1> QED  BY <1>2, EffectiveIs

\* Flags merged into a line count for the switches it does not have.
LEMMA EffectiveMerged ==
  ASSUME NEW F, NEW a \in Seq(F), NEW e \in Seq(F), Distinct(e), NEW s
  PROVE  Effective(MergeLaunchArgs(a, e), s) =
           IF s \in Switches(a) THEN Effective(a, s) ELSE Effective(e, s)
<1> DEFINE m == MergeLaunchArgs(a, e)
<1>1. m \in Seq(F) /\ Merged(m, a, e)  BY MergeMeans
<1> HIDE DEF m
<1>2. /\ Len(a) \in Nat /\ Len(m) \in Nat
      /\ DOMAIN a = 1 .. Len(a) /\ DOMAIN e = 1 .. Len(e) /\ DOMAIN m = 1 .. Len(m)
  BY <1>1
<1>3. CASE s \in Switches(a)
  <2>1. PICK i \in 1 .. Len(a) :
          /\ a[i].switch = s /\ Effective(a, s) = a[i].value
          /\ \A j \in 1 .. Len(a) : a[j].switch = s => j <= i
    BY <1>3, EffectiveIs
  <2>2. i \in 1 .. Len(m) /\ m[i] = a[i]  BY <1>1, <1>2 DEF Merged
  <2>3. s \in Switches(m)  BY <1>1, <1>3 DEF Merged
  <2>4. PICK k \in 1 .. Len(m) :
          /\ m[k].switch = s /\ Effective(m, s) = m[k].value
          /\ \A j \in 1 .. Len(m) : m[j].switch = s => j <= k
    BY <1>1, <2>3, EffectiveIs
  <2>5. k \in 1 .. Len(a)
    <3> SUFFICES ASSUME k \in Len(a) + 1 .. Len(m) PROVE FALSE
      BY <1>2
    <3>1. k = i  BY <1>1, <2>1, <2>2, <2>4 DEF Merged
    <3> QED  BY <1>2, <3>1
  <2>6. m[k] = a[k]  BY <1>1, <2>5 DEF Merged
  <2>7. i <= k /\ k <= i  BY <2>1, <2>2, <2>4, <2>5, <2>6
  <2>8. i = k  BY <1>2, <2>7
  <2> QED  BY <1>3, <2>1, <2>2, <2>4, <2>8 DEF m
<1>4. CASE s \in Switches(e) \ Switches(a)
  <2>1. s \in Switches(m)  BY <1>1, <1>4 DEF Merged
  <2>2. PICK k \in 1 .. Len(m) : m[k].switch = s /\ Effective(m, s) = m[k].value
    BY <1>1, <2>1, EffectiveIs
  <2>3. k \in Len(a) + 1 .. Len(m)
    <3>1. ASSUME k \in 1 .. Len(a) PROVE FALSE
      <4>1. m[k] = a[k]  BY <1>1, <3>1 DEF Merged
      <4> QED  BY <1>2, <1>4, <2>2, <3>1, <4>1 DEF Switches
    <3> QED  BY <1>2, <3>1
  <2>4. PICK n \in 1 .. Len(e) : m[k] = e[n]  BY <1>1, <2>3 DEF Merged
  <2>5. \A j \in 1 .. Len(e) : e[j].switch = e[n].switch => j = n
    BY DEF Distinct
  <2>6. Effective(e, e[n].switch) = e[n].value  BY <2>5, EffectiveOne
  <2> QED  BY <1>4, <2>2, <2>4, <2>6 DEF m
<1>5. CASE s \notin Switches(a) \cup Switches(e)
  <2>1. s \notin Switches(m)  BY <1>1, <1>5 DEF Merged
  <2>2. Effective(m, s) = Unset /\ Effective(e, s) = Unset
    BY <1>1, <1>5, <2>1, EffectiveIs
  <2> QED  BY <1>5, <2>2 DEF m
<1> QED  BY <1>3, <1>4, <1>5

\* Lists of flags for different switches, one after the other.
LEMMA Joined ==
  ASSUME NEW F, NEW a \in Seq(F), NEW e \in Seq(F), Distinct(a), Distinct(e),
         Switches(a) \cap Switches(e) = {}
  PROVE  /\ a \o e \in Seq(F)
         /\ Distinct(a \o e)
         /\ Switches(a \o e) = Switches(a) \cup Switches(e)
         /\ \A s : Effective(a \o e, s) =
                     IF s \in Switches(a) THEN Effective(a, s) ELSE Effective(e, s)
<1> DEFINE m == a \o e
<1>1. /\ m \in Seq(F) /\ Len(m) = Len(a) + Len(e) /\ Len(a) \in Nat /\ Len(e) \in Nat
      /\ \A i \in 1 .. Len(a) : m[i] = a[i]
      /\ \A i \in 1 .. Len(e) : m[Len(a) + i] = e[i]
      /\ DOMAIN a = 1 .. Len(a) /\ DOMAIN e = 1 .. Len(e) /\ DOMAIN m = 1 .. Len(m)
  OBVIOUS
<1> HIDE DEF m
<1>2. ASSUME NEW i \in 1 .. Len(m)
      PROVE  \/ i \in 1 .. Len(a) /\ m[i] = a[i] /\ m[i].switch \in Switches(a)
             \/ /\ i - Len(a) \in 1 .. Len(e) /\ m[i] = e[i - Len(a)]
                /\ m[i].switch \in Switches(e)
  <2>1. CASE i \in 1 .. Len(a)  BY <1>1, <2>1 DEF Switches
  <2>2. CASE i \notin 1 .. Len(a)
    <3>1. i - Len(a) \in 1 .. Len(e) /\ Len(a) + (i - Len(a)) = i  BY <1>1, <2>2
    <3>2. m[i] = e[i - Len(a)]  BY <1>1, <3>1
    <3> QED  BY <1>1, <3>1, <3>2 DEF Switches
  <2> QED  BY <2>1, <2>2
<1>3. Distinct(m)
  <2> SUFFICES ASSUME NEW i \in 1 .. Len(m), NEW j \in 1 .. Len(m), m[i].switch = m[j].switch
               PROVE  i = j
    BY DEF Distinct
  <2>1. CASE i \in 1 .. Len(a) /\ j \in 1 .. Len(a)  BY <1>1, <2>1 DEF Distinct
  <2>2. CASE /\ i - Len(a) \in 1 .. Len(e) /\ m[i] = e[i - Len(a)]
             /\ j - Len(a) \in 1 .. Len(e) /\ m[j] = e[j - Len(a)]
    <3>1. i - Len(a) = j - Len(a)  BY <2>2 DEF Distinct
    <3> QED  BY <1>1, <3>1
  <2> QED  BY <1>2, <2>1, <2>2
<1>4. Switches(m) = Switches(a) \cup Switches(e)
  <2>1. Switches(m) \subseteq Switches(a) \cup Switches(e)  BY <1>1, <1>2 DEF Switches
  <2>2. ASSUME NEW i \in 1 .. Len(a) PROVE a[i].switch \in Switches(m)
    <3>1. i \in 1 .. Len(m) /\ m[i] = a[i]  BY <1>1
    <3> QED  BY <1>1, <3>1 DEF Switches
  <2>3. ASSUME NEW i \in 1 .. Len(e) PROVE e[i].switch \in Switches(m)
    <3>1. Len(a) + i \in 1 .. Len(m) /\ m[Len(a) + i] = e[i]  BY <1>1
    <3> QED  BY <1>1, <3>1 DEF Switches
  <2>4. Switches(a) \subseteq Switches(m)  BY <1>1, <2>2 DEF Switches
  <2>5. Switches(e) \subseteq Switches(m)  BY <1>1, <2>3 DEF Switches
  <2> QED  BY <2>1, <2>4, <2>5
<1>5. ASSUME NEW s
      PROVE  Effective(m, s) = IF s \in Switches(a) THEN Effective(a, s) ELSE Effective(e, s)
  <2>1. CASE s \in Switches(m)
    <3>1. PICK k \in 1 .. Len(m) : m[k].switch = s /\ Effective(m, s) = m[k].value
      BY <1>1, <2>1, EffectiveIs
    <3>2. CASE k \in 1 .. Len(a) /\ m[k] = a[k] /\ m[k].switch \in Switches(a)
      <4>1. Effective(a, a[k].switch) = a[k].value
        BY <3>2, EffectiveOne DEF Distinct
      <4> QED  BY <3>1, <3>2, <4>1
    <3>3. CASE /\ k - Len(a) \in 1 .. Len(e) /\ m[k] = e[k - Len(a)]
               /\ m[k].switch \in Switches(e)
      <4> DEFINE n == k - Len(a)
      <4>1. \A j \in 1 .. Len(e) : e[j].switch = e[n].switch => j = n
        BY <3>3 DEF Distinct
      <4>2. Effective(e, e[n].switch) = e[n].value
        BY <3>3, <4>1, EffectiveOne
      <4> QED  BY <3>1, <3>3, <4>2
    <3> QED  BY <1>2, <3>2, <3>3
  <2>2. CASE s \notin Switches(m)
    <3>1. Effective(m, s) = Unset /\ Effective(e, s) = Unset
      BY <1>1, <1>4, <2>2, EffectiveIs
    <3> QED  BY <1>4, <2>2, <3>1
  <2> QED  BY <2>1, <2>2
<1> QED  BY <1>1, <1>3, <1>4, <1>5 DEF m

-----------------------------------------------------------------------------
(* The options' flags. *)

Solver == "--captcha-solver"
ModelPath == "--captcha-model-path"
SettleSwitches == {"--page-settle", "--page-settle-quiet-window-ms", "--page-settle-min-chars",
                   "--page-settle-timeout-ms", "--page-settle-sample-interval-ms",
                   "--page-settle-pierce-shadow"}

OptionSwitches == SettleSwitches \cup {WebRtc.switch, Solver, ModelPath}

\* The flags of the options, with values from V.
Flags(V) == [switch : OptionSwitches, value : V]

\* An option's flag.
LEMMA ChosenIs ==
  ASSUME NEW V, NEW s \in OptionSwitches, NEW v, v # Unset => v \in V
  PROVE  /\ Chosen(s, v) \in Seq(Flags(V))
         /\ Distinct(Chosen(s, v))
         /\ v # Unset => Switches(Chosen(s, v)) = {s}
         /\ Switches(Chosen(s, v)) \subseteq {s}
         /\ \A x : Effective(Chosen(s, v), x) = IF x = s THEN v ELSE Unset
<1> DEFINE e == Chosen(s, v)
<1>1. CASE v = Unset
  <2>1. e = <<>> /\ <<>> \in Seq(Flags(V)) /\ DOMAIN <<>> = {} /\ Len(<<>>) = 0
    BY <1>1 DEF Chosen
  <2>2. e \in Seq(Flags(V))  BY <2>1
  <2>3. Switches(e) = {}  BY <2>1 DEF Switches
  <2>4. Distinct(e)  BY <2>1 DEF Distinct
  <2> HIDE DEF e
  <2>5. \A x : Effective(e, x) = Unset  BY <2>2, <2>3, EffectiveIs
  <2> QED  BY <1>1, <2>2, <2>3, <2>4, <2>5 DEF e
<1>2. CASE v # Unset
  <2>1. e = <<Flag(s, v)>> /\ Flag(s, v) \in Flags(V)  BY <1>2 DEF Chosen, Flag, Flags
  <2>2. /\ e \in Seq(Flags(V)) /\ Len(e) = 1 /\ DOMAIN e = {1}
        /\ e[1].switch = s /\ e[1].value = v
    BY <2>1 DEF Flag
  <2> HIDE DEF e
  <2>3. Switches(e) = {s}  BY <2>2 DEF Switches
  <2>4. Distinct(e)  BY <2>2 DEF Distinct
  <2>5. \A x : x # s => Effective(e, x) = Unset  BY <2>2, <2>3, EffectiveIs
  <2>6. Effective(e, s) = v
    <3>1. 1 \in 1 .. Len(e) /\ \A j \in 1 .. Len(e) : j = 1  BY <2>2
    <3>2. Effective(e, e[1].switch) = e[1].value  BY <2>2, <3>1, EffectiveOne
    <3> QED  BY <2>2, <3>2
  <2> QED  BY <1>2, <2>2, <2>3, <2>4, <2>5, <2>6 DEF e
<1> QED  BY <1>1, <1>2

\* The flags every launch has, and those of captcha solving.
LEMMA CaptchaIs ==
  ASSUME NEW V, NEW path, NEW on \in BOOLEAN, path # Unset => path \in V,
         Bare \in V, WebRtc.value \in V
  PROVE  LET e == <<WebRtc>> \o CaptchaExtra(on, path)
         IN /\ e \in Seq(Flags(V))
            /\ Distinct(e)
            /\ Switches(e) \subseteq {WebRtc.switch, Solver, ModelPath}
            /\ Effective(e, WebRtc.switch) = WebRtc.value
            /\ Effective(e, Solver) = IF on \/ path # Unset THEN Bare ELSE Unset
            /\ Effective(e, ModelPath) = path
            /\ WebRtc.switch \in Switches(e)
<1> DEFINE w == Chosen(WebRtc.switch, WebRtc.value)
           c == Chosen(Solver, Bare)
           p == Chosen(ModelPath, path)
           x == CaptchaExtra(on, path)
<1>1. /\ {WebRtc.switch, Solver, ModelPath} \subseteq OptionSwitches
      /\ WebRtc.switch # Solver /\ WebRtc.switch # ModelPath /\ Solver # ModelPath
      /\ Bare # Unset /\ WebRtc.value # Unset
  BY DEF WebRtc, Flag, Solver, ModelPath, Bare, Unset, OptionSwitches
<1>2. <<WebRtc>> = w /\ <<Flag(Solver, Bare)>> = c
  <2>1. WebRtc = Flag(WebRtc.switch, WebRtc.value)  BY DEF WebRtc, Flag
  <2> QED  BY <1>1, <2>1 DEF Chosen
<1>3. /\ w \in Seq(Flags(V)) /\ Distinct(w) /\ Switches(w) = {WebRtc.switch}
      /\ \A s : Effective(w, s) = IF s = WebRtc.switch THEN WebRtc.value ELSE Unset
  <2> DEFINE s == WebRtc.switch
             v == WebRtc.value
  <2>1. s \in OptionSwitches /\ v # Unset /\ v \in V  BY <1>1
  <2> HIDE DEF s, v
  <2>2. /\ Chosen(s, v) \in Seq(Flags(V)) /\ Distinct(Chosen(s, v))
        /\ Switches(Chosen(s, v)) = {s}
        /\ \A i : Effective(Chosen(s, v), i) = IF i = s THEN v ELSE Unset
    BY <2>1, ChosenIs
  <2> QED  BY <2>2 DEF s, v
<1>4. /\ c \in Seq(Flags(V)) /\ Distinct(c) /\ Switches(c) = {Solver}
      /\ \A s : Effective(c, s) = IF s = Solver THEN Bare ELSE Unset
  BY <1>1, ChosenIs
<1>5. /\ p \in Seq(Flags(V)) /\ Distinct(p) /\ Switches(p) \subseteq {ModelPath}
      /\ \A s : Effective(p, s) = IF s = ModelPath THEN path ELSE Unset
  BY <1>1, ChosenIs
<1>6. x = IF on \/ path # Unset THEN c \o p ELSE <<>>
  BY <1>2 DEF CaptchaExtra, CaptchaLaunchArgs, Solver, ModelPath
<1> HIDE DEF w, c, p, x
<1>7. /\ x \in Seq(Flags(V)) /\ Distinct(x) /\ Switches(x) \subseteq {Solver, ModelPath}
      /\ Effective(x, Solver) = IF on \/ path # Unset THEN Bare ELSE Unset
      /\ Effective(x, ModelPath) = path
  <2>1. CASE on \/ path # Unset
    <3>1. x = c \o p  BY <1>6, <2>1
    <3>2. Switches(c) \cap Switches(p) = {}  BY <1>1, <1>4, <1>5
    <3>3. /\ x \in Seq(Flags(V)) /\ Distinct(x) /\ Switches(x) = Switches(c) \cup Switches(p)
          /\ \A s : Effective(x, s) = IF s \in Switches(c) THEN Effective(c, s) ELSE Effective(p, s)
      BY <1>4, <1>5, <3>1, <3>2, Joined
    <3> QED  BY <1>1, <1>4, <1>5, <2>1, <3>3
  <2>2. CASE ~(on \/ path # Unset)
    <3>1. x = <<>> /\ <<>> \in Seq(Flags(V)) /\ DOMAIN <<>> = {} /\ Len(<<>>) = 0
      BY <1>6, <2>2
    <3>2. Switches(x) = {}  BY <3>1 DEF Switches
    <3>3. Distinct(x)  BY <3>1 DEF Distinct
    <3>4. \A s : Effective(x, s) = Unset  BY <3>1, <3>2, EffectiveIs
    <3> QED  BY <2>2, <3>1, <3>2, <3>3, <3>4
  <2> QED  BY <2>1, <2>2
<1> DEFINE e == w \o x
<1>8. Switches(w) \cap Switches(x) = {}  BY <1>1, <1>3, <1>7
<1>9. /\ e \in Seq(Flags(V)) /\ Distinct(e) /\ Switches(e) = Switches(w) \cup Switches(x)
      /\ \A s : Effective(e, s) = IF s \in Switches(w) THEN Effective(w, s) ELSE Effective(x, s)
  BY <1>3, <1>7, <1>8, Joined
<1> HIDE DEF e
<1>10. /\ Switches(e) \subseteq {WebRtc.switch, Solver, ModelPath}
       /\ Effective(e, WebRtc.switch) = WebRtc.value
       /\ Effective(e, Solver) = IF on \/ path # Unset THEN Bare ELSE Unset
       /\ Effective(e, ModelPath) = path
       /\ WebRtc.switch \in Switches(e)
  BY <1>1, <1>3, <1>7, <1>9
<1> QED  BY <1>2, <1>9, <1>10 DEF e, x

\* Those of settling.
LEMMA SettleIs ==
  ASSUME NEW V, NEW t, Bare \in V,
         {t.quiet_window_ms, t.min_chars, t.timeout_ms, t.sample_interval_ms} \subseteq V
  PROVE  /\ SettleLaunchArgs(t) \in Seq(Flags(V))
         /\ Distinct(SettleLaunchArgs(t))
         /\ Switches(SettleLaunchArgs(t)) \subseteq SettleSwitches
<1> DEFINE p == IF t.pierce_shadow THEN Bare ELSE Unset
           c1 == Chosen("--page-settle", Bare)
           c2 == Chosen("--page-settle-quiet-window-ms", t.quiet_window_ms)
           c3 == Chosen("--page-settle-min-chars", t.min_chars)
           c4 == Chosen("--page-settle-timeout-ms", t.timeout_ms)
           c5 == Chosen("--page-settle-sample-interval-ms", t.sample_interval_ms)
           c6 == Chosen("--page-settle-pierce-shadow", p)
<1>0. \A s \in SettleSwitches : s \in OptionSwitches  BY DEF OptionSwitches
<1>1. SettleLaunchArgs(t) = c1 \o c2 \o c3 \o c4 \o c5 \o c6
  <2>1. <<Flag("--page-settle", Bare)>> = c1  BY DEF Chosen, Bare, Unset
  <2> QED  BY <2>1 DEF SettleLaunchArgs
<1>2. p # Unset => p \in V  OBVIOUS
<1> DEFINE Fits(v) == v # Unset => v \in V
<1>3. /\ Fits(t.quiet_window_ms) /\ Fits(t.min_chars) /\ Fits(t.timeout_ms)
       /\ Fits(t.sample_interval_ms)
  OBVIOUS
<1> HIDE DEF p
<1>4. c1 \in Seq(Flags(V)) /\ Distinct(c1) /\ Switches(c1) \subseteq {"--page-settle"}
  BY <1>0, <1>3, ChosenIs DEF SettleSwitches
<1>5. c2 \in Seq(Flags(V)) /\ Distinct(c2) /\ Switches(c2) \subseteq {"--page-settle-quiet-window-ms"}
  BY <1>0, <1>3, ChosenIs DEF SettleSwitches
<1>6. c3 \in Seq(Flags(V)) /\ Distinct(c3) /\ Switches(c3) \subseteq {"--page-settle-min-chars"}
  BY <1>0, <1>3, ChosenIs DEF SettleSwitches
<1>7. c4 \in Seq(Flags(V)) /\ Distinct(c4) /\ Switches(c4) \subseteq {"--page-settle-timeout-ms"}
  BY <1>0, <1>3, ChosenIs DEF SettleSwitches
<1>8. c5 \in Seq(Flags(V)) /\ Distinct(c5) /\ Switches(c5) \subseteq {"--page-settle-sample-interval-ms"}
  BY <1>0, <1>3, ChosenIs DEF SettleSwitches
<1>9. c6 \in Seq(Flags(V)) /\ Distinct(c6) /\ Switches(c6) \subseteq {"--page-settle-pierce-shadow"}
  BY <1>0, <1>2, ChosenIs DEF SettleSwitches
<1> HIDE DEF c1, c2, c3, c4, c5, c6
<1> DEFINE d2 == c1 \o c2
           d3 == d2 \o c3
           d4 == d3 \o c4
           d5 == d4 \o c5
           d6 == d5 \o c6
<1>10. d2 \in Seq(Flags(V)) /\ Distinct(d2) /\ Switches(d2) = Switches(c1) \cup Switches(c2)
  <2>1. Switches(c1) \cap Switches(c2) = {}  BY <1>4, <1>5
  <2> QED  BY <1>4, <1>5, <2>1, Joined
<1> HIDE DEF d2
<1>11. d3 \in Seq(Flags(V)) /\ Distinct(d3) /\ Switches(d3) = Switches(d2) \cup Switches(c3)
  <2>1. Switches(d2) \cap Switches(c3) = {}  BY <1>4, <1>5, <1>6, <1>10
  <2> QED  BY <1>6, <1>10, <2>1, Joined
<1> HIDE DEF d3
<1>12. d4 \in Seq(Flags(V)) /\ Distinct(d4) /\ Switches(d4) = Switches(d3) \cup Switches(c4)
  <2>1. Switches(d3) \cap Switches(c4) = {}  BY <1>4, <1>5, <1>6, <1>7, <1>10, <1>11
  <2> QED  BY <1>7, <1>11, <2>1, Joined
<1> HIDE DEF d4
<1>13. d5 \in Seq(Flags(V)) /\ Distinct(d5) /\ Switches(d5) = Switches(d4) \cup Switches(c5)
  <2>1. Switches(d4) \cap Switches(c5) = {}  BY <1>4, <1>5, <1>6, <1>7, <1>8, <1>10, <1>11, <1>12
  <2> QED  BY <1>8, <1>12, <2>1, Joined
<1> HIDE DEF d5
<1>14. d6 \in Seq(Flags(V)) /\ Distinct(d6) /\ Switches(d6) = Switches(d5) \cup Switches(c6)
  <2>1. Switches(d5) \cap Switches(c6) = {}
    BY <1>4, <1>5, <1>6, <1>7, <1>8, <1>9, <1>10, <1>11, <1>12, <1>13
  <2> QED  BY <1>9, <1>13, <2>1, Joined
<1>15. SettleLaunchArgs(t) = d6  BY <1>1 DEF d2, d3, d4, d5
<1> HIDE DEF d6
<1>16. Switches(d6) \subseteq SettleSwitches
  BY <1>4, <1>5, <1>6, <1>7, <1>8, <1>9, <1>10, <1>11, <1>12, <1>13, <1>14 DEF SettleSwitches
<1> QED  BY <1>14, <1>15, <1>16

\* What the builder has of captcha solving is what was asked for.
LEMMA CaptchaAsked ==
  ASSUME IInv, OptionsOK
  PROVE  /\ launcher.captcha \/ launcher.captcha_model_path # Unset <=> AskedCaptcha
         /\ launcher.captcha_model_path =
              IF Asked("captcha_model_path") THEN calls[LastCall({"captcha_model_path"})].arg ELSE Unset
<1> DEFINE op == "captcha_model_path"
<1>1. launcher.captcha_model_path = IF Asked(op) THEN LastArg(op) ELSE Unset
  BY DEF OptionsOK
<1>2. launcher.captcha <=> Asked("captcha") /\ LastArg("captcha")
  BY DEF OptionsOK
<1>3. Asked(op) => LastArg(op) \in Model
  <2>1. calls \in Seq(CallRecord)  BY DEF IInv, CallsOK
  <2>2. ASSUME Asked(op) PROVE LastCall({op}) \in 1 .. Len(calls) /\ calls[LastCall({op})].op = op
    <3>1. PICK i \in 1 .. Len(calls) : calls[i].op = op  BY <2>1, <2>2 DEF Asked
    <3> QED  BY <2>1, <3>1, LastCallIs
  <2>3. \A c \in CallRecord : c.op = op => c.arg \in Model  BY DEF CallRecord
  <2> QED  BY <2>1, <2>2, <2>3 DEF LastArg
<1>4. Asked(op) => LastArg(op) # Unset
  BY <1>3, OptionAssumption
<1> QED  BY <1>1, <1>2, <1>4 DEF AskedCaptcha, LastArg

\* A flag of the caller's has a value.
LEMMA OwnValue ==
  ASSUME NEW a \in Seq(OwnFlag), NEW s
  PROVE  s \in Switches(a) <=> Effective(a, s) # Unset
<1>1. ASSUME NEW f \in OwnFlag PROVE f.value # Unset
  <2>1. CASE f \in HandFlag  BY <2>1, OptionAssumption
  <2>2. ASSUME NEW p \in Port, f = PortFlag(p) PROVE f.value # Unset
    <3>1. f.value = p  BY <2>2 DEF PortFlag, Flag
    <3> QED  BY <3>1, OptionAssumption
  <2> QED  BY <2>1, <2>2 DEF OwnFlag
<1>2. ASSUME s \in Switches(a) PROVE Effective(a, s) # Unset
  <2>1. PICK i \in 1 .. Len(a) : Effective(a, s) = a[i].value  BY <1>2, EffectiveIs
  <2>2. a[i] \in OwnFlag  OBVIOUS
  <2> QED  BY <1>1, <2>1, <2>2
<1> QED  BY <1>2, EffectiveIs

\* The line, whatever was called: one merge of the options asked for into the
\* caller's own flags.
LEMMA LineStrong == IInv /\ OptionsOK => CommandLineAsAsked
<1> SUFFICES ASSUME IInv, OptionsOK PROVE CommandLineAsAsked
  OBVIOUS
<1> DEFINE path == launcher.captcha_model_path
           on == launcher.captcha
           t == AskedTuning
           V == {Bare, WebRtc.value, path,
                 t.quiet_window_ms, t.min_chars, t.timeout_ms, t.sample_interval_ms}
           F == OwnFlag \cup Flags(V)
           a == Pushed
           w == <<WebRtc>> \o CaptchaExtra(on, path)
           settle == SettleLaunchArgs(t)
           s == IF AskedSettle THEN settle ELSE <<>>
           x == w \o s
           line == BuildArgs(launcher)
<1>1. on \in BOOLEAN /\ calls \in Seq(CallRecord)
  BY DEF IInv, CallsOK, OptionsOK
<1>2. a \in Seq(OwnFlag) /\ a = launcher.args
  BY <1>1, PushEquations DEF OptionsOK, Pushed
<1>3. (on \/ path # Unset) <=> AskedCaptcha
  BY CaptchaAsked
<1>4. path = IF Asked("captcha_model_path") THEN calls[LastCall({"captcha_model_path"})].arg ELSE Unset
  BY CaptchaAsked
<1>5. launcher.page_settle = IF AskedSettle THEN <<t>> ELSE <<>>
  BY DEF OptionsOK
<1>6. CaptchaExtra(AskedCaptcha, path) = CaptchaExtra(on, path)
  BY <1>3 DEF CaptchaExtra
<1>7. /\ w \in Seq(Flags(V)) /\ Distinct(w)
      /\ Switches(w) \subseteq {WebRtc.switch, Solver, ModelPath}
      /\ Effective(w, WebRtc.switch) = WebRtc.value
      /\ Effective(w, Solver) = IF AskedCaptcha THEN Bare ELSE Unset
      /\ Effective(w, ModelPath) = path
      /\ WebRtc.switch \in Switches(w)
  <2>1. Bare \in V /\ WebRtc.value \in V /\ path \in V  OBVIOUS
  <2> HIDE DEF V, on, path
  <2>2. LET e == <<WebRtc>> \o CaptchaExtra(on, path)
        IN /\ e \in Seq(Flags(V))
           /\ Distinct(e)
           /\ Switches(e) \subseteq {WebRtc.switch, Solver, ModelPath}
           /\ Effective(e, WebRtc.switch) = WebRtc.value
           /\ Effective(e, Solver) = IF on \/ path # Unset THEN Bare ELSE Unset
           /\ Effective(e, ModelPath) = path
           /\ WebRtc.switch \in Switches(e)
    BY <1>1, <2>1, CaptchaIs
  <2> QED  BY <1>3, <2>2
<1>8. settle \in Seq(Flags(V)) /\ Distinct(settle) /\ Switches(settle) \subseteq SettleSwitches
  <2>1. Bare \in V /\ {t.quiet_window_ms, t.min_chars, t.timeout_ms, t.sample_interval_ms} \subseteq V
    OBVIOUS
  <2> HIDE DEF V, t
  <2> QED  BY <2>1, SettleIs
<1> HIDE DEF V, w, settle
<1>9. /\ s \in Seq(Flags(V)) /\ Distinct(s) /\ Switches(s) \subseteq SettleSwitches
      /\ \A k : Effective(s, k) = IF AskedSettle THEN Effective(settle, k) ELSE Unset
  <2>1. CASE AskedSettle  BY <1>8, <2>1
  <2>2. CASE ~AskedSettle
    <3>1. s = <<>>  BY <2>2
    <3>2. <<>> \in Seq(Flags(V)) /\ Len(<<>>) = 0 /\ DOMAIN <<>> = {}  OBVIOUS
    <3> HIDE DEF s
    <3>3. s \in Seq(Flags(V)) /\ Distinct(s) /\ Switches(s) = {}
      BY <3>1, <3>2 DEF Distinct, Switches
    <3>4. \A k : Effective(s, k) = Unset  BY <3>3, EffectiveIs
    <3> QED  BY <2>2, <3>3, <3>4
  <2> QED  BY <2>1, <2>2
<1> HIDE DEF s
<1>10. \A k \in {WebRtc.switch, Solver, ModelPath} : k \notin SettleSwitches
  BY DEF WebRtc, Flag, Solver, ModelPath, SettleSwitches
<1>11. /\ x \in Seq(Flags(V)) /\ Distinct(x)
       /\ \A k : Effective(x, k) = IF k \in Switches(w) THEN Effective(w, k) ELSE Effective(s, k)
  <2>1. Switches(w) \cap Switches(s) = {}  BY <1>7, <1>9, <1>10
  <2> QED  BY <1>7, <1>9, <2>1, Joined
<1>12. /\ Seq(OwnFlag) \subseteq Seq(F) /\ Seq(Flags(V)) \subseteq Seq(F)
  <2>1. OwnFlag \subseteq F /\ Flags(V) \subseteq F  OBVIOUS
  <2> HIDE DEF F
  <2> QED  BY <2>1
<1> HIDE DEF F, a
<1>13. line = MergeLaunchArgs(a, x)
  <2>1. DriverArgs(launcher.args, on, path) = MergeLaunchArgs(a, w)
    BY <1>2 DEF DriverArgs, w
  <2>2. CASE AskedSettle
    <3>1. launcher.page_settle # <<>> /\ launcher.page_settle[1] = t /\ s = settle
      BY <1>5, <2>2 DEF s
    <3>2. line = MergeLaunchArgs(MergeLaunchArgs(a, w), s)
      BY <2>1, <3>1 DEF BuildArgs, settle
    <3> QED  BY <1>2, <1>7, <1>9, <1>12, <3>2, MergeTwice
  <2>3. CASE ~AskedSettle
    <3>1. launcher.page_settle = <<>> /\ s = <<>>  BY <1>5, <2>3 DEF s
    <3>2. x = w  BY <1>7, <3>1
    <3> QED  BY <2>1, <3>1, <3>2 DEF BuildArgs
  <2> QED  BY <2>2, <2>3
<1>14. line = AdapterArgs(Pushed, AskedCaptcha, path, launcher.page_settle)
  <2>1. s = IF launcher.page_settle = <<>> THEN <<>> ELSE SettleLaunchArgs(launcher.page_settle[1])
    BY <1>5 DEF s, settle
  <2> QED  BY <1>6, <1>13, <2>1 DEF AdapterArgs, a, w
<1> HIDE DEF line, x
<1>15. a \in Seq(F) /\ x \in Seq(F)  BY <1>2, <1>11, <1>12
<1>16. line \in Seq(F) /\ Merged(line, a, x)
  BY <1>13, <1>15, MergeMeans
<1>17. SubSeq(line, 1, Len(a)) = a
  <2>1. Len(a) \in Nat /\ Len(line) \in Nat /\ Len(a) <= Len(line)
    BY <1>15, <1>16 DEF Merged
  <2>2. \A i \in 1 .. Len(a) : line[i] = a[i]  BY <1>16 DEF Merged
  <2> DEFINE b == SubSeq(line, 1, Len(a))
  <2>3. b \in Seq(F) /\ Len(b) = Len(a) /\ \A i \in 1 .. Len(a) : b[i] = line[i]
    BY <1>16, <2>1
  <2> HIDE DEF b
  <2>4. b = a  BY <1>15, <2>2, <2>3, SeqEqual
  <2> QED  BY <2>4 DEF b
<1>18. ASSUME NEW i \in Len(a) + 1 .. Len(line), NEW j \in DOMAIN line,
              line[i].switch = line[j].switch
       PROVE  i = j
  <2>1. j \in 1 .. Len(line)  BY <1>16
  <2> QED  BY <1>16, <1>18, <2>1 DEF Merged
<1>19. ASSUME NEW k PROVE Effective(line, k) = AskedValue(k)
  <2> DEFINE own == Effective(Pushed, k)
             tuned == Effective(SettleLaunchArgs(AskedTuning), k)
  <2>1. Effective(line, k) = IF own # Unset THEN own ELSE Effective(x, k)
    <3>1. Effective(line, k) = IF k \in Switches(a) THEN Effective(a, k) ELSE Effective(x, k)
      BY <1>11, <1>13, <1>15, EffectiveMerged
    <3>2. k \in Switches(a) <=> Effective(a, k) # Unset
      BY <1>2, OwnValue
    <3> QED  BY <3>1, <3>2 DEF a
  <2>2. Effective(s, k) = IF AskedSettle THEN tuned ELSE Unset
    BY <1>9 DEF settle
  <2>3. /\ WebRtc.switch # Solver /\ WebRtc.switch # ModelPath /\ Solver # ModelPath
    BY DEF WebRtc, Flag, Solver, ModelPath
  <2> HIDE DEF own, tuned
  <2>4. AskedValue(k) =
          IF own # Unset THEN own ELSE
          CASE k = WebRtc.switch -> WebRtc.value
            [] k = Solver -> IF AskedCaptcha THEN Bare ELSE Unset
            [] k = ModelPath -> path
            [] OTHER -> IF AskedSettle THEN tuned ELSE Unset
    BY <1>4 DEF AskedValue, own, tuned, Solver, ModelPath
  <2> HIDE DEF path, t
  <2>5. CASE own # Unset  BY <2>1, <2>4, <2>5
  <2>6. CASE own = Unset /\ k = WebRtc.switch
    BY <1>7, <1>11, <2>1, <2>3, <2>4, <2>6
  <2>7. CASE own = Unset /\ k \in {Solver, ModelPath}
    <3>1. k \notin Switches(w) => Effective(w, k) = Unset  BY <1>7, EffectiveIs
    <3>2. Effective(s, k) = Unset
      BY <1>9, <1>10, <2>7, EffectiveIs
    <3>3. Effective(x, k) = Effective(w, k)  BY <1>11, <3>1, <3>2
    <3> QED  BY <1>7, <2>1, <2>3, <2>4, <2>7, <3>3
  <2>8. CASE own = Unset /\ k \notin {WebRtc.switch, Solver, ModelPath}
    <3>1. k \notin Switches(w)  BY <1>7, <2>8
    <3>2. Effective(x, k) = Effective(s, k)  BY <1>11, <3>1
    <3> QED  BY <2>1, <2>2, <2>4, <2>8, <3>2
  <2> QED  BY <2>5, <2>6, <2>7, <2>8
<1> QED  BY <1>14, <1>17, <1>18, <1>19 DEF CommandLineAsAsked, a, line

-----------------------------------------------------------------------------

\* Every step keeps the invariant.
LEMMA NextIInv == IInv /\ [Next]_vars => IInv'
<1> SUFFICES ASSUME IInv, [Next]_vars PROVE IInv'
  OBVIOUS
<1>1. CASE Build  BY <1>1, BuildIInv
<1>2. ASSUME NEW l \in Launch,
             \/ NoPort(l) \/ SpawnFails(l) \/ Spawn(l) \/ LaunchStep(l)
             \/ Piece(l) \/ Answer(l) \/ Listen(l) \/ Dies(l)
      PROVE  IInv'
  BY <1>2, RefusedIInv, SpawnIInv, PollIInv, PieceIInv, ReadEndsIInv, WakeIInv,
     KillIInv, ReapIInv, ListenIInv, DiesIInv DEF LaunchStep
<1>3. ASSUME NEW p \in Port, StrangerLeaves(p) PROVE IInv'
  BY <1>3, StrangerLeavesIInv
<1>4. CASE Tick  BY <1>4, TickIInv
<1>5. CASE UNCHANGED vars
  <2>1. BuilderOK' /\ FunctionsOK' /\ OwnerOK'
    BY <1>5 DEF IInv, vars, building, launching, BuilderOK, FunctionsOK, OwnerOK
  <2>2. ASSUME NEW l \in Launch PROVE (ChildOK(l) /\ PeerOK(l) /\ WaitOK(l) /\ PaceOK(l))'
    BY <1>5 DEF IInv, vars, launching, ChildOK, PeerOK, WaitOK, PaceOK, InProgress
  <2>3. CallsOK'
    BY <1>5, CallsKept DEF IInv, vars
  <2> QED  BY <2>1, <2>2, <2>3 DEF IInv
<1> QED  BY <1>1, <1>2, <1>3, <1>4, <1>5 DEF Next

\* The inductive invariant holds of every run of the launcher.
THEOREM Invariant == Spec => []IInv
<1> QED  BY InitIInv, NextIInv, PTL DEF Spec

\* Every variable keeps its type, a launch has a browser as long as it should,
\* and only a browser that serves holds a port.
THEOREM TypeCorrect == Spec => []TypeOK
<1> QED  BY Invariant, Strong, PTL

\* However many launches share a launcher and its port, and whatever holds the
\* port, a launch that fails leaves no browser behind: not running, not a
\* zombie, not on a port.  (spawn_and_wait's error arm)
THEOREM FailureCorrect == Spec => []FailedLeavesNothing
<1> QED  BY Invariant, Strong, PTL

\* For every timeout: a launch outlasts its deadline by less than one read for
\* the request, one for each piece of the answer, and one sleep.  (devtools_url)
THEOREM DeadlineCorrect == Spec => []Prompt
<1> QED  BY Invariant, Strong, PTL

\* For every sequence of builder calls, any flags and tunings, and whatever the
\* controller's own environment: the caller's flags come first and unchanged, no
\* switch is added twice or beside one of theirs, every switch and every variable has
\* the value asked for last, no PROXY variable gets through, and the adapters' launch()
\* gives the same line.  (Launcher::build_args, build_env, merge_launch_args)
THEOREM LaunchCorrect == Spec => []LaunchedAsAsked
<1>1. Init => OptionsOK  BY InitOptions
<1>2. IInv /\ OptionsOK /\ [Next]_vars => OptionsOK'  BY NextOptions
<1>3. IInv /\ OptionsOK => LaunchedAsAsked  BY LineStrong, EnvStrong DEF LaunchedAsAsked
<1> QED  BY <1>1, <1>2, <1>3, Invariant, PTL DEF Spec
=============================================================================
