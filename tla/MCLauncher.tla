----------------------------- MODULE MCLauncher -----------------------------
(* Two ports, two launches of one launcher, three builder calls.           *)
EXTENDS Launcher

MCVar == {"PATH", "HTTP_PROXY", "https_proxy"}
MCProxyVar == {"HTTP_PROXY", "https_proxy"}
MCInherited == [v \in {"PATH", "HTTP_PROXY"} |-> "inherited"]
MCAssignment == {<<"PATH", "own">>, <<"https_proxy", "own">>}

\* By hand: a port, a policy of one's own, one switch each of two options.
MCHandFlag == {PortFlag("9223"), Flag("--webrtc-ip-handling-policy", "default"),
               Flag("--page-settle-quiet-window-ms", "250"), Flag("--captcha-solver", Bare),
               Flag("--fingerprint-os", "Linux")}
MCTuning == {[Untuned EXCEPT !.quiet_window_ms = "1500", !.min_chars = "64"],
             [Untuned EXCEPT !.timeout_ms = "20000", !.sample_interval_ms = "100",
                             !.pierce_shadow = TRUE]}

\* No port; the port changed later, by the call or by hand.
Ports(ps) == [i \in DOMAIN ps |-> [op |-> "remote_debugging_port", arg |-> ps[i]]]
MCLaunched == {<<>>, Ports(<<"9223", "9222">>),
               Append(Ports(<<"9222">>), [op |-> "arg", arg |-> PortFlag("9223")])}
=============================================================================
