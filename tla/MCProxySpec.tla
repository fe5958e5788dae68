---------------------------- MODULE MCProxySpec ----------------------------
(* One gateway, spelled in every way that matters.                           *)
EXTENDS ProxySpec

MCLead == {<<>>, <<"space">>, <<"quote">>}
MCScheme == {<<>>, <<"http", "://">>, <<"HTTP", "://">>, <<"https", "://">>, <<"socks5", "://">>}
MCHost == {<<>>, <<"gw">>, <<"GW">>, <<"%61", "gw">>, <<"U+00DF">>, <<"gw", "%20", "x">>,
           <<"gw", "%2F", "x">>, <<"gw", "%40", "x">>}
MCPort == {<<>>, <<"80">>, <<"443">>, <<"8080">>, <<"bad">>}
MCRest == {<<>>, <<"/">>, <<"?", "x", "://", "y">>, <<"?", "x", "@", "y">>,
           <<"/", "?", "x", "@", "y", "space">>}

Pair(u, p) == [username |-> {u}, password |-> {p}]
UserOnly == [username |-> {<<"u">>}, password |-> {}]
MCLogin == {NoLogin, UserOnly, Pair(<<>>, <<"p">>), Pair(<<"u">>, <<>>),
            Pair(<<"u", "%40">>, <<"p">>), Pair(<<"u">>, <<"p", "@", "s">>),
            Pair(<<"u">>, <<"p", ":", "s">>), Pair(<<"u">>, <<"p", "%40", "s">>),
            Pair(<<"u">>, <<"p", "%">>), Pair(<<"u", "%FF">>, <<"p">>),
            Pair(<<"u">>, <<"long">>)}
MCExplicit == {NoLogin, UserOnly, Pair(<<"u">>, <<"p", "%40", "s">>), Pair(<<"u">>, <<"long">>)}

Every == {"rust", "node", "python"}
Python == {"python"}

\* Nothing special, but a mark that recurs: http://u:p@gw/?x@y, or u and p beside it.
Nothing == {<<>>}
Plain == {<<"http", "://">>}
Gateway == {<<"gw">>}
Somebody == {NoLogin, Pair(<<"u">>, <<"p">>)}
InQuery == {<<>>, <<"/", "?", "x", "@", "y">>}
=============================================================================
