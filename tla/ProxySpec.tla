----------------------------- MODULE ProxySpec -----------------------------
(***************************************************************************)
(* From the proxy a caller writes to the server and the credentials in the *)
(* two commands: core.rs, core.js and core.py.  A proxy is given as a URL, *)
(* as separate fields, or as a ProxySpec; each client parses it, refuses   *)
(* what it cannot register, sends Target.setProxyCredentials, and has a    *)
(* driver send Target.createBrowserContext, which Playwright rewrites.     *)
(*                                                                         *)
(* A text is a sequence of tokens: words, numbers, percent escapes,        *)
(* "U+00DF" for a label that is not ASCII, and the marks the clients look  *)
(* for.  A result is a set of at most one value: none is an error, or an   *)
(* absent field.                                                           *)
(***************************************************************************)
EXTENDS SequencesExt

CONSTANTS Clients,                                \* the clients to consider
          Lead, Scheme, Login, Host, Port, Rest,  \* what a caller may write,
                                                  \* part by part
          Explicit,                               \* credentials in fields
          TooLong                                 \* tokens over the length bounds

VARIABLES client,      \* "rust", "node" or "python"
          written,     \* the parts of the text the caller wrote
          form,        \* what it is given as
          given,       \* the credentials beside it
          step,
          spec,        \* the ProxySpec in use
          registered,  \* params of Target.setProxyCredentials
          created      \* params of Target.createBrowserContext

input == <<client, written, form, given>>
vars == <<input, step, spec, registered, created>>

Marks == {"://", ":", "@", "/", "?", "space", "quote"}

ASSUME ClientsAssumption == Clients \subseteq {"rust", "node", "python"}
ASSUME LeadAssumption == \A l \in Lead : l = <<"quote">> \/ l \in Seq({"space"})
ASSUME SchemeAssumption ==
  \A s \in Scheme : s # <<>> =>
    s \in Seq(STRING) /\ Len(s) = 2 /\ s[1] \notin Marks /\ s[2] = "://"
ASSUME HostAssumption == \A h \in Host : h \in Seq(STRING) /\ ToSet(h) \cap Marks = {}
ASSUME PortAssumption ==
  \A p \in Port : p \in Seq(STRING) /\ Len(p) < 2 /\ ToSet(p) \cap Marks = {}
ASSUME RestAssumption ==
  \A r \in Rest : r \in Seq(STRING) /\ (r # <<>> => r[1] \in {"/", "?"})
\* As a URL has it: "/" and "?" are escaped, and so is ":" in a username.
ASSUME LoginAssumption ==
  \A login \in Login :
    /\ login \in [username : SUBSET Seq(STRING), password : SUBSET Seq(STRING)]
    /\ \A u, v \in login.username : u = v
    /\ \A p, q \in login.password : p = q
    /\ \A u \in login.username : /\ ToSet(u) \cap {"/", "?", "://", ":"} = {}
                                 /\ u # <<>> => u[1] # "space"
    /\ \A p \in login.password : ToSet(p) \cap {"/", "?", "://"} = {}
ASSUME ExplicitAssumption ==
  Explicit \subseteq [username : SUBSET Seq(STRING), password : SUBSET Seq(STRING)]

Http == <<"http", "://">>
Special == {"http", "https"}
DefaultPort(scheme) == IF scheme = "http" THEN "80" ELSE "443"
Lower(token) == CASE token = "HTTP" -> "http" [] token = "GW" -> "gw" [] OTHER -> token

\* A WHATWG URL parser's host: decoded, lowered, in Punycode; but never with a
\* character in it that no host has, escaped or not.
HostToken(t) == CASE t = "%61" -> "a" [] t = "U+00DF" -> "xn--zca" [] OTHER -> Lower(t)
Domain(host) == [i \in DOMAIN host |-> HostToken(host[i])]
Forbidden == {"space", "%20", "%2F", "%40", "%", "%FF", "U+FFFD"}

\* An escape, read once; what is none is left as it is.
Unescaped(t) == CASE t = "%61" -> "a" [] t = "%20" -> "space" [] t = "%2F" -> "/"
                  [] t = "%40" -> "@" [] OTHER -> t

From(text, i) == SubSeq(text, i, Len(text))
Trim(text) == LET solid == {i \in DOMAIN text : text[i] # "space"}
              IN IF solid = {} THEN <<>> ELSE SubSeq(text, Min(solid), Max(solid))

\* How many tokens of text are a scheme and its "://".
SchemePrefixLen(text) ==
  IF Len(text) > 1 /\ text[1] \notin Marks /\ text[2] = "://" THEN 2 ELSE 0

WithScheme(text) == IF SchemePrefixLen(text) > 0 THEN text ELSE Http \o text

Authority(rest) ==
  LET end == SelectInSeq(rest, LAMBDA t : t \in {"/", "?", "://"})
  IN IF end = 0 THEN rest ELSE SubSeq(rest, 1, end - 1)

\* The parts of a text that has a scheme; user info is not among them.
Parts(text) ==
  LET authority == Authority(From(text, 3))
      at == SelectLastInSeq(authority, LAMBDA t : t = "@")
      hostport == From(authority, at + 1)
      colon == SelectInSeq(hostport, LAMBDA t : t = ":")
  IN [scheme |-> Lower(text[1]),
      host |-> IF colon = 0 THEN hostport ELSE SubSeq(hostport, 1, colon - 1),
      port |-> IF colon = 0 THEN <<>> ELSE From(hostport, colon + 1)]

PortPart(port) == IF port = <<>> THEN <<>> ELSE <<":">> \o port

\* A server as it is sent: a default port left out.
Rendered(scheme, host, port) ==
  <<scheme, "://">> \o
  (host \o PortPart(IF scheme \in Special /\ port = <<DefaultPort(scheme)>> THEN <<>> ELSE port))

\* A WHATWG URL parser's scheme://host[:port] of a text with a scheme.
Whatwg(text) ==
  LET url == Parts(text)
      special == url.scheme \in Special
      forbidden == special /\ ToSet(url.host) \cap Forbidden # {}
  IN IF url.host = <<>> \/ forbidden \/ "bad" \in ToSet(url.port) THEN {}
     ELSE {Rendered(url.scheme, IF special THEN Domain(url.host) ELSE url.host, url.port)}

\* Playwright's normalizeProxySettings.
Playwright(text) ==
  IF SchemePrefixLen(Trim(text)) > 0 /\ Whatwg(Trim(text)) # {}
  THEN Whatwg(Trim(text)) ELSE Whatwg(Http \o text)

NormalizeRust(text) ==
  LET raw == Trim(text)
      unreadable == SchemePrefixLen(raw) = 0 /\ Contains(raw, "://")
  IN IF raw = <<>> \/ unreadable THEN {} ELSE Whatwg(WithScheme(raw))

NormalizeNode(text) == Whatwg(WithScheme(Trim(text)))

Decode(text) == [i \in DOMAIN text |-> IF text[i] = "%FF" THEN "U+FFFD" ELSE Unescaped(text[i])]

\* _canonical_host(): decoded, IDNA2003, lowered, and not looked at again.
PythonHost(host) ==
  LET read == Decode(host)
      ascii == IF "U+FFFD" \in ToSet(read) THEN read ELSE ReplaceAll(read, "U+00DF", "ss")
  IN [i \in DOMAIN host |-> Lower(ascii[i])]

\* urlsplit() and _canonical_host(): a missing host is no error.
NormalizePython(text) ==
  LET raw == Trim(text)
      whole == SchemePrefixLen(raw) > 0 /\ Authority(From(raw, 3)) # <<>>
      url == Parts(IF whole THEN raw ELSE Http \o raw)
  IN IF "bad" \in ToSet(url.port) THEN {}
     ELSE {Rendered(url.scheme, PythonHost(url.host), url.port)}

\* normalize_server, per client.
NormalizeServer(text) ==
  CASE client = "rust" -> NormalizeRust(text)
    [] client = "node" -> NormalizeNode(text)
    [] client = "python" -> NormalizePython(text)
-----------------------------------------------------------------------------
Undecodable == CASE client = "rust" -> {"%FF"}
                 [] client = "node" -> {"%FF", "%"}
                 [] client = "python" -> {}

\* A ProxySpec, if there is a server for it.
Option(server, username, password) ==
  {[server |-> s, username |-> username, password |-> password] : s \in server}

\* Where the credentials in a text may begin and how far they may reach.
LoginStart(text) ==
  IF client = "python" THEN SelectInSeq(text, LAMBDA t : t = "://") ELSE SchemePrefixLen(text)

\* Mutant: the last "@" of the whole text ends the credentials.
MutReachesEnd(text) == Len(text)

LoginReach(text) ==
  IF client = "python" THEN Len(text)
  ELSE LoginStart(text) + Len(Authority(From(text, LoginStart(text) + 1)))

\* A URL, with or without credentials.
ParseText(text) ==
  LET raw == IF client = "python" THEN text ELSE Trim(text)
      start == LoginStart(raw)
      at == SelectLastInSubSeq(raw, IF client = "python" THEN 1 ELSE start + 1,
                               LoginReach(raw), LAMBDA t : t = "@")
      login == SubSeq(raw, start + 1, at - 1)
      colon == SelectInSeq(login, LAMBDA t : t = ":")
      username == IF colon = 0 THEN login ELSE SubSeq(login, 1, colon - 1)
  IN IF at = 0 THEN Option(NormalizeServer(raw), {}, {})
     ELSE IF ToSet(login) \cap Undecodable # {} THEN {}
     ELSE Option(NormalizeServer(SubSeq(raw, 1, start) \o From(raw, at + 1)),
                {Decode(username)},
                IF colon = 0 THEN {} ELSE {Decode(From(login, colon + 1))})

\* Rust's ProxySpec::new, a Python dict, a Node object.
ParseFields(text, username, password) ==
  LET embedded == username = {} /\ password = {} /\ "@" \in ToSet(text)
  IN IF client # "node" /\ embedded THEN ParseText(text)
     ELSE IF client = "python" /\ text = <<>> THEN {}
     ELSE Option(NormalizeServer(text), username, password)

\* A ProxySpec the caller made: no such thing in Rust, as it is in Node,
\* its server normalized again in Python.
ParseSpec(text, username, password) ==
  Option(IF client = "node" THEN {text} ELSE NormalizeServer(text), username, password)

The(option) == CHOOSE value \in option : TRUE

\* An empty username counts as none.
Authenticated(login) == login.username \notin {{}, {<<>>}} /\ login.password # {}

CheckRegistrable(s) ==
  /\ Authenticated(s)
  /\ SchemePrefixLen(s.server) > 0 /\ Lower(s.server[1]) \in Special
  /\ client = "rust" => \A text \in {s.server} \cup s.username \cup s.password : ToSet(text) \cap TooLong = {}

CredentialsParams(s) ==
  [proxyServer |-> s.server, username |-> s.username, password |-> s.password]
-----------------------------------------------------------------------------
\* user[:password]@
UserInfo(login) ==
  IF login.username = {} THEN <<>>
  ELSE The(login.username)
       \o (IF login.password = {} THEN <<>> ELSE <<":">> \o The(login.password)) \o <<"@">>

\* The text of the parts, put together.
Text(w) ==
  w.lead \o (w.scheme \o ((UserInfo(w.login) \o (w.host \o PortPart(w.port))) \o w.rest))

NoLogin == [username |-> {}, password |-> {}]

Written == {w \in [lead : Lead, scheme : Scheme, login : Login, host : Host, port : Port, rest : Rest] :
              w.lead = <<"quote">> => w.scheme # <<>>}

Init == /\ client \in Clients
        /\ written \in Written
        /\ form \in IF client = "rust" THEN {"url", "fields"} ELSE {"url", "fields", "spec"}
        /\ given \in IF form = "url" THEN {NoLogin} ELSE Explicit
        /\ step = "given" /\ spec = {} /\ registered = {} /\ created = {}

Parsed == LET text == Text(written)
          IN CASE form = "url" -> ParseText(text)
               [] form = "fields" -> ParseFields(text, given.username, given.password)
               [] form = "spec" -> ParseSpec(text, given.username, given.password)

ParseProxy == /\ step = "given"
              /\ spec' = Parsed
              /\ step' = IF spec' = {} THEN "refused" ELSE "parsed"
              /\ UNCHANGED <<input, registered, created>>

Refuse == /\ step = "parsed" /\ ~CheckRegistrable(The(spec))
          /\ step' = "refused"
          /\ UNCHANGED <<input, spec, registered, created>>

Register == /\ step = "parsed" /\ CheckRegistrable(The(spec))
            /\ registered' = {CredentialsParams(The(spec))}
            /\ step' = "registered"
            /\ UNCHANGED <<input, spec, created>>

\* A driver that passes the server on, or Playwright.
CreateContext == /\ step = "registered"
                 /\ LET server == The(spec).server
                    IN created' \in {{server}, Playwright(server)}
                 /\ step' = "created"
                 /\ UNCHANGED <<input, spec, registered>>

Next == ParseProxy \/ Refuse \/ Register \/ CreateContext

Spec == Init /\ [][Next]_vars
-----------------------------------------------------------------------------
(* What the caller meant, part by part, without any parsing *)

Embedded == form = "url" \/ (form = "fields" /\ given = NoLogin)
Meant(text) == [i \in DOMAIN text |-> Unescaped(text[i])]

\* Credentials given beside the server are literal.
Credentials == IF ~Embedded THEN given
               ELSE [username |-> {Meant(u) : u \in written.login.username},
                     password |-> {Meant(p) : p \in written.login.password}]

Canonical == Rendered(IF written.scheme = <<>> THEN "http" ELSE Lower(written.scheme[1]),
                      Domain(written.host), written.port)

Tokens(login) == UNION {ToSet(t) : t \in login.username \cup login.password}

\* Rules that Rust alone states: lengths are bounded, and a text without a scheme
\* has no other "://" in it.
RustAccepts ==
  /\ (Tokens(Credentials) \cup ToSet(Canonical)) \cap TooLong = {}
  /\ written.scheme = <<>> => "://" \notin ToSet(written.rest)

\* An HTTP proxy with a user and a password, and nothing in it unreadable.
Registrable ==
  /\ written.lead # <<"quote">>
  /\ written.scheme # <<>> => Lower(written.scheme[1]) \in Special
  /\ written.host # <<>> /\ ToSet(written.host) \cap Forbidden = {} /\ written.port # <<"bad">>
  /\ Authenticated(Credentials)
  /\ Embedded => "%FF" \notin Tokens(written.login)
  /\ client = "rust" => RustAccepts

\* A proxy is registered exactly if it is one, for the server and with the
\* credentials the caller wrote, whatever the form, however the server is
\* spelled and wherever marks recur in it.  (parse_proxy; vectors.json asks it of
\* every client)
AsWritten ==
  /\ step \in {"registered", "created"} =>
       /\ Registrable
       /\ registered = {[proxyServer |-> Canonical, username |-> Credentials.username,
                         password |-> Credentials.password]}
  /\ step = "refused" => ~Registrable

\* The context is created for the very server that was registered, by any
\* driver: Playwright's rewriting finds nothing to change.  It is the only
\* way the browser matches the two.  (normalize_server, and the comment that
\* asks for it in each client)
SameBytes ==
  step = "created" => created = {r.proxyServer : r \in registered}

\* The inputs RULINGS.md records a client's wrong answer to, by its root causes,
\* and last two that it does not name: a mark before the scheme, and what Python
\* makes of white space or a second "://" where the scheme is left out.
Recorded ==
  \/ /\ client = "node"
     /\ \/ Embedded /\ "%" \in Tokens(written.login)                           \* E
        \/ Embedded /\ form = "fields" /\ written.login # NoLogin              \* F
        \/ form = "spec" /\ {Text(written)} # Whatwg(Canonical)       \* the worst
  \/ /\ client = "python"
     /\ \/ "U+00DF" \in ToSet(written.host)                                    \* A
        \/ Embedded /\ "@" \in ToSet(written.rest)                             \* B
        \/ ToSet(written.host) \cap Forbidden # {}                       \* C
        \/ written.host = <<>>                                                 \* D
        \/ Embedded /\ "%FF" \in Tokens(written.login)                         \* E
  \/ client # "rust" /\ written.lead = <<"quote">>
  \/ /\ client = "python" /\ Embedded /\ written.scheme = <<>>
     /\ written.lead # <<>> \/ "://" \in ToSet(written.rest)

\* Beyond what is recorded no client is wrong.  (conformance/check.py: any other
\* divergence is a failure)
Conforms == Recorded \/ (AsWritten /\ SameBytes)
=============================================================================
