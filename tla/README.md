# TLA+ models of the Chromeleon clients

The repository holds three client libraries for the Chromeleon browser: Rust
(`rust/src`), Node (`node/src`) and Python (`python/chromeleon`). They add to a
CDP driver what the browser's per-context proxies need: a registration
handshake, a lock around it, warm connections, a cache of resolved proxy exits,
a wait for page completion, and a launcher. This directory models the parts of
them that have state and concurrency, checks the models with TLC, and proves
with TLAPS, for every size of the system, the types and the safety of all those
that keep a state, and that the three registration locks implement one.

Every module head names the source files it models; `PROJECT.json` gives for
each definition the lines it stands for, for each hazard the line where it
bites and the properties that cover it, and for each property a plausible bug
that breaks it.

## The system

| Component | State it keeps | Operations | What is hard | What makes it correct |
|---|---|---|---|---|
| Registration lock, Rust (`registration.rs`) | a map (connection, server) -> reference-counted async mutex | `acquire`, `acquire_blocking`, dropping the future, dropping a `Registration` (unlock, release, prune) | entries are removed while others look them up and wait; threads, tasks and cancellation | one holder per key; nobody left waiting on a mutex the map forgot; entries do not pile up |
| Registration lock, Node (`core.js`) | a map key -> tail promise | `withProxyRegistration` | callback order; deleting an entry a later call has replaced | first come first served; a drained key is forgotten |
| Registration lock, Python (`core.py`) | a map key -> `threading.Lock` | `proxy_registration` | a blocking acquire on an event loop's thread | one holder per key; every caller served |
| Adapters (`adapters.*`, `oxide.rs`) | none of their own | register, then create a context, under the lock | errors, cancellation and lost connections between the two commands; replies that never come | a context has its own caller's credentials; nothing stays registered; a call returns |
| Proxy parsing, normalization (`core.*`) | none | `parse_proxy`, `normalize_server`, `check_registrable`, the parameters of the two commands | the same marks mean different things in different places; three implementations and Playwright's rewriting must agree to the byte | what is registered is what the caller wrote; the context is created for the same bytes |
| Connection pool, Rust (`perf.rs`) | cursor, map endpoint -> slot (an async mutex around a cached connection) | `acquire`, `evict`, `drain` | two acquires of a cold endpoint; a connect that hangs or is dropped; `drain` next to both | one connect per endpoint; endpoints do not hold each other up |
| Connection pool, Python (`perf.py`) | cursor, map endpoint -> connection, no lock around either | `acquire`, `acquire_sync`, `aclose`, `close_sync` | two acquires of a cold endpoint | every connection is closed in the end |
| Geo cache (`perf.rs`, `perf.py`) | map key -> resolution with its time | resolve (hit, miss, store), `clear` | the resolver runs between the lookup and the store | a launch pins its own proxy's exit, observed recently enough |
| Settle watch (`settle.*`) | arming state, stale loaders, seen signals, the remembered answer | `arm`, events, `wait`, `close` | command, lifecycle events, deadline, cancellation and close race; replayed and foreign events | one answer, about the document the caller navigated to, in time |
| Launch arguments, environment (`launch.rs`, `captcha.rs`, `settle.rs`, `adapters.*`) | none | merge the options' switches with the caller's flags, drop proxy variables | Chromium takes the last of two equal switches; options come in any order | the browser is started as the caller asked, whatever the order of the calls |
| Launcher (`launch.rs`) | the builder's fields; the child process, deadline and open request of a launch | the builder's methods, `spawn_and_wait` | the child exits, or is late, while the launcher polls; the port is somebody else's, mute or dribbling | a failed launch leaves no child; a launch ends, soon after its deadline |
| Captcha events | none | decoding | - | stateless |

How they interact: an adapter call takes the registration lock of its (browser
connection, proxy server), sends `Target.setProxyCredentials`, then
`Target.createBrowserContext` on the same connection, and releases. The lock
exists because the browser keeps one pending registration per server and uses
it up at the next create (`rust/src/registration.rs:1-40`). The pool hands the connections out;
the geo cache decides the time zone of a launch; the settle watch runs on a
page session of a context made this way. The lock never sees the browser and
the browser never sees the lock, so the handshake is where they are composed.

## Modules

```
ProxyLock  <---- SlotRegistry (Rust)     MCLocks,          SlotRegistryProofs
 abstract  <---- PromiseChain (Node)     MCLocks,          PromiseChainProofs
 lock      <---- ThreadLock   (Python)   MCThreadLock (and MCThreadLockApart), ThreadLockProofs
     \
      v
Browser ----> ProxyHandshake             MCProxyHandshake, ProxyHandshakeProofs
ProxySpec                                MCProxySpec,      ProxySpecProofs
ConnectionPool                           MCPerf,           PerfProofs
GeoCache                                 MCGeoCache, MCPerf, PerfProofs
PythonPool                               MCPythonPool
Page -------> SettleWatch                MCSettleWatch,    SettleWatchProofs
LaunchArgs -> Launcher                   MCLauncher,       LauncherProofs
```

`LockKeys` declares the keys that SlotRegistry and PromiseChain have in common. `MCLocks`
and `MCPerf` each put two components that share no state into one run, by a variable that is
set initially and says whose behaviour it is, with the other at rest. Every property is then
checked of its own component exactly as in a run of its own, and holds trivially of the
other's behaviours. To be extended together, the components have names of their own:
`ChainInit`, `ChainNext`, `ChainSpec`, `ChainTypeOK`, `ChainImplementsProxyLock` are
PromiseChain's, `GeoInit`, `GeoNext`, `GeoSpec`, `GeoTypeOK` GeoCache's.

**ProxyLock** is what the three registration locks promise: per key, a set of
waiters and at most one caller inside; enter, leave, or give up.

**SlotRegistry** is the Rust map of mutexes. `Prepare` is `prepare()` under the
map lock; `Lock` and `Cancel` are the two ends of the await; the destructor of a
`Registration` is three steps, `Unlock`, `ReleaseArc`, `Prune`, because other
threads run between them. A slot is the identity of a mutex and is free again
when nothing refers to it, as memory behind an `Arc` is, so the reference count
is not a counter but the set of owners, and the model is not bounded.

**PromiseChain** is Node's chain, one step per callback: `Enqueue` is the call,
`PrevSettles` the end of its await, `BodySettles` the `finally`, `TailSettles` what follows
from it. A caller's tail promise is named after the caller and is garbage when neither map nor waiter holds it.

**ThreadLock** is Python's lock with what matters about it: which thread a task
runs on, and whether it gives the thread up inside the body. What keeps it from
deadlocking is up to the program: `KeysOf` is what each task opens contexts for,
`Turns` the loops whose tasks take turns (`MayCall`), and `Apart` the condition on the
two under which everybody is served.

**Browser** (external) is Chromeleon's registration table as the clients rely
on it, both generations: the older refuses a second registration for a pending
server, the newer defers it; a `credentialsId` makes a registration independent;
commands of one connection are processed in order; a lost connection drops what
it had pending. Nothing of it is in this repository: it is read from the
handshake's comments, docs and tests, and every result of `ProxyHandshake`
depends on it.

**ProxyHandshake** runs every adapter's call over the abstract lock (whatever
holds for it holds over all three implementations, which refine it) and against
`Browser`. Adapters differ in two constants: registering over an attached CDP
session (Playwright, Puppeteer: `Attached`, `Detached`, `Cleanup`) and passing a
`credentialsId` (oxide). A third, `Loops`, is for the asyncio adapter: a task of a loop
that is queued for the lock has the loop's thread, so no other task of it takes a step
(`LoopIsFree`). Refusals, failed creates, cancellation before and
inside the lock, and lost connections are actions.

**ConnectionPool** is `BrowserPool`: `Acquire` is the code up to the first await,
`Lock` the end of the wait, then `Reuse`, or `Connected` / `ConnectFails` /
`CancelWait`; `Detach`, `DrainSlot`, `DrainReturn` are `drain`, slot by slot.

**PythonPool** is the Python `BrowserPool`, which has a lock around its cursor and
none around its connections: `Acquire` is the code up to the connector,
`Connected` the store after it, `Close` .. `CloseReturns` the loop of `aclose`.

**ProxySpec** goes from what a caller writes to the parameters of the two commands,
for the three clients (variable `client`). A text is a sequence of tokens: words,
numbers, escapes, and the marks the clients look for (`://` `:` `@` `/` `?`, white
space, and `quote`, which stands for anything else that is no part of a URL). The escapes
are `%61` (a letter), `%20`, `%2F`, `%40`, `%FF` (not UTF-8) and a stray `%`; `U+00DF`, a label
in which IDNA2003 and UTS-46 differ, stands for those that are not ASCII. The parsing is a composition of
pure operators, `ParseText`, `ParseFields`, `ParseSpec` over `NormalizeRust`,
`NormalizeNode`, `NormalizePython`, each branch as in its source. The properties
compare it with the parts the text was put together from, without any parsing.
`AsWritten` and `SameBytes` make no exception for any client. Node and Python break
them, in ways the repository knows: `Recorded` collects the root causes of
`conformance/RULINGS.md`, and two kinds of text beside them, so that `Conforms` can say that there
are no others. That the code is wrong on what is recorded is shown by a run for the cause
`conformance/README.md` names first, Python's search for the `@`; for the others by taking their
clause out of `Recorded`, upon which TLC finds `Conforms` violated.
`Parts`, what the URL parsers do, and `Playwright`, the rewriting that the comments
of `normalize_server` describe, are external.

**GeoCache** is both clients' caches, by the variable `client`: the Rust key is the
whole proxy, the Python key the server alone; `OwnExit` asks the same of both, and the
Rust source calls Python's key a bug; `OwnExitInRust` is the half that holds. Looking up, resolving and storing
are separate steps on a clock.

**Page** (external) is one page session: documents, main-frame and iframe
lifecycle events in an ordered feed, the replay of the incumbent document, and
the verdicts `Chromeleon.waitForSettle` can give. **SettleWatch** is the five
watches (Rust async and blocking, Node, Python sync and asyncio); the variable
`client`, chosen initially, picks the implementation, and the actions branch
only where the sources differ: which loaders are written off while arming,
whether a new document restarts the evidence (`Keep`, `Restart`), when events
are read, which replies fall back or raise, what cuts a command off, who shares
a pending wait, and who closes the watch afterwards. `close()` of the async Rust
watch is two steps, because it awaits a command before it detaches; a close
whose future is dropped in between (`CancelClose`) leaves the session attached.
`wait()` of Node closes the watch on its way out and awaits `detach()` for it: the wait is
"closing" until the browser answers (`Detached`). A reply comes bare, as the drivers hand
it over, or in the envelope of a raw DevTools socket.

**LaunchArgs** is the command line and the environment as pure operators: a flag is
a switch name and a value, which is as far as the clients look into one.
`BuildArgs` is the Rust launcher's, in two merges; `AdapterArgs` is `launch()` of
the Node and Python adapters, in one.

**Launcher** is the builder, one action per method, and `spawn_and_wait`, from any
number of threads: `Spawn`, then `Poll` (the head of the loop and the connect),
`Answer` or `TimesOut` (one request), `Wake` (the pause), and after the deadline
`Kill` and `Reap`. The browser's side (`Listen`, `Dies`) and other processes on the
port (`Piece`, `StrangerLeaves`) are external. `calls` is a history variable: the
properties work out from it what was asked for. Timers count down with `Tick`,
which waits for the launches that have something to do: a step takes no time next
to a tick of the timers. The number of pieces a stranger's answer comes in
(`MaxPieces`) is the one bound that stands for something the code leaves open.

## Runs

| Run | Question | Bounds |
|---|---|---|
| `locks` | Does the Rust slot map exclude, keep waiters on the map's mutex, leave entries behind only after a cancellation, and serve every waiter? Is Node's chain a FIFO lock that forgets drained keys (the last part of its `ChainTypeOK`) and serves every caller? Do both implement `ProxyLock`? | Rust: 3 tasks, 2 keys, 5 mutexes; Node: 4 calls, 2 keys |
| `thread_lock_apart` | Is everybody served where the program keeps to `Apart`? | 2 loops of 2 tasks, a task on a thread, 2 keys; one loop's tasks use different keys, the other's take turns |
| `thread_lock_together` | ... where two tasks of a loop share a key? (violated) | 2 tasks of one loop, 1 key |
| `proxy_handshake` | Does every context get its own caller's credentials, is nothing left pending, is nobody refused or deferred but after an abandoned registration, and does every call return, unless it is one of two of an asyncio loop that meet on a key? | 3 calls: two of one asyncio loop, one plain or with an id, as the browser allows; 1 connection, 2 servers; both browsers |
| `perf` | In the Rust pool, is there one connect per endpoint, no endpoint's connection at another, and does everything return that does not depend on a hanging endpoint? Is what a launch pins sanitized, no older than its ttl and one resolver run, and, in Rust, its own exit? | Pool: 2 tasks, 2 endpoints, one hanging; 4 slots, 4 connections. Geo cache: 2 calls; 1 server, with a user and without; ttl 0 or 1, resolver 1 tick, clock to 2 |
| `geo_cache_python` | ... and in Python? (violated) | the same calls |
| `python_pool_close` | Does `aclose` close every connection the pool made? (violated) | 2 tasks, 2 endpoints, 4 connections |
| `settle_watch` | Do all five watches give one answer, about a document of this navigation, a wall for a wall, the weak signals only at the end, in time, releasing the session once? | 2 waits, 2 documents, 2 events on their way |
| `settle_watch_overlap` | Do overlapping asyncio waits get one answer? (violated) | 2 waits, 1 document |
| `launcher` | Is the browser started as asked, whatever the order of the builder's calls; does a launch end soon after its deadline; does a failed one leave nothing? | 2 launches, 2 ports, 3 builder calls; deadline 3 ticks, read 2, pause 1; a stranger on one port, its answer in 2 parts |
| `proxy_spec` | Is what a client registers what the caller wrote, and the context created for the same bytes, in Rust always, in Node and Python outside the inputs `Recorded`? | every combination of 3 beginnings, 5 schemes, 11 credentials, 8 hosts, 5 ports, 5 tails, as a URL, as fields beside 4 credentials, and as a `ProxySpec` |
| `proxy_python_split` | ... and in Python, with a mark in the query? (violated) | an `@` in the query of `http://gw`, with credentials in it, beside it, or none |

Why these bounds are enough. Three acquirers are what the registry's races need:
one that holds, one that waits, one that arrives while the entry is pruned; five
mutexes mean allocation never lacks one (at most one live per task and per key),
and slots are reused, which is what a prune that forgets a waiter would exploit.
Four calls put a queue three deep on one key. The handshake has calls over a session, plain and with an id, and two of them
can meet on a key while the third leaves a registration behind; the two over a session share an
asyncio loop, so that one can block the other, on its own key or on another. Two pool tasks can meet on a cold slot, one drained or
evicted under the other; the cursor wraps at 2, so that wrap-around is reached
at once. In the geo cache two calls with different ttls can overlap with a clear
and an expiry: an entry stored with ttl 1 is still there when a call with ttl 0 looks, and the clock
goes on to where it has expired. Two loops and two servers are the smallest ring of tasks in which no loop is in
its own way; a third loop would make it longer. Two waits are one that answers and one that comes before,
during, or after it; two documents are a redirect; with two events on their way
a signal can still be unread when the next document commits. Three builder calls
are enough to tune an option, turn it off and on again, and to put a flag by hand
before and after it; launches start from the histories that differ in the port (none,
the option changed, a flag by hand that overrules it), because a launch looks at
nothing else. The deadline is longer than a read and a pause, so that a
launch can poll, read in vain, pause and poll again before it passes. The tokens of
`proxy_spec` hold every mark a client searches for, in every place it may
stand: before the scheme, in a username, a password, a path, a query; and every kind of escape
where the clients treat it differently.

Deadlock is checked in `locks`, `thread_lock_apart`, `perf` and
`geo_cache_python`. It is not in the run whose point is a deadlock, nor where the system stops: a handshake task makes one call,
a watch spans one navigation, a launch comes to its end, a proxy is given once, the
pool is closed.

Of the three clients' parsing the Python one was also run: `parse_proxy` of
`python/chromeleon/core.py` and `Parsed` give the same result on all the Python
inputs of the run, its wrong answers included.

### Fairness

Liveness is only claimed where the scheduling justifies it.

- `SlotRegistry`: the holder's destructor runs (WF); `async-lock` is eventually
  fair, it hands the mutex to a starved waiter, hence SF for `Lock`. Nobody has
  to acquire or cancel.
- `PromiseChain`: the event loop runs every ready callback, and a body ends (WF).
- `ThreadLock`: the operating system schedules every thread and gives a released
  lock to each waiter in the end; an unblocked loop polls each ready task (SF). Under this
  alone callers are not served (finding 1, and crossed loops below): what else it takes is `Apart`.
- `ProxyHandshake`: ready tasks are polled, the browser answers commands and
  bounds a deferral, and the lock serves its waiters: SF for `LoopIsFree(t) /\ Enter(t)`, a
  lock that is free again and again, with the task's loop not blocked. `locks` shows it of
  the Rust and Node locks and `thread_lock_apart` of Python's where its condition holds,
  which threads meet by themselves. Asyncio tasks need not: `Loops` says that a queued task
  blocks its loop, the two in the run do, and `CallsReturn` claims nothing of a key on which
  one of them is queued for what the other holds (`Stuck`). Everybody else returns. A Playwright
  connection lives on one loop, so that loops do not cross in an adapter.
  Giving up, failing to start and closing are never forced.
- `ConnectionPool`: as for the registry; `drain` has no await to be parked at; a
  connect ends except at a hanging endpoint.
- `Launcher`: the thread that launches runs, and time passes (WF). No peer need ever
  answer, the browser need not listen, and nobody need leave a port.
- `SettleWatch`: time passes and a wait that can end ends. The browser is *not*
  assumed to answer the command, except to the two blocking watches, whose docs
  say that they depend on it, nor ever to answer `detach()`.

### What the runs found

1. `thread_lock_together`: two asyncio tasks of one loop on one (browser,
   server). The first awaits inside the lock, the second blocks the loop's thread
   in `threading.Lock.acquire`, and the first can never resume
   (`python/chromeleon/core.py:312`). `new_proxy_context_async` does this
   (`python/chromeleon/adapters.py:160`): with `CallsReturn` as strong as for the other adapters,
   without `Stuck`, TLC finds both calls of `proxy_handshake`'s loop waiting for ever.
2. `settle_watch_overlap`: `AsyncSettleWatch.wait` remembers only a finished wait.
   Two that overlap each send the command and return different answers
   (`python/chromeleon/settle.py:647`); Node shares the pending wait, and Rust's
   `&mut self` rules it out.
3. `python_pool_close`: two tasks find an endpoint cold, both connect, and the second
   stores over the first; `aclose()` returns with that connection open
   (`python/chromeleon/perf.py:226`).
4. `geo_cache_python`: the Python cache is keyed on the server alone, and one user's launch
   pins another user's exit (`python/chromeleon/perf.py:137`, and `rust/src/perf.rs:100-105`, which
   calls it a bug).
5. `proxy_python_split`: Python takes the last `@` of the whole text for the end of the
   credentials (`python/chromeleon/core.py:239`); with one in the query, the server is what follows
   it (`conformance/vectors.json` s49).

Seen while modelling, and in the models as the code has it, so that no property
claims otherwise:

- Registry: a cancelled `acquire` leaves its entry in the map until the key is used
  again (`OnlyCancellationLeaks` says that nothing else does).
- Rust pool: `drain` skips any slot it cannot lock at once, also a warm one whose lock
  an `acquire` holds for a moment, and misses its connection (`perf.rs:435`; the comment
  speaks of a slot mid-connect).
- Geo cache: an answer asked for before `clear()` is stored after it (`perf.rs:215`), in both
  clients.
- Python lock: it is not enough that the tasks of each loop keep to different servers.
  Two loops that share them cross, each blocked for the lock that a suspended task of the other
  holds; so `Apart` relates the tasks of all loops. In an adapter loops do not meet on a connection, so this
  takes a program that uses the core with a transport of its own.
- Settle watch, Node: it looks for an error in the envelope of a raw DevTools socket and for nothing
  else (`settle.js:591`, although `settle.js:583-584` has both forms mean the same): `fromReply`
  finds no outcome at its top, and a wall reads as a timeout that is not blocked, where Rust and
  Python take the result out of the envelope (`python/tests/unit/test_settle.py:257`). `WallsTold` is about
  answers in which the client found an outcome, and so is silent on Node's envelopes.
- Settle watch, Node: `wait()` awaits `session.detach()` before it returns, without a deadline
  (`settle.js:549-551`), although `settle.js:427-429` says that it never runs past `timeoutMs`: a
  browser that does not answer keeps the caller. `WaitsDecided` says that the result is there in
  time, and not that `wait()` returns.
- Settle watch: the Python watches leave the session they attached when arming fails,
  where Rust and Node detach it; after a redirect the Rust and Python fallbacks keep
  the signals of the first document, where Node starts over, and `OwnDocument` says so
  client by client; a fallback answer never knows that the page is a wall. A
  close of the Rust watch that is dropped half way leaves the session attached for good.
  `SessionReleased` asks nothing of that case, nor of Python's failed arm: no doc promises it.
- Launcher: a launch whose port another process holds returns that process's endpoint
  beside a child that listens nowhere. The doc of `spawn_and_wait` ends "the child is
  yours to reap either way" (`launch.rs:444`); after a timeout the code has reaped it.
- Proxies, by the root causes of `conformance/RULINGS.md`, which `Recorded` names. Node: a stray `%` in
  the credentials is refused (E, `core.js:158`); an object's embedded credentials are dropped (F,
  `core.js:136`); a `ProxySpec` is not normalized ("the worst of the lot", `core.js:131`). Python:
  IDNA2003 (A, `core.py:184`); the `@` of finding 5 (B); a decoded host is not looked at again (C,
  `core.py:173`); a missing host is no error (D, `core.py:211`); an escape that is not UTF-8 is
  replaced (E, `core.py:249`).
- Proxies: `RULINGS.md` does not name two kinds of text, so `Recorded` has them beside its
  causes. With something unreadable before the scheme, Node and Python put `http://` before it
  and take the scheme for the host; only Rust refuses. And without a scheme, Python puts leading
  white space into the username, and takes a `://` in the query for the scheme's. Rust has
  two rules of its own (`RustAccepts`): it bounds the lengths, and refuses a text without a
  scheme that has a `://` further on.

## What is proved

Each component's proofs are in a module of their own, `<Component>Proofs`, which
extends the component's module; the two components of `perf.rs` share
`PerfProofs`, which extends both, and therefore the cache's definitions have names of their own. The results hold for any sets of tasks, keys, slots,
connections, ports and flags, any timeouts, and any bound; the assumptions are the named
`ASSUME`s of the modules, which say that null values are not members, that counts and times
are naturals, that one constant is a subset of another, that no option's value is the
one that stands for an option not given, and, for `ProxySpec`, what may stand where in a URL. Each module has the
same plan: an inductive invariant `IInv`, one lemma per action (and one step per conjunct
under it), `Invariant == Spec => []IInv`, and the theorems from it. Each `IInv` was
an invariant of its component's run before it was proved.

| Module | Theorem | States |
|---|---|---|
| `SlotRegistryProofs` | `TypeCorrect`, `Exclusion`, `NeverStranded`, `NoOtherLeak`, `Refinement` | `TypeOK`, `MutualExclusion`, `NobodyStranded`, `OnlyCancellationLeaks`, `ImplementsProxyLock` |
| `PromiseChainProofs` | `TypeCorrect`, `InOrder`, `Refinement` | `ChainTypeOK`, `FirstComeFirstServed`, `ChainImplementsProxyLock` |
| `ThreadLockProofs` | `TypeCorrect`, `Refinement` | `TypeOK`, `ImplementsProxyLock` |
| `ProxyHandshakeProofs` | `TypeCorrect`, `CredentialsCorrect`, `PendingAccounted`, `Undisturbed` | `TypeOK`, `OwnCredentials`, `NothingLeftPending`, `DisturbedOnlyByLeftover` |
| `ProxySpecProofs` | `Conformance`, `WrittenCorrect`, `BytesCorrect` | `Conforms`; `AsWritten` and `SameBytes` where `Clients \subseteq {"rust"}` |
| `PerfProofs` | `TypeCorrect`, `OneConnection`, `EndpointsApart` | `TypeOK`, `SingleFlight`, `NoCrossEndpoint` of `ConnectionPool` |
| `PerfProofs` | `GeoTypeCorrect`, `ExitCorrect`, `AgeCorrect` | `GeoTypeOK`, `OwnExitInRust`, `BoundedAge` of `GeoCache` |
| `SettleWatchProofs` | `TypeCorrect`, `SourceCorrect`, `WallsCorrect`, `ReleaseCorrect`, `SharedAnswer`, `AnswerCorrect`, `FallbackCorrect` | `TypeOK`, `OwnDocument`, `WallsTold`, `SessionReleased`, `Shared => OneAnswer`, `OneAnswer`, `LastResort` |
| `LauncherProofs` | `TypeCorrect`, `FailureCorrect`, `DeadlineCorrect`, `LaunchCorrect` | `TypeOK`, `FailedLeavesNothing`, `Prompt`, `LaunchedAsAsked` |

**SlotRegistry.** `MutualExclusion` is not inductive: two holders of one key are
impossible only because both would hold the one mutex the map has for it. So the
invariant says where everybody's mutex is:

    IInv == TypeOK /\ NoOrphans /\ Distinct /\ HoldersLock /\ LockedHasHolder

`NoOrphans`: who waits on, holds or has just unlocked a key has the mutex the map
holds for it. `Distinct`: two keys never share a mutex. `HoldersLock`: a
holder's mutex is locked, and no two tasks hold the same one. `LockedHasHolder`:
a locked mutex that is reachable has a holder. `Prepare` keeps them because it
takes the map's mutex or a fresh one, which nobody refers to and which is
therefore unlocked; `Lock` because it needs the mutex unlocked; `Prune` because
it removes an entry only when the map is its only owner, so that nobody is left
to be orphaned, and this is the step that the invariant is needed for.
`OnlyCancellationLeaks` needs in addition that the last to leave a key prunes it.

**PromiseChain.** The code keeps its queue only as links, each call awaiting the tail of
the one before. The invariant has the whole queue (the history variable `arrivals`):
everyone waiting or inside is in it, once (`HasPlace`, `Once`), each but the first awaits
the call before him, the first awaits nothing or something settled (`BehindPrevious`), and the
map names the last (`LastInChain`). That a tail is only reused when nobody can
await it (`SettledWhenOver`) closes the argument.

**ThreadLock.** A task inside a key, suspended or not, is the holder of its lock. Nothing
depends on who blocks whom: the lock deadlocks where tasks of one loop share a
key or loops cross, but it never lets two of them in.

The three `Refinement` theorems map a request, entering, leaving and giving up to those of
`ProxyLock` and everything else to stuttering; that entering finds nobody inside is
the exclusion proved first. They are what entitles `ProxyHandshake` to use the
abstract lock.

**ProxyHandshake.** `IInv == TypeOK /\ Alone /\ Flow`, where `Alone` is the lock's promise and
`Flow` follows every registration from the wire over the browser's slot, or the queue
before it, to the create that uses it up. A create is on the wire only while the slot
holds its own caller's registration (`CommandOK`), and only that create, or the loss of
the connection, frees the slot. No create passes a registration on its key that was not left behind
(`NotOvertaken`), so that nobody is refused behind a call that is merely slow. The
results are as good as `Browser`, which is external.

**ProxySpec.** The run enumerates the texts of a few parts; the proof has none but the
grammar: `Lead` is white space or something unreadable, `Scheme` a word and `://`, `Login` an
optional username and password in which `/`, `?` and `://` are escaped (and `:` in a username),
`Host` and `Port` have no mark in them, `Rest` begins with `/` or `?` and may hold every mark. Parts
may be of any length and from any vocabulary. Without these assumptions "what the caller
meant" is not defined: a username with a bare `/` is a host to every reader of the text.

The steps of the machine are simple, and what is hard is one step, `ParseProxy`: that three parsers
which cut the same text at different marks, from different ends, find the parts again. The lemmas
follow the way of a text. *Searches*: the first or last mark of a kind is the one put there, since
the parts before or behind have none (`AuthorityIs`, `ColonIs`, `AtIs`, `PrefixIs`). *Trimming* takes the
white space before the text and at the end of its rest, and no other (`TrimWhole`). *Servers*: each
client's normalization gives the rendering of scheme, host and port whatever the credentials are
(`ServerIs`, by client). *Credentials* are found in the authority by Rust and Node (`FoundInAuthority`) and
between the first `://` and the last `@` of the whole text by Python (`FoundInText`, with what
that client needs of a text: `Plain`), and cutting them out leaves the text of the other parts
(`FoundLogin`, `ServerLeft`). `ParseTextIs` puts these together, `LoginIs` and `DecodeIs` say what comes out of
the credentials, and `ParsedIs` covers the three forms and the unreadable lead: what is parsed is
`Sound`, that is, it passes `CheckRegistrable` exactly if it is `Registrable`, and is then the
one that was meant, unless the input is `Recorded`. `IInv` carries
`Sound` from the parsing, of which neither property speaks, to the check, and what was meant to the two
commands. `Conformance` is that for all three clients; nothing is `Recorded` of Rust, so for it
`WrittenCorrect` and `BytesCorrect` are without exception. `BytesCorrect` needs one lemma more, that a rendered server is a fixed point of
Playwright's rewriting (`CanonicalIs`, `DriversAgree`).

That Python takes a `://` in the query of a text without a scheme for the scheme's was found by the
proof: the attempt to show `FoundInText` and `PrefixIs` for every rest stopped there. It is the
last clause of `Recorded`, and Rust refuses the same text.

**ConnectionPool.** A task may hold its slot long after a drain took that slot out of
the map, and a slot of the same endpoint may have been made since. The invariant ties
every slot somebody refers to to one endpoint (`HomeOK`), every connection to the one slot that
caches it (`CachedOnce`, `ConnHome`), and every connection that is not retired to the slot
in the map (`LiveOK`); `LockOK` and `FoundOK` keep a connect from storing over another's.

**GeoCache.** What a call returns is bounded because what the cache keeps is: an entry's
age counts from when it was stored, so the invariant ties each entry to when its
resolver was asked and to the proxy it was asked through, and each resolver
still out to the call that asked.

**SettleWatch.** `FeedOK`: a signal of the main frame that is still on its way was
true when the page gave it; `SeenOK` and `StateOK`: so was what the tracker keeps of
those that were read, and what became an answer. `PhaseOK`: until the incumbent's loader is written off
nothing but the replay is on its way. `SessionOK`: a session is
attached until a close has ended or arming failed. `TurnOK`: one wait at a
time, none once there is an answer. `TurnOK`, and with it `SharedAnswer`, has
the hypothesis `Shared`: the client is not one whose callers overlap their waits, or it is Node's, where they join
the first. `AnswerCorrect` assumes `Overlapping \subseteq {"node"}`: the claim is false
of overlapping asyncio waits (finding 2). `WallsCorrect` is about every client, and about answers
in which the client found an outcome. `FallbackCorrect` is an action property: what each step
that records an answer may rely on.

**Launcher.** The deadline is looked at in `Poll` only, so `Prompt` has to be carried through
the read and the sleep that come between two looks: what is left, less what is still
to be waited for, stays above the bound (`PaceOK`). `FailedLeavesNothing` follows from where a
launch may have a browser (`ChildOK`) and that only a browser that serves holds a port
(`OwnerOK`). `LaunchedAsAsked` is about the whole history of builder calls. For its environment, a
variable is overridden if a call set it, with the value of the last such call (`OverridesOK`),
and `clear_env` cannot be taken back (`InheritOK`). For its command line, the builder's fields
are at every moment what the calls so far ask for (`OptionsOK`, inductive beside `IInv`), and the
rest is about merging. `MergeMeans` says what a merge of any two lists of flags is: the first
unchanged, then flags of the second, no switch added twice or beside one of the first, none lost.
`MergeTwice`: merging one list and then another is merging them at once, so that the launcher's
two merges give the adapters' line. `EffectiveMerged`: the browser reads a caller's own switch
as if nothing had been merged, and every other as if nothing else were there. These are inductions
over sequences, which here induct on a set instead of an operator (`SeqSet`) and rest on
the least element a set of naturals has (`Least`); a recursive function solves its equations because
some function does (`Recursion`).

### Only model-checked

- All liveness (`WaitersServed`, `CallsServed`, `CallersServed`, `CallsReturn`,
  `LaunchEnds`, `WaitsDecided`): fairness and ENABLED are out of the prover's reach.
- That a URL parser does to a text what `Parts` and `Whatwg` say, and Playwright what
  `Playwright` says: these are external, and neither checked nor proved.
- `PythonPool`: its one property is violated (finding 3).

## Not modelled

- Captcha events, the parsing of replies and of the browser's version: stateless
  decoding of data that the models abstract. `getFrameTree` is taken to name a main
  frame: Rust refuses a tree without one, Python then counts no event, Node counts
  every frame's.
- Hosts as text: IPv6 is the URL parsers', and Python's `_serialize_ipv6` re-implements
  them; the conformance corpus tests it value by value. Of IDNA there is one label, and of
  a text that begins with `//` (case s65) nothing: `Scheme` is a word and `://`, or nothing. The
  values that are no strings (d17, d20) are not there either. The redaction of errors is wording.
- The lists of Playwright switches that the adapters suppress or that oxide keeps, and
  the defaults of the drivers: static data.
- Which bytes of an answer the launcher accepts (`Content-Length`, UTF-8, JSON): `Answer`
  and `TimesOut` have its outcomes. A panic after the spawn (a `Content-Length` too large to
  allocate, a timeout that overflows the deadline) is not among them, and `FailedLeavesNothing`
  says nothing of it.
- The time a connect to the local port takes: `TcpStream::connect` has no timeout and is
  taken as instantaneous, which `Prompt` depends on.
- The replay window is taken to be long enough for the replay to *begin* in it
  (`CloseWindow`); how long 350 ms is enough is not a question about this code.
- The resolver of the geo cache is the caller's; that it ends within `Timeout` is
  assumed (Python passes it one, Rust leaves it to the caller).
- Workflows, examples, packaging, the conformance corpus.

## Plan

Every safety property that a run checks is now a theorem, so what is left is breadth:

1. `PythonPool`: its only property is the one that fails. With a lock per endpoint, as
   the Rust pool has, it would be `SingleFlight`, and the proof would be that of `PerfProofs`.
2. IPv6 literals as tokens of `ProxySpec`: `HostAssumption` would allow a `:` between brackets, and
   `ColonIs` is the lemma that would have to change.
3. `SeqSet` and `Recursion` of `LauncherProofs` would carry other inductions over sequences, where a
   later model needs one.
