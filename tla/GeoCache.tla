------------------------------- MODULE GeoCache -------------------------------
(***************************************************************************)
(* The cache of resolved proxy exits: rust/src/perf.rs GeoCache and        *)
(* python/chromeleon/perf.py sticky_geo_env.  Looking up, resolving and    *)
(* storing are separate steps: nothing is locked while the resolver runs,  *)
(* and another call, or a clear, may come in between.                      *)
(*                                                                         *)
(* A resolution is modelled by the proxy it was resolved through and by    *)
(* the time its resolver was asked.  No name is one of ConnectionPool: the *)
(* proofs about the two are in one module.                                 *)
(***************************************************************************)
EXTENDS Naturals

CONSTANTS Clients,  \* whose cache it may be
          Caller,   \* calls of sticky_geo_env / resolve_with, one at a time each
          Server, User, NoUser,
          Proxy,    \* proxies: <<server, user or none>>
          Used,     \* bound: the proxies that calls of each client are about
          None,
          TTLs,     \* the ttl a call may pass
          Timeout,  \* the resolver answers or fails within this
          Horizon   \* bound on the clock

ASSUME ClientsAssumption == Clients \subseteq {"rust", "python"}
ASSUME ProxyAssumption == /\ NoUser \notin User
                          /\ Proxy \subseteq Server \X (User \cup {NoUser})
                          /\ \A p \in Proxy : <<p[1], NoUser>> \in Proxy
ASSUME UsedAssumption == Used \in [{"rust", "python"} -> SUBSET Proxy]
ASSUME TimeAssumption == TTLs \subseteq Nat /\ Timeout \in Nat /\ Horizon \in Nat

VARIABLES client,   \* whose cache it is
          clock,
          entries,  \* [Key -> Entry or None]
          proxy, ttl, \* a call's arguments (None and 0 between calls)
          asked,    \* when its resolver was asked (0 unless it is out)
          phase,
          found,    \* the resolution it has, or None
          age       \* how long ago that one's resolver was asked, on return

geoVars == <<client, clock, entries, proxy, ttl, asked, phase, found, age>>

\* GeoCache::key; in Python, the server alone.
Key(p) == IF client = "rust" THEN p ELSE <<p[1], NoUser>>

Time == 0 .. Horizon
Resolution == [of : Proxy, zone : {"valid", "unset"}]
Entry == [res : Resolution, asked : Time, at : Time]
GeoPC == {"idle", "resolving", "resolved", "done"}

\* Nothing unsanitized is stored, and no time lies in the future.
GeoTypeOK == /\ client \in Clients
             /\ clock \in Time
             /\ entries \in [Proxy -> Entry \cup {None}]
             /\ proxy \in [Caller -> Proxy \cup {None}] /\ ttl \in [Caller -> TTLs \cup {0}]
             /\ asked \in [Caller -> 0 .. clock]
             /\ phase \in [Caller -> GeoPC]
             /\ found \in [Caller -> Resolution \cup {None}]
             /\ age \in [Caller -> 0 .. clock]
             /\ \A k \in Proxy : entries[k] # None => /\ entries[k].at <= clock
                                                     /\ entries[k].asked <= entries[k].at

GeoInit == /\ client \in Clients
           /\ clock = 0
           /\ entries = [k \in Proxy |-> None]
           /\ proxy = [t \in Caller |-> None]
           /\ ttl = [t \in Caller |-> 0]
           /\ asked = [t \in Caller |-> 0]
           /\ phase = [t \in Caller |-> "idle"]
           /\ found = [t \in Caller |-> None]
           /\ age = [t \in Caller |-> 0]

-----------------------------------------------------------------------------
\* Mutant: an entry that expires this instant still counts.
MutExpiresLate(p, d) == entries[Key(p)] # None /\ clock - entries[Key(p)].at <= d

\* get(): there is an entry under the key, younger than the ttl.
Fresh(p, d) == entries[Key(p)] # None /\ clock - entries[Key(p)].at < d

Call(t, p, d, next) ==
  /\ phase[t] = "idle"
  /\ proxy' = [proxy EXCEPT ![t] = p]
  /\ ttl' = [ttl EXCEPT ![t] = d]
  /\ phase' = [phase EXCEPT ![t] = next]
  /\ UNCHANGED <<client, clock, entries>>

\* A fresh entry is the answer...
Hit(t, p, d) ==
  /\ Fresh(p, d)
  /\ Call(t, p, d, "done")
  /\ found' = [found EXCEPT ![t] = entries[Key(p)].res]
  /\ age' = [age EXCEPT ![t] = clock - entries[Key(p)].asked]
  /\ UNCHANGED asked

\* ...otherwise the resolver is asked, with no lock held.
Miss(t, p, d) ==
  /\ ~Fresh(p, d)
  /\ Call(t, p, d, "resolving")
  /\ asked' = [asked EXCEPT ![t] = clock]
  /\ UNCHANGED <<found, age>>

\* A call for a rotating proxy is a no-op.
Skip(t) ==
  /\ phase[t] = "idle"
  /\ phase' = [phase EXCEPT ![t] = "done"]
  /\ UNCHANGED <<client, clock, entries, proxy, ttl, asked, found, age>>

\* The resolver is back.
Finish(t) ==
  /\ age' = [age EXCEPT ![t] = clock - asked[t]]
  /\ asked' = [asked EXCEPT ![t] = 0]
  /\ phase' = [phase EXCEPT ![t] = "done"]
  /\ UNCHANGED <<client, clock, proxy, ttl, found>>

\* A resolver that fails, or finds no exit address, leaves the launch to the
\* binary and stores nothing.
ResolveFails(t) ==
  /\ phase[t] = "resolving"
  /\ Finish(t)
  /\ UNCHANGED entries

\* Mutant: the zone goes in as the resolver gave it.
MutUnsanitized(zone) == zone

\* sanitize(): an invalid zone is dropped, the address is kept.
Sanitized(zone) == IF zone = "valid" THEN "valid" ELSE "unset"

Resolve(t, zone) ==
  /\ phase[t] = "resolving"
  /\ found' = [found EXCEPT ![t] = [of |-> proxy[t], zone |-> Sanitized(zone)]]
  /\ phase' = [phase EXCEPT ![t] = "resolved"]
  /\ UNCHANGED <<client, clock, entries, proxy, ttl, asked, age>>

\* Mutant: the entry goes under the server alone.
MutPutUnderServer(t) ==
  /\ phase[t] = "resolved"
  /\ entries' = [k \in Proxy |->
       IF k[1] = proxy[t][1] THEN [res |-> found[t], asked |-> asked[t], at |-> clock]
       ELSE entries[k]]
  /\ Finish(t)

\* put(): whoever stores last wins, and the entry's age counts from now.
Put(t) ==
  /\ phase[t] = "resolved"
  /\ entries' = [entries EXCEPT ![Key(proxy[t])] =
       [res |-> found[t], asked |-> asked[t], at |-> clock]]
  /\ Finish(t)

\* The caller merges what it got into the launch environment.
Return(t) ==
  /\ phase[t] = "done"
  /\ proxy' = [proxy EXCEPT ![t] = None]
  /\ ttl' = [ttl EXCEPT ![t] = 0]
  /\ found' = [found EXCEPT ![t] = None]
  /\ age' = [age EXCEPT ![t] = 0]
  /\ phase' = [phase EXCEPT ![t] = "idle"]
  /\ UNCHANGED <<client, clock, entries, asked>>

\* clear() / clear_geo_cache().
Clear ==
  /\ entries' = [k \in Proxy |-> None]
  /\ UNCHANGED <<client, clock, proxy, ttl, asked, phase, found, age>>

Tick ==
  /\ clock < Horizon
  /\ \A t \in Caller : phase[t] \in {"resolving", "resolved"} => clock - asked[t] < Timeout
  /\ clock' = clock + 1
  /\ UNCHANGED <<client, entries, proxy, ttl, asked, phase, found, age>>

GeoNext == \/ \E t \in Caller :
                \/ \E p \in Used[client], d \in TTLs : Hit(t, p, d) \/ Miss(t, p, d)
                \/ Skip(t)
                \/ ResolveFails(t)
                \/ \E zone \in {"valid", "invalid", "unset"} : Resolve(t, zone)
                \/ Put(t)
                \/ Return(t)
           \/ Clear
           \/ Tick

GeoSpec == GeoInit /\ [][GeoNext]_geoVars

-----------------------------------------------------------------------------
\* What a launch pins was resolved through the proxy it launches with: the
\* exit is chosen by server and username, and two credentials of one
\* host:port are two exits.
OwnExit == \A t \in Caller : found[t] # None => found[t].of = proxy[t]

\* The Rust cache keeps to that: its key holds the username.  (perf.rs: "The Python
\* client keys on the server; that is a bug.")
OwnExitInRust == client = "rust" => OwnExit

\* What a launch pins was observed no longer ago than its own ttl and one
\* resolver run, although an entry's age counts from when it was stored,
\* whoever stored it passed a ttl of his own, and an answer that was on its
\* way when the cache was cleared is stored after that.
BoundedAge ==
  \A t \in Caller : phase[t] = "done" /\ found[t] # None =>
    age[t] <= Timeout \/ age[t] < ttl[t] + Timeout
===============================================================================
