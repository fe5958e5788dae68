------------------------------ MODULE ThreadLock ------------------------------
(***************************************************************************)
(* The Python registration lock, python/chromeleon/core.py                 *)
(* proxy_registration: one threading.Lock per (connection, server), taken  *)
(* with a blocking acquire() and held for the whole `with` body, by the    *)
(* sync adapter and by the asyncio one alike.                              *)
(*                                                                         *)
(* A blocking acquire blocks its thread.  An asyncio task shares its       *)
(* thread, the event loop, with others, and gives it up at every await     *)
(* inside the body (python/chromeleon/adapters.py new_proxy_context_async).*)
(***************************************************************************)
EXTENDS Naturals

CONSTANTS Task, Key, Thread, NoTask, NoKey,
          ThreadOf,   \* [Task -> Thread]: the thread, or loop, a task runs on
          KeysOf,     \* [Task -> SUBSET Key]: what a task opens contexts for
          Async,      \* the tasks that await inside the body
          Turns       \* the loops whose program lets one of its tasks at a
                      \* time open a context

ASSUME NoneAssumption == NoTask \notin Task /\ NoKey \notin Key
ASSUME PlacementAssumption == /\ ThreadOf \in [Task -> Thread]
                              /\ KeysOf \in [Task -> SUBSET Key]
                              /\ Async \subseteq Task
                              /\ Turns \subseteq Thread

VARIABLES holder,   \* [Key -> Task or NoTask]: the state of each lock
          created,  \* the keys of _locks, which nothing ever removes
          running,  \* [Thread -> Task or NoTask]: what each thread is in
          step, key

vars == <<holder, created, running, step, key>>

Step == {"idle", "acquiring", "inside", "suspended"}

\* A thread is in a task from its call to its return, except while the task
\* is suspended at an await.
TypeOK == /\ holder \in [Key -> Task \cup {NoTask}]
          /\ created \in SUBSET Key
          /\ running \in [Thread -> Task \cup {NoTask}]
          /\ step \in [Task -> Step]
          /\ key \in [Task -> Key \cup {NoKey}]
          /\ \A t \in Task : /\ running[ThreadOf[t]] = t <=> step[t] \in {"acquiring", "inside"}
                             /\ key[t] \in created \cup {NoKey}
                             /\ key[t] = NoKey <=> step[t] = "idle"

Init == /\ holder = [k \in Key |-> NoTask]
        /\ created = {}
        /\ running = [th \in Thread |-> NoTask]
        /\ step = [t \in Task |-> "idle"]
        /\ key = [t \in Task |-> NoKey]

\* The program opens a context: its thread is free and, where the program's
\* tasks take turns, none of the others is opening one.
MayCall(t, k) ==
  /\ step[t] = "idle"
  /\ k \in KeysOf[t]
  /\ running[ThreadOf[t]] = NoTask
  /\ ThreadOf[t] \in Turns =>
       \A u \in Task : ThreadOf[u] = ThreadOf[t] => step[u] = "idle"

\* Mutant: a lock of one's own each time.
MutLockNotKept(t, k) ==
  /\ MayCall(t, k)
  /\ running' = [running EXCEPT ![ThreadOf[t]] = t]
  /\ step' = [step EXCEPT ![t] = "acquiring"]
  /\ key' = [key EXCEPT ![t] = k]
  /\ UNCHANGED <<holder, created>>

\* Parse, look the lock up or create it under the guard, and call acquire().
Call(t, k) ==
  /\ MayCall(t, k)
  /\ created' = created \cup {k}
  /\ running' = [running EXCEPT ![ThreadOf[t]] = t]
  /\ step' = [step EXCEPT ![t] = "acquiring"]
  /\ key' = [key EXCEPT ![t] = k]
  /\ UNCHANGED holder

\* Mutant: acquire() with a timeout whose result nobody looks at.
MutBargesIn(t) ==
  /\ step[t] = "acquiring"
  /\ holder' = [holder EXCEPT ![key[t]] = t]
  /\ step' = [step EXCEPT ![t] = "inside"]
  /\ UNCHANGED <<created, running, key>>

Acquire(t) ==
  /\ step[t] = "acquiring"
  /\ holder[key[t]] = NoTask
  /\ holder' = [holder EXCEPT ![key[t]] = t]
  /\ step' = [step EXCEPT ![t] = "inside"]
  /\ UNCHANGED <<created, running, key>>

\* An await inside the body hands the thread back to the loop...
Suspend(t) ==
  /\ t \in Async
  /\ step[t] = "inside"
  /\ step' = [step EXCEPT ![t] = "suspended"]
  /\ running' = [running EXCEPT ![ThreadOf[t]] = NoTask]
  /\ UNCHANGED <<holder, created, key>>

\* ...which resumes the task, with a result or a CancelledError, when it is
\* in no other one.
Resume(t) ==
  /\ step[t] = "suspended"
  /\ running[ThreadOf[t]] = NoTask
  /\ step' = [step EXCEPT ![t] = "inside"]
  /\ running' = [running EXCEPT ![ThreadOf[t]] = t]
  /\ UNCHANGED <<holder, created, key>>

\* Mutant: release() outside the `finally`, so a raising body skips it.
MutNotReleased(t) ==
  /\ step[t] = "inside"
  /\ holder' \in {holder, [holder EXCEPT ![key[t]] = NoTask]}
  /\ running' = [running EXCEPT ![ThreadOf[t]] = NoTask]
  /\ step' = [step EXCEPT ![t] = "idle"]
  /\ key' = [key EXCEPT ![t] = NoKey]
  /\ UNCHANGED created

\* The body returns or raises; `finally` releases the lock.
Release(t) ==
  /\ step[t] = "inside"
  /\ holder' = [holder EXCEPT ![key[t]] = NoTask]
  /\ running' = [running EXCEPT ![ThreadOf[t]] = NoTask]
  /\ step' = [step EXCEPT ![t] = "idle"]
  /\ key' = [key EXCEPT ![t] = NoKey]
  /\ UNCHANGED created

Next == \E t \in Task : \/ \E k \in Key : Call(t, k)
                        \/ Acquire(t)
                        \/ Suspend(t)
                        \/ Resume(t)
                        \/ Release(t)

Spec == Init /\ [][Next]_vars

(***************************************************************************)
(* Fairness: the OS runs every thread and hands a released lock to each    *)
(* waiter in the end; a loop that is not blocked polls each ready task in  *)
(* turn; a body awaits only so often.                                      *)
(***************************************************************************)
FairSpec ==
  /\ Spec
  /\ \A t \in Task : SF_vars(Acquire(t)) /\ SF_vars(Resume(t)) /\ SF_vars(Release(t))

-----------------------------------------------------------------------------
\* Every caller that asked for the lock gets it: "Sync and async callers use
\* this identically".  No blocking acquire() ever takes its thread from the
\* task that has to release the lock, directly or through other loops.
CallersServed == \A t \in Task : step[t] = "acquiring" ~> step[t] = "inside"

\* What a program has to see to, so that they are: a loop on which one task
\* may be suspended in the lock while another waits for it shares no key with
\* another such task, on its own loop or on any other.
Apart == \A t, u \in {x \in Async : ThreadOf[x] \notin Turns} :
           t # u => KeysOf[t] \cap KeysOf[u] = {}

\* The abstract lock: a task is inside while it holds the lock, suspended or not.
Waiters == [k \in Key |-> {t \in Task : step[t] = "acquiring" /\ key[t] = k}]
Holders == [k \in Key |-> {t \in Task : step[t] \in {"inside", "suspended"} /\ key[t] = k}]

Promise == INSTANCE ProxyLock WITH waiting <- Waiters, inside <- Holders

ImplementsProxyLock == Promise!Spec
===============================================================================
