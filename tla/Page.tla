--------------------------------- MODULE Page ---------------------------------
(***************************************************************************)
(* External: one page of Chromeleon as a settle watch sees it through its  *)
(* CDP session, from how settle.rs, settle.js and settle.py use it.        *)
(*                                                                         *)
(* The main frame shows document 0, the incumbent about:blank, until a     *)
(* navigation commits document 1; a client-side redirect commits another.  *)
(* A document is also its loader id.  Lifecycle events reach the client in *)
(* order, through feed.                                                    *)
(***************************************************************************)
EXTENDS Naturals, Sequences

CONSTANTS MaxDoc,   \* bound: documents committed after the watch is armed
          MaxFeed   \* bound: lifecycle events on their way

ASSUME MaxDocAssumption == MaxDoc \in Nat \ {0}
ASSUME MaxFeedAssumption == MaxFeed \in Nat \ {0}

VARIABLES doc,       \* the main frame's current document
          fired,     \* [1 .. MaxDoc -> SUBSET Signals]: what the main frame emitted
          subframe,  \* has a subframe already emitted its lifecycle event?
          walls,     \* the documents that are bot walls
          feed,      \* lifecycle events the client has not read yet
          gone       \* the page, or its session, has been closed from outside

pageVars == <<doc, fired, subframe, walls, feed, gone>>

Documents == 1 .. MaxDoc
Signals == {"networkAlmostIdle", "load"}

Event == [main : BOOLEAN, loader : 0 .. MaxDoc, name : Signals \cup {"commit"}]
MainEvent(d, n) == [main |-> TRUE, loader |-> d, name |-> n]

PageTypeOK == /\ doc \in 0 .. MaxDoc
              /\ fired \in [Documents -> SUBSET Signals]
              /\ subframe \in BOOLEAN
              /\ walls \in SUBSET Documents
              /\ feed \in Seq(Event)
              /\ gone \in BOOLEAN

PageInit == /\ doc = 0
            /\ fired = [d \in Documents |-> {}]
            /\ subframe = FALSE
            /\ walls = {}
            /\ feed = <<>>
            /\ gone = FALSE

-----------------------------------------------------------------------------
\* Page.setLifecycleEventsEnabled replays what the incumbent already went through.
Replay == /\ feed' = <<MainEvent(0, "load"), MainEvent(0, "networkAlmostIdle")>>
          /\ UNCHANGED <<doc, fired, subframe, walls, gone>>

Emit(e) == Len(feed) < MaxFeed /\ feed' = Append(feed, e)

\* A navigation, or a redirect made by the page, commits the next document.
Commit == /\ ~gone /\ doc < MaxDoc
          /\ doc' = doc + 1
          /\ walls' \in {walls, walls \cup {doc + 1}}
          /\ Emit(MainEvent(doc + 1, "commit"))
          /\ UNCHANGED <<fired, subframe, gone>>

\* The main frame reaches a lifecycle milestone, in whatever order.
Fire(n) == /\ ~gone /\ doc > 0 /\ n \notin fired[doc]
           /\ fired' = [fired EXCEPT ![doc] = @ \cup {n}]
           /\ Emit(MainEvent(doc, n))
           /\ UNCHANGED <<doc, subframe, walls, gone>>

\* An iframe of the page goes idle, typically long before the page does.
SubframeIdle == /\ ~gone /\ doc > 0 /\ ~subframe
                /\ subframe' = TRUE
                /\ Emit([main |-> FALSE, loader |-> doc, name |-> "networkAlmostIdle"])
                /\ UNCHANGED <<doc, fired, walls, gone>>

PageGone == /\ ~gone
            /\ gone' = TRUE
            /\ UNCHANGED <<doc, fired, subframe, walls, feed>>

\* One event leaves the feed.
Read == /\ feed # <<>>
        /\ feed' = Tail(feed)
        /\ UNCHANGED <<doc, fired, subframe, walls, gone>>

-----------------------------------------------------------------------------
\* What Chromeleon.waitForSettle can answer about the current document.  bad: its
\* HTTP status is one a wall answers with.  A wall shorter than minChars reports
\* "timeout", and only its status gives it away; about:blank never has text enough.
Verdicts ==
  IF doc \in walls
    THEN {[outcome |-> "challenge", bad |-> TRUE], [outcome |-> "challenge", bad |-> FALSE],
          [outcome |-> "timeout", bad |-> TRUE]}
    ELSE {[outcome |-> o, bad |-> FALSE] : o \in IF doc = 0 THEN {"timeout"}
                                                 ELSE {"settled", "timeout"}}

===============================================================================
