------------------------------ MODULE Expiration ------------------------------
(***************************************************************************)
(* Events that expire (NIP-40), and who takes them off the disk: the heap  *)
(* and the hourly sweep of relaycore/expiration.go, beside publications    *)
(* (adding.go), author's deletions (deleting.go) and everything else that  *)
(* removes an event without telling the heap (bans, NIP-62, replacements). *)
(*                                                                         *)
(* The mutex of the heap is held through a scan and through a sweep, but   *)
(* not by the writers of the database: an event is stored in one step and  *)
(* tracked in another. The first sweep after a start scans the store, with *)
(* a query that returns the newest events up to the store's limit.         *)
(*                                                                         *)
(* Left out: usage, which goes with the row (EventUsage), and the order of *)
(* the heap beyond the next event to expire.                               *)
(***************************************************************************)
EXTENDS EventTable, Integers, FiniteSets

CONSTANTS
  Expires,     \* when each expires; 0 for never, the code's -1
  CreatedAt,   \* the order of a query's answer
  QueryLimit,  \* the most a query returns
  Horizon,     \* bound: the last unit of time
  Copies,      \* bound: how often each event is published
  Retracted,   \* bound: events their authors delete, once
  Boots        \* bound: how often the relay restarts

ASSUME ExpirationAssumption ==
    /\ Expires \in [Events -> Nat] /\ CreatedAt \in [Events -> Nat]
    /\ QueryLimit \in Nat \ {0} /\ Horizon \in Nat \ {0}
    /\ Copies \in [Events -> Nat] /\ Retracted \subseteq Events /\ Boots \in Nat /\ Faults \in BOOLEAN

VARIABLES
  clock,
  deleted,    \* targets of a stored kind 5
  writer,     \* a publication of each event
  eraser,     \* a deletion of each event by its author
  published,  \* how often each was published
  heap,       \* entries of each event in the manager's heap
  scanned,    \* initialScanDone
  sweep,      \* the manager's goroutine: where it is, its now, the entry in its hand
  boots,
  missed      \* history: stored events the manager has lost sight of, see below

sweepVars == <<clock, stored, deleted, writer, eraser, published, heap, scanned, sweep, boots,
               missed>>
requests == <<deleted, writer, eraser, published>>

Expirable == {e \in Events : Expires[e] # 0}

Resting(s) == [s EXCEPT !.at = "idle"]

\* The mutex of the heap, held from the first look at it to the end of a sweep.
Locked == sweep.at \in {"check", "fetch", "drop"}

Without(e) == /\ stored' = stored \ {e}
              /\ missed' = missed \ {e}

----------------------------------------------------------------------------
(* Publications: handleNormal.                                              *)

\* The look for a kind 5 that names the event. It misses one when the query fails, and
\* when the kind 5 itself has expired or was taken away again.
Admit(e) ==
    /\ writer[e] = "idle" /\ published[e] < Copies[e]
    /\ \/ writer' = [writer EXCEPT ![e] = "admitted"]
       \/ e \in deleted /\ UNCHANGED writer
    /\ published' = [published EXCEPT ![e] = @ + 1]
    /\ UNCHANGED <<clock, stored, deleted, eraser, heap, scanned, sweep, boots, missed>>

\* StoreEvent: a duplicate ends here.
Store(e) ==
    /\ writer[e] = "admitted"
    /\ writer' = [writer EXCEPT ![e] = IF e \in stored THEN "idle" ELSE "saved"]
    /\ stored' = stored \cup {e}
    /\ UNCHANGED <<clock, deleted, eraser, published, heap, scanned, sweep, boots, missed>>

\* A mutation of Pushed: an event is entered whose end is still to come, and no other.
PushedUnlessDue(e) ==
    IF Expires[e] > clock THEN [heap EXCEPT ![e] = @ + 1] ELSE heap

\* trackEvent
Pushed(e) == IF e \in Expirable THEN [heap EXCEPT ![e] = @ + 1] ELSE heap

Track(e) ==
    /\ writer[e] = "saved" /\ ~Locked
    /\ heap' = Pushed(e)
    /\ writer' = [writer EXCEPT ![e] = "idle"]
    /\ missed' = missed \ {e}
    /\ UNCHANGED <<clock, stored, deleted, eraser, published, scanned, sweep, boots>>

----------------------------------------------------------------------------
(* Deletions: handleDeleteRequest, and then the kind 5 is stored like any   *)
(* other event.                                                             *)

Find(e) ==
    /\ eraser[e] = "ready" /\ e \in Retracted
    /\ eraser' = [eraser EXCEPT ![e] = IF e \in stored THEN "found" ELSE "record"]
    /\ UNCHANGED <<clock, stored, deleted, writer, published, heap, scanned, sweep, boots,
                   missed>>

EraseFound(e) ==
    /\ eraser[e] = "found"
    /\ Without(e)
    /\ eraser' = [eraser EXCEPT ![e] = "untrack"]
    /\ UNCHANGED <<clock, deleted, writer, published, heap, scanned, sweep, boots>>

\* The store fails the delete, and the request with it.
EraseFails(e) ==
    /\ Faults
    /\ eraser[e] = "found"
    /\ eraser' = [eraser EXCEPT ![e] = "done"]
    /\ UNCHANGED <<clock, stored, deleted, writer, published, heap, scanned, sweep, boots,
                   missed>>

\* removeEvent takes one entry of that id. When a sweep has taken the deleted event's
\* own meanwhile, it is the entry of the same event published again.
Untrack(e) ==
    /\ eraser[e] = "untrack" /\ ~Locked
    /\ heap' = [heap EXCEPT ![e] = IF @ > 0 THEN @ - 1 ELSE 0]
    /\ missed' = IF heap[e] = 1 /\ e \in stored THEN missed \cup {e} ELSE missed
    /\ eraser' = [eraser EXCEPT ![e] = "record"]
    /\ UNCHANGED <<clock, stored, deleted, writer, published, scanned, sweep, boots>>

Record(e) ==
    /\ eraser[e] = "record"
    /\ deleted' = deleted \cup {e}
    /\ eraser' = [eraser EXCEPT ![e] = "done"]
    /\ UNCHANGED <<clock, stored, writer, published, heap, scanned, sweep, boots, missed>>

\* A ban, a request to vanish or a newer version: the heap is not told.
Evict(e) ==
    /\ e \in stored
    /\ Without(e)
    /\ UNCHANGED <<clock, requests, heap, scanned, sweep, boots>>

----------------------------------------------------------------------------
(* The manager.                                                             *)

\* What the query for everything returns.
Found == {e \in stored :
             Cardinality({f \in stored : CreatedAt[f] > CreatedAt[e]}) < QueryLimit}

\* A mutation of Scanned: what has expired already is not entered.
ScannedUnlessDue(found) ==
    [e \in Events |-> heap[e] + IF e \in found /\ Expires[e] > clock THEN 1 ELSE 0]

Scanned(found) ==
    [e \in Events |-> heap[e] + IF e \in found \cap Expirable THEN 1 ELSE 0]

\* initialScan, at the first tick; an event tracked since the start is entered again. It
\* is not repeated: what the answer leaves out has no entry.
ScanOf(found) ==
    /\ sweep.at = "idle" /\ ~scanned
    /\ heap' = Scanned(found)
    /\ scanned' = TRUE
    /\ missed' = missed \cup {e \in (stored \cap Expirable) \ found : heap[e] = 0}
    /\ sweep' = [sweep EXCEPT !.at = "scanned"]
    /\ UNCHANGED <<clock, stored, requests, boots>>

Scan == ScanOf(Found)

\* The query fails, and the scan counts as done.
ScanFails == Faults /\ ScanOf({})

\* checkExpiredEvents reads the time once.
Begin ==
    /\ sweep.at = "scanned" \/ (sweep.at = "idle" /\ scanned)
    /\ sweep' = [sweep EXCEPT !.at = "check", !.now = clock]
    /\ UNCHANGED <<clock, stored, requests, heap, scanned, boots, missed>>

\* A mutation of Due: an event is swept a unit of time late.
DueLate(e) == heap[e] > 0 /\ Expires[e] < sweep.now

Due(e) == heap[e] > 0 /\ Expires[e] <= sweep.now

\* The entry is gone from the heap before anything is deleted.
Pop(e) ==
    /\ sweep.at = "check"
    /\ Due(e) /\ \A f \in Events : heap[f] > 0 => Expires[e] <= Expires[f]
    /\ heap' = [heap EXCEPT ![e] = @ - 1]
    /\ sweep' = [sweep EXCEPT !.at = "fetch", !.event = e]
    /\ UNCHANGED <<clock, stored, requests, scanned, boots, missed>>

Rest ==
    /\ sweep.at = "check" /\ \A e \in Events : ~Due(e)
    /\ sweep' = Resting(sweep)
    /\ UNCHANGED <<clock, stored, requests, heap, scanned, boots, missed>>

\* The event is looked up by its id; a stale entry finds nothing.
Fetch ==
    /\ sweep.at = "fetch"
    /\ sweep' = [sweep EXCEPT !.at = IF sweep.event \in stored THEN "drop" ELSE "check"]
    /\ UNCHANGED <<clock, stored, requests, heap, scanned, boots, missed>>

Drop ==
    /\ sweep.at = "drop"
    /\ Without(sweep.event)
    /\ sweep' = [sweep EXCEPT !.at = "check"]
    /\ UNCHANGED <<clock, requests, heap, scanned, boots>>

Lost(e) == IF e \in stored /\ heap[e] = 0 THEN missed \cup {e} ELSE missed

\* The lookup or the delete fails: the error is dropped, and so is the entry.
SweepFails ==
    /\ Faults
    /\ sweep.at \in {"fetch", "drop"}
    /\ missed' = Lost(sweep.event)
    /\ sweep' = [sweep EXCEPT !.at = "check"]
    /\ UNCHANGED <<clock, stored, requests, heap, scanned, boots>>

----------------------------------------------------------------------------
Tick ==
    /\ clock < Horizon
    /\ clock' = clock + 1
    /\ UNCHANGED <<stored, requests, heap, scanned, sweep, boots, missed>>

\* The heap and the requests at work are gone; the store is not.
RestartSweep ==
    /\ boots < Boots
    /\ boots' = boots + 1
    /\ heap' = [e \in Events |-> 0]
    /\ scanned' = FALSE
    /\ sweep' = Resting(sweep)
    /\ writer' = [e \in Events |-> "idle"]
    /\ eraser' = [e \in Events |-> IF eraser[e] = "ready" THEN "ready" ELSE "done"]
    /\ missed' = {}
    /\ UNCHANGED <<clock, stored, deleted, published>>

SweepInit ==
    /\ clock = 1
    /\ stored = {} /\ deleted = {} /\ missed = {}
    /\ writer = [e \in Events |-> "idle"]
    /\ eraser = [e \in Events |-> "ready"]
    /\ published = [e \in Events |-> 0]
    /\ heap = [e \in Events |-> 0]
    /\ scanned = FALSE
    /\ sweep \in [at: {"idle"}, now: {0}, event: Events]
    /\ boots = 0

Publish(e) == Admit(e) \/ Store(e) \/ Track(e)

Delete(e) == Find(e) \/ EraseFound(e) \/ EraseFails(e) \/ Untrack(e) \/ Record(e)

Work == Scan \/ Begin \/ Rest \/ Fetch \/ Drop \/ \E e \in Events : Pop(e)

SweepNext ==
    \/ Tick \/ RestartSweep \/ Work \/ ScanFails \/ SweepFails
    \/ \E e \in Events : Publish(e) \/ Delete(e) \/ Evict(e)

SweepSpec == SweepInit /\ [][SweepNext]_sweepVars

\* The ticker fires every hour and the manager is a goroutine of its own; a publication
\* that was stored runs to its end, for the manager lets go of the mutex again and again.
Fairness == WF_sweepVars(Work) /\ \A e \in Events : SF_sweepVars(Track(e))

FairSpec == SweepSpec /\ Fairness

----------------------------------------------------------------------------
(* Properties.                                                              *)

\* Every variable is what the code can make of it.
SweepTypeOK ==
    /\ clock \in 1 .. Horizon
    /\ stored \subseteq Events /\ deleted \subseteq Events /\ missed \subseteq stored
    /\ writer \in [Events -> {"idle", "admitted", "saved"}]
    /\ eraser \in [Events -> {"ready", "found", "untrack", "record", "done"}]
    /\ published \in [Events -> Nat]
    /\ heap \in [Events -> Nat]
    /\ scanned \in BOOLEAN
    /\ sweep \in [at: {"idle", "scanned", "check", "fetch", "drop"}, now: Nat, event: Events]
    /\ boots \in 0 .. Boots

\* The manager knows of e, or will when its publication ends.
Watched(e) ==
    \/ ~scanned
    \/ heap[e] > 0
    \/ writer[e] = "saved"
    \/ sweep.at \in {"fetch", "drop"} /\ sweep.event = e

\* Storing and tracking are two steps, the scan comes an hour after the start, entries
\* are removed one at a time by id and left behind by everybody else (expiration.go:71-150):
\* in whatever order, the manager knows of every stored event that expires, except one
\* it lost by the limit of the scan, a failure of the store or an Untrack too many.
ExpiringIsKnown == \A e \in (stored \cap Expirable) \ missed : Watched(e)

Expired(e) == e \in Expirable /\ Expires[e] <= clock

\* "GC reclaims the quota afterwards" (README.md:25): an expired event leaves the disk,
\* unless the manager has lost sight of it.
ExpiredIsReclaimed ==
    \A e \in Events : Expired(e) /\ e \in stored \ missed ~> e \notin stored \ missed

\* The same without exception, as README.md:25 and :60 say it.
ExpiredLeavesTheDisk ==
    \A e \in Events : Expired(e) /\ e \in stored ~> e \notin stored

\* Entries left behind by deletions, bans and replacements do not pile up: once their
\* time comes, the heap gets rid of them.
EntriesDrain ==
    \A e \in Events : Expired(e) /\ scanned /\ heap[e] > 0 ~> heap[e] = 0
===============================================================================
