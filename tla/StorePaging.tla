----------------------------- MODULE StorePaging -----------------------------
(***************************************************************************)
(* A client that pages through a changing Telemetry Store: collectPages of *)
(* the workspace's data source over the queries of StoreQueries, with the  *)
(* cursors of cursor.ts.  The HMAC and the digest of a cursor are taken to *)
(* be what they stand for: a cursor the Daemon made, and the query it was  *)
(* made for, of which only the limit may differ here.                      *)
(***************************************************************************)
EXTENDS StoreQueries

CONSTANTS
  Listings,    \* the queries a client may page through
  PageLimit,   \* collectPages asks for at most so many at a time (100)
  MaxResults   \* it stops at so many (queryMaxResults)

ASSUME PagingAssumption == PageLimit \in Nat \ {0} /\ MaxResults \in Nat \ {0}

\* The orders a listing may be asked for in, or the one it always has.
OrdersOf(what) ==
  CASE what = "traces"     -> {"newest", "oldest", "slowest"}
    [] what = "logs"       -> {"newest", "oldest"}
    [] what = "trace logs" -> {"oldest"}
    [] OTHER               -> {"ranked"}

Cursors == [key : Int, id : Int, limit : Nat]

ASSUME ListingAssumption ==
  /\ None \notin Int \cup Cursors
  /\ \A q \in Listings : /\ q.what \in {"traces", "logs", "trace logs", "services"} \cup Facets
                         /\ q.sort \in OrdersOf(q.what)

VARIABLES
  listing,  \* what the client pages through, or None
  reading,  \* "idle", "reading", "done", "failed" (invalid_cursor), "missing" (StorageNotFound)
  cursor,   \* nextCursor of the last page, or None
  got,      \* the ids on the pages so far
  steady    \* history: the rows there since the first page, with the same key

vars == <<storeVars, listing, reading, cursor, got, steady>>

-----------------------------------------------------------------------------
StartPaging(which) ==
  /\ reading = "idle" /\ daemon # "down"
  /\ listing' = which
  /\ reading' = "reading"
  /\ steady' = Rows(store, which)
  /\ UNCHANGED <<storeVars, cursor, got>>

\* What collectPages asks for next: a page, or the rest up to MaxResults.
NextLimit == IF MaxResults - Len(got) < PageLimit THEN MaxResults - Len(got) ELSE PageLimit

\* A page of collectPages, which ends at the last page or at MaxResults.
ReadPage ==
  /\ reading = "reading" /\ daemon # "down"
  /\ IF CursorAccepted(cursor, NextLimit) /\ Found(store, listing)
     THEN LET page == Page(store, listing, cursor, NextLimit)
          IN  /\ got' = got \o page.ids
              /\ cursor' = page.next
              /\ reading' = IF page.next = None \/ Len(got') >= MaxResults THEN "done" ELSE "reading"
     ELSE /\ reading' = IF CursorAccepted(cursor, NextLimit) THEN "missing" ELSE "failed"
          /\ UNCHANGED <<cursor, got>>
  /\ UNCHANGED <<storeVars, listing, steady>>

Init ==
  /\ StoreInit
  /\ listing = None /\ reading = "idle" /\ cursor = None /\ got = <<>> /\ steady = {}

\* The Store changes under the pages.
StoreStep ==
  /\ StoreNext
  /\ steady' = IF listing = None THEN {} ELSE steady \cap Rows(store', listing)
  /\ UNCHANGED <<listing, reading, cursor, got>>

Next == StoreStep \/ (\E which \in Listings : StartPaging(which)) \/ ReadPage

(***************************************************************************)
(* A retain that is due or has begun goes on: its next transaction takes   *)
(* place, or fails, or the worker ends.  Nothing is assumed of writes,     *)
(* restarts or readers.                                                    *)
(***************************************************************************)
Fairness == WF_step((RetentionDue \/ step # "idle") /\ step' \in {"idle", "marked", "swept"} \ {step})

Spec     == Init /\ [][Next]_vars
FairSpec == Spec /\ Fairness

=============================================================================
