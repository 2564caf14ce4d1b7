-------------------------- MODULE SourceConnectors --------------------------
(***************************************************************************)
(* One fetch of a threat-intelligence source.  NVD and EPSS are read page  *)
(* by page at an offset, GitHub advisories by following a cursor, and the  *)
(* CISA catalogue in one piece.  Each record is merged before the next     *)
(* page is asked for, and the source goes on changing meanwhile.           *)
(*                                                                         *)
(* A record is its place in the order in which the source lists records;   *)
(* IntelligenceSync says what becomes of the records that are yielded.     *)
(***************************************************************************)
EXTENDS Naturals, Sequences, SequencesExt, FiniteSets

CONSTANTS
    Records,     \* what the source may list, as places in its order from 1
    Junk,        \* entries that are not what the connector looks for
    Old,         \* catalogue entries from before the day asked for
    PageSize,
    MaxPages,
    MaxRetries,
    MaxChanges   \* how many records may appear or vanish during a fetch

ASSUME ConnectorAssumption ==
    /\ Records \subseteq Nat \ {0} /\ IsFiniteSet(Records)
    /\ Junk \cup Old \subseteq Records
    /\ PageSize \in Nat \ {0} /\ MaxPages \in Nat \ {0}
    /\ MaxRetries \in Nat /\ MaxChanges \in Nat

Connectors == {"nvd", "epss", "github_advisory", "cisa_kev"}
ByOffset == {"nvd", "epss"}

VARIABLES
    connector,  \* which connector fetches
    since,      \* whether the connector itself selects by a day
    present,    \* the records that the source lists now
    pc,         \* "request", "backoff" or "ended"
    at,         \* startIndex or offset: entries received so far
    cursor,     \* the place after which the next page begins
    pages,      \* pages received
    attempt,    \* attempts that the request under way has failed
    received,   \* the entries of these pages, in order
    status,     \* the status of the sync: running, completed or failed
    ended,      \* history: why the fetch ended, "" before
    steady,     \* history: records listed from the beginning until now
    removed,    \* history: how many records vanished
    inserted    \* history: how many appeared

progress == <<at, cursor, pages, attempt, received>>
feedVars == <<connector, since, present, pc, progress, status, ended, steady,
          removed, inserted>>

FeedInit ==
    /\ connector \in Connectors
    /\ since \in BOOLEAN /\ (since => connector = "cisa_kev")
    /\ present \in SUBSET Records
    /\ pc = "request"
    /\ at = 0
    /\ cursor = 0
    /\ pages = 0
    /\ attempt = 0
    /\ received = <<>>
    /\ status = "running"
    /\ ended = ""
    /\ steady = present
    /\ removed = 0
    /\ inserted = 0
-----------------------------------------------------------------------------
(* The source. *)

\* Records appear and vanish: one that is modified again leaves the window
\* that an incremental fetch asks for.
Publish(r) ==
    /\ pc # "ended"
    /\ removed + inserted < MaxChanges
    /\ r \notin present
    /\ present' = present \cup {r}
    /\ inserted' = inserted + 1
    /\ UNCHANGED <<connector, since, pc, progress, status, ended, steady,
                   removed>>

Withdraw(r) ==
    /\ pc # "ended"
    /\ removed + inserted < MaxChanges
    /\ r \in present
    /\ present' = present \ {r}
    /\ steady' = steady \ {r}
    /\ removed' = removed + 1
    /\ UNCHANGED <<connector, since, pc, progress, status, ended, inserted>>

\* The records in the order of the source.
Listing ==
    [i \in 1..Cardinality(present) |->
        CHOOSE r \in present : Cardinality({q \in present : q < r}) = i - 1]

\* At most PageSize entries of s.
FirstPage(s) == SubSeq(s, 1, IF Len(s) < PageSize THEN Len(s) ELSE PageSize)

\* How many of the listed records lie before the cursor.
Passed == Cardinality({r \in present : r <= cursor})

\* The entries the source answers with.
Items ==
    IF connector = "cisa_kev" THEN Listing
    ELSE IF connector = "github_advisory"
    THEN FirstPage(SubSeq(Listing, Passed + 1, Len(Listing)))
    ELSE FirstPage(SubSeq(Listing, at + 1, Len(Listing)))
-----------------------------------------------------------------------------
(* fetch. *)

\* Entries of another shape are passed over, and of the catalogue those that
\* were added before the day; the other sources select by themselves.
Wanted(r) == r \notin Junk /\ (since => r \notin Old)

\* The records that are handed to run_sync.
Yielded(items) == SelectSeq(items, Wanted)

\* Mutant: the offset counts the records that were of use.
Mut_Received(items) == at + Len(Yielded(items))

Received(items) == at + Len(items)

\* Mutant: the fetch ends when the next page would be the last.
Mut_ReachedEnd(items, total) ==
    \/ items = <<>>
    \/ connector \in ByOffset /\ Received(items) + PageSize >= total
    \/ connector = "github_advisory" /\ Last(items) = Last(Listing)

\* An empty page, the offset at the total, or no link to a next page.
ReachedEnd(items, total) ==
    \/ items = <<>>
    \/ connector \in ByOffset /\ Received(items) >= total
    \/ connector = "github_advisory" /\ Last(items) = Last(Listing)

\* Why a fetch ends with this page, or "".
EndOf(items, total) ==
    IF connector = "cisa_kev" THEN "end"
    ELSE IF ReachedEnd(items, total)
    THEN IF total = Len(Listing) THEN "end" ELSE "no_total"
    ELSE IF pages + 1 = MaxPages THEN "max_pages" ELSE ""

\* A page arrives, and its entries are yielded.
Arrive ==
    /\ pc = "request"
    /\ received' = received \o Items
    /\ at' = Received(Items)
    /\ cursor' = IF Items = <<>> THEN cursor ELSE Last(Items)
    /\ pages' = pages + 1
    /\ attempt' = 0
    /\ UNCHANGED <<connector, since, present, steady, removed, inserted>>

\* A total that the answer lacks is taken for 0.  The fetch is completed
\* whether it came to the end of the listing or not.
ReceivePage(total) ==
    /\ Arrive
    /\ total = Len(Listing) \/ (total = 0 /\ connector \in ByOffset)
    /\ ended' = EndOf(Items, total)
    /\ IF ended' = "" THEN UNCHANGED <<pc, status>>
       ELSE pc' = "ended" /\ status' = "completed"

\* ConnectorFetchError: run_sync records the failure.
Fail ==
    /\ pc' = "ended"
    /\ status' = "failed"
    /\ ended' = "error"

\* Mutant: the attempts are counted anew after each wait.
Mut_Attempts == 0

Attempts == attempt + 1

\* Requests to GitHub are not tried again.
Retryable == attempt < MaxRetries /\ connector # "github_advisory"

\* A timeout, a refused connection, or a status to try again on.
Unavailable ==
    /\ pc = "request"
    /\ Retryable
    /\ pc' = "backoff"
    /\ attempt' = Attempts
    /\ UNCHANGED <<connector, since, present, at, cursor, pages, received,
                   status, ended, steady, removed, inserted>>

WakeUp ==
    /\ pc = "backoff"
    /\ pc' = "request"
    /\ UNCHANGED <<connector, since, present, progress, status, ended, steady,
                   removed, inserted>>

\* The same without a try left.
GiveUp ==
    /\ pc = "request"
    /\ ~Retryable
    /\ Fail
    /\ UNCHANGED <<connector, since, present, progress, steady, removed,
                   inserted>>

\* Any other status, an answer that is too long, or not of the known shape.
Rejected ==
    /\ pc = "request"
    /\ Fail
    /\ UNCHANGED <<connector, since, present, progress, steady, removed,
                   inserted>>

\* An answer that raises another exception: one whose content cannot be
\* decoded, or from GitHub one that is not JSON.  The worker drops the sync.
Unparsable ==
    /\ pc = "request"
    /\ pc' = "ended"
    /\ ended' = "exception"
    /\ UNCHANGED <<connector, since, present, progress, status, steady,
                   removed, inserted>>

\* A total that is no number raises when the page has been yielded.
BadTotal ==
    /\ connector \in ByOffset
    /\ Items # <<>>
    /\ Arrive
    /\ pc' = "ended"
    /\ ended' = "exception"
    /\ UNCHANGED status

Fetch ==
    \/ \E total \in {0, Len(Listing)} : ReceivePage(total)
    \/ Unavailable \/ WakeUp \/ GiveUp \/ Rejected \/ Unparsable \/ BadTotal

FeedNext ==
    \/ Fetch
    \/ \E r \in Records : Publish(r) \/ Withdraw(r)

FeedSpec == FeedInit /\ [][FeedNext]_feedVars

\* Requests time out and waits end: the fetch goes on.
FairFeedSpec == FeedSpec /\ WF_feedVars(Fetch)
-----------------------------------------------------------------------------
(* Properties. *)

\* What the source lists on the pages that have been asked for.
Asked ==
    LET most == IF connector = "cisa_kev" THEN Len(Listing)
                ELSE pages * PageSize
    IN IF Len(Listing) <= most THEN Listing ELSE SubSeq(Listing, 1, most)

\* A completed fetch of a source that did not change has yielded what the
\* source lists on its pages, once and in order.  They are all the pages unless
\* max_pages stopped it or, with an offset, an answer without a total.
QuietReadIsExact ==
    (status = "completed" /\ removed + inserted = 0) =>
        /\ Yielded(received) = Yielded(Asked)
        /\ ended = "max_pages" => pages = MaxPages /\ Asked # Listing
        /\ Asked # Listing =>
              ended = "max_pages" \/ (ended = "no_total" /\ connector \in ByOffset)

\* The places at which an entry was received that had been received before.
Repeats ==
    {i \in DOMAIN received : \E j \in 1..i - 1 : received[j] = received[i]}

\* A fetch that came to the end misses, of the records that were listed all
\* the time, at most one for each record that vanished meanwhile, and yields at
\* most one twice for each that appeared; with a cursor, none.
ChangesCostLittle ==
    ended = "end" =>
        LET missed == {r \in steady : Wanted(r)} \ Range(received)
            again  == {i \in Repeats : Wanted(received[i])}
        IN IF connector \in ByOffset
           THEN Cardinality(missed) <= removed /\ Cardinality(again) <= inserted
           ELSE missed = {} /\ again = {}

\* A fetch ends, however long the source is and whatever it answers.
FetchEnds == <>(pc = "ended")
-----------------------------------------------------------------------------
(* What makes the invariants inductive. *)

FeedTypeOK ==
    /\ connector \in Connectors
    /\ since \in BOOLEAN
    /\ present \in SUBSET Records
    /\ steady \in SUBSET present
    /\ pc \in {"request", "backoff", "ended"}
    /\ at \in Nat /\ cursor \in Nat /\ pages \in Nat /\ attempt \in Nat
    /\ received \in Seq(Records)
    /\ status \in {"running", "completed", "failed"}
    /\ ended \in {"", "end", "no_total", "max_pages", "error", "exception"}
    /\ removed \in Nat /\ inserted \in Nat

\* How many records the source lists before r.
Rank(r) == Cardinality({q \in present : q < r})

\* The cursor follows the last entry, and pages counts to the limit.
PlaceInv ==
    /\ at = Len(received)
    /\ cursor = IF received = <<>> THEN 0 ELSE Last(received)
    /\ pc # "ended" => pages < MaxPages /\ ended = "" /\ status = "running"
    /\ (pc # "ended" /\ connector = "cisa_kev") => received = <<>>

\* Records that were listed all the time, lie before the offset and have not
\* been received.
Skipped == {r \in steady : Rank(r) < at} \ Range(received)

\* Records that have been received and lie beyond the offset again.
Ahead == {r \in present \cap Range(received) : Rank(r) >= at}

\* Every record skipped is due to one that vanished, and every record that is
\* repeated or going to be is due to one that appeared.
OffsetInv ==
    connector \in ByOffset =>
        /\ Cardinality(Skipped) <= removed
        /\ Cardinality(Repeats) + Cardinality(Ahead) <= inserted
        /\ ended = "end" => at >= Len(Listing)

\* A cursor goes through the records in their order.
CursorInv ==
    connector \notin ByOffset =>
        /\ \A i, j \in DOMAIN received : i < j => received[i] < received[j]
        /\ \A r \in steady : r <= cursor => r \in Range(received)
        /\ ended = "end" => \A r \in present : r <= cursor

\* What a fetch under way has of a source that stands still.
QuietInv ==
    (pc # "ended" /\ removed + inserted = 0) =>
        /\ received = SubSeq(Listing, 1, at)
        /\ at = pages * PageSize /\ at <= Len(Listing)

\* How much of such a source a completed fetch has read.
ReadInv ==
    (status = "completed" /\ removed + inserted = 0) =>
        /\ received = Asked
        /\ ended = "max_pages" => pages = MaxPages /\ Asked # Listing
        /\ Asked # Listing =>
              ended = "max_pages" \/ (ended = "no_total" /\ connector \in ByOffset)
=============================================================================
