-------------------------------- MODULE Dedup --------------------------------
(***************************************************************************)
(* merge: how one contribution of a source changes the merged view of a    *)
(* CVE, and which field changes it records.  A field stands for those that *)
(* are treated in the same way: kev_due_date for kev_date_added,           *)
(* epss_percentile for epss_date, cvss_score for the vector and version    *)
(* that are taken over with it, sources for the other united sets (CWE     *)
(* IDs, references).                                                       *)
(***************************************************************************)
EXTENDS Integers

CONSTANT None   \* a value that is not known

\* _SOURCE_PRIORITY: the lower number wins.
SourcePriority ==
    [nvd |-> 0, github_advisory |-> 1, cisa_kev |-> 2, epss |-> 3,
     manual_import |-> 4]

Sources == DOMAIN SourcePriority

\* Fields that several sources supply, and fields the last word counts for.
SharedFields == {"description", "cvss_score", "vendor"}
LatestFields == {"epss_score", "zero_click_relevance"}

\* The fields whose changes are recorded.  A merge changes vendor, epss_percentile,
\* published_at, last_modified_at and sources too (and, of what has no field here,
\* kev_known_ransomware), and a sync the domain_guess, without recording it.
TrackedFields == {"description", "cvss_score", "kev_listed", "kev_due_date"}
                   \cup LatestFields

\* A CVE nothing is known of.
Blank ==
    [description |-> None, cvss_score |-> None, vendor |-> None,
     epss_score |-> None, epss_percentile |-> None,
     zero_click_relevance |-> None,
     kev_listed |-> FALSE, kev_due_date |-> None, published_at |-> None,
     last_modified_at |-> None, domain_guess |-> None, sources |-> {}]

\* Mutant: what a contribution does not know replaces what is known.
Mut_TakesLatest(existing, c, f) == TRUE

TakesLatest(existing, c, f) == c[f] # None

\* The owner of a shared field is taken to be nvd, whoever supplied it.
Owner(existing, f) == IF existing[f] = None THEN None ELSE "nvd"

\* _better
Better(owner, old, source, new) ==
    /\ new # None
    /\ \/ old = None
       \/ owner = None
       \/ SourcePriority[source] < SourcePriority[owner]

Earliest(a, b) == IF a = None \/ (b # None /\ b < a) THEN b ELSE a
Newest(a, b) == IF a = None \/ (b # None /\ b > a) THEN b ELSE a

\* Whether contribution c supplies the value that field f has afterwards; the
\* percentile is replaced together with the score, even by one not known.
Supplies(existing, c, f) ==
    CASE f \in SharedFields ->
           Better(Owner(existing, f), existing[f], c.source, c[f])
      [] f \in LatestFields -> TakesLatest(existing, c, f)
      [] f = "epss_percentile" -> TakesLatest(existing, c, "epss_score")
      [] f = "kev_listed"   -> c.kev_listed
      [] f = "kev_due_date" -> c.kev_listed /\ c.kev_due_date # None
      [] OTHER              -> FALSE

merge(existing, c) ==
    [f \in DOMAIN Blank |->
        CASE f = "sources"          -> existing.sources \cup {c.source}
          [] f = "published_at"     -> Earliest(existing[f], c[f])
          [] f = "last_modified_at" -> Newest(existing[f], c[f])
          [] OTHER -> IF Supplies(existing, c, f) THEN c[f] ELSE existing[f]]

\* Mutant: only values that replace another one are recorded.
Mut_Changes(existing, c) ==
    {f \in TrackedFields : /\ Supplies(existing, c, f)
                           /\ c[f] # existing[f]
                           /\ existing[f] # None}

\* _track: the fields of which the merge records a new value.
Changes(existing, c) ==
    {f \in TrackedFields : Supplies(existing, c, f) /\ c[f] # existing[f]}
=============================================================================
