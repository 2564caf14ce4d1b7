--------------------------- MODULE Normalisation ---------------------------
(***************************************************************************)
(* What a normalised contribution can say, by source.  Every mapper and    *)
(* the workbook reader leave the other fields unknown; a field whose value *)
(* cannot be parsed is unknown as well.  product stands for the list of    *)
(* affected products; CWE IDs and references are left out.                 *)
(***************************************************************************)

NvdFields == {"description", "cvss_score", "vendor", "product",
              "published_at", "last_modified_at"}

KevFields == {"description", "vendor", "product", "kev_listed", "kev_due_date"}

EpssFields == {"epss_score", "epss_percentile"}

AdvisoryFields == {"description", "cvss_score", "published_at",
                   "last_modified_at"}

WorkbookFields == {"description", "cvss_score", "vendor", "product",
                   "epss_score", "kev_listed", "zero_click_relevance"}

\* The fields a contribution of a source may fill.
NormalisedFields ==
    [nvd |-> NvdFields, cisa_kev |-> KevFields, epss |-> EpssFields,
     github_advisory |-> AdvisoryFields, manual_import |-> WorkbookFields]

\* c says nothing but what its source can, and an entry of the KEV catalogue
\* is listed.
Normalised(c, None) ==
    /\ \A f \in (UNION {NormalisedFields[s] : s \in DOMAIN NormalisedFields})
                  \ (NormalisedFields[c.source] \cup {"kev_listed"}) :
         c[f] = None
    /\ c.kev_listed => "kev_listed" \in NormalisedFields[c.source]
    /\ c.source = "cisa_kev" => c.kev_listed
=============================================================================
