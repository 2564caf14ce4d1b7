------------------------ MODULE MCIntelligenceSync ------------------------
(***************************************************************************)
(* Instances of IntelligenceSync: two CVEs, what the sources can say of    *)
(* them, and the combinations of faults.                                   *)
(***************************************************************************)
EXTENDS IntelligenceSync, TLC

CONSTANTS c1, c2

MCTexts == {"tunnel", "tunnel_product", "handset"}
MCHits == [tunnel         |-> {"vpn_strong"},
           tunnel_product |-> {"vpn_strong", "vpn_product"},
           handset        |-> {"telecom_product"}]

From(source, v) ==
    [cve |-> v, source |-> source, product |-> None, description |-> None,
     cvss_score |-> None, vendor |-> None, epss_score |-> None,
     epss_percentile |-> None, zero_click_relevance |-> None, kev_listed |-> FALSE,
     kev_due_date |-> None, published_at |-> None, last_modified_at |-> None]

\* NVD analyses a CVE and analyses it again; the catalogues say what they
\* can, and the workbook holds a relevance, a KEV listing and an EPSS score without
\* a percentile.
MCContributions ==
    LET nvd == [From("nvd", c1) EXCEPT !.description = "tunnel",
                  !.published_at = 2, !.last_modified_at = 2]
        kev == [From("cisa_kev", c1) EXCEPT !.kev_listed = TRUE,
                  !.kev_due_date = 1, !.description = "tunnel_product"]
    IN {nvd,
        [nvd EXCEPT !.cvss_score = 98, !.vendor = "handset",
                    !.last_modified_at = 3, !.product = "box"],
        [nvd EXCEPT !.cve = c2],
        kev, [kev EXCEPT !.kev_due_date = 2, !.cve = c2],
        [From("epss", c1) EXCEPT !.epss_score = 400, !.epss_percentile = 60],
        [From("epss", c1) EXCEPT !.epss_score = 900, !.epss_percentile = 97],
        [From("epss", c1) EXCEPT !.epss_score = None],
        [From("github_advisory", c1) EXCEPT !.cvss_score = 75,
            !.description = "handset", !.published_at = 1],
        [From("manual_import", c1) EXCEPT !.zero_click_relevance = "high",
            !.kev_listed = TRUE, !.vendor = "tunnel_product",
            !.epss_score = 500]}

Budget(r, o, d, m, u, e, c, l) ==
    [request |-> r, overlap |-> o, record |-> d, malformed |-> m, outage |-> u,
     error |-> e, collision |-> o, crash |-> c, drop |-> l]

\* Two requests of one worker, with three records one of which fails, an
\* outage, a refused call or a crash; two writers at once, one of which may
\* crash; and one request whose worker loses its connection.
MCBudgets ==
    {Budget(2, 0, 3, 1, 0, 0, 0, 0), Budget(2, 0, 3, 0, 1, 0, 0, 0),
     Budget(2, 0, 2, 0, 0, 1, 0, 0), Budget(2, 0, 3, 0, 0, 0, 1, 0),
     Budget(2, 1, 2, 0, 0, 0, 1, 0), Budget(1, 1, 2, 0, 0, 0, 1, 1)}

\* Two syncs, one after the other, and nothing goes wrong.
TwoSyncs == {Budget(2, 0, 2, 0, 0, 0, 0, 0)}

SyncSymmetry == Permutations(Syncs) \cup Permutations(Workers)
=============================================================================
