------------------------ MODULE MCSourceConnectors ------------------------
(***************************************************************************)
(* An instance of SourceConnectors: seven records and room for six in      *)
(* three pages, so that a listing ends within a page, with a page and      *)
(* beyond the last page.                                                   *)
(***************************************************************************)
EXTENDS SourceConnectors

MCRecords == 1..7
=============================================================================
