------------------------------- MODULE MCReapRows ------------------------------
(***************************************************************************)
(* ReapRows with two crawls and two reapers.                               *)
(***************************************************************************)
EXTENDS ReapRows

CONSTANTS c1, c2, r1, r2

MCCrawls == {c1, c2}
MCReapers == {r1, r2}
=============================================================================
