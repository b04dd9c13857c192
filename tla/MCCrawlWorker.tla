---------------------------- MODULE MCCrawlWorker -----------------------------
(* CrawlWorker on small instances.  Workers are interchangeable. *)
EXTENDS CrawlWorker, TLC

WorkerSymmetry == Permutations(Workers)
=============================================================================
