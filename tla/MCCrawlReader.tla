----------------------------- MODULE MCCrawlReader ----------------------------
(* CrawlReader with the terminal states of repository.py. *)
EXTENDS CrawlReader

MCTerminalStates == {"finished", "failed", "aborted"}
=============================================================================
