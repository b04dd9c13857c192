---------------------------- MODULE CrawlLifecycle ----------------------------
(***************************************************************************)
(* What the service promises of one crawl to the clients of its API,       *)
(* without saying how: no workers, no leases that expire, no reaper, no    *)
(* batches.  A crawl is queued, runs max_attempts times at most, hands its *)
(* run back only by giving it up as a whole, and once settled never        *)
(* changes again.  The pages a client reads are those of one run, 1..n.    *)
(***************************************************************************)
EXTENDS Integers

CONSTANTS MaxAttempts, TerminalStates

VARIABLES
  state,     \* crawl.state
  attempts,  \* crawl.attempts
  pages      \* how many pages of the latest run are stored

vars == <<state, attempts, pages>>

Init == state = "absent" /\ attempts = 0 /\ pages = 0

Submit ==
  /\ state = "absent" /\ state' = "queued"
  /\ UNCHANGED <<attempts, pages>>

\* A run starts from no pages and uses up an attempt.
Start ==
  /\ state = "queued" /\ attempts < MaxAttempts
  /\ state' = "running" /\ attempts' = attempts + 1 /\ pages' = 0

Store ==
  /\ state = "running" /\ pages' > pages
  /\ UNCHANGED <<state, attempts>>

\* The run ends; what it stored stays.
Settle ==
  /\ state = "running" /\ state' \in TerminalStates
  /\ UNCHANGED <<attempts, pages>>

\* The run was lost and an attempt is left.
Lose ==
  /\ state = "running" /\ attempts < MaxAttempts /\ state' = "queued"
  /\ UNCHANGED <<attempts, pages>>

\* The run was handed back, and its attempt with it.
HandBack ==
  /\ state = "running" /\ state' = "queued" /\ attempts' = attempts - 1
  /\ UNCHANGED pages

CancelQueued ==
  /\ state = "queued" /\ state' = "aborted"
  /\ UNCHANGED <<attempts, pages>>

Next == Submit \/ Start \/ Store \/ Settle \/ Lose \/ HandBack \/ CancelQueued

Spec == Init /\ [][Next]_vars

\* Every submitted crawl is settled in the end.
Settles == state = "queued" ~> state \in TerminalStates
=============================================================================
