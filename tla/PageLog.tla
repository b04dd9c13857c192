------------------------------- MODULE PageLog ---------------------------------
(***************************************************************************)
(* What the pages of one crawl look like to everyone else: a log that only *)
(* the run that holds the lease appends to, in order and without gaps, and *)
(* that starts empty on every claim.                                       *)
(***************************************************************************)
EXTENDS Integers, FiniteSets

CONSTANTS
  MaxPages,   \* the most pages of a run
  MaxLeases   \* the most claims

VARIABLES
  state,   \* of the crawl: "queued", "running" or "settled"
  lease,   \* the number of its claims
  stored   \* its pages, each with the claim it was written under

vars == <<state, lease, stored>>

Init == state = "queued" /\ lease = 0 /\ stored = {}

Claim ==
  /\ state = "queued" /\ lease < MaxLeases
  /\ state' = "running" /\ lease' = lease + 1 /\ stored' = {}

Append ==
  /\ state = "running"
  /\ \E n \in Cardinality(stored) + 1..MaxPages :
       stored' = {[seq |-> s, lease |-> lease] : s \in 1..n}
  /\ UNCHANGED <<state, lease>>

Requeue == state = "running" /\ state' = "queued" /\ UNCHANGED <<lease, stored>>

Settle == state = "running" /\ state' = "settled" /\ UNCHANGED <<lease, stored>>

Next == Claim \/ Append \/ Requeue \/ Settle

Spec == Init /\ [][Next]_vars
=============================================================================
