------------------------------ MODULE LeaseClock -------------------------------
(***************************************************************************)
(* The lease in time.  CrawlWorker lets a lease expire at any moment; here *)
(* a clock says when: a worker "A" that crawls, drains and records with a  *)
(* heartbeat on the side, a worker "B" that polls, reaps and claims, and a *)
(* database that can be down.  Every call takes time, and only one made    *)
(* while the database is down fails; an outage may be as short as a call   *)
(* that fails by itself.  Times are in units of the clock.                 *)
(***************************************************************************)
EXTENDS Integers

CONSTANTS
  HeartbeatEvery,  \* heartbeat_seconds
  Lease,           \* lease_seconds
  PollEvery,       \* worker_poll_seconds
  CallTime,        \* the longest a call takes: COMMAND_TIMEOUT_SECONDS a command
  FlushTime,       \* FLUSH_TIMEOUT_SECONDS
  MaxTime,         \* bound: where the clock stops
  MaxOutages,      \* bound: times the database goes down
  MaxCrashes       \* bound: times A crashes

\* Settings.__post_init__
ASSUME SettingsAssumption ==
  /\ {HeartbeatEvery, Lease, PollEvery} \subseteq Nat \ {0}
  /\ Lease >= HeartbeatEvery
  /\ {CallTime, FlushTime, MaxTime, MaxOutages, MaxCrashes} \subseteq Nat

VARIABLES
  now,
  db,     \* up or not, since when, and how often it went down
  row,    \* of the crawl: its owner, its state, heartbeat_at and when A lost it
  job,    \* of A
  reaper  \* of B: when it last reaped, polls next, its call, and whether it has a job

vars == <<now, db, row, job, reaper>>

-----------------------------------------------------------------------------

NoCall == [kind |-> "none", began |-> 0, result |-> "none"]

Call(kind) == [kind |-> kind, began |-> now, result |-> "none"]

\* A claimed at time 0 and heard of it by `now`; B has been there for a while and has
\* nothing else to do.
Init ==
  /\ now \in 0..CallTime
  /\ db = [up |-> TRUE, since |-> 0, outages |-> 0]
  /\ row = [owner |-> "A", state |-> "running", beat |-> 0, lost |-> 0]
  /\ job = [phase |-> "crawl", started |-> 0, ok |-> now, next |-> now + HeartbeatEvery,
            call |-> NoCall, crashes |-> 0]
  /\ reaper \in [last : 1 - Lease..0, poll : now..now + PollEvery, call : {NoCall},
                 busy : {FALSE}]

Over(j) ==
  [j EXCEPT !.phase = "over", !.call = NoCall, !.started = 0, !.ok = 0, !.next = 0]

\* B is between two rounds of run_forever.
Waiting == ~reaper.busy /\ reaper.call = NoCall

\* Nothing that is due is put off: sleeps end, calls return within their timeout.
Tick ==
  /\ now < MaxTime
  /\ job.phase \in {"crawl", "record"} /\ job.call = NoCall => now < job.next
  /\ job.call # NoCall => now < job.call.began + CallTime
  /\ job.phase = "drain" => now < job.started + FlushTime
  /\ Waiting => now < reaper.poll
  /\ reaper.call # NoCall => now < reaper.call.began + CallTime
  /\ now' = now + 1
  /\ UNCHANGED <<db, row, job, reaper>>

-----------------------------------------------------------------------------
(***************************************************************************)
(* The database.                                                           *)
(***************************************************************************)

GoDown ==
  /\ db.up /\ db.outages < MaxOutages
  /\ db' = [up |-> FALSE, since |-> now, outages |-> db.outages + 1]
  /\ UNCHANGED <<now, row, job, reaper>>

ComeUp ==
  /\ ~db.up
  /\ db' = [db EXCEPT !.up = TRUE, !.since = now]
  /\ UNCHANGED <<now, row, job, reaper>>

\* The heartbeat of A commits; now() is the time its transaction began.
CommitHeartbeat ==
  /\ db.up /\ job.call.kind = "heartbeat" /\ job.call.result = "none"
  /\ IF row.owner = "A" /\ row.state = "running"
       THEN /\ row' = [row EXCEPT !.beat = job.call.began]
            /\ job' = [job EXCEPT !.call.result = "ok"]
       ELSE /\ UNCHANGED row
            /\ job' = [job EXCEPT !.call.result = "gone"]
  /\ UNCHANGED <<now, db, reaper>>

CommitFinish ==
  /\ db.up /\ job.call.kind = "finish" /\ job.call.result = "none"
  /\ IF row.owner = "A"
       THEN row' = [row EXCEPT !.state = "settled"] /\ job' = [job EXCEPT !.call.result = "ok"]
       ELSE UNCHANGED row /\ job' = [job EXCEPT !.call.result = "gone"]
  /\ UNCHANGED <<now, db, reaper>>

-----------------------------------------------------------------------------
(***************************************************************************)
(* The job of A.                                                           *)
(***************************************************************************)

StartHeartbeat ==
  /\ job.phase = "crawl" /\ job.call = NoCall /\ now = job.next
  /\ job' = [job EXCEPT !.call = Call("heartbeat")]
  /\ UNCHANGED <<now, db, row, reaper>>

HeartbeatReturns ==
  /\ job.phase = "crawl" /\ job.call.result # "none"
  /\ job' = IF job.call.result = "gone" THEN Over(job)
            ELSE [job EXCEPT !.ok = now, !.next = now + HeartbeatEvery, !.call = NoCall]
  /\ UNCHANGED <<now, db, row, reaper>>

\* Mutant of PastLease: it is the silence that counts, one interval longer.
PastLeaseAndMore == now - job.ok >= Lease + 2 * HeartbeatEvery + 2 * CallTime

\* Past the lease the reaper hands the crawl to another worker.
PastLease == now - job.ok >= Lease

HeartbeatFails ==
  /\ job.phase = "crawl" /\ job.call # NoCall /\ ~db.up
  /\ job' = IF PastLease THEN Over(job)
            ELSE [job EXCEPT !.next = now + HeartbeatEvery, !.call = NoCall]
  /\ UNCHANGED <<now, db, row, reaper>>

\* The crawl ends and the heartbeat with it, in its sleep or in its call.
EndCrawl ==
  /\ job.phase = "crawl"
  /\ job' = [job EXCEPT !.phase = "drain", !.started = now, !.ok = 0, !.next = 0, !.call = NoCall]
  /\ UNCHANGED <<now, db, row, reaper>>

EndDrain ==
  /\ job.phase = "drain"
  /\ job' = [job EXCEPT !.phase = "record", !.started = now, !.call = Call("finish")]
  /\ UNCHANGED <<now, db, row, reaper>>

FinishReturns ==
  /\ job.phase = "record" /\ job.call.result # "none"
  /\ job' = Over(job)
  /\ UNCHANGED <<now, db, row, reaper>>

PastDeadline == now >= job.started + Lease

FinishFails ==
  /\ job.phase = "record" /\ job.call # NoCall /\ ~db.up
  /\ job' = IF PastDeadline THEN Over(job)
            ELSE [job EXCEPT !.next = now + HeartbeatEvery, !.call = NoCall]
  /\ UNCHANGED <<now, db, row, reaper>>

RetryFinish ==
  /\ job.phase = "record" /\ job.call = NoCall /\ now = job.next
  /\ job' = [job EXCEPT !.call = Call("finish")]
  /\ UNCHANGED <<now, db, row, reaper>>

Crash ==
  /\ job.phase # "over" /\ job.crashes < MaxCrashes
  /\ job' = [Over(job) EXCEPT !.crashes = @ + 1]
  /\ UNCHANGED <<now, db, row, reaper>>

-----------------------------------------------------------------------------
(***************************************************************************)
(* The rounds of B: reap if it is due, then claim.                         *)
(***************************************************************************)

Due == now - reaper.last >= Lease

\* Mutant of LastReap: the time the next reap is due, not that of the last.
LastReapAhead == IF Due THEN now + Lease ELSE reaper.last

\* The time is noted before the reap is tried.
LastReap == IF Due THEN now ELSE reaper.last

StartRound ==
  /\ Waiting /\ now = reaper.poll
  /\ reaper' = [reaper EXCEPT !.last = LastReap, !.poll = 0,
                              !.call = Call(IF Due THEN "reap" ELSE "claim")]
  /\ UNCHANGED <<now, db, row, job>>

\* Mutant of Expired: a row is expired once it is half a lease old.
ExpiredEarly == row.state = "running" /\ row.beat < reaper.call.began - Lease \div 2

\* By the time the reap began.
Expired == row.state = "running" /\ row.beat < reaper.call.began - Lease

\* An expired crawl is queued, or settled if it was cancelled or has no attempt left.
CommitReap ==
  /\ db.up /\ reaper.call.kind = "reap" /\ reaper.call.result = "none"
  /\ IF Expired
       THEN \E state \in {"queued", "settled"} :
              row' = [row EXCEPT !.owner = "none", !.state = state,
                                 !.lost = IF row.owner = "A" THEN now ELSE @]
       ELSE UNCHANGED row
  /\ reaper' = [reaper EXCEPT !.call.result = "ok"]
  /\ UNCHANGED <<now, db, job>>

ReapReturns ==
  /\ reaper.call.kind = "reap" /\ reaper.call.result # "none"
  /\ reaper' = [reaper EXCEPT !.call = Call("claim")]
  /\ UNCHANGED <<now, db, row, job>>

CommitClaim ==
  /\ db.up /\ reaper.call.kind = "claim" /\ reaper.call.result = "none"
  /\ IF row.state = "queued"
       THEN /\ row' = [row EXCEPT !.owner = "B", !.state = "running", !.beat = reaper.call.began]
            /\ reaper' = [reaper EXCEPT !.call.result = "ok"]
       ELSE /\ UNCHANGED row
            /\ reaper' = [reaper EXCEPT !.call.result = "gone"]
  /\ UNCHANGED <<now, db, job>>

\* B runs what it claimed, or waits before it polls again.
ClaimReturns ==
  /\ reaper.call.kind = "claim" /\ reaper.call.result # "none"
  /\ reaper' = IF reaper.call.result = "ok" THEN [reaper EXCEPT !.call = NoCall, !.busy = TRUE]
               ELSE [reaper EXCEPT !.call = NoCall, !.poll = now + PollEvery]
  /\ UNCHANGED <<now, db, row, job>>

\* A reap that fails is not followed by a claim, and a claim may have committed.
RoundFails ==
  /\ reaper.call # NoCall /\ ~db.up
  /\ reaper' = [reaper EXCEPT !.call = NoCall, !.poll = now + PollEvery]
  /\ UNCHANGED <<now, db, row, job>>

Round == StartRound \/ CommitReap \/ ReapReturns \/ CommitClaim \/ ClaimReturns \/ RoundFails

Stopped == now = MaxTime /\ UNCHANGED vars

Next ==
  \/ Tick \/ GoDown \/ ComeUp \/ CommitHeartbeat \/ CommitFinish
  \/ StartHeartbeat \/ HeartbeatReturns \/ HeartbeatFails \/ EndCrawl \/ EndDrain
  \/ FinishReturns \/ FinishFails \/ RetryFinish \/ Crash
  \/ Round \/ Stopped

Spec == Init /\ [][Next]_vars

-----------------------------------------------------------------------------

Phases == {"crawl", "drain", "record", "over"}

Calls ==
  [kind : {"none", "heartbeat", "finish", "reap", "claim"}, began : Nat,
   result : {"none", "ok", "gone"}]

Jobs ==
  [phase : Phases, started : Nat, ok : Nat, next : Nat, call : Calls,
   crashes : 0..MaxCrashes]

Rows ==
  [owner : {"A", "B", "none"}, state : {"running", "queued", "settled"}, beat : Nat, lost : Nat]

Reapers == [last : Int, poll : Nat, call : Calls, busy : BOOLEAN]

\* The types; a row is never refreshed at a time that is still to come.
TypeOK ==
  /\ now \in Nat
  /\ db \in [up : BOOLEAN, since : Nat, outages : 0..MaxOutages]
  /\ row \in Rows
  /\ row.beat <= now
  /\ job \in Jobs
  /\ reaper \in Reapers

\* Once its lease is taken, A crawls on for less than a heartbeat and the calls around it,
\* whether the database tells A or A has to conclude it.
OverlapIsShort ==
  job.phase = "crawl" /\ row.owner # "A" => now < row.lost + HeartbeatEvery + 2 * CallTime

Latest(a, b) == IF a >= b THEN a ELSE b

\* B, if it has nothing else to do, takes an expired run from A within a lease, a poll and
\* two calls of when it expired or the database came back: also when its last reap was the
\* one that failed, when the next falls due while it claims, and when that takes its time.
SilenceIsNoticed ==
  row.state = "running" /\ row.owner = "A" /\ db.up =>
    now < Latest(row.beat + Lease, db.since) + Lease + PollEvery + 2 * CallTime

\* The final write is given up a lease after it was first tried, and one interval.
RecordEnds == job.phase = "record" => now < job.started + Lease + HeartbeatEvery + CallTime

\* A worker that lost touch does not go on for long: neither does it crawl on beside its
\* successor, nor does it try to record for ever.
LetsGoInTime == OverlapIsShort /\ RecordEnds

\* The lease covers an interval, the calls of two heartbeats and of the final write, and
\* a full drain.
LeaseCovers == Lease >= HeartbeatEvery + 3 * CallTime + FlushTime

\* Neither the database nor the worker has failed so far.
Untroubled == db.outages = 0 /\ job.crashes = 0

\* A worker that is slow but healthy keeps its crawl to the end: through a heartbeat that
\* takes its time, one that the end of the crawl cuts off, a full drain and the final write.
LeaseIsKept == LeaseCovers /\ Untroubled => row.owner = "A"
=============================================================================
