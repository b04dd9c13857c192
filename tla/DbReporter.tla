------------------------------ MODULE DbReporter -------------------------------
(***************************************************************************)
(* The page buffer of a job and the transactions that empty it, await by   *)
(* await: the flusher and close() that share a lock, the event that wakes  *)
(* the flusher, and insert_pages as three round trips to a database that   *)
(* goes on without a client that timed out, failed or died.  One crawl,    *)
(* and every worker that may get to run it.                                *)
(***************************************************************************)
EXTENDS Integers, Sequences, FiniteSets, SequencesExt

CONSTANTS
  Workers,
  BatchSize,   \* page_batch_size
  MaxPages,    \* bound: pages a run reports
  MaxLeases,   \* bound: claims of the crawl
  MaxFaults    \* bound: failed calls and crashes

ASSUME NobodyAssumption == "none" \notin Workers
ASSUME BoundsAssumption == BatchSize \in Nat \ {0} /\ {MaxPages, MaxLeases, MaxFaults} \subseteq Nat

VARIABLES
  row,      \* of the crawl: its state, worker_id and, as a count, its claims
  page,     \* its pages: their seq and the claim they were written under
  job,      \* of each worker
  orphans,  \* transactions that hold their row lock without a client
  faults

vars == <<row, page, job, orphans, faults>>

-----------------------------------------------------------------------------

NoCall == [by |-> "none", phase |-> "none", rows |-> <<>>]

Idle ==
  [phase |-> "idle", lease |-> 0, seq |-> 0, buffer |-> <<>>, full |-> FALSE, flusher |-> "done",
   closer |-> "off", call |-> NoCall, lost |-> FALSE, clean |-> FALSE, written |-> 0]

Init ==
  /\ row = [state |-> "queued", owner |-> "none", lease |-> 0]
  /\ page = {}
  /\ job = [w \in Workers |-> Idle]
  /\ orphans = {}
  /\ faults = 0

Seqs == {p.seq : p \in page}

HoldsLock(w) == job[w].call.phase \in {"insert", "commit"}

\* An UPDATE of the row waits for the share locks of insert_pages.
RowIsFree == orphans = {} /\ \A w \in Workers : ~HoldsLock(w)

\* The transaction of a client that is gone; before COMMIT was sent it can only roll back.
Left(w) ==
  IF HoldsLock(w)
    THEN {[rows |-> job[w].call.rows, lease |-> job[w].lease,
           sent |-> job[w].call.phase = "commit"]}
    ELSE {}

\* ON CONFLICT DO NOTHING
Inserted(rows, lease) ==
  page \cup {[seq |-> s, lease |-> lease] : s \in ToSet(rows) \ Seqs}

-----------------------------------------------------------------------------
(***************************************************************************)
(* The crawl task and the job around it.                                   *)
(***************************************************************************)

\* claim; the job starts its crawl and its flusher.
Claim(w) ==
  /\ row.state = "queued" /\ row.lease < MaxLeases /\ job[w].phase = "idle" /\ RowIsFree
  /\ row' = [state |-> "running", owner |-> w, lease |-> row.lease + 1]
  /\ page' = {}
  /\ job' = [job EXCEPT ![w] = [Idle EXCEPT !.phase = "crawling", !.lease = row.lease + 1,
                                            !.flusher = "wait"]]
  /\ UNCHANGED <<orphans, faults>>

\* DbReporter.page
Page(w) ==
  /\ job[w].phase = "crawling" /\ job[w].seq < MaxPages
  /\ job' = [job EXCEPT ![w].seq = @ + 1,
                        ![w].buffer = Append(@, job[w].seq + 1),
                        ![w].full = @ \/ Len(job[w].buffer) + 1 >= BatchSize]
  /\ UNCHANGED <<row, page, orphans, faults>>

\* The crawl is over, by itself, on request or because the lease seems lost; discard, and
\* close up to its wait for the lock.
EndCrawl(w) ==
  /\ job[w].phase = "crawling"
  /\ \E lost \in BOOLEAN :
       job' = [job EXCEPT ![w].phase = "closing", ![w].lost = lost, ![w].full = TRUE,
                          ![w].closer = "lock",
                          ![w].buffer = IF lost THEN <<>> ELSE @]
  /\ UNCHANGED <<row, page, orphans, faults>>

\* _drain_pages once close() is over, and the flusher cancelled in whatever it waits for.
Drained(j, outcome) ==
  [j EXCEPT !.phase = "record", !.closer = outcome, !.flusher = "done", !.call = NoCall,
            !.lost = @ \/ outcome = "lost", !.clean = outcome = "clean"]

\* FLUSH_TIMEOUT_SECONDS, at any time.
CloseTimesOut(w) ==
  /\ job[w].phase = "closing"
  /\ job' = [job EXCEPT ![w] = Drained(@, "failed")]
  /\ orphans' = orphans \cup Left(w)
  /\ UNCHANGED <<row, page, faults>>

\* finish or release; or the row is another's, or the write never succeeds.
Record(w) ==
  /\ job[w].phase = "record"
  /\ job' = [job EXCEPT ![w] = Idle]
  /\ \/ UNCHANGED row
     \/ /\ ~job[w].lost /\ row.owner = w /\ RowIsFree
        /\ \/ row' = [row EXCEPT !.state = "settled"]
           \/ row' = [row EXCEPT !.state = "queued", !.owner = "none"]
  /\ UNCHANGED <<page, orphans, faults>>

\* The lease expired, whatever the worker is doing.
Reap ==
  /\ row.state = "running" /\ RowIsFree
  /\ row' = [row EXCEPT !.state = "queued", !.owner = "none"]
  /\ UNCHANGED <<page, job, orphans, faults>>

Crash(w) ==
  /\ job[w].phase # "idle" /\ faults < MaxFaults
  /\ orphans' = orphans \cup Left(w)
  /\ job' = [job EXCEPT ![w] = Idle]
  /\ faults' = faults + 1
  /\ UNCHANGED <<row, page>>

-----------------------------------------------------------------------------
(***************************************************************************)
(* run, close and _flush.                                                  *)
(***************************************************************************)

\* The event or the timer wakes the flusher.
Wake(w) ==
  /\ job[w].flusher = "wait"
  /\ job' = [job EXCEPT ![w].flusher = "lock", ![w].full = FALSE]
  /\ UNCHANGED <<row, page, orphans, faults>>

\* Mutant of NextRound: the event is cleared once the flush is over.
NextRoundCleared(j) ==
  [j EXCEPT !.flusher = IF j.phase = "closing" THEN "done" ELSE "wait", !.call = NoCall,
            !.full = FALSE]

\* The flusher at the end of a round, whether or not the flush succeeded.
NextRound(j) ==
  [j EXCEPT !.flusher = IF j.phase = "closing" THEN "done" ELSE "wait", !.call = NoCall]

\* _flush is over for its caller.
Returned(j, by) == IF by = "flusher" THEN NextRound(j) ELSE Drained(j, "clean")

\* Mutant of Batch: a flush sends no more than a batch.
BatchOnly(buffer) == SubSeq(buffer, 1, IF Len(buffer) < BatchSize THEN Len(buffer) ELSE BatchSize)

Batch(buffer) == buffer

\* The lock is free and the rows are taken; nothing to write ends the flush.
Enter(w, by) ==
  /\ job[w].call = NoCall
  /\ job[w][by] = "lock"
  /\ LET rows == Batch(job[w].buffer)
     IN job' = [job EXCEPT ![w] =
          IF rows = <<>> THEN Returned(@, by)
          ELSE [@ EXCEPT ![by] = "call", !.call = [by |-> by, phase |-> "select", rows |-> rows]]]
  /\ UNCHANGED <<row, page, orphans, faults>>

\* Mutant of Owns: the crawl's row is locked and never looked at.
OwnsAlways(w) == TRUE

Owns(w) == row.state = "running" /\ row.owner = w

\* SELECT ... FOR SHARE: the row is ours, or LeaseLostError ends the flusher or close().
Select(w) ==
  /\ job[w].call.phase = "select"
  /\ job' = [job EXCEPT ![w] =
       CASE Owns(w) -> [@ EXCEPT !.call.phase = "insert"]
         [] ~Owns(w) /\ @.call.by = "flusher" -> [@ EXCEPT !.flusher = "dead", !.call = NoCall]
         [] OTHER -> Drained(@, "lost")]
  /\ UNCHANGED <<row, page, orphans, faults>>

\* INSERT waits for a transaction that is inserting the same rows; then COMMIT is sent.
Insert(w) ==
  /\ job[w].call.phase = "insert"
  /\ orphans = {}
  /\ job' = [job EXCEPT ![w].call.phase = "commit"]
  /\ UNCHANGED <<row, page, orphans, faults>>

Commit(w) ==
  /\ job[w].call.phase = "commit"
  /\ page' = Inserted(job[w].call.rows, job[w].lease)
  /\ job' = [job EXCEPT ![w].call.phase = "reply"]
  /\ UNCHANGED <<row, orphans, faults>>

\* Mutant of Rest: every page is dropped, those reported during the insert as well.
RestOfNone(buffer, rows) == <<>>

\* del self._buffer[: len(rows)]
Rest(buffer, rows) == SubSeq(buffer, Len(rows) + 1, Len(buffer))

\* _flush after its insert_pages.
Written(j) ==
  Returned([j EXCEPT !.buffer = Rest(@, j.call.rows), !.written = @ + Len(j.call.rows)], j.call.by)

Reply(w) ==
  /\ job[w].call.phase = "reply"
  /\ job' = [job EXCEPT ![w] = Written(@)]
  /\ UNCHANGED <<row, page, orphans, faults>>

\* insert_pages raises: the flusher logs it and goes on, close() passes it on.
Failed(j) == IF j.call.by = "flusher" THEN NextRound(j) ELSE Drained(j, "failed")

Fail(w) ==
  /\ job[w].call # NoCall /\ faults < MaxFaults
  /\ orphans' = orphans \cup Left(w)
  /\ job' = [job EXCEPT ![w] = Failed(@)]
  /\ faults' = faults + 1
  /\ UNCHANGED <<row, page>>

OrphanEnds ==
  \E o \in orphans :
    /\ orphans' = orphans \ {o}
    /\ \/ UNCHANGED page
       \/ o.sent /\ page' = Inserted(o.rows, o.lease)
    /\ UNCHANGED <<row, job, faults>>

\* The crawl is settled, or has used up its claims.
Rested ==
  /\ row.state = "settled" \/ (row.state = "queued" /\ row.lease = MaxLeases)
  /\ orphans = {} /\ \A w \in Workers : job[w].phase = "idle"
  /\ UNCHANGED vars

Flush(w) ==
  \/ Wake(w) \/ Enter(w, "flusher") \/ Enter(w, "closer")
  \/ Select(w) \/ Insert(w) \/ Commit(w) \/ Reply(w)

Next ==
  \/ \E w \in Workers :
       Claim(w) \/ Page(w) \/ EndCrawl(w) \/ CloseTimesOut(w) \/ Record(w) \/ Crash(w)
         \/ Flush(w) \/ Fail(w)
  \/ Reap \/ OrphanEnds \/ Rested

Spec == Init /\ [][Next]_vars

-----------------------------------------------------------------------------

\* While a job has its lease, each page it reported is stored or still buffered.
NothingIsDropped ==
  \A w \in Workers :
    job[w].phase # "idle" /\ ~job[w].lost /\ row.lease = job[w].lease
      => 1..job[w].seq \subseteq Seqs \cup ToSet(job[w].buffer)

\* Until a flush fails, a sleeping flusher with a full batch before it has its event set,
\* also when the batch filled while it was writing another.
FullBufferIsNoticed ==
  \A w \in Workers :
    job[w].flusher = "wait" /\ Len(job[w].buffer) >= BatchSize /\ faults = 0 => job[w].full

\* The lock is held by a coroutine that is still inside its insert_pages.
LockIsHeldByACall ==
  \A w \in Workers : LET by == job[w].call.by IN by # "none" => job[w][by] = "call"

\* No wake-up is lost, and neither the flusher nor close() waits for a lock that a failed,
\* dead or finished flush has taken along.
NobodyWaitsInVain == FullBufferIsNoticed /\ LockIsHeldByACall

\* A close() that raised nothing has every page of the job in the database, and counted.
CleanCloseIsComplete ==
  \A w \in Workers :
    job[w].phase = "record" /\ job[w].clean /\ ~job[w].lost /\ row.lease = job[w].lease
      => Seqs = 1..job[w].seq /\ job[w].written = job[w].seq

Log == INSTANCE PageLog WITH state <- row.state, lease <- row.lease, stored <- page

\* Seen from outside, the pages are the first ones of the latest claim without a gap, are
\* appended only by the run that has the lease, and by none once the crawl is queued again
\* or settled: also when a transaction commits after its client gave it up.
ImplementsPageLog == Log!Spec
=============================================================================
