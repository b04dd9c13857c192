------------------------------ MODULE CrawlWorker -----------------------------
(***************************************************************************)
(* The worker processes of worker.py over the tables of CrawlTable, the    *)
(* API's writes (create, cancel), time, and the faults a deployment meets: *)
(* a database call that fails or whose acknowledgement is lost, a SIGTERM, *)
(* a crash.  A worker that dies is restarted under the same worker id, as  *)
(* a restarted container keeps its hostname and pid.                       *)
(*                                                                         *)
(* While a job runs, four tasks of its event loop interleave: the crawl,   *)
(* the page flusher of DbReporter, the heartbeat watcher and the stop      *)
(* watcher.  They share the fields of one worker record.                   *)
(***************************************************************************)
EXTENDS CrawlTable

CONSTANTS
  NoCrawl,    \* no job
  Unusable,   \* crawls whose stored config no longer builds a CrawlConfig
  MaxPages,   \* bound: pages one run of a crawl reports
  MaxFaults   \* bound: failed calls, lost acknowledgements, signals and crashes

ASSUME NoCrawlAssumption == NoCrawl \notin Crawls
ASSUME UnusableAssumption == Unusable \subseteq Crawls
ASSUME BoundsAssumption == MaxPages \in Nat /\ MaxFaults \in Nat

VARIABLES
  worker,   \* the state of each worker process
  faults    \* faults so far

vars == <<crawl, page, reaping, worker, faults>>

-----------------------------------------------------------------------------

Interrupts == {"none", "cancel requested", "lease lost", "worker stopping"}

Watchers == {"heartbeat", "stop"}

\* The pcs under which run_job has a claimed crawl.
JobPcs == {"run", "drain", "record", "get", "finish"}

Worker == [
  pc : {"poll", "requeue", "give_up", "claim", "down"} \cup JobPcs,
  stop : BOOLEAN,                           \* the asyncio.Event set by SIGTERM
  job : Crawls \cup {NoCrawl},
  lease : Nat,                              \* history: crawl.lease when it was claimed
  interrupt : Interrupts,                   \* self._interrupt
  outcome : TerminalStates \cup {"none"},   \* what the crawl task ended as; "none" while it runs
  watchers : SUBSET Watchers,               \* the watcher tasks still running
  flushing : BOOLEAN,                       \* DbReporter.run() has not died
  seq : Nat,                                \* DbReporter._seq
  buffered : Nat]                           \* len(DbReporter._buffer): the rows seq-buffered+1..seq

WorkerTypeOK ==
  /\ worker \in [Workers -> Worker]
  /\ faults \in Nat

TypeOK == TableTypeOK /\ WorkerTypeOK

\* A worker between jobs; nothing of a job outlives it.
Between(pc, stop) ==
  [pc |-> pc, stop |-> stop, job |-> NoCrawl, lease |-> 0, interrupt |-> "none",
   outcome |-> "none", watchers |-> {}, flushing |-> FALSE, seq |-> 0, buffered |-> 0]

Init ==
  /\ TableInit
  /\ worker = [w \in Workers |-> Between("poll", FALSE)]
  /\ faults = 0

Fault == faults < MaxFaults /\ faults' = faults + 1

\* Worker w goes to `next`.
Becomes(w, next) == worker' = [worker EXCEPT ![w] = next]

Rows(me, from, to) == {[seq |-> i, lease |-> me.lease] : i \in from..to}

-----------------------------------------------------------------------------
(***************************************************************************)
(* The claim loop: run_forever, run_once, _reap_if_due.                    *)
(***************************************************************************)

\* Less than a lease since the last reap.
SkipReap(w) ==
  /\ worker[w].pc = "poll" /\ ~worker[w].stop
  /\ Becomes(w, [worker[w] EXCEPT !.pc = "claim"])
  /\ UNCHANGED <<tableVars, faults>>

ReapAbortCancelled(w) ==
  /\ worker[w].pc = "poll" /\ ~worker[w].stop
  /\ AbortCancelled(w)
  /\ Becomes(w, [worker[w] EXCEPT !.pc = "requeue"])
  /\ UNCHANGED faults

ReapRequeue(w) ==
  /\ worker[w].pc = "requeue"
  /\ Requeue(w)
  /\ Becomes(w, [worker[w] EXCEPT !.pc = "give_up"])
  /\ UNCHANGED faults

ReapGiveUp(w) ==
  /\ worker[w].pc = "give_up"
  /\ GiveUp(w)
  /\ Becomes(w, [worker[w] EXCEPT !.pc = "claim"])
  /\ UNCHANGED faults

\* run_forever catches the exception; the transaction is rolled back.
ReapFails(w) ==
  /\ worker[w].pc \in {"requeue", "give_up"}
  /\ Rollback(w)
  /\ Becomes(w, [worker[w] EXCEPT !.pc = "poll"])
  /\ Fault

\* The claim and the start of run_job, which has no await before the four
\* tasks exist; a config that no longer builds goes to _reject instead.
ClaimCrawl(w, c) ==
  LET started == [Between(IF c \in Unusable THEN "finish" ELSE "run", worker[w].stop)
                    EXCEPT !.job = c, !.lease = crawl[c].lease + 1]
  IN /\ worker[w].pc = "claim"
     /\ Claim(c, w)
     /\ Becomes(w, IF c \in Unusable
                     THEN [started EXCEPT !.outcome = "failed"]
                     ELSE [started EXCEPT !.watchers = Watchers, !.flushing = TRUE])
     /\ UNCHANGED faults

ClaimNothing(w) ==
  /\ worker[w].pc = "claim"
  /\ \A c \in Crawls : crawl[c].state # "queued"
  /\ Becomes(w, [worker[w] EXCEPT !.pc = "poll"])
  /\ UNCHANGED <<tableVars, faults>>

\* The claim raises: it never happened, or it committed and no job knows of it.
ClaimFails(w) ==
  /\ worker[w].pc = "claim"
  /\ \/ UNCHANGED tableVars
     \/ \E c \in Crawls : Claim(c, w)
  /\ Becomes(w, [worker[w] EXCEPT !.pc = "poll"])
  /\ Fault

\* run_forever returns.
Exit(w) ==
  /\ worker[w].pc = "poll" /\ worker[w].stop
  /\ Becomes(w, Between("down", FALSE))
  /\ UNCHANGED <<tableVars, faults>>

-----------------------------------------------------------------------------
(***************************************************************************)
(* A running job: the crawl task, the flusher and the two watchers.        *)
(***************************************************************************)

Running(w) == worker[w].pc = "run"

\* The crawl hands a page to DbReporter.page.
ReportPage(w) ==
  /\ Running(w) /\ worker[w].outcome = "none"
  /\ worker[w].seq < MaxPages
  /\ Becomes(w, [worker[w] EXCEPT !.seq = @ + 1, !.buffered = @ + 1])
  /\ UNCHANGED <<tableVars, faults>>

\* The crawl task completes: the frontier drained, SeedError or another
\* exception, the failure fuse.
CrawlEnds(w, outcome) ==
  /\ Running(w) /\ worker[w].outcome = "none" /\ worker[w].interrupt = "none"
  /\ Becomes(w, [worker[w] EXCEPT !.outcome = outcome])
  /\ UNCHANGED <<tableVars, faults>>

\* task.cancel() takes effect.
CrawlCancelled(w) ==
  /\ Running(w) /\ worker[w].outcome = "none" /\ worker[w].interrupt # "none"
  /\ Becomes(w, [worker[w] EXCEPT !.outcome = "aborted"])
  /\ UNCHANGED <<tableVars, faults>>

\* The oldest n buffered rows of me.
Batch(me, n) == Rows(me, me.seq - me.buffered + 1, me.seq - me.buffered + n)

\* Mutant of Flush: the batch leaves the buffer before the insert has committed.
FlushForgetsOnFailure(w) ==
  LET me == worker[w]
  IN /\ Running(w) /\ me.flushing
     /\ \E n \in 1..me.buffered :
          /\ Becomes(w, [me EXCEPT !.buffered = @ - n])
          /\ \/ InsertPages(me.job, w, Batch(me, n)) /\ UNCHANGED faults
             \/ UNCHANGED tableVars /\ Fault

\* DbReporter._flush.  The batch is what was buffered when the call began, so
\* a prefix of what is buffered at the commit.  A failed flush changes nothing.
\* A flush still in flight when the job ends holds the _writing lock, and close()
\* waits for it: that commit is the same as one just before JobEnds.
Flush(w) ==
  LET me == worker[w]
  IN /\ Running(w) /\ me.flushing
     /\ \E n \in 1..me.buffered :
          /\ InsertPages(me.job, w, Batch(me, n))
          /\ \/ /\ Becomes(w, [me EXCEPT !.buffered = @ - n])
                /\ UNCHANGED faults
             \/ /\ UNCHANGED worker        \* the acknowledgement is lost
                /\ Fault

\* LeaseLostError ends DbReporter.run; nobody looks at the task until the drain.
FlusherDies(w) ==
  LET me == worker[w]
  IN /\ Running(w) /\ me.flushing /\ me.buffered > 0
     /\ ~Owns(w, me.job)
     /\ Becomes(w, [me EXCEPT !.flushing = FALSE])
     /\ UNCHANGED <<tableVars, faults>>

\* Mutant of Interrupted: the arguments are swapped.
InterruptedSwapped(me, interrupt, watcher) ==
  [me EXCEPT !.interrupt = watcher, !.watchers = @ \ {interrupt}]

\* _cancel: the last interrupt overwrites the one before.
Interrupted(me, interrupt, watcher) ==
  [me EXCEPT !.interrupt = interrupt, !.watchers = @ \ {watcher}]

Watching(w, watcher) == Running(w) /\ watcher \in worker[w].watchers

HeartbeatLands(w) ==
  LET me == worker[w]
  IN /\ Watching(w, "heartbeat")
     /\ Heartbeat(me.job, w, me.seq)
     /\ Becomes(w, IF crawl[me.job].cancel_requested
                     THEN Interrupted(me, "cancel requested", "heartbeat")
                     ELSE me)
     /\ UNCHANGED faults

HeartbeatLeaseLost(w) ==
  LET me == worker[w]
  IN /\ Watching(w, "heartbeat")
     /\ ~Owns(w, me.job)
     /\ Becomes(w, Interrupted(me, "lease lost", "heartbeat"))
     /\ UNCHANGED <<tableVars, faults>>

\* The call raises, with or without having reached the row.  Within a lease of
\* the last success the watcher goes on; past it, it gives the crawl up.
HeartbeatFails(w) ==
  LET me == worker[w]
  IN /\ Watching(w, "heartbeat")
     /\ UNCHANGED tableVars \/ Heartbeat(me.job, w, me.seq)
     /\ UNCHANGED worker \/ Becomes(w, Interrupted(me, "lease lost", "heartbeat"))
     /\ Fault

CancelOnStop(w) ==
  /\ Watching(w, "stop") /\ worker[w].stop
  /\ Becomes(w, Interrupted(worker[w], "worker stopping", "stop"))
  /\ UNCHANGED <<tableVars, faults>>

\* _outcome returns, _stop_watchers; a worker that lost the lease discards.
JobEnds(w) ==
  LET me == worker[w]
  IN /\ Running(w) /\ me.outcome # "none"
     /\ Becomes(w, [me EXCEPT !.pc = "drain", !.watchers = {},
                              !.buffered = IF me.interrupt = "lease lost" THEN 0 ELSE @])
     /\ UNCHANGED <<tableVars, faults>>

-----------------------------------------------------------------------------
(***************************************************************************)
(* The end of a job: _drain_pages and _record.  No heartbeat is sent here. *)
(***************************************************************************)

Drained(me) == [me EXCEPT !.pc = "record", !.flushing = FALSE]

Drain(w) ==
  LET me == worker[w]
  IN /\ me.pc = "drain"
     /\ IF me.buffered = 0
          THEN UNCHANGED tableVars
          ELSE InsertPages(me.job, w, Batch(me, me.buffered))
     /\ Becomes(w, [Drained(me) EXCEPT !.buffered = 0])
     /\ UNCHANGED faults

DrainLeaseLost(w) ==
  LET me == worker[w]
  IN /\ me.pc = "drain" /\ me.buffered > 0
     /\ ~Owns(w, me.job)
     /\ Becomes(w, [Drained(me) EXCEPT !.interrupt = "lease lost"])
     /\ UNCHANGED <<tableVars, faults>>

\* Mutant of DrainFails: a crawl whose last pages were lost still finishes.
DrainFailsUnnoticed(w) ==
  LET me == worker[w]
  IN /\ me.pc = "drain" /\ me.buffered > 0
     /\ \/ UNCHANGED tableVars
        \/ \E n \in 1..me.buffered : InsertPages(me.job, w, Batch(me, n))
     /\ Becomes(w, Drained(me))
     /\ Fault

\* close() raises or times out, with or without the batch having committed: a
\* finished crawl becomes a failed one.
DrainFails(w) ==
  LET me == worker[w]
  IN /\ me.pc = "drain" /\ me.buffered > 0
     /\ \/ UNCHANGED tableVars
        \/ \E n \in 1..me.buffered : InsertPages(me.job, w, Batch(me, n))
     /\ Becomes(w, [Drained(me) EXCEPT !.outcome = IF @ = "finished" THEN "failed" ELSE @])
     /\ Fault

\* run_once returns True and run_forever goes round.
Done(w) == Becomes(w, Between("poll", worker[w].stop))

RecordLeaseLost(w) ==
  /\ worker[w].pc = "record" /\ worker[w].interrupt = "lease lost"
  /\ Done(w)
  /\ UNCHANGED <<tableVars, faults>>

RecordOutcome(w) ==
  /\ worker[w].pc = "record" /\ worker[w].interrupt \in {"none", "cancel requested"}
  /\ Becomes(w, [worker[w] EXCEPT !.pc = "finish"])
  /\ UNCHANGED <<tableVars, faults>>

Stopping(w) == worker[w].pc = "record" /\ worker[w].interrupt = "worker stopping"

\* _requeue hands the crawl back.
RequeueJob(w) ==
  /\ Stopping(w)
  /\ Release(worker[w].job, w)
  /\ Done(w)
  /\ UNCHANGED faults

\* release matched no row: a cancel raced it, or another worker owns the crawl.
ReleaseRefused(w) ==
  /\ Stopping(w)
  /\ ~ReleaseMatches(worker[w].job, w)
  /\ Becomes(w, [worker[w] EXCEPT !.pc = "get"])
  /\ UNCHANGED <<tableVars, faults>>

\* repo.get only chooses a log line; the outcome becomes aborted either way.
GetAfterRefusal(w) ==
  /\ worker[w].pc = "get"
  /\ Becomes(w, [worker[w] EXCEPT !.pc = "finish", !.outcome = "aborted"])
  /\ UNCHANGED <<tableVars, faults>>

\* release or get raises into run_forever; release may have committed.
RequeueFails(w) ==
  /\ Stopping(w) \/ worker[w].pc = "get"
  /\ UNCHANGED tableVars \/ (Stopping(w) /\ Release(worker[w].job, w))
  /\ Done(w)
  /\ Fault

\* _write_terminal_state; finish either matches the row or leaves it alone.
WriteTerminalState(w) ==
  LET me == worker[w]
  IN /\ me.pc = "finish"
     /\ IF FinishMatches(me.job, w)
          THEN Finish(me.job, w, me.outcome, me.seq)
          ELSE UNCHANGED tableVars
     /\ Done(w)
     /\ UNCHANGED faults

\* The write raises, with or without having landed; it is tried again until a
\* lease has passed.  A write that fails without landing and is tried again
\* changes nothing.
WriteTerminalStateFails(w) ==
  LET me == worker[w]
  IN /\ me.pc = "finish"
     /\ UNCHANGED tableVars \/ Finish(me.job, w, me.outcome, me.seq)
     /\ UNCHANGED worker \/ Done(w)
     /\ Fault

-----------------------------------------------------------------------------
(***************************************************************************)
(* The process and its surroundings.                                       *)
(***************************************************************************)

Sigterm(w) ==
  /\ worker[w].pc # "down" /\ ~worker[w].stop
  /\ Becomes(w, [worker[w] EXCEPT !.stop = TRUE])
  /\ Fault
  /\ UNCHANGED tableVars

\* The process dies; PostgreSQL rolls its open transaction back.
Crash(w) ==
  /\ worker[w].pc # "down"
  /\ Rollback(w)
  /\ Becomes(w, Between("down", FALSE))
  /\ Fault

\* docker-compose.yml: restart: unless-stopped.
Restart(w) ==
  /\ worker[w].pc = "down"
  /\ Becomes(w, Between("poll", FALSE))
  /\ UNCHANGED <<tableVars, faults>>

ClaimLoop(w) ==
  \/ SkipReap(w) \/ ReapAbortCancelled(w) \/ ReapRequeue(w) \/ ReapGiveUp(w)
  \/ ReapFails(w)
  \/ \E c \in Crawls : ClaimCrawl(w, c)
  \/ ClaimNothing(w) \/ ClaimFails(w) \/ Exit(w)

RunJob(w) ==
  \/ ReportPage(w)
  \/ \E outcome \in TerminalStates : CrawlEnds(w, outcome)
  \/ CrawlCancelled(w)
  \/ Flush(w) \/ FlusherDies(w)
  \/ HeartbeatLands(w) \/ HeartbeatLeaseLost(w) \/ HeartbeatFails(w) \/ CancelOnStop(w)
  \/ JobEnds(w)

EndJob(w) ==
  \/ Drain(w) \/ DrainLeaseLost(w) \/ DrainFails(w)
  \/ RecordLeaseLost(w) \/ RecordOutcome(w)
  \/ RequeueJob(w) \/ ReleaseRefused(w) \/ GetAfterRefusal(w) \/ RequeueFails(w)
  \/ WriteTerminalState(w) \/ WriteTerminalStateFails(w)

Process(w) == Sigterm(w) \/ Crash(w) \/ Restart(w)

Api(c) == (Create(c) \/ RequestCancel(c)) /\ UNCHANGED <<worker, faults>>

Time(c) == Expire(c) /\ UNCHANGED <<worker, faults>>

Next ==
  \/ \E w \in Workers : ClaimLoop(w) \/ RunJob(w) \/ EndJob(w) \/ Process(w)
  \/ \E c \in Crawls : Api(c) \/ Time(c)

Spec == Init /\ [][Next]_vars

-----------------------------------------------------------------------------
(***************************************************************************)
(* Safety.                                                                 *)
(***************************************************************************)

\* The stored pages of a crawl all come from its latest claim: claim() wipes the
\* pages of earlier runs and insert_pages is fenced on the lease, so a worker
\* whose crawl was reaped and claimed again never adds a page to it.
PagesOfLatestLease ==
  \A c \in Crawls : \A p \in page[c] : p.lease = crawl[c].lease

Seqs(c) == {p.seq : p \in page[c]}

\* The stored seqs of a crawl are 1..n, each stored once: batches are sent in
\* order, a failed one is sent again, a re-sent one adds nothing.
PagesGapFree ==
  \A c \in Crawls : \E n \in 0..MaxPages :
    Seqs(c) = 1..n /\ Cardinality(page[c]) = n

\* A crawl recorded as finished has stored every page it reported: the last
\* flush decides before the terminal state is written.
FinishedIsComplete ==
  \A c \in Crawls :
    crawl[c].state = "finished" => Seqs(c) = 1..crawl[c].stats

\* A crawl is run max_attempts times at most: the queue never holds one that has
\* used up its attempts, whatever reaps and hand-backs happened before.
AttemptsLeftInQueue ==
  \A c \in Crawls : crawl[c].state = "queued" => crawl[c].attempts < MaxAttempts

HasJob(w) == worker[w].pc \in JobPcs

\* worker_id is enough of a fence, although finish and release look at nothing
\* else: while a row carries the id of a worker that has it as its job, that job
\* made the latest claim and the row is running, or settled by the job's own final
\* write.  A stalled worker, or one restarted under its old id, holds no other row.
WorkerIdFences ==
  \A w \in Workers :
    LET me == worker[w]
        row == crawl[me.job]
    IN HasJob(w) /\ row.worker_id = w
         => /\ row.lease = me.lease
            /\ \/ row.state = "running"
               \/ me.pc = "finish" /\ row.state = me.outcome /\ row.stats = me.seq

\* A crawl that reached a terminal state keeps it, with its stats and its pages:
\* neither a worker that outlived its lease, nor a reaper, nor a cancel touches it.
TerminalIsFinal ==
  [][\A c \in Crawls : Terminal(c) =>
       /\ crawl'[c].state = crawl[c].state
       /\ crawl'[c].stats = crawl[c].stats
       /\ page'[c] = page[c]]_vars

\* The reaper aborts a silent crawl whose cancel was requested; it does not give it
\* another run and does not call it lost (docs/service.md, "Reaper").
CancelledIsAborted ==
  [][\A c \in Crawls :
       /\ crawl[c].state = "running" /\ crawl[c].cancel_requested
       /\ crawl'[c].worker_id = NoWorker
       => crawl'[c].state = "aborted"]_vars

\* What a client of the API sees of crawl c.
Lifecycle(c) == INSTANCE CrawlLifecycle WITH
  state <- crawl[c].state,
  attempts <- crawl[c].attempts,
  pages <- Cardinality(page[c])

\* The workers, the reapers and the API together implement the lifecycle of every
\* crawl: no interleaving of theirs shows a client any other step, such as a
\* settled crawl running again, pages shrinking during a run, or one run too many.
\* It is \A c \in Crawls : Lifecycle(c)!Spec, with the quantifier inside the box.
ImplementsLifecycle ==
  /\ \A c \in Crawls : Lifecycle(c)!Init
  /\ [][\A c \in Crawls : Lifecycle(c)!Next \/ UNCHANGED Lifecycle(c)!vars]_vars

-----------------------------------------------------------------------------
(***************************************************************************)
(* Liveness.                                                               *)
(***************************************************************************)

\* Every step of a worker that no fault causes.
Step(w) ==
  \/ SkipReap(w) \/ ReapAbortCancelled(w) \/ ReapRequeue(w) \/ ReapGiveUp(w)
  \/ \E c \in Crawls : ClaimCrawl(w, c)
  \/ ClaimNothing(w) \/ Exit(w) \/ Restart(w)
  \/ JobEnds(w)
  \/ Drain(w) \/ DrainLeaseLost(w)
  \/ RecordLeaseLost(w) \/ RecordOutcome(w)
  \/ RequeueJob(w) \/ ReleaseRefused(w) \/ GetAfterRefusal(w)
  \/ WriteTerminalState(w)

\* No heartbeat watcher refreshes the row of c.
Silent(c) ==
  \A w \in Workers : worker[w].job = c => "heartbeat" \notin worker[w].watchers

(***************************************************************************)
(* A worker process makes progress and is restarted when it is down; a     *)
(* reap falls due again and again, since the clock passes a lease however  *)
(* often the worker goes round its loop; a crawl ends (its frontier drains *)
(* or its task is cancelled); a row that nobody refreshes grows old.       *)
(* Nothing is assumed of the flusher, of the heartbeats, of a cancel, or   *)
(* of a row that is still refreshed: it may expire or not.                 *)
(***************************************************************************)
Fairness ==
  /\ \A w \in Workers :
       /\ WF_vars(Step(w))
       /\ SF_vars(ReapAbortCancelled(w))
       /\ WF_vars(CrawlCancelled(w) \/ \E outcome \in TerminalStates : CrawlEnds(w, outcome))
  /\ \A c \in Crawls : WF_vars(Silent(c) /\ Time(c))

FairSpec == Spec /\ Fairness

\* Every crawl that is accepted is settled in the end, however its workers stall,
\* crash or lose acknowledgements on the way.
EveryCrawlSettles == \A c \in Crawls : Lifecycle(c)!Settles
=============================================================================
