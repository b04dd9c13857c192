--------------------------- MODULE CrawlWorkerProof ---------------------------
(***************************************************************************)
(* What is proved of the service, in three parts, each on top of the one   *)
(* before: its type correctness, with a lemma for each transaction of      *)
(* repository.py and for each group of worker actions; the fence of a row  *)
(* by worker_id; and the pages of a crawl, with the lifecycle that clients *)
(* see.                                                                    *)
(***************************************************************************)
EXTENDS CrawlWorker, FiniteSetTheorems, TLAPS

-----------------------------------------------------------------------------
(***************************************************************************)
(* The tables.                                                             *)
(***************************************************************************)

\* The effect of a transaction that updates the row of one crawl and may have
\* refreshed it for the open reaps.
LEMMA ClaimType ==
  ASSUME TableTypeOK, NEW c \in Crawls, NEW w \in Workers, Claim(c, w)
  PROVE  TableTypeOK'
<1> DEFINE n == crawl[c].attempts + 1
           l == crawl[c].lease + 1
           row == [crawl[c] EXCEPT !.state = "running", !.heartbeat_at = "fresh",
                                   !.worker_id = w, !.attempts = n, !.lease = l]
<1>1. n \in Nat /\ l \in Nat
  BY DEF TableTypeOK, Row
<1>2. crawl' = [crawl EXCEPT ![c] = row]
  BY DEF Claim
<1> HIDE DEF n, l
<1>3. row \in Row
  BY <1>1 DEF TableTypeOK, Row, Heartbeats
<1> HIDE DEF row
<1>4. page' \in [Crawls -> SUBSET Page]
  BY DEF TableTypeOK, Claim
<1>5. reaping' \in [Workers -> Reap]
  BY DEF TableTypeOK, Claim, Refreshed, Reap
<1> QED BY <1>2, <1>3, <1>4, <1>5 DEF TableTypeOK

LEMMA HeartbeatType ==
  ASSUME TableTypeOK, NEW c \in Crawls, NEW w \in Workers, NEW s \in Nat,
         Heartbeat(c, w, s)
  PROVE  TableTypeOK'
<1> DEFINE row == [crawl[c] EXCEPT !.heartbeat_at = "fresh", !.stats = s]
<1>0. row \in Row /\ crawl' = [crawl EXCEPT ![c] = row]
  BY DEF TableTypeOK, Heartbeat, Row, Heartbeats
<1> HIDE DEF row
<1>1. crawl' \in [Crawls -> Row]
  BY <1>0 DEF TableTypeOK
<1>2. reaping' \in [Workers -> Reap]
  BY DEF TableTypeOK, Heartbeat, Refreshed, Reap
<1> QED BY <1>1, <1>2 DEF TableTypeOK, Heartbeat

LEMMA FinishType ==
  ASSUME TableTypeOK, NEW c \in Crawls, NEW w \in Workers, NEW s \in Nat,
         NEW state \in TerminalStates, Finish(c, w, state, s)
  PROVE  TableTypeOK'
<1> DEFINE row == [crawl[c] EXCEPT !.state = state, !.stats = s]
<1>1. row \in Row /\ crawl' = [crawl EXCEPT ![c] = row]
  BY DEF TableTypeOK, Finish, Row
<1> HIDE DEF row
<1> QED BY <1>1 DEF TableTypeOK, Finish

LEMMA ReleaseType ==
  ASSUME TableTypeOK, NEW c \in Crawls, NEW w \in Workers, Release(c, w)
  PROVE  TableTypeOK'
<1> DEFINE n == HandedBack(crawl[c].attempts)
           row == [crawl[c] EXCEPT !.state = "queued", !.worker_id = NoWorker,
                                   !.heartbeat_at = "null", !.attempts = n]
<1>1. n \in Nat
  BY DEF HandedBack, TableTypeOK, Row
<1>2. crawl' = [crawl EXCEPT ![c] = row]
  BY DEF Release
<1> HIDE DEF n
<1>3. row \in Row
  BY <1>1 DEF TableTypeOK, Row, Heartbeats
<1> HIDE DEF row
<1>4. crawl' \in [Crawls -> Row]
  BY <1>2, <1>3 DEF TableTypeOK
<1> QED BY <1>4 DEF TableTypeOK, Release

LEMMA ReapType ==
  ASSUME TableTypeOK, NEW w \in Workers,
         AbortCancelled(w) \/ Requeue(w) \/ GiveUp(w) \/ Rollback(w)
  PROVE  TableTypeOK'
<1>1. CASE AbortCancelled(w)
  BY <1>1 DEF TableTypeOK, AbortCancelled, Reap
<1>2. CASE Requeue(w)
  BY <1>2 DEF TableTypeOK, Requeue, Reap, Expired
<1>3. CASE GiveUp(w)
  <2> DEFINE left(c) == Reaped(crawl[c], c, w, Expired(w))
  <2>1. ASSUME NEW c \in Crawls
        PROVE  left(c) \in Row
    <3>1. crawl[c] \in Row
      BY DEF TableTypeOK
    <3>2. /\ [crawl[c] EXCEPT !.state = "aborted", !.worker_id = NoWorker] \in Row
          /\ [crawl[c] EXCEPT !.state = "failed", !.worker_id = NoWorker] \in Row
      BY <3>1 DEF Row, TerminalStates
    <3>3. [crawl[c] EXCEPT !.state = "queued", !.worker_id = NoWorker, !.heartbeat_at = "null"]
            \in Row
      BY <3>1 DEF Row, Heartbeats
    <3> QED BY <3>1, <3>2, <3>3 DEF Reaped
  <2>2. crawl' = [c \in Crawls |-> left(c)]
    BY <1>3 DEF GiveUp
  <2> HIDE DEF left
  <2>3. crawl' \in [Crawls -> Row]
    BY <2>1, <2>2
  <2> QED BY <1>3, <2>3 DEF TableTypeOK, GiveUp, NoReap, Reap
<1>4. CASE Rollback(w)
  BY <1>4 DEF TableTypeOK, Rollback, NoReap, Reap
<1> QED BY <1>1, <1>2, <1>3, <1>4

LEMMA ApiAndTimeType ==
  ASSUME TableTypeOK, NEW c \in Crawls, Create(c) \/ RequestCancel(c) \/ Expire(c)
  PROVE  TableTypeOK'
<1>1. CASE Create(c)
  BY <1>1 DEF TableTypeOK, Create, Row
<1>2. CASE RequestCancel(c)
  <2>1. crawl' \in [Crawls -> Row]
    <3>1. CASE crawl' = [crawl EXCEPT ![c].state = "aborted"]
      BY <3>1 DEF TableTypeOK, Row, TerminalStates
    <3>2. CASE crawl' = [crawl EXCEPT ![c].cancel_requested = TRUE]
      BY <3>2 DEF TableTypeOK, Row
    <3> QED BY <1>2, <3>1, <3>2 DEF RequestCancel
  <2> QED BY <1>2, <2>1 DEF TableTypeOK, RequestCancel
<1>3. CASE Expire(c)
  BY <1>3 DEF TableTypeOK, Expire, Row, Heartbeats
<1> QED BY <1>1, <1>2, <1>3

LEMMA InsertPagesType ==
  ASSUME TableTypeOK, NEW c \in Crawls, NEW w \in Workers,
         NEW rows \in SUBSET Page, InsertPages(c, w, rows)
  PROVE  TableTypeOK'
BY DEF TableTypeOK, InsertPages

-----------------------------------------------------------------------------
(***************************************************************************)
(* Type correctness.  It needs more facts of a worker: one that runs a job *)
(* knows a crawl, and its outcome from the end of the crawl task on; and   *)
(* the buffer holds at most what was reported, so that the seqs of a batch *)
(* start at 1.                                                             *)
(***************************************************************************)

JobOK(me) ==
  me.pc \in JobPcs => /\ me.job \in Crawls
                      /\ me.pc # "run" => me.outcome # "none"

BufferOK(me) == me.buffered <= me.seq

Good == {me \in Worker : JobOK(me) /\ BufferOK(me)}

TypeInv == TableTypeOK /\ worker \in [Workers -> Good] /\ faults \in Nat

LEMMA FaultType == ASSUME faults \in Nat, Fault PROVE faults' \in Nat
BY DEF Fault

LEMMA BecomesType ==
  ASSUME worker \in [Workers -> Good], NEW w \in Workers, NEW next \in Good,
         Becomes(w, next)
  PROVE  worker' \in [Workers -> Good]
BY DEF Becomes

LEMMA BetweenGood ==
  ASSUME NEW pc \in {"poll", "down"}, NEW stop \in BOOLEAN
  PROVE  Between(pc, stop) \in Good
BY NoCrawlAssumption
   DEF Between, Good, Worker, JobOK, BufferOK, JobPcs, Interrupts, Watchers, TerminalStates

LEMMA GoodField ==
  ASSUME NEW me \in Good
  PROVE  /\ me \in Worker
         /\ me.seq \in Nat /\ me.buffered \in Nat /\ me.buffered <= me.seq
         /\ me.lease \in Nat /\ me.stop \in BOOLEAN
         /\ me.pc \in JobPcs => me.job \in Crawls
         /\ me.pc \in JobPcs \ {"run"} => me.outcome \in TerminalStates
BY DEF Good, Worker, JobOK, BufferOK

\* A batch is a set of pages whose seqs start at 1 or later.
LEMMA BatchType ==
  ASSUME NEW me \in Good, NEW n \in 1..me.buffered
  PROVE  Batch(me, n) \in SUBSET Page
<1>1. me.seq - me.buffered + 1 \in Nat /\ me.seq - me.buffered + n \in Nat
  BY GoodField
<1> DEFINE a == me.seq - me.buffered + 1
           b == me.seq - me.buffered + n
<1>2. \A i \in a..b : i \in Nat
  BY <1>1
<1>3. Batch(me, n) = {[seq |-> i, lease |-> me.lease] : i \in a..b}
  BY DEF Batch, Rows
<1> HIDE DEF a, b
<1>4. me.lease \in Nat
  BY GoodField
<1> QED BY <1>2, <1>3, <1>4 DEF Page

LEMMA PcGood ==
  ASSUME NEW me \in Good,
         NEW pc \in {"poll", "requeue", "give_up", "claim", "down"}
  PROVE  [me EXCEPT !.pc = pc] \in Good
BY DEF Good, Worker, JobOK, BufferOK, JobPcs

LEMMA JobPcGood ==
  ASSUME NEW me \in Good, me.pc \in JobPcs \ {"run"}, NEW pc \in JobPcs
  PROVE  [me EXCEPT !.pc = pc] \in Good
BY DEF Good, Worker, JobOK, BufferOK, JobPcs

LEMMA BufferedGood ==
  ASSUME NEW me \in Good, NEW s \in Nat, NEW b \in Nat, b <= s
  PROVE  [me EXCEPT !.seq = s, !.buffered = b] \in Good
BY DEF Good, Worker, JobOK, BufferOK

LEMMA OutcomeGood ==
  ASSUME NEW me \in Good, NEW o \in TerminalStates
  PROVE  [me EXCEPT !.outcome = o] \in Good
BY DEF Good, Worker, JobOK, BufferOK, TerminalStates

LEMMA InterruptedGood ==
  ASSUME NEW me \in Good, NEW i \in Interrupts, NEW t \in Watchers
  PROVE  Interrupted(me, i, t) \in Good
BY DEF Good, Worker, JobOK, BufferOK, Interrupted

LEMMA ClaimLoopType ==
  ASSUME TypeInv, NEW w \in Workers, ClaimLoop(w)
  PROVE  TypeInv'
<1> DEFINE me == worker[w]
<1>1. me \in Good /\ me.stop \in BOOLEAN
  BY GoodField DEF TypeInv
<1>2. \A pc \in {"poll", "requeue", "give_up", "claim", "down"} :
        [me EXCEPT !.pc = pc] \in Good
  BY <1>1, PcGood
<1>3. ASSUME NEW pc \in {"poll", "requeue", "give_up", "claim", "down"},
             Becomes(w, [worker[w] EXCEPT !.pc = pc])
      PROVE  worker' \in [Workers -> Good]
  BY <1>2, <1>3, BecomesType DEF TypeInv
<1>4. CASE SkipReap(w)
  BY <1>3, <1>4 DEF SkipReap, TypeInv, TableTypeOK, tableVars
<1>5. CASE ReapAbortCancelled(w)
  BY <1>3, <1>5, ReapType DEF ReapAbortCancelled, TypeInv
<1>6. CASE ReapRequeue(w)
  BY <1>3, <1>6, ReapType DEF ReapRequeue, TypeInv
<1>7. CASE ReapGiveUp(w)
  BY <1>3, <1>7, ReapType DEF ReapGiveUp, TypeInv
<1>8. CASE ReapFails(w)
  BY <1>3, <1>8, ReapType, FaultType DEF ReapFails, TypeInv
<1>9. ASSUME NEW c \in Crawls, ClaimCrawl(w, c)
      PROVE  TypeInv'
  <2> DEFINE l == crawl[c].lease + 1
             pc == IF c \in Unusable THEN "finish" ELSE "run"
             started == [Between(pc, me.stop) EXCEPT !.job = c, !.lease = l]
             next == IF c \in Unusable
                       THEN [started EXCEPT !.outcome = "failed"]
                       ELSE [started EXCEPT !.watchers = Watchers, !.flushing = TRUE]
  <2>1. l \in Nat
    BY DEF TypeInv, TableTypeOK, Row
  <2>2. Becomes(w, next)
    BY <1>9 DEF ClaimCrawl
  <2> HIDE DEF l, me
  <2>3. next \in Good
    <3>1. CASE c \in Unusable
      <4>1. next = [pc |-> "finish", stop |-> me.stop, job |-> c, lease |-> l,
                    interrupt |-> "none", outcome |-> "failed", watchers |-> {},
                    flushing |-> FALSE, seq |-> 0, buffered |-> 0]
        BY <3>1 DEF Between
      <4> HIDE DEF next
      <4>2. next \in Worker
        BY <1>1, <2>1, <4>1 DEF Worker, JobPcs, Interrupts, TerminalStates
      <4> QED BY <4>1, <4>2 DEF Good, JobOK, BufferOK
    <3>2. CASE c \notin Unusable
      <4>1. next = [pc |-> "run", stop |-> me.stop, job |-> c, lease |-> l,
                    interrupt |-> "none", outcome |-> "none", watchers |-> Watchers,
                    flushing |-> TRUE, seq |-> 0, buffered |-> 0]
        BY <3>2 DEF Between
      <4> HIDE DEF next
      <4>2. next \in Worker
        BY <1>1, <2>1, <4>1 DEF Worker, JobPcs, Interrupts
      <4> QED BY <4>1, <4>2 DEF Good, JobOK, BufferOK
    <3> QED BY <3>1, <3>2
  <2> HIDE DEF next
  <2> QED BY <1>9, <2>2, <2>3, ClaimType, BecomesType DEF ClaimCrawl, TypeInv
<1>10. CASE ClaimNothing(w)
  BY <1>3, <1>10 DEF ClaimNothing, TypeInv, TableTypeOK, tableVars
<1>11. CASE ClaimFails(w)
  BY <1>3, <1>11, ClaimType, FaultType DEF ClaimFails, TypeInv, TableTypeOK, tableVars
<1>12. CASE Exit(w)
  BY <1>12, BetweenGood, BecomesType DEF Exit, TypeInv, TableTypeOK, tableVars
<1> QED BY <1>4, <1>5, <1>6, <1>7, <1>8, <1>9, <1>10, <1>11, <1>12 DEF ClaimLoop

\* The type of the tables does not depend on the workers.
LEMMA TablesUnchangedType ==
  ASSUME TableTypeOK, UNCHANGED tableVars
  PROVE  TableTypeOK'
BY DEF TableTypeOK, tableVars

LEMMA RunJobType ==
  ASSUME TypeInv, NEW w \in Workers, RunJob(w)
  PROVE  TypeInv'
<1> DEFINE me == worker[w]
<1>1. /\ me \in Good /\ me.seq \in Nat /\ me.buffered \in Nat /\ me.buffered <= me.seq
      /\ me.pc = "run" /\ me.job \in Crawls
  BY GoodField
     DEF TypeInv, JobPcs, RunJob, Running, Watching, ReportPage, CrawlEnds, CrawlCancelled,
         Flush, FlusherDies, HeartbeatLands, HeartbeatLeaseLost, HeartbeatFails,
         CancelOnStop, JobEnds
<1>2. ASSUME NEW next \in Good, Becomes(w, next)
      PROVE  worker' \in [Workers -> Good]
  BY <1>2, BecomesType DEF TypeInv
<1>3. \A i \in Interrupts, t \in Watchers : Interrupted(me, i, t) \in Good
  BY <1>1, InterruptedGood
<1>4. CASE ReportPage(w)
  <2> DEFINE s == me.seq + 1
             b == me.buffered + 1
  <2>1. s \in Nat /\ b \in Nat /\ b <= s
    BY <1>1
  <2>2. Becomes(w, [me EXCEPT !.seq = s, !.buffered = b])
    BY <1>4 DEF ReportPage
  <2> HIDE DEF s, b
  <2>3. [me EXCEPT !.seq = s, !.buffered = b] \in Good
    BY <1>1, <2>1, BufferedGood
  <2> QED BY <1>2, <1>4, <2>2, <2>3, TablesUnchangedType DEF ReportPage, TypeInv
<1>5. ASSUME NEW o \in TerminalStates, CrawlEnds(w, o)
      PROVE  TypeInv'
  BY <1>1, <1>2, <1>5, OutcomeGood, TablesUnchangedType DEF CrawlEnds, TypeInv
<1>6. CASE CrawlCancelled(w)
  BY <1>1, <1>2, <1>6, OutcomeGood, TablesUnchangedType
     DEF CrawlCancelled, TypeInv, TerminalStates
<1>7. CASE Flush(w)
  <2>1. PICK n \in 1..me.buffered :
          /\ InsertPages(me.job, w, Batch(me, n))
          /\ \/ Becomes(w, [me EXCEPT !.buffered = @ - n]) /\ UNCHANGED faults
             \/ UNCHANGED worker /\ Fault
    BY <1>7 DEF Flush
  <2>2. TableTypeOK'
    BY <1>1, <2>1, BatchType, InsertPagesType DEF TypeInv
  <2>3. worker' \in [Workers -> Good]
    <3> DEFINE b == me.buffered - n
    <3>1. b \in Nat /\ b <= me.seq
      BY <1>1
    <3>2. [me EXCEPT !.seq = me.seq, !.buffered = b] \in Good
      BY <1>1, <3>1, BufferedGood
    <3>3. [me EXCEPT !.seq = me.seq, !.buffered = b] = [me EXCEPT !.buffered = b]
      BY <1>1 DEF Good, Worker
    <3> QED BY <1>2, <2>1, <3>2, <3>3 DEF TypeInv
  <2> QED BY <2>1, <2>2, <2>3, FaultType DEF TypeInv
<1>8. CASE FlusherDies(w)
  <2>1. [me EXCEPT !.flushing = FALSE] \in Good
    BY <1>1 DEF Good, Worker, JobOK, BufferOK
  <2> QED BY <1>2, <1>8, <2>1, TablesUnchangedType DEF FlusherDies, TypeInv
<1>9. CASE HeartbeatLands(w)
  <2>1. (IF crawl[me.job].cancel_requested
           THEN Interrupted(me, "cancel requested", "heartbeat") ELSE me) \in Good
    BY <1>1, <1>3 DEF Interrupts, Watchers
  <2> QED BY <1>1, <1>2, <1>9, <2>1, HeartbeatType DEF HeartbeatLands, TypeInv
<1>10. CASE HeartbeatLeaseLost(w)
  BY <1>2, <1>3, <1>10, TablesUnchangedType
     DEF HeartbeatLeaseLost, TypeInv, Interrupts, Watchers
<1>11. CASE HeartbeatFails(w)
  BY <1>1, <1>2, <1>3, <1>11, TablesUnchangedType, HeartbeatType, FaultType
     DEF HeartbeatFails, TypeInv, Interrupts, Watchers
<1>12. CASE CancelOnStop(w)
  BY <1>2, <1>3, <1>12, TablesUnchangedType DEF CancelOnStop, TypeInv, Interrupts, Watchers
<1>13. CASE JobEnds(w)
  <2> DEFINE b == IF me.interrupt = "lease lost" THEN 0 ELSE me.buffered
  <2>1. Becomes(w, [me EXCEPT !.pc = "drain", !.watchers = {}, !.buffered = b])
    BY <1>13 DEF JobEnds
  <2>2. b \in Nat /\ b <= me.seq /\ me.outcome # "none"
    <3>1. b = 0 \/ b = me.buffered
      OBVIOUS
    <3> HIDE DEF b
    <3> QED BY <1>1, <1>13, <3>1 DEF JobEnds
  <2> HIDE DEF b
  <2>3. [me EXCEPT !.pc = "drain", !.watchers = {}, !.buffered = b] \in Good
    BY <1>1, <2>2 DEF Good, Worker, JobOK, BufferOK, JobPcs
  <2> QED BY <1>2, <1>13, <2>1, <2>3, TablesUnchangedType DEF JobEnds, TypeInv
<1> QED BY <1>4, <1>5, <1>6, <1>7, <1>8, <1>9, <1>10, <1>11, <1>12, <1>13 DEF RunJob

LEMMA EndJobType ==
  ASSUME TypeInv, NEW w \in Workers, EndJob(w)
  PROVE  TypeInv'
<1> DEFINE me == worker[w]
<1>1. /\ me \in Good /\ me.seq \in Nat /\ me.buffered \in Nat /\ me.stop \in BOOLEAN
      /\ me.pc \in {"drain", "record", "get", "finish"} /\ me.job \in Crawls
      /\ me.outcome \in TerminalStates
  BY GoodField
     DEF TypeInv, JobPcs, EndJob, Drain, DrainLeaseLost, DrainFails, RecordLeaseLost,
         RecordOutcome, RequeueJob, Stopping, ReleaseRefused, GetAfterRefusal, RequeueFails,
         WriteTerminalState, WriteTerminalStateFails
<1>2. ASSUME NEW next \in Good, Becomes(w, next)
      PROVE  worker' \in [Workers -> Good]
  BY <1>2, BecomesType DEF TypeInv
<1>3. Done(w) => worker' \in [Workers -> Good]
  BY <1>1, <1>2, BetweenGood DEF Done
<1>4. Drained(me) \in Good
  BY <1>1 DEF Drained, Good, Worker, JobOK, BufferOK, JobPcs
<1>5. CASE Drain(w)
  <2>1. [Drained(me) EXCEPT !.buffered = 0] \in Good
    BY <1>1, <1>4 DEF Good, Worker, JobOK, BufferOK
  <2>2. TableTypeOK'
    BY <1>1, <1>5, BatchType, InsertPagesType, TablesUnchangedType DEF Drain, TypeInv
  <2> QED BY <1>2, <1>5, <2>1, <2>2 DEF Drain, TypeInv
<1>6. CASE DrainLeaseLost(w)
  <2>1. [Drained(me) EXCEPT !.interrupt = "lease lost"] \in Good
    BY <1>4 DEF Good, Worker, JobOK, BufferOK, Interrupts
  <2> QED BY <1>2, <1>6, <2>1, TablesUnchangedType DEF DrainLeaseLost, TypeInv
<1>7. CASE DrainFails(w)
  <2> DEFINE o == IF Drained(me).outcome = "finished" THEN "failed" ELSE Drained(me).outcome
  <2>1. Becomes(w, [Drained(me) EXCEPT !.outcome = o])
    BY <1>7 DEF DrainFails
  <2>2. o = "failed" \/ o = Drained(me).outcome
    OBVIOUS
  <2> HIDE DEF o
  <2>3. [Drained(me) EXCEPT !.outcome = o] \in Good
    BY <1>4, <2>2 DEF Good, Worker, JobOK, BufferOK, TerminalStates
  <2>4. TableTypeOK'
    BY <1>1, <1>7, BatchType, InsertPagesType, TablesUnchangedType DEF DrainFails, TypeInv
  <2> QED BY <1>2, <1>7, <2>1, <2>3, <2>4, FaultType DEF DrainFails, TypeInv
<1>8. CASE RecordLeaseLost(w)
  BY <1>3, <1>8, TablesUnchangedType DEF RecordLeaseLost, TypeInv
<1>9. CASE RecordOutcome(w)
  <2>1. [me EXCEPT !.pc = "finish"] \in Good
    BY <1>1, JobPcGood DEF JobPcs
  <2> QED BY <1>2, <1>9, <2>1, TablesUnchangedType DEF RecordOutcome, TypeInv
<1>10. CASE RequeueJob(w)
  BY <1>1, <1>3, <1>10, ReleaseType DEF RequeueJob, TypeInv
<1>11. CASE ReleaseRefused(w)
  <2>1. [me EXCEPT !.pc = "get"] \in Good
    BY <1>1, JobPcGood DEF JobPcs
  <2> QED BY <1>2, <1>11, <2>1, TablesUnchangedType DEF ReleaseRefused, TypeInv
<1>12. CASE GetAfterRefusal(w)
  <2>1. [me EXCEPT !.pc = "finish", !.outcome = "aborted"] \in Good
    BY <1>1 DEF Good, Worker, JobOK, BufferOK, JobPcs, TerminalStates
  <2> QED BY <1>2, <1>12, <2>1, TablesUnchangedType DEF GetAfterRefusal, TypeInv
<1>13. CASE RequeueFails(w)
  BY <1>1, <1>3, <1>13, ReleaseType, TablesUnchangedType, FaultType
     DEF RequeueFails, TypeInv
<1>14. CASE WriteTerminalState(w)
  BY <1>1, <1>3, <1>14, FinishType, TablesUnchangedType
     DEF WriteTerminalState, TypeInv
<1>15. CASE WriteTerminalStateFails(w)
  BY <1>1, <1>3, <1>15, FinishType, TablesUnchangedType, FaultType
     DEF WriteTerminalStateFails, TypeInv
<1> QED
  BY <1>5, <1>6, <1>7, <1>8, <1>9, <1>10, <1>11, <1>12, <1>13, <1>14, <1>15 DEF EndJob

LEMMA ProcessType ==
  ASSUME TypeInv, NEW w \in Workers, Process(w)
  PROVE  TypeInv'
<1> DEFINE me == worker[w]
<1>1. me \in Good
  BY DEF TypeInv
<1>2. [me EXCEPT !.stop = TRUE] \in Good
  BY <1>1 DEF Good, Worker, JobOK, BufferOK
<1>3. CASE Sigterm(w)
  BY <1>2, <1>3, BecomesType, TablesUnchangedType, FaultType DEF Sigterm, TypeInv
<1>4. CASE Crash(w)
  BY <1>4, BetweenGood, BecomesType, ReapType, FaultType DEF Crash, TypeInv
<1>5. CASE Restart(w)
  BY <1>5, BetweenGood, BecomesType, TablesUnchangedType DEF Restart, TypeInv
<1> QED BY <1>3, <1>4, <1>5 DEF Process

LEMMA TypeInvStep ==
  ASSUME TypeInv, [Next]_vars
  PROVE  TypeInv'
<1>1. CASE UNCHANGED vars
  BY <1>1, TablesUnchangedType DEF vars, TypeInv, tableVars
<1>2. ASSUME NEW c \in Crawls, Api(c) \/ Time(c)
      PROVE  TypeInv'
  BY <1>2, ApiAndTimeType DEF Api, Time, TypeInv
<1> QED
  BY <1>1, <1>2, ClaimLoopType, RunJobType, EndJobType, ProcessType DEF Next

LEMMA TypeInvInit ==
  ASSUME Init
  PROVE  TypeInv
<1>1. TableTypeOK
  BY DEF Init, TableInit, TableTypeOK, NewRow, NoReap, Row, Reap, Heartbeats, TerminalStates
<1> QED BY <1>1, BetweenGood DEF Init, TypeInv

LEMMA TypeInvImpliesTypeOK ==
  ASSUME TypeInv
  PROVE  TypeOK
BY DEF TypeInv, TypeOK, WorkerTypeOK, Good

\* Every reachable state of the service is well typed: a worker in the middle of a
\* job has a crawl, its batches are pages with seqs from 1 on, and no transaction
\* leaves a row outside the columns of orm.py.
THEOREM TypeCorrect == Spec => []TypeOK
<1>1. Spec => []TypeInv
  BY TypeInvInit, TypeInvStep, PTL DEF Spec
<1> QED BY <1>1, TypeInvImpliesTypeOK, PTL

-----------------------------------------------------------------------------
(***************************************************************************)
(* The fencing argument.  worker_id is the only fence of a row: finish and *)
(* release match on it alone, heartbeat and insert_pages on it and on the  *)
(* state.  The inductive invariant says why that is enough: a row that     *)
(* carries the id of a worker at work on it is running under that worker's *)
(* own claim, or settled by its own final write; a row that a reaper has   *)
(* locked is running and locked once; and the queue holds rows with an     *)
(* attempt left.                                                           *)
(*                                                                         *)
(* The proof looks at a step from two sides.  TableStep lists the          *)
(* transactions a step may commit with what is known of the worker that    *)
(* does it; JobStep says how little a step may change of a worker that     *)
(* keeps its job.  The invariants are proved from these two alone.         *)
(***************************************************************************)

Pending(w) == reaping[w].aborting \cup reaping[w].requeuing

LockInv ==
  \A w \in Workers :
    /\ \A c \in Pending(w) : crawl[c].state = "running"
    /\ \A c \in Pending(w), v \in Workers : c \in Pending(v) => v = w
    /\ \A c \in reaping[w].requeuing : crawl[c].attempts < MaxAttempts

AttemptsInv ==
  \A c \in Crawls :
    /\ crawl[c].attempts <= MaxAttempts
    /\ crawl[c].state \in {"absent", "queued"} => crawl[c].attempts < MaxAttempts

IInv == TypeInv /\ LockInv /\ AttemptsInv /\ WorkerIdFences /\ PagesOfLatestLease

-----------------------------------------------------------------------------

TableStep ==
  \/ UNCHANGED tableVars
  \/ \E c \in Crawls : Create(c) \/ RequestCancel(c) \/ Expire(c)
  \/ \E w \in Workers : AbortCancelled(w) \/ Requeue(w) \/ GiveUp(w) \/ Rollback(w)
  \/ \E w \in Workers, c \in Crawls : worker[w].pc = "claim" /\ Claim(c, w)
  \/ \E w \in Workers : HasJob(w) /\ Heartbeat(worker[w].job, w, worker[w].seq)
  \/ \E w \in Workers :
       /\ worker[w].pc \in {"run", "drain"}
       /\ \E n \in 1..worker[w].buffered :
            InsertPages(worker[w].job, w, Batch(worker[w], n))
  \/ \E w \in Workers : worker[w].pc = "record" /\ Release(worker[w].job, w)
  \/ \E w \in Workers :
       /\ worker[w].pc = "finish"
       /\ Finish(worker[w].job, w, worker[w].outcome, worker[w].seq)

\* Worker v keeps its job: only a final write that is still to be acknowledged
\* pins down more than the job and its lease.
JobStep(v) ==
  /\ HasJob(v)
  /\ worker'[v].job = worker[v].job /\ worker'[v].lease = worker[v].lease
  /\ worker[v].pc = "finish" => /\ worker'[v].pc = "finish"
                                /\ worker'[v].outcome = worker[v].outcome
                                /\ worker'[v].seq = worker[v].seq

LEMMA ClaimLoopTable ==
  ASSUME TypeInv, NEW w \in Workers, ClaimLoop(w) \/ Process(w)
  PROVE  TableStep
BY DEF TableStep, ClaimLoop, SkipReap, ReapAbortCancelled, ReapRequeue, ReapGiveUp, ReapFails,
       ClaimCrawl, ClaimNothing, ClaimFails, Exit, Process, Sigterm, Crash, Restart

LEMMA RunJobTable ==
  ASSUME TypeInv, NEW w \in Workers, RunJob(w)
  PROVE  TableStep
<1>1. worker[w].pc = "run" /\ HasJob(w)
  BY DEF HasJob, JobPcs, RunJob, Running, Watching, ReportPage, CrawlEnds, CrawlCancelled,
         Flush, FlusherDies, HeartbeatLands, HeartbeatLeaseLost, HeartbeatFails,
         CancelOnStop, JobEnds
<1>2. CASE Flush(w)
  BY <1>1, <1>2 DEF Flush, TableStep
<1>3. CASE HeartbeatLands(w) \/ HeartbeatFails(w)
  BY <1>1, <1>3 DEF HeartbeatLands, HeartbeatFails, TableStep
<1>4. CASE UNCHANGED tableVars
  BY <1>4 DEF TableStep
<1> QED
  BY <1>2, <1>3, <1>4
     DEF RunJob, ReportPage, CrawlEnds, CrawlCancelled, FlusherDies, HeartbeatLeaseLost,
         CancelOnStop, JobEnds

LEMMA EndJobTable ==
  ASSUME TypeInv, NEW w \in Workers, EndJob(w)
  PROVE  TableStep
<1>1. HasJob(w)
  BY DEF HasJob, JobPcs, EndJob, Drain, DrainLeaseLost, DrainFails, RecordLeaseLost,
         RecordOutcome, RequeueJob, Stopping, ReleaseRefused, GetAfterRefusal, RequeueFails,
         WriteTerminalState, WriteTerminalStateFails
<1>2. CASE Drain(w)
  <2>1. worker[w].buffered \in Nat
    BY GoodField DEF TypeInv
  <2>2. worker[w].buffered # 0 => worker[w].buffered \in 1..worker[w].buffered
    BY <2>1
  <2> QED BY <1>1, <1>2, <2>2 DEF Drain, TableStep
<1>3. CASE DrainFails(w)
  BY <1>1, <1>3 DEF DrainFails, TableStep
<1>4. CASE RequeueJob(w) \/ RequeueFails(w)
  BY <1>4 DEF RequeueJob, RequeueFails, Stopping, TableStep
<1>5. CASE WriteTerminalState(w) \/ WriteTerminalStateFails(w)
  BY <1>5 DEF WriteTerminalState, WriteTerminalStateFails, TableStep
<1>6. CASE UNCHANGED tableVars
  BY <1>6 DEF TableStep
<1> QED
  BY <1>2, <1>3, <1>4, <1>5, <1>6
     DEF EndJob, DrainLeaseLost, RecordLeaseLost, RecordOutcome, ReleaseRefused, GetAfterRefusal

LEMMA NextTable ==
  ASSUME TypeInv, [Next]_vars
  PROVE  TableStep
<1>1. CASE UNCHANGED vars
  BY <1>1 DEF vars, tableVars, TableStep
<1>2. ASSUME NEW c \in Crawls, Api(c) \/ Time(c)
      PROVE  TableStep
  BY <1>2 DEF Api, Time, TableStep
<1> QED BY <1>1, <1>2, ClaimLoopTable, RunJobTable, EndJobTable DEF Next

-----------------------------------------------------------------------------
(***************************************************************************)
(* What a transaction does to the rows, seen from one row.                 *)
(***************************************************************************)

\* The rows a reap() has locked keep their state and attempts until its commit: the
\* operators of the other transactions block, or need a row that is not running.
LEMMA LockInvStep ==
  ASSUME TypeInv, LockInv, TableStep
  PROVE  LockInv'
<1> USE DEF Pending
<1>t. /\ crawl \in [Crawls -> Row] /\ reaping \in [Workers -> Reap]
  BY DEF TypeInv, TableTypeOK
<1>1. CASE UNCHANGED tableVars
  BY <1>1 DEF LockInv, tableVars
<1>2. ASSUME NEW c \in Crawls, Create(c) \/ RequestCancel(c) \/ Expire(c)
      PROVE  LockInv'
  <2>1. UNCHANGED reaping
    BY <1>2 DEF Create, RequestCancel, Expire
  <2>2. \A w \in Workers : \A d \in Pending(w) :
          crawl'[d].state = crawl[d].state /\ crawl'[d].attempts = crawl[d].attempts
    BY <1>t, <1>2 DEF LockInv, Create, RequestCancel, Expire, Row, Locked, Reap
  <2> QED BY <2>1, <2>2 DEF LockInv
<1>3. ASSUME NEW w \in Workers, AbortCancelled(w)
      PROVE  LockInv'
  BY <1>t, <1>3 DEF LockInv, AbortCancelled, Unlocked, Locked, Reap
<1>4. ASSUME NEW w \in Workers, Requeue(w)
      PROVE  LockInv'
  BY <1>t, <1>4 DEF LockInv, Requeue, Unlocked, Locked, Reap, Expired
<1>5. ASSUME NEW w \in Workers, GiveUp(w)
      PROVE  LockInv'
  <2>1. \A v \in Workers : v # w => reaping'[v] = reaping[v]
    BY <1>t, <1>5 DEF GiveUp
  <2>2. Pending(w)' = {} /\ reaping'[w].requeuing = {}
    BY <1>t, <1>5 DEF GiveUp, NoReap
  <2>3. ASSUME NEW v \in Workers, v # w, NEW d \in Pending(v)
        PROVE  crawl'[d] = crawl[d]
    <3>1. d \in Crawls /\ d \notin Pending(w)
      BY <1>t, <2>3 DEF LockInv, Reap
    <3>2. d \notin Expired(w)
      BY <1>5, <2>3 DEF GiveUp, Unlocked, Locked
    <3> QED BY <1>5, <3>1, <3>2 DEF GiveUp, Reaped
  <2> QED BY <2>1, <2>2, <2>3 DEF LockInv
<1>6. ASSUME NEW w \in Workers, Rollback(w)
      PROVE  LockInv'
  BY <1>t, <1>6 DEF LockInv, Rollback, NoReap
<1>7. ASSUME NEW w \in Workers, NEW c \in Crawls,
             \/ Claim(c, w)
             \/ \E st \in Nat : Heartbeat(c, w, st)
             \/ \E n \in SUBSET Page : InsertPages(c, w, n)
             \/ Release(c, w)
             \/ \E st \in Nat, o \in TerminalStates : Finish(c, w, o, st)
      PROVE  LockInv'
  <2>1. \A v \in Workers : /\ reaping'[v].aborting = reaping[v].aborting
                           /\ reaping'[v].requeuing = reaping[v].requeuing
    BY <1>t, <1>7 DEF Claim, Heartbeat, InsertPages, Release, Finish, Refreshed, Reap
  <2>2. (\E v \in Workers : c \in Pending(v))
          => crawl'[c].state = crawl[c].state /\ crawl'[c].attempts = crawl[c].attempts
    <3>1. CASE Claim(c, w)
      <4>1. crawl[c].state = "queued"
        BY <3>1 DEF Claim
      <4> QED BY <4>1 DEF LockInv
    <3>2. CASE \E st \in Nat : Heartbeat(c, w, st)
      BY <3>2 DEF Heartbeat, Locked
    <3>3. CASE \E n \in SUBSET Page : InsertPages(c, w, n)
      BY <3>3 DEF InsertPages, Locked
    <3>4. CASE Release(c, w)
      <4>1. ~Locked(c)
        BY <3>4 DEF Release
      <4> QED BY <4>1 DEF Locked
    <3>5. CASE \E st \in Nat, o \in TerminalStates : Finish(c, w, o, st)
      BY <3>5 DEF Finish, Locked
    <3> QED BY <1>7, <3>1, <3>2, <3>3, <3>4, <3>5
  <2>3. \A d \in Crawls : d # c => crawl'[d] = crawl[d]
    BY <1>t, <1>7 DEF Claim, Heartbeat, InsertPages, Release, Finish
  <2>4. \A v \in Workers : Pending(v) \subseteq Crawls
    BY <1>t DEF Reap
  <2> QED BY <2>1, <2>2, <2>3, <2>4 DEF LockInv
<1>8. \A w \in Workers :
        /\ worker[w].seq \in Nat
        /\ HasJob(w) => worker[w].job \in Crawls
        /\ worker[w].pc = "finish" => worker[w].outcome \in TerminalStates
        /\ worker[w].pc \in {"run", "drain", "record", "finish"} => HasJob(w)
        /\ \A n \in 1..worker[w].buffered : Batch(worker[w], n) \in SUBSET Page
  BY GoodField, BatchType DEF TypeInv, HasJob, JobPcs
<1> QED BY <1>1, <1>2, <1>3, <1>4, <1>5, <1>6, <1>7, <1>8 DEF TableStep

\* A row in the queue has an attempt left: a claim uses one up, a hand-back returns
\* it, and a reaper requeues only rows below max_attempts.
LEMMA AttemptsInvStep ==
  ASSUME TypeInv, LockInv, AttemptsInv, TableStep
  PROVE  AttemptsInv'
<1>t. /\ crawl \in [Crawls -> Row] /\ reaping \in [Workers -> Reap]
      /\ MaxAttempts \in Nat
      /\ \A c \in Crawls : crawl[c].attempts \in Nat
  BY MaxAttemptsAssumption DEF TypeInv, TableTypeOK, Row
<1>1. CASE UNCHANGED crawl
  BY <1>1 DEF AttemptsInv
<1>2. ASSUME NEW c \in Crawls, Create(c) \/ RequestCancel(c) \/ Expire(c)
      PROVE  AttemptsInv'
  <2>1. crawl'[c].attempts = crawl[c].attempts
    BY <1>t, <1>2 DEF Create, RequestCancel, Expire, Row
  <2>2. crawl'[c].state \in {"absent", "queued"} => crawl[c].state \in {"absent", "queued"}
    BY <1>t, <1>2 DEF Create, RequestCancel, Expire, Row
  <2>3. \A d \in Crawls : d # c => crawl'[d] = crawl[d]
    BY <1>t, <1>2 DEF Create, RequestCancel, Expire
  <2> QED BY <2>1, <2>2, <2>3 DEF AttemptsInv
<1>3. ASSUME NEW w \in Workers, GiveUp(w)
      PROVE  AttemptsInv'
  <2> SUFFICES ASSUME NEW c \in Crawls
               PROVE  /\ crawl'[c].attempts <= MaxAttempts
                      /\ crawl'[c].state \in {"absent", "queued"}
                           => crawl'[c].attempts < MaxAttempts
    BY DEF AttemptsInv
  <2>1. crawl'[c] = Reaped(crawl[c], c, w, Expired(w))
    BY <1>3 DEF GiveUp
  <2>2. crawl'[c].attempts = crawl[c].attempts
    BY <1>t, <2>1 DEF Reaped, Row
  <2>3. c \in reaping[w].requeuing => crawl[c].attempts < MaxAttempts
    BY DEF LockInv
  <2>4. c \notin reaping[w].requeuing /\ crawl'[c].state \in {"absent", "queued"}
          => crawl[c].state \in {"absent", "queued"}
    BY <1>t, <2>1 DEF Reaped, Row
  <2> QED BY <2>2, <2>3, <2>4 DEF AttemptsInv
<1>4. ASSUME NEW w \in Workers, NEW c \in Crawls, Claim(c, w)
      PROVE  AttemptsInv'
  <2>1. crawl'[c].attempts = crawl[c].attempts + 1 /\ crawl'[c].state = "running"
    BY <1>t, <1>4 DEF Claim, Row
  <2>2. crawl[c].attempts < MaxAttempts
    BY <1>4 DEF Claim, AttemptsInv
  <2>3. \A d \in Crawls : d # c => crawl'[d] = crawl[d]
    BY <1>t, <1>4 DEF Claim
  <2> QED BY <1>t, <2>1, <2>2, <2>3 DEF AttemptsInv
<1>5. ASSUME NEW w \in Workers, NEW c \in Crawls, Release(c, w)
      PROVE  AttemptsInv'
  <2>1. crawl'[c].attempts = HandedBack(crawl[c].attempts)
    BY <1>t, <1>5 DEF Release, Row
  <2>2. crawl'[c].attempts < MaxAttempts
    BY <1>t, <2>1, MaxAttemptsAssumption DEF HandedBack, AttemptsInv
  <2>3. \A d \in Crawls : d # c => crawl'[d] = crawl[d]
    BY <1>t, <1>5 DEF Release
  <2>4. crawl'[c].attempts <= MaxAttempts
    BY <1>t, <2>1, MaxAttemptsAssumption DEF HandedBack, AttemptsInv
  <2> QED BY <2>2, <2>3, <2>4 DEF AttemptsInv
<1>6. ASSUME NEW w \in Workers, NEW c \in Crawls,
             \/ \E st \in Nat : Heartbeat(c, w, st)
             \/ \E st \in Nat, o \in TerminalStates : Finish(c, w, o, st)
      PROVE  AttemptsInv'
  <2>1. crawl'[c].attempts = crawl[c].attempts
    BY <1>t, <1>6 DEF Heartbeat, Finish, Row
  <2>2. crawl'[c].state \in {"absent", "queued"} => crawl[c].state \in {"absent", "queued"}
    BY <1>t, <1>6 DEF Heartbeat, Finish, Row, TerminalStates
  <2>3. \A d \in Crawls : d # c => crawl'[d] = crawl[d]
    BY <1>t, <1>6 DEF Heartbeat, Finish
  <2> QED BY <2>1, <2>2, <2>3 DEF AttemptsInv
<1>7. \A w \in Workers :
        /\ worker[w].seq \in Nat
        /\ HasJob(w) => worker[w].job \in Crawls
        /\ worker[w].pc = "finish" => worker[w].outcome \in TerminalStates
        /\ worker[w].pc \in {"run", "drain", "record", "finish"} => HasJob(w)
  BY GoodField DEF TypeInv, HasJob, JobPcs
<1> QED
  BY <1>1, <1>2, <1>3, <1>4, <1>5, <1>6, <1>7
     DEF TableStep, tableVars, AbortCancelled, Requeue, Rollback, InsertPages

-----------------------------------------------------------------------------
(***************************************************************************)
(* The worker's side of a step.                                            *)
(***************************************************************************)

\* A step of another process leaves the record of v alone.
LEMMA BecomesOther ==
  ASSUME TypeInv, NEW w \in Workers, NEW next, Becomes(w, next), NEW v \in Workers
  PROVE  /\ v # w => worker'[v] = worker[v]
         /\ v = w => worker'[v] = next
BY DEF Becomes, TypeInv

LEMMA ClaimLoopJob ==
  ASSUME TypeInv, NEW w \in Workers, ClaimLoop(w) \/ Process(w),
         NEW v \in Workers, HasJob(v)'
  PROVE  JobStep(v) \/ \E c \in Crawls : ClaimCrawl(v, c)
<1> DEFINE me == worker[w]
<1>t. worker \in [Workers -> Worker]
  BY DEF TypeInv, Good
<1>0. worker'[v] = worker[v] => JobStep(v)
  BY DEF JobStep, HasJob
<1>1. ASSUME NEW pc \in {"poll", "requeue", "give_up", "claim", "down"},
             Becomes(w, [worker[w] EXCEPT !.pc = pc])
      PROVE  worker'[v] = worker[v]
  <2>1. v = w => worker'[v].pc = pc
    BY <1>t, <1>1 DEF Becomes, Worker
  <2> QED BY <1>1, <2>1, BecomesOther DEF HasJob, JobPcs
<1>2. ASSUME NEW pc \in {"poll", "down"}, NEW stop, Becomes(w, Between(pc, stop))
      PROVE  worker'[v] = worker[v]
  <2>1. v = w => worker'[v].pc = pc
    BY <1>t, <1>2 DEF Becomes, Between
  <2> QED BY <1>2, <2>1, BecomesOther DEF HasJob, JobPcs
<1>3. ASSUME NEW c \in Crawls, ClaimCrawl(w, c)
      PROVE  worker'[v] = worker[v] \/ \E d \in Crawls : ClaimCrawl(v, d)
  BY <1>3, BecomesOther DEF ClaimCrawl
<1>4. CASE Sigterm(w)
  <2>1. v = w => worker'[v] = [worker[v] EXCEPT !.stop = TRUE]
    BY <1>4, BecomesOther DEF Sigterm
  <2>2. v # w => worker'[v] = worker[v]
    BY <1>4, BecomesOther DEF Sigterm
  <2>3. /\ worker'[v].pc = worker[v].pc /\ worker'[v].job = worker[v].job
        /\ worker'[v].lease = worker[v].lease /\ worker'[v].outcome = worker[v].outcome
        /\ worker'[v].seq = worker[v].seq
    BY <1>t, <2>1, <2>2 DEF Worker
  <2> QED BY <2>3 DEF JobStep, HasJob
<1> QED
  BY <1>0, <1>1, <1>2, <1>3, <1>4
     DEF ClaimLoop, SkipReap, ReapAbortCancelled, ReapRequeue, ReapGiveUp, ReapFails,
         ClaimNothing, ClaimFails, Exit, Process, Crash, Restart

LEMMA RunJobJob ==
  ASSUME TypeInv, NEW w \in Workers, RunJob(w), NEW v \in Workers, HasJob(v)'
  PROVE  JobStep(v)
<1> DEFINE me == worker[w]
<1>t. worker \in [Workers -> Worker]
  BY DEF TypeInv, Good
<1>0. me.pc = "run" /\ HasJob(w)
  BY DEF HasJob, JobPcs, RunJob, Running, Watching, ReportPage, CrawlEnds, CrawlCancelled,
         Flush, FlusherDies, HeartbeatLands, HeartbeatLeaseLost, HeartbeatFails,
         CancelOnStop, JobEnds
<1>1. worker'[v] = worker[v] => JobStep(v)
  BY DEF JobStep, HasJob
<1>2. ASSUME NEW next, Becomes(w, next), next.job = me.job, next.lease = me.lease
      PROVE  JobStep(v)
  <2>1. v # w => worker'[v] = worker[v]
    BY <1>2, BecomesOther
  <2>2. v = w => worker'[v] = next
    BY <1>2, BecomesOther
  <2> QED BY <1>0, <1>1, <1>2, <2>1, <2>2 DEF JobStep
<1>3. me \in Worker
  BY <1>t
<1>4. CASE ReportPage(w)
  BY <1>2, <1>3, <1>4 DEF ReportPage, Worker
<1>5. ASSUME NEW o \in TerminalStates, CrawlEnds(w, o) PROVE JobStep(v)
  BY <1>2, <1>3, <1>5 DEF CrawlEnds, Worker
<1>6. CASE CrawlCancelled(w)
  BY <1>2, <1>3, <1>6 DEF CrawlCancelled, Worker
<1>7. CASE Flush(w)
  <2>1. PICK n \in 1..me.buffered :
          Becomes(w, [me EXCEPT !.buffered = @ - n]) \/ UNCHANGED worker
    BY <1>7 DEF Flush
  <2> QED BY <1>1, <1>2, <1>3, <2>1 DEF Worker
<1>8. CASE FlusherDies(w)
  BY <1>2, <1>3, <1>8 DEF FlusherDies, Worker
<1>9. \A i, t : /\ Interrupted(me, i, t).job = me.job
               /\ Interrupted(me, i, t).lease = me.lease
  BY <1>3 DEF Interrupted, Worker
<1>10. CASE HeartbeatLands(w) \/ HeartbeatLeaseLost(w) \/ HeartbeatFails(w) \/ CancelOnStop(w)
  BY <1>1, <1>2, <1>9, <1>10
     DEF HeartbeatLands, HeartbeatLeaseLost, HeartbeatFails, CancelOnStop
<1>11. CASE JobEnds(w)
  BY <1>2, <1>3, <1>11 DEF JobEnds, Worker
<1> QED BY <1>4, <1>5, <1>6, <1>7, <1>8, <1>10, <1>11 DEF RunJob

LEMMA EndJobJob ==
  ASSUME TypeInv, NEW w \in Workers, EndJob(w), NEW v \in Workers, HasJob(v)'
  PROVE  JobStep(v)
<1> DEFINE me == worker[w]
<1>t. worker \in [Workers -> Worker]
  BY DEF TypeInv, Good
<1>0. HasJob(w) /\ me \in Worker
  BY <1>t
     DEF HasJob, JobPcs, EndJob, Drain, DrainLeaseLost, DrainFails, RecordLeaseLost,
         RecordOutcome, RequeueJob, Stopping, ReleaseRefused, GetAfterRefusal, RequeueFails,
         WriteTerminalState, WriteTerminalStateFails
<1>1. worker'[v] = worker[v] => JobStep(v)
  BY DEF JobStep, HasJob
<1>2. ASSUME NEW next, Becomes(w, next), next.job = me.job, next.lease = me.lease,
             me.pc # "finish"
      PROVE  JobStep(v)
  <2>1. v # w => worker'[v] = worker[v]
    BY <1>2, BecomesOther
  <2>2. v = w => worker'[v] = next
    BY <1>2, BecomesOther
  <2> QED BY <1>0, <1>1, <1>2, <2>1, <2>2 DEF JobStep
<1>3. Done(w) => JobStep(v)
  <2> SUFFICES ASSUME Done(w) PROVE JobStep(v)
    OBVIOUS
  <2>1. v = w => worker'[v].pc = "poll"
    BY <1>t DEF Done, Becomes, Between
  <2>2. v # w
    BY <2>1 DEF HasJob, JobPcs
  <2> QED BY <1>1, <2>2, BecomesOther DEF Done
<1>4. CASE Drain(w)
  BY <1>0, <1>2, <1>4 DEF Drain, Drained, Worker
<1>5. CASE DrainLeaseLost(w)
  BY <1>0, <1>2, <1>5 DEF DrainLeaseLost, Drained, Worker
<1>6. CASE DrainFails(w)
  BY <1>0, <1>2, <1>6 DEF DrainFails, Drained, Worker
<1>7. CASE RecordOutcome(w)
  BY <1>0, <1>2, <1>7 DEF RecordOutcome, Worker
<1>8. CASE ReleaseRefused(w)
  BY <1>0, <1>2, <1>8 DEF ReleaseRefused, Stopping, Worker
<1>9. CASE GetAfterRefusal(w)
  BY <1>0, <1>2, <1>9 DEF GetAfterRefusal, Worker
<1>10. CASE RecordLeaseLost(w) \/ RequeueJob(w) \/ RequeueFails(w) \/ WriteTerminalState(w)
            \/ WriteTerminalStateFails(w)
  BY <1>1, <1>3, <1>10
     DEF RecordLeaseLost, RequeueJob, RequeueFails, WriteTerminalState, WriteTerminalStateFails
<1> QED BY <1>4, <1>5, <1>6, <1>7, <1>8, <1>9, <1>10 DEF EndJob

LEMMA NextJob ==
  ASSUME TypeInv, [Next]_vars, NEW v \in Workers, HasJob(v)'
  PROVE  JobStep(v) \/ \E c \in Crawls : ClaimCrawl(v, c)
<1>1. CASE UNCHANGED worker
  BY <1>1 DEF JobStep, HasJob
<1> QED
  BY <1>1, ClaimLoopJob, RunJobJob, EndJobJob DEF Next, vars, Api, Time

-----------------------------------------------------------------------------
(***************************************************************************)
(* The fence.                                                              *)
(***************************************************************************)

\* What TypeInv says of the workers that reach the table.
LEMMA Callers ==
  ASSUME TypeInv, NEW w \in Workers
  PROVE  /\ worker[w].seq \in Nat
         /\ HasJob(w) => worker[w].job \in Crawls
         /\ worker[w].pc = "finish" => worker[w].outcome \in TerminalStates
         /\ worker[w].pc \in {"run", "drain", "record", "finish"} => HasJob(w)
         /\ HasJob(w) => worker[w].pc # "claim"
BY GoodField DEF TypeInv, HasJob, JobPcs

\* The row of a job that still carries the job's worker_id after a step carried it
\* before, under the same lease, and is running as before, or settled as before, or
\* settled by the job's own final write.
LEMMA RowKept ==
  ASSUME IInv, TableStep, NEW v \in Workers, HasJob(v),
         NEW c \in Crawls, c = worker[v].job, crawl'[c].worker_id = v
  PROVE  /\ crawl[c].worker_id = v
         /\ crawl'[c].lease = crawl[c].lease
         /\ \/ crawl'[c].state = crawl[c].state
               /\ (crawl[c].state = "running" \/ crawl'[c].stats = crawl[c].stats)
            \/ worker[v].pc = "finish" /\ crawl'[c].state = worker[v].outcome
               /\ crawl'[c].stats = worker[v].seq
<1> DEFINE Kept ==
      /\ crawl[c].worker_id = v
      /\ crawl'[c].lease = crawl[c].lease
      /\ \/ crawl'[c].state = crawl[c].state
            /\ (crawl[c].state = "running" \/ crawl'[c].stats = crawl[c].stats)
         \/ worker[v].pc = "finish" /\ crawl'[c].state = worker[v].outcome
            /\ crawl'[c].stats = worker[v].seq
<1>t. crawl \in [Crawls -> Row] /\ crawl[c] \in Row /\ v # NoWorker
  BY NoWorkerAssumption DEF IInv, TypeInv, TableTypeOK
<1>0. crawl'[c] = crawl[c] => Kept
  OBVIOUS
<1>f. crawl[c].worker_id = v
        => crawl[c].state = "running" \/ crawl[c].state \in TerminalStates
  BY Callers DEF IInv, WorkerIdFences
<1>1. CASE UNCHANGED tableVars
  BY <1>0, <1>1 DEF tableVars
<1>2. ASSUME NEW d \in Crawls, Create(d) \/ RequestCancel(d) \/ Expire(d)
      PROVE  Kept
  <2>1. CASE d # c
    BY <1>0, <1>t, <1>2, <2>1 DEF Create, RequestCancel, Expire
  <2>2. CASE d = c
    <3>1. /\ crawl'[c].worker_id = crawl[c].worker_id
          /\ crawl'[c].lease = crawl[c].lease
          /\ crawl'[c].stats = crawl[c].stats
      BY <1>t, <1>2, <2>2 DEF Create, RequestCancel, Expire, Row
    <3>2. crawl[c].state = "running" \/ crawl[c].state \in TerminalStates
      BY <1>f, <3>1
    <3>3. crawl'[c].state = crawl[c].state
      BY <1>t, <1>2, <2>2, <3>2 DEF Create, RequestCancel, Expire, Row, TerminalStates
    <3> QED BY <3>1, <3>3
  <2> QED BY <2>1, <2>2
<1>3. ASSUME NEW w \in Workers, AbortCancelled(w) \/ Requeue(w) \/ Rollback(w)
      PROVE  Kept
  BY <1>0, <1>3 DEF AbortCancelled, Requeue, Rollback
<1>4. ASSUME NEW w \in Workers, GiveUp(w)
      PROVE  Kept
  BY <1>0, <1>t, <1>4 DEF GiveUp, Reaped, Row
<1>5. ASSUME NEW w \in Workers, NEW d \in Crawls, worker[w].pc = "claim", Claim(d, w)
      PROVE  Kept
  <2>1. d # c
    BY <1>t, <1>5, Callers DEF IInv, Claim, Row
  <2> QED BY <1>0, <1>t, <1>5, <2>1 DEF Claim
<1>6. ASSUME NEW w \in Workers, NEW d \in Crawls, NEW st, Heartbeat(d, w, st)
      PROVE  Kept
  BY <1>t, <1>6 DEF Heartbeat, Owns, Row
<1>7. ASSUME NEW w \in Workers, NEW d, NEW rows, InsertPages(d, w, rows)
      PROVE  Kept
  BY <1>0, <1>7 DEF InsertPages
<1>8. ASSUME NEW w \in Workers, NEW d \in Crawls, Release(d, w)
      PROVE  Kept
  <2>1. d # c
    BY <1>t, <1>8 DEF Release, Row
  <2> QED BY <1>0, <1>t, <1>8, <2>1 DEF Release
<1>9. ASSUME NEW w \in Workers, worker[w].pc = "finish",
             Finish(worker[w].job, w, worker[w].outcome, worker[w].seq)
      PROVE  Kept
  <2>1. worker[w].job \in Crawls
    BY <1>9, Callers DEF IInv
  <2>2. CASE worker[w].job # c
    BY <1>0, <1>t, <1>9, <2>1, <2>2 DEF Finish
  <2>3. CASE worker[w].job = c
    <3>1. /\ crawl[c].worker_id = w
          /\ crawl'[c].worker_id = crawl[c].worker_id
          /\ crawl'[c].lease = crawl[c].lease
          /\ crawl'[c].state = worker[w].outcome
          /\ crawl'[c].stats = worker[w].seq
      BY <1>t, <1>9, <2>3 DEF Finish, FinishMatches, Row
    <3> QED BY <1>9, <3>1
  <2> QED BY <2>2, <2>3
<1> QED
  BY <1>1, <1>2, <1>3, <1>4, <1>5, <1>6, <1>7, <1>8, <1>9, Callers DEF TableStep, IInv

LEMMA FencesStep ==
  ASSUME IInv, [Next]_vars
  PROVE  WorkerIdFences'
<1> SUFFICES ASSUME NEW v \in Workers, HasJob(v)', crawl'[worker'[v].job].worker_id = v
             PROVE  /\ crawl'[worker'[v].job].lease = worker'[v].lease
                    /\ \/ crawl'[worker'[v].job].state = "running"
                       \/ /\ worker'[v].pc = "finish"
                          /\ crawl'[worker'[v].job].state = worker'[v].outcome
                          /\ crawl'[worker'[v].job].stats = worker'[v].seq
  BY DEF WorkerIdFences
<1>1. CASE JobStep(v)
  <2> DEFINE c == worker[v].job
  <2>1. HasJob(v) /\ c = worker'[v].job /\ worker'[v].lease = worker[v].lease
    BY <1>1 DEF JobStep
  <2>2. c \in Crawls
    BY <2>1, Callers DEF IInv
  <2>3. TableStep
    BY NextTable DEF IInv
  <2>4. /\ crawl[c].worker_id = v /\ crawl'[c].lease = crawl[c].lease
        /\ \/ crawl'[c].state = crawl[c].state
              /\ (crawl[c].state = "running" \/ crawl'[c].stats = crawl[c].stats)
           \/ worker[v].pc = "finish" /\ crawl'[c].state = worker[v].outcome
              /\ crawl'[c].stats = worker[v].seq
    BY <2>1, <2>2, <2>3, RowKept
  <2>5. /\ crawl[c].lease = worker[v].lease
        /\ \/ crawl[c].state = "running"
           \/ /\ worker[v].pc = "finish" /\ crawl[c].state = worker[v].outcome
              /\ crawl[c].stats = worker[v].seq
    BY <2>1, <2>4 DEF IInv, WorkerIdFences
  <2> HIDE DEF c
  <2> QED BY <1>1, <2>1, <2>4, <2>5 DEF JobStep
<1>2. ASSUME NEW c \in Crawls, ClaimCrawl(v, c)
      PROVE  /\ worker'[v].job = c
             /\ crawl'[c].lease = worker'[v].lease
             /\ crawl'[c].state = "running"
  <2>1. worker'[v].job = c /\ worker'[v].lease = crawl[c].lease + 1
    <3> DEFINE started == [Between(IF c \in Unusable THEN "finish" ELSE "run", worker[v].stop)
                             EXCEPT !.job = c, !.lease = crawl[c].lease + 1]
               next == IF c \in Unusable
                         THEN [started EXCEPT !.outcome = "failed"]
                         ELSE [started EXCEPT !.watchers = Watchers, !.flushing = TRUE]
    <3>1. next.job = c /\ next.lease = crawl[c].lease + 1
      BY DEF Between
    <3>2. Becomes(v, next)
      BY <1>2 DEF ClaimCrawl
    <3> HIDE DEF next
    <3> QED BY <3>1, <3>2, BecomesOther DEF IInv
  <2>2. crawl'[c].lease = crawl[c].lease + 1 /\ crawl'[c].state = "running"
    BY <1>2 DEF ClaimCrawl, Claim, IInv, TypeInv, TableTypeOK, Row
  <2> QED BY <2>1, <2>2
<1> QED BY <1>1, <1>2, NextJob DEF IInv

\* A batch only lands in a row of its own lease, and a claim starts from no pages.
LEMMA PagesStep ==
  ASSUME IInv, TableStep
  PROVE  PagesOfLatestLease'
<1>t. crawl \in [Crawls -> Row] /\ page \in [Crawls -> SUBSET Page]
  BY DEF IInv, TypeInv, TableTypeOK
<1>0. (\A c \in Crawls : page'[c] = page[c] /\ crawl'[c].lease = crawl[c].lease)
        => PagesOfLatestLease'
  BY DEF IInv, PagesOfLatestLease
<1>1. CASE UNCHANGED tableVars
  BY <1>0, <1>1 DEF tableVars
<1>2. ASSUME NEW d \in Crawls, Create(d) \/ RequestCancel(d) \/ Expire(d)
      PROVE  PagesOfLatestLease'
  BY <1>0, <1>t, <1>2 DEF Create, RequestCancel, Expire, Row
<1>3. ASSUME NEW w \in Workers, AbortCancelled(w) \/ Requeue(w) \/ Rollback(w)
      PROVE  PagesOfLatestLease'
  BY <1>0, <1>3 DEF AbortCancelled, Requeue, Rollback
<1>4. ASSUME NEW w \in Workers, GiveUp(w)
      PROVE  PagesOfLatestLease'
  BY <1>0, <1>t, <1>4 DEF GiveUp, Reaped, Row
<1>5. ASSUME NEW w \in Workers, NEW d \in Crawls, Claim(d, w)
      PROVE  PagesOfLatestLease'
  BY <1>t, <1>5 DEF Claim, IInv, PagesOfLatestLease
<1>6. ASSUME NEW w \in Workers, NEW d \in Crawls, NEW st, Heartbeat(d, w, st)
      PROVE  PagesOfLatestLease'
  BY <1>0, <1>t, <1>6 DEF Heartbeat, Row
<1>7. ASSUME NEW w \in Workers, HasJob(w), NEW n \in 1..worker[w].buffered,
             InsertPages(worker[w].job, w, Batch(worker[w], n))
      PROVE  PagesOfLatestLease'
  <2> DEFINE d == worker[w].job
  <2>1. d \in Crawls
    BY <1>7, Callers DEF IInv
  <2>2. crawl[d].lease = worker[w].lease
    BY <1>7 DEF InsertPages, Owns, IInv, WorkerIdFences
  <2>3. \A p \in Batch(worker[w], n) : p.lease = crawl[d].lease
    BY <2>2 DEF Batch, Rows
  <2>4. \A c \in Crawls : page'[c] \subseteq page[c]
                            \cup IF c = d THEN Batch(worker[w], n) ELSE {}
    BY <1>t, <1>7 DEF InsertPages
  <2> QED BY <1>7, <2>1, <2>3, <2>4 DEF InsertPages, IInv, PagesOfLatestLease
<1>8. ASSUME NEW w \in Workers, NEW d \in Crawls, Release(d, w)
      PROVE  PagesOfLatestLease'
  BY <1>0, <1>t, <1>8 DEF Release, Row
<1>9. ASSUME NEW w \in Workers, NEW d, NEW o, NEW st, Finish(d, w, o, st)
      PROVE  PagesOfLatestLease'
  BY <1>0, <1>t, <1>9 DEF Finish, Row
<1> QED
  BY <1>1, <1>2, <1>3, <1>4, <1>5, <1>6, <1>7, <1>8, <1>9, Callers DEF TableStep, IInv

-----------------------------------------------------------------------------

LEMMA Inductive == Spec => []IInv
<1>1. Init => IInv
  <2> SUFFICES ASSUME Init PROVE IInv
    OBVIOUS
  <2>1. TypeInv
    BY TypeInvInit
  <2>2. LockInv
    BY DEF Init, TableInit, LockInv, Pending, NoReap
  <2>3. AttemptsInv
    BY MaxAttemptsAssumption DEF Init, TableInit, NewRow, AttemptsInv
  <2>4. WorkerIdFences
    BY DEF Init, WorkerIdFences, HasJob, JobPcs, Between
  <2>5. PagesOfLatestLease
    BY DEF Init, TableInit, PagesOfLatestLease
  <2> QED BY <2>1, <2>2, <2>3, <2>4, <2>5 DEF IInv
<1>2. IInv /\ [Next]_vars => IInv'
  <2> SUFFICES ASSUME IInv, [Next]_vars PROVE IInv'
    OBVIOUS
  <2>1. TypeInv /\ TableStep
    BY NextTable DEF IInv
  <2>2. TypeInv'
    BY <2>1, TypeInvStep
  <2> QED
    BY <2>1, <2>2, LockInvStep, AttemptsInvStep, FencesStep, PagesStep DEF IInv
<1> QED BY <1>1, <1>2, PTL DEF Spec

\* A crawl is given max_attempts runs at most, for every number of workers, crawls
\* and attempts: no interleaving of reaps, hand-backs and lost acknowledgements puts
\* it back in the queue with its attempts used up.
THEOREM AttemptsBounded == Spec => []AttemptsLeftInQueue
<1>1. IInv => AttemptsLeftInQueue
  BY DEF IInv, AttemptsInv, AttemptsLeftInQueue
<1> QED BY <1>1, Inductive, PTL

\* worker_id alone fences the rows: finish, release, heartbeat and insert_pages of a
\* worker only ever match a row that its current job claimed last.
THEOREM WorkerIdIsAFence == Spec => []WorkerIdFences
<1>1. IInv => WorkerIdFences
  BY DEF IInv
<1> QED BY <1>1, Inductive, PTL

\* No two runs of a crawl have pages stored at the same time.
THEOREM PagesAreOfOneRun == Spec => []PagesOfLatestLease
<1>1. IInv => PagesOfLatestLease
  BY DEF IInv
<1> QED BY <1>1, Inductive, PTL

\* A row that a transaction of this step settles anew was running, and a settled row
\* is only ever matched by the final write that settled it.
LEMMA SettledStays ==
  ASSUME IInv, TableStep, NEW c \in Crawls, Terminal(c)
  PROVE  /\ crawl'[c].state = crawl[c].state
         /\ crawl'[c].stats = crawl[c].stats
         /\ page'[c] = page[c]
<1> DEFINE Kept == /\ crawl'[c].state = crawl[c].state
                   /\ crawl'[c].stats = crawl[c].stats
                   /\ page'[c] = page[c]
<1>t. /\ crawl \in [Crawls -> Row] /\ crawl[c] \in Row
      /\ page \in [Crawls -> SUBSET Page]
  BY DEF IInv, TypeInv, TableTypeOK
<1>s. crawl[c].state \in TerminalStates /\ crawl[c].state \notin {"absent", "queued", "running"}
  BY DEF Terminal, TerminalStates
<1>1. CASE UNCHANGED tableVars
  BY <1>1 DEF tableVars
<1>2. ASSUME NEW d \in Crawls, Create(d) \/ RequestCancel(d) \/ Expire(d)
      PROVE  Kept
  <2>1. d # c
    BY <1>s, <1>2 DEF Create, RequestCancel, Expire
  <2> QED BY <1>t, <1>2, <2>1 DEF Create, RequestCancel, Expire
<1>3. ASSUME NEW w \in Workers, AbortCancelled(w) \/ Requeue(w) \/ Rollback(w)
      PROVE  Kept
  BY <1>3 DEF AbortCancelled, Requeue, Rollback
<1>4. ASSUME NEW w \in Workers, GiveUp(w)
      PROVE  Kept
  <2>1. c \notin Pending(w) \cup Expired(w)
    BY <1>s DEF IInv, LockInv, Expired
  <2> QED BY <1>4, <2>1 DEF GiveUp, Reaped, Pending
<1>5. ASSUME NEW w \in Workers, NEW d \in Crawls,
             Claim(d, w) \/ \E st \in Nat : Heartbeat(d, w, st)
      PROVE  Kept
  <2>1. d # c
    BY <1>s, <1>5 DEF Claim, Heartbeat, Owns
  <2> QED BY <1>t, <1>5, <2>1 DEF Claim, Heartbeat
<1>6. ASSUME NEW w \in Workers, NEW d \in Crawls, NEW rows, InsertPages(d, w, rows)
      PROVE  Kept
  <2>1. d # c
    BY <1>s, <1>6 DEF InsertPages, Owns
  <2> QED BY <1>t, <1>6, <2>1 DEF InsertPages
<1>7. ASSUME NEW w \in Workers, worker[w].pc = "record", Release(worker[w].job, w)
      PROVE  Kept
  <2>1. HasJob(w) /\ worker[w].job \in Crawls
    BY <1>7, Callers DEF IInv
  <2>2. crawl[worker[w].job].state = "running"
    BY <1>7, <2>1 DEF IInv, WorkerIdFences, Release, ReleaseMatches
  <2>3. worker[w].job # c
    BY <1>s, <2>2
  <2> QED BY <1>t, <1>7, <2>1, <2>3 DEF Release
<1>8. ASSUME NEW w \in Workers, worker[w].pc = "finish",
             Finish(worker[w].job, w, worker[w].outcome, worker[w].seq)
      PROVE  Kept
  <2>1. HasJob(w) /\ worker[w].job \in Crawls
    BY <1>8, Callers DEF IInv
  <2>2. CASE worker[w].job # c
    BY <1>t, <1>8, <2>1, <2>2 DEF Finish
  <2>3. CASE worker[w].job = c
    <3>1. crawl[c].worker_id = w
      BY <1>8, <2>3 DEF Finish, FinishMatches
    <3>2. crawl[c].state = worker[w].outcome /\ crawl[c].stats = worker[w].seq
      BY <1>s, <2>1, <2>3, <3>1 DEF IInv, WorkerIdFences
    <3>3. /\ crawl'[c].state = worker[w].outcome /\ crawl'[c].stats = worker[w].seq
          /\ page' = page
      BY <1>t, <1>8, <2>3 DEF Finish, Row
    <3> QED BY <3>2, <3>3
  <2> QED BY <2>2, <2>3
<1> QED
  BY <1>1, <1>2, <1>3, <1>4, <1>5, <1>6, <1>7, <1>8, Callers DEF TableStep, IInv

\* A crawl that reached a terminal state keeps it, with its stats and its pages,
\* whatever a worker that outlived its lease, a reaper or a client does.
THEOREM SettledIsFinal == Spec => TerminalIsFinal
<1> DEFINE Kept == \A c \in Crawls : Terminal(c) =>
                     /\ crawl'[c].state = crawl[c].state
                     /\ crawl'[c].stats = crawl[c].stats
                     /\ page'[c] = page[c]
<1>1. IInv /\ [Next]_vars => [Kept]_vars
  BY SettledStays, NextTable DEF IInv
<1>2. Spec => [][Kept]_vars
  BY <1>1, Inductive, PTL DEF Spec
<1> QED BY <1>2 DEF TerminalIsFinal

-----------------------------------------------------------------------------
(***************************************************************************)
(* What the fence is for: the pages of a crawl.  They are those of its     *)
(* latest claim, numbered 1..n, and a crawl recorded as finished has all   *)
(* that its run reported.  On top of that the service is shown to          *)
(* implement CrawlLifecycle.                                               *)
(*                                                                         *)
(* The invariant counts: while a worker owns the row of its job, the pages *)
(* stored are at least those it dropped from its buffer and at most those  *)
(* it numbered, and they are all of them when the job is to be recorded as *)
(* finished.                                                               *)
(***************************************************************************)

Count(c) == Cardinality(page[c])

\* The pages 1..n of one run.
Filled(lease, n) == {[seq |-> i, lease |-> lease] : i \in 1..n}

Contiguous ==
  \A c \in Crawls :
    /\ Count(c) \in 0..MaxPages
    /\ page[c] = Filled(crawl[c].lease, Count(c))

LeaseLost(me) == me.interrupt = "lease lost"

\* A worker that gave its crawl up has discarded its buffer by the time it drains,
\* and writes no terminal state.
GivenUp(me) ==
  /\ me.pc = "drain" /\ LeaseLost(me) => me.buffered = 0
  /\ me.pc \in {"get", "finish"} => ~LeaseLost(me)

\* n pages are stored of the job of me.
InOrder(me, n) ==
  /\ n <= me.seq
  /\ me.pc = "run" => me.seq - me.buffered <= n
  /\ me.pc = "drain" /\ ~LeaseLost(me) => me.seq - me.buffered <= n
  /\ me.pc \in {"record", "finish"} /\ ~LeaseLost(me) /\ me.outcome = "finished"
       => n = me.seq

WorkersInOrder ==
  \A w \in Workers :
    /\ worker[w].seq <= MaxPages
    /\ GivenUp(worker[w])
    /\ HasJob(w) /\ crawl[worker[w].job].worker_id = w
         => InOrder(worker[w], Count(worker[w].job))

PagesInv == IInv /\ Contiguous /\ WorkersInOrder

-----------------------------------------------------------------------------
(***************************************************************************)
(* Sets of pages.                                                          *)
(***************************************************************************)

LEMMA FilledCardinality ==
  ASSUME NEW l \in Nat, NEW n \in Nat
  PROVE  Cardinality(Filled(l, n)) = n
<1> DEFINE f == [i \in 1..n |-> [seq |-> i, lease |-> l]]
<1>1. f \in [1..n -> Filled(l, n)]
  BY DEF Filled
<1>2. \A i, j \in 1..n : f[i] = f[j] => i = j
  <2>1. \A i \in 1..n : f[i].seq = i
    OBVIOUS
  <2> HIDE DEF f
  <2> QED BY <2>1
<1>3. \A p \in Filled(l, n) : \E i \in 1..n : f[i] = p
  BY DEF Filled
<1> HIDE DEF f
<1>4. f \in Bijection(1..n, Filled(l, n))
  BY <1>1, <1>2, <1>3 DEF Bijection, Injection, Surjection, IsInjective
<1>5. IsFiniteSet(1..n) /\ Cardinality(1..n) = n
  BY FS_Interval
<1> QED BY <1>4, <1>5, FS_Bijection DEF ExistsBijection

LEMMA FilledSeqs ==
  ASSUME NEW l, NEW n
  PROVE  {p.seq : p \in Filled(l, n)} = 1..n
<1>1. ASSUME NEW p \in Filled(l, n)
      PROVE  p.seq \in 1..n
  BY DEF Filled
<1>2. ASSUME NEW i \in 1..n
      PROVE  \E p \in Filled(l, n) : p.seq = i
  <2>1. [seq |-> i, lease |-> l] \in Filled(l, n)
    BY DEF Filled
  <2> QED BY <2>1
<1> QED BY <1>1, <1>2

\* A batch of the run, as insert_pages gets it.
RowsFrom(lease, a, b) == {[seq |-> i, lease |-> lease] : i \in a+1..b}

\* A batch that begins at or before the first page that is missing.
LEMMA FilledMore ==
  ASSUME NEW l \in Nat, NEW n \in Nat, NEW a \in Nat, NEW b \in Nat, a <= n, n <= b
  PROVE  Filled(l, n) \cup {p \in RowsFrom(l, a, b) : \A q \in Filled(l, n) : q.seq # p.seq}
           = Filled(l, b)
<1> DEFINE rows == RowsFrom(l, a, b)
<1> USE DEF RowsFrom
<1>1. \A p : p \in Filled(l, n) <=> \E i \in 1..n : p = [seq |-> i, lease |-> l]
  BY DEF Filled
<1>2. \A p : p \in Filled(l, b) <=> \E i \in 1..b : p = [seq |-> i, lease |-> l]
  BY DEF Filled
<1>3. ASSUME NEW p \in rows, \A q \in Filled(l, n) : q.seq # p.seq
      PROVE  p \in Filled(l, b)
  <2>1. PICK i \in a+1..b : p = [seq |-> i, lease |-> l]
    OBVIOUS
  <2> QED BY <1>2, <2>1
<1>4. ASSUME NEW p \in Filled(l, n)
      PROVE  p \in Filled(l, b)
  BY <1>1, <1>2, <1>4
<1>5. ASSUME NEW p \in Filled(l, b), p \notin Filled(l, n)
      PROVE  p \in rows /\ \A q \in Filled(l, n) : q.seq # p.seq
  <2>1. PICK i \in 1..b : p = [seq |-> i, lease |-> l]
    BY <1>2
  <2>2. i \notin 1..n
    BY <1>1, <1>5, <2>1
  <2>3. i \in a+1..b
    BY <2>2
  <2>4. \A q \in Filled(l, n) : q.seq \in 1..n
    BY <1>1
  <2> QED BY <2>1, <2>2, <2>3, <2>4
<1> QED BY <1>3, <1>4, <1>5

\* A batch whose pages are all stored.
LEMMA FilledSame ==
  ASSUME NEW l \in Nat, NEW n \in Nat, NEW a \in Nat, NEW b \in Nat, b <= n
  PROVE  Filled(l, n) \cup {p \in RowsFrom(l, a, b) : \A q \in Filled(l, n) : q.seq # p.seq}
           = Filled(l, n)
<1> DEFINE rows == RowsFrom(l, a, b)
<1> USE DEF RowsFrom
<1>1. ASSUME NEW p \in rows
      PROVE  \E q \in Filled(l, n) : q.seq = p.seq
  <2>1. PICK i \in a+1..b : p = [seq |-> i, lease |-> l]
    OBVIOUS
  <2>2. i \in 1..n
    BY <2>1
  <2>3. p \in Filled(l, n)
    BY <2>1, <2>2 DEF Filled
  <2> QED BY <2>3
<1> QED BY <1>1

-----------------------------------------------------------------------------
(***************************************************************************)
(* What a step does to the pages.                                          *)
(***************************************************************************)

\* worker w writes the first n rows of its buffer.
Sends(w, n) ==
  /\ worker[w].pc \in {"run", "drain"}
  /\ InsertPages(worker[w].job, w, Batch(worker[w], n))

\* After that, whether or not the rows were there before: the stored pages are still
\* contiguous and include the rows, which were all numbered by the job.
LEMMA SendsPages ==
  ASSUME PagesInv, NEW w \in Workers, NEW n \in 1..worker[w].buffered, Sends(w, n),
         NEW c \in Crawls, c = worker[w].job
  PROVE  /\ page'[c] = Filled(crawl[c].lease, Count(c)')
         /\ Count(c)' \in Nat
         /\ Count(c) <= Count(c)'
         /\ worker[w].seq - worker[w].buffered + n <= Count(c)'
         /\ Count(c)' <= worker[w].seq
         /\ UNCHANGED crawl
         /\ \A d \in Crawls : d # c => page'[d] = page[d]
<1> DEFINE me == worker[w]
           a == me.seq - me.buffered
           b == me.seq - me.buffered + n
           l == crawl[c].lease
           k == Count(c)
           more == IF k < b THEN b ELSE k
<1>1. /\ me \in Good /\ me.seq \in Nat /\ me.buffered \in Nat /\ me.buffered <= me.seq
      /\ a \in Nat /\ b \in Nat /\ b <= me.seq
  BY GoodField DEF PagesInv, IInv, TypeInv
<1>2. /\ crawl[c].worker_id = w /\ HasJob(w)
      /\ page' = [page EXCEPT ![c] =
                    @ \cup {p \in Batch(me, n) : \A q \in @ : q.seq # p.seq}]
      /\ UNCHANGED crawl
  BY DEF Sends, InsertPages, Owns, HasJob, JobPcs
<1>3. l = me.lease /\ l \in Nat
  BY <1>2 DEF PagesInv, IInv, WorkerIdFences, TypeInv, TableTypeOK, Row
<1>4. k \in Nat /\ page[c] = Filled(l, k)
  BY BoundsAssumption DEF PagesInv, Contiguous
<1>5. a <= k /\ k <= me.seq
  <2>1. GivenUp(me) /\ me.buffered # 0
    BY <1>1 DEF PagesInv, WorkersInOrder
  <2>2. me.pc = "drain" => ~LeaseLost(me)
    BY <2>1 DEF GivenUp
  <2> QED BY <1>2, <2>2 DEF PagesInv, WorkersInOrder, InOrder, Sends
<1>6. Batch(me, n) = RowsFrom(l, a, b)
  BY <1>3 DEF Batch, Rows, RowsFrom
<1>7. /\ page'[c] = Filled(l, k) \cup {p \in Batch(me, n) : \A q \in Filled(l, k) : q.seq # p.seq}
      /\ \A d \in Crawls : d # c => page'[d] = page[d]
  BY <1>2, <1>4 DEF PagesInv, IInv, TypeInv, TableTypeOK
<1> HIDE DEF a, b, l, k
<1>8. page'[c] = Filled(l, more)
  <2> DEFINE rows == RowsFrom(l, a, b)
  <2>0. page'[c] = Filled(l, k) \cup {p \in rows : \A q \in Filled(l, k) : q.seq # p.seq}
    BY <1>6, <1>7
  <2>1. CASE k < b
    <3>0. /\ l \in Nat /\ k \in Nat /\ a \in Nat /\ b \in Nat
          /\ a <= k /\ k <= b
      BY <1>1, <1>3, <1>4, <1>5, <2>1
    <3>1. Filled(l, k) \cup {p \in rows : \A q \in Filled(l, k) : q.seq # p.seq}
            = Filled(l, b)
      BY <3>0, FilledMore
    <3> QED BY <2>0, <2>1, <3>1
  <2>2. CASE ~(k < b)
    <3>1. Filled(l, k) \cup {p \in rows : \A q \in Filled(l, k) : q.seq # p.seq}
            = Filled(l, k)
      BY <1>1, <1>3, <1>4, <2>2, FilledSame
    <3> QED BY <2>0, <2>2, <3>1
  <2> QED BY <2>1, <2>2
<1>9. more \in Nat /\ k <= more /\ b <= more /\ more <= me.seq
  BY <1>1, <1>4, <1>5
<1> HIDE DEF more
<1>10. Count(c)' = more
  BY <1>3, <1>8, <1>9, FilledCardinality DEF Count
<1> QED BY <1>2, <1>7, <1>8, <1>9, <1>10 DEF a, b, l, k

\* The pages of a crawl are left alone, or wiped by a claim, or added to by the worker
\* that owns it.
LEMMA PagesKept ==
  ASSUME IInv, TableStep, NEW c \in Crawls
  PROVE  \/ page'[c] = page[c] /\ crawl'[c].lease = crawl[c].lease
         \/ \E w \in Workers : worker[w].pc = "claim" /\ Claim(c, w)
         \/ \E w \in Workers : /\ worker[w].job = c
                               /\ \E n \in 1..worker[w].buffered : Sends(w, n)
<1> DEFINE Same == page'[c] = page[c] /\ crawl'[c].lease = crawl[c].lease
<1>t. /\ crawl \in [Crawls -> Row] /\ crawl[c] \in Row
      /\ page \in [Crawls -> SUBSET Page]
  BY DEF IInv, TypeInv, TableTypeOK
<1>1. CASE UNCHANGED tableVars
  BY <1>1 DEF tableVars
<1>2. ASSUME NEW d \in Crawls, Create(d) \/ RequestCancel(d) \/ Expire(d)
      PROVE  Same
  BY <1>t, <1>2 DEF Create, RequestCancel, Expire, Row
<1>3. ASSUME NEW w \in Workers, AbortCancelled(w) \/ Requeue(w) \/ Rollback(w)
      PROVE  Same
  BY <1>3 DEF AbortCancelled, Requeue, Rollback
<1>4. ASSUME NEW w \in Workers, GiveUp(w)
      PROVE  Same
  BY <1>t, <1>4 DEF GiveUp, Reaped, Row
<1>5. ASSUME NEW w \in Workers, NEW d \in Crawls, Claim(d, w), d # c
      PROVE  Same
  BY <1>t, <1>5 DEF Claim
<1>6. ASSUME NEW w \in Workers, NEW d \in Crawls, NEW st, Heartbeat(d, w, st)
      PROVE  Same
  BY <1>t, <1>6 DEF Heartbeat, Row
<1>7. ASSUME NEW w \in Workers, NEW n \in 1..worker[w].buffered, Sends(w, n),
             worker[w].job # c
      PROVE  Same
  BY <1>t, <1>7 DEF Sends, InsertPages
<1>8. ASSUME NEW w \in Workers, NEW d \in Crawls, Release(d, w)
      PROVE  Same
  BY <1>t, <1>8 DEF Release, Row
<1>9. ASSUME NEW w \in Workers, NEW d, NEW o, NEW st, Finish(d, w, o, st)
      PROVE  Same
  BY <1>t, <1>9 DEF Finish, Row
<1> QED
  BY <1>1, <1>2, <1>3, <1>4, <1>5, <1>6, <1>7, <1>8, <1>9, Callers DEF TableStep, IInv, Sends

\* The stored pages of every crawl stay those of its latest claim, from 1 on.
LEMMA ContiguousStep ==
  ASSUME PagesInv, TableStep
  PROVE  Contiguous'
<1> SUFFICES ASSUME NEW c \in Crawls
             PROVE  /\ Count(c)' \in 0..MaxPages
                    /\ page'[c] = Filled(crawl'[c].lease, Count(c)')
  BY DEF Contiguous, Filled
<1>t. /\ IInv /\ MaxPages \in Nat
      /\ crawl \in [Crawls -> Row] /\ page \in [Crawls -> SUBSET Page]
  BY BoundsAssumption DEF PagesInv, IInv, TypeInv, TableTypeOK
<1>1. CASE page'[c] = page[c] /\ crawl'[c].lease = crawl[c].lease
  BY <1>1 DEF PagesInv, Contiguous, Count
<1>2. ASSUME NEW w \in Workers, Claim(c, w)
      PROVE  /\ Count(c)' \in 0..MaxPages
             /\ page'[c] = Filled(crawl'[c].lease, Count(c)')
  <2>1. page'[c] = {}
    BY <1>t, <1>2 DEF Claim
  <2>2. Count(c)' = 0
    BY <2>1, FS_EmptySet DEF Count
  <2> QED BY <1>t, <2>1, <2>2 DEF Filled
<1>3. ASSUME NEW w \in Workers, worker[w].job = c,
             NEW n \in 1..worker[w].buffered, Sends(w, n)
      PROVE  /\ Count(c)' \in 0..MaxPages
             /\ page'[c] = Filled(crawl'[c].lease, Count(c)')
  <2>1. /\ page'[c] = Filled(crawl[c].lease, Count(c)') /\ UNCHANGED crawl
        /\ Count(c)' \in Nat /\ Count(c)' <= worker[w].seq
    BY <1>3, SendsPages
  <2>2. worker[w].seq <= MaxPages /\ worker[w].seq \in Nat
    BY Callers DEF PagesInv, IInv, WorkersInOrder
  <2> QED BY <1>t, <2>1, <2>2
<1> QED BY <1>t, <1>1, <1>2, <1>3, PagesKept

-----------------------------------------------------------------------------
(***************************************************************************)
(* The buffer and the stored pages of a job.                               *)
(***************************************************************************)

LEMMA SameLeaseLost ==
  \A a, b : a.interrupt = b.interrupt => (LeaseLost(a) <=> LeaseLost(b))
BY DEF LeaseLost

\* Worker w's own numbers stay in bounds.
Numbered(me) == me.seq <= MaxPages /\ GivenUp(me)

LEMMA BetweenNumbered ==
  ASSUME NEW pc \in {"poll", "down"}, NEW stop
  PROVE  Numbered(Between(pc, stop))
BY BoundsAssumption DEF Numbered, GivenUp, Between

LEMMA OtherPcNumbered ==
  ASSUME NEW me \in Worker, Numbered(me), NEW pc \in {"requeue", "give_up", "claim", "poll"}
  PROVE  Numbered([me EXCEPT !.pc = pc])
BY DEF Numbered, GivenUp, Worker

LEMMA ClaimedNumbered ==
  ASSUME TypeInv, NEW w \in Workers, NEW c \in Crawls, ClaimCrawl(w, c)
  PROVE  /\ worker'[w].seq = 0 /\ worker'[w].buffered = 0 /\ worker'[w].job = c
         /\ worker'[w].interrupt = "none" /\ worker'[w].pc \in {"run", "finish"}
         /\ worker'[w].outcome \in {"none", "failed"}
         /\ Numbered(worker'[w])
<1> DEFINE started == [Between(IF c \in Unusable THEN "finish" ELSE "run", worker[w].stop)
                         EXCEPT !.job = c, !.lease = crawl[c].lease + 1]
           next == IF c \in Unusable
                     THEN [started EXCEPT !.outcome = "failed"]
                     ELSE [started EXCEPT !.watchers = Watchers, !.flushing = TRUE]
<1>1. /\ next.seq = 0 /\ next.buffered = 0 /\ next.job = c /\ next.interrupt = "none"
      /\ next.pc \in {"run", "finish"} /\ next.outcome \in {"none", "failed"}
  BY DEF Between
<1>2. Becomes(w, next)
  BY DEF ClaimCrawl
<1> HIDE DEF next
<1>3. worker'[w] = next
  BY <1>2, BecomesOther
<1>4. ~LeaseLost(next)
  BY <1>1 DEF LeaseLost
<1>5. Numbered(next)
  BY <1>1, <1>4, BoundsAssumption DEF Numbered, GivenUp
<1> QED BY <1>1, <1>3, <1>5

LEMMA NumberedStep ==
  ASSUME TypeInv, \A v \in Workers : Numbered(worker[v]), [Next]_vars
  PROVE  \A v \in Workers : Numbered(worker'[v])
<1> SUFFICES ASSUME NEW v \in Workers
             PROVE  Numbered(worker'[v])
  OBVIOUS
<1>t. worker \in [Workers -> Worker] /\ MaxPages \in Nat
  BY BoundsAssumption DEF TypeInv, Good
<1>1. CASE UNCHANGED worker
  BY <1>1
<1>2. ASSUME NEW w \in Workers, NEW next, Becomes(w, next), Numbered(next)
      PROVE  Numbered(worker'[v])
  BY <1>2, BecomesOther
<1>3. ASSUME NEW w \in Workers, ClaimLoop(w) \/ Process(w)
      PROVE  Numbered(worker'[v])
  <2>1. \A pc \in {"requeue", "give_up", "claim", "poll"} :
          Numbered([worker[w] EXCEPT !.pc = pc])
    BY <1>t, OtherPcNumbered
  <2>2. \A pc \in {"poll", "down"} : \A stop : Numbered(Between(pc, stop))
    BY BetweenNumbered
  <2>3. Numbered([worker[w] EXCEPT !.stop = TRUE])
    <3> DEFINE next == [worker[w] EXCEPT !.stop = TRUE]
    <3>1. /\ next.pc = worker[w].pc /\ next.interrupt = worker[w].interrupt
          /\ next.seq = worker[w].seq /\ next.buffered = worker[w].buffered
      BY <1>t DEF Worker
    <3> HIDE DEF next
    <3>2. Numbered(next)
      BY <3>1, SameLeaseLost DEF Numbered, GivenUp
    <3> QED BY <3>2 DEF next
  <2>4. ASSUME NEW c \in Crawls, ClaimCrawl(w, c)
        PROVE  Numbered(worker'[v])
    <3>1. v # w => worker'[v] = worker[v]
      BY <2>4, BecomesOther DEF ClaimCrawl
    <3> QED BY <2>4, <3>1, ClaimedNumbered
  <2> QED
    BY <1>2, <1>3, <2>1, <2>2, <2>3, <2>4
       DEF ClaimLoop, SkipReap, ReapAbortCancelled, ReapRequeue, ReapGiveUp, ReapFails,
           ClaimNothing, ClaimFails, Exit, Process, Sigterm, Crash, Restart
<1>4. ASSUME NEW w \in Workers, RunJob(w)
      PROVE  Numbered(worker'[v])
  <2> DEFINE me == worker[w]
  <2>0. me \in Worker /\ me.pc = "run" /\ me.seq <= MaxPages /\ me.seq \in Nat
    BY <1>t, <1>4
       DEF Numbered, Worker, RunJob, Running, Watching, ReportPage, CrawlEnds, CrawlCancelled,
           Flush, FlusherDies, HeartbeatLands, HeartbeatLeaseLost, HeartbeatFails,
           CancelOnStop, JobEnds
  <2>1. CASE ReportPage(w)
    <3>1. me.seq < MaxPages
      BY <2>1 DEF ReportPage
    <3> DEFINE s == me.seq + 1
    <3>2. s <= MaxPages
      BY <1>t, <2>0, <3>1
    <3> HIDE DEF s
    <3>3. \A b : Numbered([me EXCEPT !.seq = s, !.buffered = b])
      BY <2>0, <3>2 DEF Numbered, GivenUp, Worker
    <3> QED BY <1>2, <2>1, <3>3 DEF ReportPage, s
  <2>2. ASSUME NEW o \in TerminalStates, CrawlEnds(w, o) \/ CrawlCancelled(w)
        PROVE  Numbered(worker'[v])
    <3>1. \A out : Numbered([me EXCEPT !.outcome = out])
      BY <2>0 DEF Numbered, GivenUp, Worker
    <3> QED BY <1>2, <2>2, <3>1 DEF CrawlEnds, CrawlCancelled
  <2>3. CASE Flush(w)
    <3>1. \A n : Numbered([me EXCEPT !.buffered = @ - n])
      BY <2>0 DEF Numbered, GivenUp, Worker
    <3> QED BY <1>1, <1>2, <2>3, <3>1 DEF Flush
  <2>4. CASE FlusherDies(w)
    <3>1. Numbered([me EXCEPT !.flushing = FALSE])
      BY <2>0 DEF Numbered, GivenUp, Worker
    <3> QED BY <1>2, <2>4, <3>1 DEF FlusherDies
  <2>5. CASE HeartbeatLands(w) \/ HeartbeatLeaseLost(w) \/ HeartbeatFails(w) \/ CancelOnStop(w)
    <3>1. \A i, t : Numbered(Interrupted(me, i, t))
      BY <2>0 DEF Numbered, GivenUp, Worker, Interrupted
    <3>2. Numbered(me)
      OBVIOUS
    <3> QED
      BY <1>1, <1>2, <2>5, <3>1, <3>2
         DEF HeartbeatLands, HeartbeatLeaseLost, HeartbeatFails, CancelOnStop
  <2>6. CASE JobEnds(w)
    <3> DEFINE b == IF LeaseLost(me) THEN 0 ELSE me.buffered
               next == [me EXCEPT !.pc = "drain", !.watchers = {}, !.buffered = b]
    <3>1. /\ next.pc = "drain" /\ next.interrupt = me.interrupt /\ next.seq = me.seq
          /\ LeaseLost(me) => next.buffered = 0
      BY <2>0 DEF Worker
    <3>2. Becomes(w, next)
      BY <2>6 DEF JobEnds, LeaseLost
    <3> HIDE DEF next
    <3>3. Numbered(next)
      BY <2>0, <3>1, SameLeaseLost DEF Numbered, GivenUp
    <3> QED BY <1>2, <3>2, <3>3
  <2> QED BY <1>4, <2>1, <2>2, <2>3, <2>4, <2>5, <2>6 DEF RunJob, TerminalStates
<1>5. ASSUME NEW w \in Workers, EndJob(w)
      PROVE  Numbered(worker'[v])
  <2> DEFINE me == worker[w]
  <2>0. me \in Worker /\ Numbered(me)
    BY <1>t
  <2>1. CASE Done(w)
    BY <1>2, <2>1, BetweenNumbered DEF Done
  <2>2. CASE Drain(w) \/ DrainLeaseLost(w) \/ DrainFails(w)
    <3>1. \A i, o, b : /\ Numbered([Drained(me) EXCEPT !.buffered = b])
                       /\ Numbered([Drained(me) EXCEPT !.interrupt = i])
                       /\ Numbered([Drained(me) EXCEPT !.outcome = o])
      BY <2>0 DEF Numbered, GivenUp, Worker, Drained
    <3> QED BY <1>2, <2>2, <3>1 DEF Drain, DrainLeaseLost, DrainFails
  <2>3. CASE RecordOutcome(w) \/ ReleaseRefused(w) \/ GetAfterRefusal(w)
    <3>1. ~LeaseLost(me)
      BY <2>0, <2>3
         DEF RecordOutcome, ReleaseRefused, Stopping, GetAfterRefusal, LeaseLost, Numbered,
             GivenUp
    <3>2. \E pc \in {"get", "finish"} :
            \E o : worker'[w] = [me EXCEPT !.pc = pc, !.outcome = o]
      <4>1. \A pc : [me EXCEPT !.pc = pc] = [me EXCEPT !.pc = pc, !.outcome = me.outcome]
        BY <2>0 DEF Worker
      <4>2. ASSUME NEW next, Becomes(w, next) PROVE worker'[w] = next
        BY <4>2, BecomesOther
      <4>3. \/ worker'[w] = [me EXCEPT !.pc = "finish"]
            \/ worker'[w] = [me EXCEPT !.pc = "get"]
            \/ worker'[w] = [me EXCEPT !.pc = "finish", !.outcome = "aborted"]
        BY <2>3, <4>2 DEF RecordOutcome, ReleaseRefused, GetAfterRefusal
      <4> QED BY <4>1, <4>3
    <3>3. /\ worker'[w].pc \in {"get", "finish"} /\ worker'[w].seq = me.seq
          /\ worker'[w].interrupt = me.interrupt
      BY <2>0, <3>2 DEF Worker
    <3>4. Numbered(worker'[w])
      BY <2>0, <3>1, <3>3, SameLeaseLost DEF Numbered, GivenUp
    <3>5. v # w => worker'[v] = worker[v]
      BY <2>3, BecomesOther DEF RecordOutcome, ReleaseRefused, GetAfterRefusal
    <3> QED BY <3>4, <3>5
  <2> QED
    BY <1>1, <1>5, <2>1, <2>2, <2>3
       DEF EndJob, RecordLeaseLost, RequeueJob, RequeueFails, WriteTerminalState,
           WriteTerminalStateFails
<1> QED BY <1>1, <1>3, <1>4, <1>5 DEF Next, vars, Api, Time

\* The job's own steps keep the stored pages in order with its buffer.
LEMMA InOrderOwn ==
  ASSUME PagesInv, NEW w \in Workers, RunJob(w) \/ EndJob(w), TableStep, HasJob(w)',
         NEW c \in Crawls, c = worker[w].job, crawl'[c].worker_id = w
  PROVE  InOrder(worker'[w], Count(c)')
<1> DEFINE me == worker[w]
<1>n. PICK n : n = Count(c)
  OBVIOUS
<1>m. PICK m : m = Count(c)'
  OBVIOUS
<1>1. HasJob(w)
  BY DEF HasJob, JobPcs, RunJob, Running, Watching, ReportPage, CrawlEnds, CrawlCancelled,
         Flush, FlusherDies, HeartbeatLands, HeartbeatLeaseLost, HeartbeatFails, CancelOnStop,
         JobEnds, EndJob, Drain, DrainLeaseLost, DrainFails, RecordLeaseLost, RecordOutcome,
         RequeueJob, Stopping, ReleaseRefused, GetAfterRefusal, RequeueFails,
         WriteTerminalState, WriteTerminalStateFails
<1>2. crawl[c].worker_id = w
  BY <1>1, RowKept DEF PagesInv
<1>3. InOrder(me, n) /\ GivenUp(me)
  BY <1>1, <1>2, <1>n DEF PagesInv, WorkersInOrder
<1>4. /\ me \in Worker /\ me.seq \in Nat /\ me.buffered \in Nat /\ me.buffered <= me.seq
      /\ n \in Nat
  BY <1>n, GoodField, BoundsAssumption DEF PagesInv, IInv, TypeInv, Contiguous
<1>5. page' = page => m = n
  BY <1>n, <1>m DEF Count
<1>6. ASSUME NEW next, Becomes(w, next) PROVE worker'[w] = next
  BY <1>6, BecomesOther DEF PagesInv, IInv
<1>7. ASSUME NEW b \in 1..me.buffered, me.pc \in {"run", "drain"},
             InsertPages(me.job, w, Batch(me, b))
      PROVE  m \in Nat /\ m <= me.seq /\ n <= m /\ me.seq - me.buffered + b <= m
  BY <1>n, <1>m, <1>7, SendsPages DEF Sends
<1>8. ~Done(w)
  <2>1. Done(w) => worker'[w].pc = "poll"
    BY <1>6 DEF Done, Between
  <2> QED BY <2>1 DEF HasJob, JobPcs
<1>c. crawl[c].state = "running" \/ me.pc = "finish"
  BY <1>1, <1>2 DEF PagesInv, IInv, WorkerIdFences
<1> SUFFICES InOrder(worker'[w], m)
  BY <1>m
<1>9. CASE RunJob(w)
  <2>0. me.pc = "run" /\ n <= me.seq /\ me.seq - me.buffered <= n
    BY <1>3, <1>9
       DEF InOrder, RunJob, Running, Watching, ReportPage, CrawlEnds, CrawlCancelled,
           Flush, FlusherDies, HeartbeatLands, HeartbeatLeaseLost, HeartbeatFails,
           CancelOnStop, JobEnds
  <2>1. CASE ReportPage(w)
    <3>1. m = n
      BY <1>5, <2>1 DEF ReportPage, tableVars
    <3> DEFINE next == [me EXCEPT !.seq = @ + 1, !.buffered = @ + 1]
    <3>2. next.pc = "run" /\ next.seq = me.seq + 1 /\ next.buffered = me.buffered + 1
      BY <1>4, <2>0 DEF Worker
    <3>3. worker'[w] = next
      BY <1>6, <2>1 DEF ReportPage
    <3> HIDE DEF next
    <3> QED BY <1>4, <2>0, <3>1, <3>2, <3>3 DEF InOrder
  <2>2. ASSUME page' = page, worker'[w].pc = "run", worker'[w].seq = me.seq,
               worker'[w].buffered = me.buffered
        PROVE  InOrder(worker'[w], m)
    BY <1>4, <1>5, <2>0, <2>2 DEF InOrder
  <2>3. ASSUME NEW o \in TerminalStates, CrawlEnds(w, o) \/ CrawlCancelled(w)
        PROVE  InOrder(worker'[w], m)
    <3>1. PICK out : worker'[w] = [me EXCEPT !.outcome = out]
      BY <1>6, <2>3 DEF CrawlEnds, CrawlCancelled
    <3>2. /\ worker'[w].pc = "run" /\ worker'[w].seq = me.seq
          /\ worker'[w].buffered = me.buffered
      BY <1>4, <2>0, <3>1 DEF Worker
    <3> QED BY <2>2, <2>3, <3>2 DEF CrawlEnds, CrawlCancelled, tableVars
  <2>4. CASE Flush(w)
    <3>1. PICK b \in 1..me.buffered :
            /\ InsertPages(me.job, w, Batch(me, b))
            /\ Becomes(w, [me EXCEPT !.buffered = @ - b]) \/ UNCHANGED worker
      BY <2>4 DEF Flush
    <3>2. m \in Nat /\ m <= me.seq /\ n <= m /\ me.seq - me.buffered + b <= m
      BY <1>7, <2>0, <3>1
    <3>3. CASE Becomes(w, [me EXCEPT !.buffered = @ - b])
      <4> DEFINE next == [me EXCEPT !.buffered = @ - b]
      <4>1. next.pc = "run" /\ next.seq = me.seq /\ next.buffered = me.buffered - b
        BY <1>4, <2>0 DEF Worker
      <4>2. worker'[w] = next
        BY <1>6, <3>3
      <4> HIDE DEF next
      <4> QED BY <1>4, <3>2, <4>1, <4>2 DEF InOrder
    <3>4. CASE UNCHANGED worker
      BY <1>4, <2>0, <3>2, <3>4 DEF InOrder
    <3> QED BY <3>1, <3>3, <3>4
  <2>5. CASE FlusherDies(w)
    <3>1. worker'[w] = [me EXCEPT !.flushing = FALSE]
      BY <1>6, <2>5 DEF FlusherDies
    <3>2. /\ worker'[w].pc = "run" /\ worker'[w].seq = me.seq
          /\ worker'[w].buffered = me.buffered
      BY <1>4, <2>0, <3>1 DEF Worker
    <3> QED BY <2>2, <2>5, <3>2 DEF FlusherDies, tableVars
  <2>6. CASE HeartbeatLands(w) \/ HeartbeatLeaseLost(w) \/ HeartbeatFails(w) \/ CancelOnStop(w)
    <3>1. \A i, t : /\ Interrupted(me, i, t).pc = "run"
                    /\ Interrupted(me, i, t).seq = me.seq
                    /\ Interrupted(me, i, t).buffered = me.buffered
      BY <1>4, <2>0 DEF Worker, Interrupted
    <3>2. page' = page
      BY <2>6 DEF HeartbeatLands, HeartbeatLeaseLost, HeartbeatFails, CancelOnStop, Heartbeat,
                  tableVars
    <3>3. worker'[w] = me \/ \E i, t : worker'[w] = Interrupted(me, i, t)
      BY <1>6, <2>6
         DEF HeartbeatLands, HeartbeatLeaseLost, HeartbeatFails, CancelOnStop
    <3>4. /\ worker'[w].pc = "run" /\ worker'[w].seq = me.seq
          /\ worker'[w].buffered = me.buffered
      BY <2>0, <3>1, <3>3
    <3> QED BY <2>2, <3>2, <3>4
  <2>7. CASE JobEnds(w)
    <3> DEFINE b == IF LeaseLost(me) THEN 0 ELSE me.buffered
               next == [me EXCEPT !.pc = "drain", !.watchers = {}, !.buffered = b]
    <3>1. /\ next.pc = "drain" /\ next.interrupt = me.interrupt /\ next.seq = me.seq
          /\ ~LeaseLost(me) => next.buffered = me.buffered
      BY <1>4 DEF Worker
    <3>2. worker'[w] = next
      BY <1>6, <2>7 DEF JobEnds, LeaseLost
    <3>3. m = n
      BY <1>5, <2>7 DEF JobEnds, tableVars
    <3> HIDE DEF next
    <3> QED BY <1>4, <2>0, <3>1, <3>2, <3>3, SameLeaseLost DEF InOrder
  <2> QED BY <1>9, <2>1, <2>3, <2>4, <2>5, <2>6, <2>7 DEF RunJob, TerminalStates
<1>10. CASE EndJob(w)
  <2>1. CASE Drain(w)
    <3> DEFINE next == [Drained(me) EXCEPT !.buffered = 0]
    <3>1. /\ next.pc = "record" /\ next.interrupt = me.interrupt /\ next.seq = me.seq
      BY <1>4 DEF Worker, Drained
    <3>2. worker'[w] = next
      BY <1>6, <2>1 DEF Drain
    <3>3. m <= me.seq /\ (~LeaseLost(me) => m = me.seq)
      <4>1. n <= me.seq /\ (~LeaseLost(me) => me.seq - me.buffered <= n)
        BY <1>3, <2>1 DEF InOrder, Drain
      <4>2. CASE me.buffered = 0
        <5>1. m = n
          BY <1>5, <2>1, <4>2 DEF Drain, tableVars
        <5> QED BY <1>4, <4>1, <4>2, <5>1
      <4>3. CASE me.buffered # 0
        <5>1. me.buffered \in 1..me.buffered /\ me.pc = "drain"
              /\ InsertPages(me.job, w, Batch(me, me.buffered))
          BY <1>4, <2>1, <4>3 DEF Drain
        <5>2. m \in Nat /\ m <= me.seq /\ me.seq - me.buffered + me.buffered <= m
          BY <1>7, <5>1
        <5> QED BY <1>4, <5>2
      <4> QED BY <4>2, <4>3
    <3> HIDE DEF next
    <3> QED BY <3>1, <3>2, <3>3, SameLeaseLost DEF InOrder
  <2>2. CASE DrainLeaseLost(w)
    <3>1. crawl[c].state = "running" /\ ~(crawl[c].worker_id = w /\ crawl[c].state = "running")
      BY <1>c, <2>2 DEF DrainLeaseLost, Owns
    <3> QED BY <1>2, <3>1
  <2>3. CASE DrainFails(w)
    <3> DEFINE o == IF Drained(me).outcome = "finished" THEN "failed" ELSE Drained(me).outcome
               next == [Drained(me) EXCEPT !.outcome = o]
    <3>0. o # "finished"
      OBVIOUS
    <3> HIDE DEF o
    <3>1. next.pc = "record" /\ next.outcome = o /\ next.seq = me.seq
      BY <1>4 DEF Worker, Drained
    <3>2. worker'[w] = next
      BY <1>6, <2>3 DEF DrainFails, o
    <3>3. m <= me.seq
      <4>1. n <= me.seq
        BY <1>3 DEF InOrder
      <4>2. CASE UNCHANGED tableVars
        BY <1>5, <4>1, <4>2 DEF tableVars
      <4>3. CASE \E b \in 1..me.buffered : InsertPages(me.job, w, Batch(me, b))
        BY <1>7, <2>3, <4>3 DEF DrainFails
      <4> QED BY <2>3, <4>2, <4>3 DEF DrainFails
    <3> HIDE DEF next
    <3> QED BY <3>0, <3>1, <3>2, <3>3 DEF InOrder
  <2>4. CASE RecordOutcome(w)
    <3>1. worker'[w] = [me EXCEPT !.pc = "finish"] /\ m = n /\ me.pc = "record"
      BY <1>5, <1>6, <2>4 DEF RecordOutcome, tableVars
    <3>2. /\ worker'[w].pc = "finish" /\ worker'[w].seq = me.seq
          /\ worker'[w].outcome = me.outcome /\ worker'[w].interrupt = me.interrupt
      BY <1>4, <3>1 DEF Worker
    <3> QED BY <1>3, <3>1, <3>2, SameLeaseLost DEF InOrder
  <2>5. CASE ReleaseRefused(w)
    <3>1. LET next == [me EXCEPT !.pc = "get"] IN next.pc = "get" /\ next.seq = me.seq
      BY <1>4 DEF Worker
    <3>2. worker'[w] = [me EXCEPT !.pc = "get"] /\ m = n
      BY <1>5, <1>6, <2>5 DEF ReleaseRefused, tableVars
    <3> QED BY <1>3, <3>1, <3>2 DEF InOrder
  <2>6. CASE GetAfterRefusal(w)
    <3>1. LET next == [me EXCEPT !.pc = "finish", !.outcome = "aborted"]
          IN next.pc = "finish" /\ next.seq = me.seq /\ next.outcome = "aborted"
      BY <1>4 DEF Worker
    <3>2. worker'[w] = [me EXCEPT !.pc = "finish", !.outcome = "aborted"] /\ m = n
      BY <1>5, <1>6, <2>6 DEF GetAfterRefusal, tableVars
    <3> QED BY <1>3, <3>1, <3>2 DEF InOrder
  <2>7. CASE WriteTerminalStateFails(w)
    <3>1. worker' = worker /\ m = n
      BY <1>5, <1>8, <2>7 DEF WriteTerminalStateFails, Finish, tableVars
    <3> QED BY <1>3, <3>1
  <2> QED
    BY <1>8, <1>10, <2>1, <2>2, <2>3, <2>4, <2>5, <2>6, <2>7
       DEF EndJob, RecordLeaseLost, RequeueJob, RequeueFails, WriteTerminalState
<1> QED BY <1>9, <1>10

\* A step that is not the job's own leaves the worker's record alone but for its stop
\* event; it may not add to the pages of the job either.
LEMMA InOrderOther ==
  ASSUME PagesInv, TableStep, NEW v \in Workers, HasJob(v),
         NEW c \in Crawls, c = worker[v].job, crawl'[c].worker_id = v,
         worker'[v] = worker[v] \/ worker'[v] = [worker[v] EXCEPT !.stop = TRUE]
  PROVE  InOrder(worker'[v], Count(c)')
<1> DEFINE me == worker[v]
<1>n. PICK n : n = Count(c)
  OBVIOUS
<1>m. PICK m : m = Count(c)'
  OBVIOUS
<1>1. crawl[c].worker_id = v /\ v # NoWorker
  BY RowKept, NoWorkerAssumption DEF PagesInv
<1>2. InOrder(me, n)
  BY <1>1, <1>n DEF PagesInv, WorkersInOrder
<1>3. /\ me \in Worker /\ me.seq \in Nat /\ me.buffered \in Nat /\ n \in Nat
  BY <1>n, GoodField, BoundsAssumption DEF PagesInv, IInv, TypeInv, Contiguous
<1>4. InOrder(me, m)
  <2>1. CASE page'[c] = page[c]
    BY <1>2, <1>n, <1>m, <2>1 DEF Count
  <2>2. ASSUME NEW w \in Workers, worker[w].pc = "claim", Claim(c, w)
        PROVE  FALSE
    <3>1. crawl'[c].worker_id = w
      BY <2>2 DEF Claim, PagesInv, IInv, TypeInv, TableTypeOK, Row
    <3> QED BY <2>2, <3>1, Callers DEF PagesInv, IInv
  <2>3. ASSUME NEW w \in Workers, worker[w].job = c, NEW b \in 1..worker[w].buffered,
               Sends(w, b)
        PROVE  InOrder(me, m)
    <3>1. w = v
      BY <1>1, <2>3 DEF Sends, InsertPages, Owns
    <3>2. m \in Nat /\ n <= m /\ m <= me.seq /\ me.pc \in {"run", "drain"}
      BY <1>n, <1>m, <2>3, <3>1, SendsPages DEF Sends
    <3> QED BY <1>2, <1>3, <3>2 DEF InOrder
  <2> QED BY <2>1, <2>2, <2>3, PagesKept DEF PagesInv
<1>5. /\ worker'[v].pc = me.pc /\ worker'[v].seq = me.seq /\ worker'[v].buffered = me.buffered
      /\ worker'[v].interrupt = me.interrupt /\ worker'[v].outcome = me.outcome
  BY <1>3 DEF Worker
<1>6. InOrder(worker'[v], m)
  BY <1>4, <1>5, SameLeaseLost DEF InOrder
<1> QED BY <1>6, <1>m

\* No action writes the record of another worker.
LEMMA ActsAlone ==
  ASSUME TypeInv, NEW w \in Workers, ClaimLoop(w) \/ RunJob(w) \/ EndJob(w) \/ Process(w),
         NEW v \in Workers, v # w
  PROVE  worker'[v] = worker[v]
<1>1. ASSUME NEW next, Becomes(w, next) PROVE worker'[v] = worker[v]
  BY <1>1, BecomesOther
<1>2. CASE UNCHANGED worker
  BY <1>2
<1>3. CASE ClaimLoop(w) \/ Process(w)
  BY <1>1, <1>3
     DEF ClaimLoop, SkipReap, ReapAbortCancelled, ReapRequeue, ReapGiveUp, ReapFails,
         ClaimCrawl, ClaimNothing, ClaimFails, Exit, Process, Sigterm, Crash, Restart
<1>4. CASE RunJob(w)
  BY <1>1, <1>2, <1>4
     DEF RunJob, ReportPage, CrawlEnds, CrawlCancelled, Flush, FlusherDies, HeartbeatLands,
         HeartbeatLeaseLost, HeartbeatFails, CancelOnStop, JobEnds
<1>5. CASE EndJob(w)
  BY <1>1, <1>2, <1>5
     DEF EndJob, Drain, DrainLeaseLost, DrainFails, RecordLeaseLost, RecordOutcome,
         RequeueJob, ReleaseRefused, GetAfterRefusal, RequeueFails, WriteTerminalState,
         WriteTerminalStateFails, Done
<1> QED BY <1>3, <1>4, <1>5

\* A worker between jobs gets one by a claim only.
LEMMA JobsAreClaimed ==
  ASSUME TypeInv, NEW v \in Workers, ClaimLoop(v) \/ Process(v), HasJob(v)'
  PROVE  (\E c \in Crawls : ClaimCrawl(v, c)) \/ worker'[v] = [worker[v] EXCEPT !.stop = TRUE]
<1>t. worker[v] \in Worker
  BY DEF TypeInv, Good
<1>0. worker'[v].pc \in JobPcs
  BY DEF HasJob
<1>1. ASSUME NEW pc \in {"poll", "requeue", "give_up", "claim", "down"},
             Becomes(v, [worker[v] EXCEPT !.pc = pc])
      PROVE  FALSE
  <2>1. worker'[v].pc = pc
    BY <1>t, <1>1, BecomesOther DEF Worker
  <2> QED BY <1>0, <2>1 DEF JobPcs
<1>2. ASSUME NEW pc \in {"poll", "down"}, NEW stop, Becomes(v, Between(pc, stop))
      PROVE  FALSE
  <2>1. worker'[v].pc = pc
    BY <1>2, BecomesOther DEF Between
  <2> QED BY <1>0, <2>1 DEF JobPcs
<1>3. CASE Sigterm(v)
  BY <1>3, BecomesOther DEF Sigterm
<1> QED
  BY <1>1, <1>2, <1>3
     DEF ClaimLoop, SkipReap, ReapAbortCancelled, ReapRequeue, ReapGiveUp, ReapFails,
         ClaimNothing, ClaimFails, Exit, Process, Crash, Restart

LEMMA WorkersInOrderStep ==
  ASSUME PagesInv, [Next]_vars
  PROVE  WorkersInOrder'
<1>1. TypeInv /\ TableStep /\ IInv
  BY NextTable DEF PagesInv, IInv
<1>2. \A v \in Workers : Numbered(worker'[v])
  BY <1>1, NumberedStep DEF PagesInv, WorkersInOrder, Numbered
<1>3. ASSUME NEW v \in Workers, HasJob(v)', crawl'[worker'[v].job].worker_id = v
      PROVE  InOrder(worker'[v], Cardinality(page'[worker'[v].job]))
  <2>1. ASSUME NEW c \in Crawls, ClaimCrawl(v, c)
        PROVE  InOrder(worker'[v], Cardinality(page'[worker'[v].job]))
    <3>1. page'[c] = {}
      BY <1>1, <2>1 DEF ClaimCrawl, Claim, TypeInv, TableTypeOK
    <3>2. Cardinality(page'[c]) = 0
      BY <3>1, FS_EmptySet
    <3>3. /\ worker'[v].seq = 0 /\ worker'[v].buffered = 0 /\ worker'[v].job = c
          /\ worker'[v].outcome # "finished"
      BY <1>1, <2>1, ClaimedNumbered
    <3> QED BY <3>2, <3>3 DEF InOrder
  <2>2. CASE \A c \in Crawls : ~ClaimCrawl(v, c)
    <3>1. HasJob(v) /\ worker'[v].job = worker[v].job
      BY <1>1, <1>3, <2>2, NextJob DEF JobStep
    <3>2. PICK c \in Crawls : c = worker[v].job
      BY <1>1, <3>1, Callers
    <3>3. CASE RunJob(v) \/ EndJob(v)
      <4>1. InOrder(worker'[v], Count(c)')
        BY <1>1, <1>3, <3>1, <3>2, <3>3, InOrderOwn
      <4> QED BY <3>1, <3>2, <4>1 DEF Count
    <3>4. CASE worker'[v] = worker[v] \/ worker'[v] = [worker[v] EXCEPT !.stop = TRUE]
      <4>1. InOrder(worker'[v], Count(c)')
        BY <1>1, <1>3, <3>1, <3>2, <3>4, InOrderOther
      <4> QED BY <3>1, <3>2, <4>1 DEF Count
    <3>5. CASE ClaimLoop(v) \/ Process(v)
      BY <1>1, <1>3, <2>2, <3>4, <3>5, JobsAreClaimed
    <3>6. CASE \E w \in Workers : /\ w # v
                                  /\ ClaimLoop(w) \/ RunJob(w) \/ EndJob(w) \/ Process(w)
      BY <1>1, <3>4, <3>6, ActsAlone
    <3>7. CASE UNCHANGED worker
      BY <3>4, <3>7
    <3> QED BY <3>3, <3>5, <3>6, <3>7 DEF Next, vars, Api, Time
  <2> QED BY <2>1, <2>2
<1> QED BY <1>2, <1>3 DEF WorkersInOrder, Numbered, Count

-----------------------------------------------------------------------------
(***************************************************************************)
(* The pages of every reachable state.                                     *)
(***************************************************************************)

LEMMA PagesInductive == Spec => []PagesInv
<1>1. Init => Contiguous
  <2> SUFFICES ASSUME Init, NEW c \in Crawls
               PROVE  /\ Count(c) \in 0..MaxPages
                      /\ page[c] = Filled(crawl[c].lease, Count(c))
    BY DEF Contiguous
  <2>1. page[c] = {}
    BY DEF Init, TableInit
  <2>2. Count(c) = 0
    BY <2>1, FS_EmptySet DEF Count
  <2> QED BY <2>1, <2>2, BoundsAssumption DEF Filled
<1>2. Init => WorkersInOrder
  <2> SUFFICES ASSUME Init, NEW w \in Workers
               PROVE  Numbered(worker[w]) /\ ~HasJob(w)
    BY DEF WorkersInOrder, Numbered
  <2>1. worker[w] = Between("poll", FALSE)
    BY DEF Init
  <2>2. worker[w].pc = "poll"
    BY <2>1 DEF Between
  <2> QED BY <2>1, <2>2, BetweenNumbered DEF HasJob, JobPcs
<1>3. IInv /\ Contiguous /\ WorkersInOrder /\ [Next]_vars => (Contiguous /\ WorkersInOrder)'
  <2> SUFFICES ASSUME PagesInv, [Next]_vars
               PROVE  (Contiguous /\ WorkersInOrder)'
    BY DEF PagesInv
  <2>1. TableStep
    BY NextTable DEF PagesInv, IInv
  <2> QED BY <2>1, ContiguousStep, WorkersInOrderStep
<1> QED BY <1>1, <1>2, <1>3, Inductive, PTL DEF Spec, PagesInv

\* Batches are sent in order, a failed one again, and a re-sent one adds nothing: the stored
\* seqs of a crawl are 1..n, each stored once, for any number of pages, workers and faults.
THEOREM PagesWithoutGaps == Spec => []PagesGapFree
<1>1. PagesInv => PagesGapFree
  <2> SUFFICES ASSUME PagesInv, NEW c \in Crawls
               PROVE  \E n \in 0..MaxPages : Seqs(c) = 1..n /\ Cardinality(page[c]) = n
    BY DEF PagesGapFree
  <2>1. Count(c) \in 0..MaxPages /\ page[c] = Filled(crawl[c].lease, Count(c))
    BY DEF PagesInv, Contiguous
  <2>2. Seqs(c) = 1..Count(c)
    BY <2>1, FilledSeqs DEF Seqs
  <2> QED BY <2>1, <2>2 DEF Count
<1> QED BY <1>1, PagesInductive, PTL

\* Only a worker's final write records a crawl as finished.
LEMMA FinishedByItsJob ==
  ASSUME IInv, TableStep, NEW c \in Crawls, ~Terminal(c), crawl'[c].state = "finished"
  PROVE  \E w \in Workers :
           /\ worker[w].pc = "finish" /\ worker[w].job = c
           /\ Finish(c, w, worker[w].outcome, worker[w].seq)
<1>t. /\ crawl \in [Crawls -> Row] /\ crawl[c] \in Row
      /\ crawl[c].state # "finished"
  BY DEF IInv, TypeInv, TableTypeOK, Terminal, TerminalStates
<1>1. CASE UNCHANGED crawl
  BY <1>t, <1>1
<1>2. ASSUME NEW d \in Crawls, Create(d) \/ RequestCancel(d) \/ Expire(d)
      PROVE  FALSE
  BY <1>t, <1>2 DEF Create, RequestCancel, Expire, Row
<1>3. ASSUME NEW w \in Workers, GiveUp(w)
      PROVE  FALSE
  BY <1>t, <1>3 DEF GiveUp, Reaped, Row
<1>4. ASSUME NEW w \in Workers, NEW d \in Crawls, Claim(d, w) \/ Release(d, w)
      PROVE  FALSE
  <2>1. CASE Claim(d, w)
    BY <1>t, <2>1 DEF Claim, Row
  <2>2. CASE Release(d, w)
    BY <1>t, <2>2 DEF Release, Row
  <2> QED BY <1>4, <2>1, <2>2
<1>5. ASSUME NEW w \in Workers, NEW d \in Crawls, NEW st, Heartbeat(d, w, st)
      PROVE  FALSE
  BY <1>t, <1>5 DEF Heartbeat, Row
<1>6. ASSUME NEW w \in Workers, NEW d, NEW o, NEW st, Finish(d, w, o, st), d # c
      PROVE  FALSE
  BY <1>t, <1>6 DEF Finish
<1> QED
  BY <1>1, <1>2, <1>3, <1>4, <1>5, <1>6, Callers
     DEF TableStep, IInv, tableVars, AbortCancelled, Requeue, Rollback, InsertPages

LEMMA FinishedStep ==
  ASSUME PagesInv, FinishedIsComplete, [Next]_vars
  PROVE  FinishedIsComplete'
<1> SUFFICES ASSUME NEW c \in Crawls, crawl'[c].state = "finished"
             PROVE  {p.seq : p \in page'[c]} = 1..crawl'[c].stats
  BY DEF FinishedIsComplete, Seqs
<1>1. IInv /\ TableStep
  BY NextTable DEF PagesInv, IInv
<1>2. CASE Terminal(c)
  <2>1. /\ crawl[c].state = "finished" /\ crawl'[c].stats = crawl[c].stats
        /\ page'[c] = page[c]
    BY <1>1, <1>2, SettledStays
  <2> QED BY <2>1 DEF FinishedIsComplete, Seqs
<1>3. CASE ~Terminal(c)
  <2>1. PICK w \in Workers : /\ worker[w].pc = "finish" /\ worker[w].job = c
                             /\ Finish(c, w, worker[w].outcome, worker[w].seq)
    BY <1>1, <1>3, FinishedByItsJob
  <2>2. /\ HasJob(w) /\ crawl[c].worker_id = w /\ page'[c] = page[c]
        /\ worker[w].outcome = "finished" /\ crawl'[c].stats = worker[w].seq
    BY <1>1, <2>1, Callers
       DEF Finish, FinishMatches, IInv, TypeInv, TableTypeOK, Row
  <2>3. ~LeaseLost(worker[w])
    BY <2>1 DEF PagesInv, WorkersInOrder, GivenUp
  <2>4. Count(c) = worker[w].seq
    BY <2>1, <2>2, <2>3 DEF PagesInv, WorkersInOrder, InOrder
  <2>5. page[c] = Filled(crawl[c].lease, Count(c))
    BY DEF PagesInv, Contiguous
  <2>6. page'[c] = Filled(crawl[c].lease, crawl'[c].stats)
    BY <2>2, <2>4, <2>5
  <2> QED BY <2>6, FilledSeqs
<1> QED BY <1>2, <1>3

\* A crawl recorded as finished has every page its run reported, whichever flushes failed,
\* timed out or lost their acknowledgement before the final write.
THEOREM FinishedHasAllPages == Spec => []FinishedIsComplete
<1>1. Init => FinishedIsComplete
  BY DEF Init, TableInit, NewRow, FinishedIsComplete
<1>2. PagesInv /\ FinishedIsComplete /\ [Next]_vars => FinishedIsComplete'
  BY FinishedStep
<1> QED BY <1>1, <1>2, PagesInductive, PTL DEF Spec

-----------------------------------------------------------------------------
(***************************************************************************)
(* The refinement of CrawlLifecycle.  A transaction is a lifecycle step of *)
(* at most the one row it is about; GiveUp, the commit of a reap, is one   *)
(* of every row it touches.                                                *)
(***************************************************************************)

\* A running crawl uses up an attempt, so a hand-back has one to return.
RunsCounted == \A c \in Crawls : crawl[c].state = "running" => crawl[c].attempts > 0

LifeInv == PagesInv /\ RunsCounted

LEMMA RunsCountedStep ==
  ASSUME IInv, RunsCounted, TableStep
  PROVE  RunsCounted'
<1> SUFFICES ASSUME NEW c \in Crawls, crawl'[c].state = "running"
             PROVE  crawl'[c].attempts > 0
  BY DEF RunsCounted
<1>t. /\ crawl \in [Crawls -> Row] /\ crawl[c] \in Row /\ crawl[c].attempts \in Nat
      /\ crawl[c].state = "running" => crawl[c].attempts > 0
  BY DEF IInv, TypeInv, TableTypeOK, Row, RunsCounted
<1> DEFINE Kept == /\ crawl'[c].state = crawl[c].state \/ crawl'[c].state # "running"
                   /\ crawl'[c].attempts = crawl[c].attempts
<1>0. Kept => crawl'[c].attempts > 0
  BY <1>t
<1>1. CASE UNCHANGED crawl
  BY <1>t, <1>1
<1>2. ASSUME NEW d \in Crawls, Create(d) \/ RequestCancel(d) \/ Expire(d)
      PROVE  Kept
  BY <1>t, <1>2 DEF Create, RequestCancel, Expire, Row
<1>3. ASSUME NEW w \in Workers, GiveUp(w)
      PROVE  Kept
  BY <1>t, <1>3 DEF GiveUp, Reaped, Row
<1>4. ASSUME NEW w \in Workers, NEW d \in Crawls, Claim(d, w)
      PROVE  crawl'[c].attempts > 0
  <2>1. CASE d = c
    <3>1. crawl'[c].attempts = crawl[c].attempts + 1
      BY <1>t, <1>4, <2>1 DEF Claim, Row
    <3> QED BY <1>t, <3>1
  <2>2. CASE d # c
    BY <1>t, <1>4, <2>2 DEF Claim
  <2> QED BY <2>1, <2>2
<1>5. ASSUME NEW w \in Workers, NEW d \in Crawls, Release(d, w)
      PROVE  crawl'[c].attempts > 0
  <2>1. d # c
    BY <1>t, <1>5 DEF Release, Row
  <2> QED BY <1>t, <1>5, <2>1 DEF Release
<1>6. ASSUME NEW w \in Workers, NEW d \in Crawls, NEW st, Heartbeat(d, w, st)
      PROVE  Kept
  BY <1>t, <1>6 DEF Heartbeat, Row
<1>7. ASSUME NEW w \in Workers, NEW d, NEW o \in TerminalStates, NEW st, Finish(d, w, o, st)
      PROVE  Kept
  BY <1>t, <1>7 DEF Finish, Row, TerminalStates
<1> QED
  BY <1>0, <1>1, <1>2, <1>3, <1>4, <1>5, <1>6, <1>7, Callers
     DEF TableStep, IInv, tableVars, AbortCancelled, Requeue, Rollback, InsertPages

LifecycleStep(c) == Lifecycle(c)!Next \/ UNCHANGED Lifecycle(c)!vars

\* A client is shown nothing new of c.
LEMMA LifecycleStutter ==
  ASSUME NEW c \in Crawls, crawl'[c].state = crawl[c].state,
         crawl'[c].attempts = crawl[c].attempts, page'[c] = page[c]
  PROVE  LifecycleStep(c)
BY DEF LifecycleStep, Lifecycle!vars

LEMMA ApiLifecycle ==
  ASSUME IInv, NEW c \in Crawls, NEW d \in Crawls, Create(d) \/ RequestCancel(d) \/ Expire(d)
  PROVE  LifecycleStep(c)
<1>t. crawl \in [Crawls -> Row] /\ crawl[c] \in Row /\ page'[c] = page[c]
  BY DEF IInv, TypeInv, TableTypeOK, Create, RequestCancel, Expire
<1>1. crawl'[c].attempts = crawl[c].attempts
  BY <1>t DEF Create, RequestCancel, Expire, Row
<1>2. \/ crawl'[c].state = crawl[c].state
      \/ crawl[c].state = "absent" /\ crawl'[c].state = "queued"
      \/ crawl[c].state = "queued" /\ crawl'[c].state = "aborted"
  BY <1>t DEF Create, RequestCancel, Expire, Row
<1> QED
  BY <1>t, <1>1, <1>2, LifecycleStutter
     DEF LifecycleStep, Lifecycle!Next, Lifecycle!Submit, Lifecycle!CancelQueued

LEMMA ClaimLifecycle ==
  ASSUME IInv, NEW c \in Crawls, NEW d \in Crawls, NEW w \in Workers, Claim(d, w)
  PROVE  LifecycleStep(c)
<1>t. /\ crawl \in [Crawls -> Row] /\ page \in [Crawls -> SUBSET Page]
      /\ crawl[c] \in Row
  BY DEF IInv, TypeInv, TableTypeOK
<1>1. CASE d # c
  BY <1>t, <1>1, LifecycleStutter DEF Claim
<1>2. CASE d = c
  <2>1. /\ crawl[c].state = "queued" /\ crawl'[c].state = "running"
        /\ crawl'[c].attempts = crawl[c].attempts + 1 /\ page'[c] = {}
    BY <1>t, <1>2 DEF Claim, Row
  <2>2. crawl[c].attempts < MaxAttempts
    BY <2>1 DEF IInv, AttemptsInv
  <2>3. Cardinality(page'[c]) = 0
    BY <2>1, FS_EmptySet
  <2> QED BY <2>1, <2>2, <2>3 DEF LifecycleStep, Lifecycle!Next, Lifecycle!Start
<1> QED BY <1>1, <1>2

\* A batch whose rows were all stored before shows nothing.
LEMMA SendsLifecycle ==
  ASSUME PagesInv, NEW c \in Crawls, NEW w \in Workers, worker[w].job \in Crawls,
         NEW n \in 1..worker[w].buffered, Sends(w, n)
  PROVE  LifecycleStep(c)
<1>1. CASE worker[w].job # c
  BY <1>1, SendsPages, LifecycleStutter
<1>2. CASE worker[w].job = c
  <2>1. crawl[c].state = "running" /\ UNCHANGED crawl
    BY <1>2 DEF Sends, InsertPages, Owns
  <2>2. Count(c) <= Count(c)' /\ Count(c) \in Nat /\ Count(c)' \in Nat
    BY <1>2, SendsPages, BoundsAssumption DEF PagesInv, Contiguous
  <2>3. CASE Count(c)' > Count(c)
    BY <2>1, <2>3 DEF LifecycleStep, Lifecycle!Next, Lifecycle!Store, Count
  <2>4. CASE Count(c)' = Count(c)
    BY <2>1, <2>4 DEF LifecycleStep, Lifecycle!vars, Count
  <2> QED BY <2>2, <2>3, <2>4
<1> QED BY <1>1, <1>2

\* The rows of a reap are running, each locked by it or expired for it, and those it
\* requeues have an attempt left.
LEMMA GiveUpLifecycle ==
  ASSUME IInv, NEW c \in Crawls, NEW w \in Workers, GiveUp(w)
  PROVE  LifecycleStep(c)
<1>t. crawl[c] \in Row /\ crawl'[c] = Reaped(crawl[c], c, w, Expired(w)) /\ page'[c] = page[c]
  BY DEF IInv, TypeInv, TableTypeOK, GiveUp
<1>1. crawl'[c].attempts = crawl[c].attempts
  BY <1>t DEF Reaped, Row
<1>2. CASE c \notin Pending(w) \cup Expired(w)
  BY <1>t, <1>2, LifecycleStutter DEF Reaped, Pending
<1>3. CASE c \in Pending(w) \cup Expired(w)
  <2>1. crawl[c].state = "running"
    BY <1>3 DEF IInv, LockInv, Expired
  <2>2. CASE crawl'[c].state = "queued"
    <3>1. c \in reaping[w].requeuing
      BY <1>t, <2>1, <2>2 DEF Reaped, Row
    <3>2. crawl[c].attempts < MaxAttempts
      BY <3>1 DEF IInv, LockInv
    <3> QED BY <1>t, <1>1, <2>1, <2>2, <3>2 DEF LifecycleStep, Lifecycle!Next, Lifecycle!Lose
  <2>3. CASE crawl'[c].state # "queued"
    <3>1. crawl'[c].state \in TerminalStates
      BY <1>t, <1>3, <2>3 DEF Reaped, Row, TerminalStates, Pending
    <3> QED BY <1>t, <1>1, <2>1, <3>1 DEF LifecycleStep, Lifecycle!Next, Lifecycle!Settle
  <2> QED BY <2>2, <2>3
<1> QED BY <1>2, <1>3

\* The fence says that a hand-back finds its row running.
LEMMA ReleaseLifecycle ==
  ASSUME IInv, RunsCounted, NEW c \in Crawls, NEW w \in Workers, worker[w].pc = "record",
         Release(worker[w].job, w)
  PROVE  LifecycleStep(c)
<1>t. /\ crawl \in [Crawls -> Row] /\ crawl[c] \in Row /\ page'[c] = page[c]
      /\ HasJob(w) /\ worker[w].job \in Crawls
  BY Callers DEF IInv, TypeInv, TableTypeOK, Release
<1>1. CASE worker[w].job # c
  BY <1>t, <1>1, LifecycleStutter DEF Release
<1>2. CASE worker[w].job = c
  <2>1. crawl[c].state = "running"
    BY <1>t, <1>2 DEF IInv, WorkerIdFences, Release, ReleaseMatches
  <2>2. /\ crawl'[c].state = "queued"
        /\ crawl'[c].attempts = HandedBack(crawl[c].attempts)
    BY <1>t, <1>2 DEF Release, Row
  <2>3. crawl'[c].attempts = crawl[c].attempts - 1
    BY <2>1, <2>2 DEF RunsCounted, HandedBack
  <2> QED BY <1>t, <2>1, <2>2, <2>3 DEF LifecycleStep, Lifecycle!Next, Lifecycle!HandBack
<1> QED BY <1>1, <1>2

\* A final write settles a running crawl, or repeats itself.
LEMMA FinishLifecycle ==
  ASSUME IInv, NEW c \in Crawls, NEW w \in Workers, worker[w].pc = "finish",
         Finish(worker[w].job, w, worker[w].outcome, worker[w].seq)
  PROVE  LifecycleStep(c)
<1>t. /\ crawl \in [Crawls -> Row] /\ crawl[c] \in Row /\ page'[c] = page[c]
      /\ HasJob(w) /\ worker[w].job \in Crawls /\ worker[w].outcome \in TerminalStates
  BY Callers DEF IInv, TypeInv, TableTypeOK, Finish
<1>1. CASE worker[w].job # c
  BY <1>t, <1>1, LifecycleStutter DEF Finish
<1>2. CASE worker[w].job = c
  <2>1. /\ crawl'[c].state = worker[w].outcome /\ crawl'[c].attempts = crawl[c].attempts
        /\ crawl[c].worker_id = w
    BY <1>t, <1>2 DEF Finish, FinishMatches, Row
  <2>2. crawl[c].state = "running" \/ crawl[c].state = worker[w].outcome
    BY <1>t, <1>2, <2>1 DEF IInv, WorkerIdFences
  <2> QED
    BY <1>t, <2>1, <2>2, LifecycleStutter DEF LifecycleStep, Lifecycle!Next, Lifecycle!Settle
<1> QED BY <1>1, <1>2

LEMMA StepLifecycle ==
  ASSUME LifeInv, TableStep, NEW c \in Crawls
  PROVE  LifecycleStep(c)
<1>t. PagesInv /\ IInv /\ RunsCounted
  BY DEF LifeInv, PagesInv
<1>1. CASE UNCHANGED tableVars
  BY <1>1, LifecycleStutter DEF tableVars
<1>2. ASSUME NEW w \in Workers, AbortCancelled(w) \/ Requeue(w) \/ Rollback(w)
      PROVE  LifecycleStep(c)
  BY <1>2, LifecycleStutter DEF AbortCancelled, Requeue, Rollback
<1>3. ASSUME NEW w \in Workers, NEW d \in Crawls, NEW st, Heartbeat(d, w, st)
      PROVE  LifecycleStep(c)
  <2>1. crawl'[c].state = crawl[c].state /\ crawl'[c].attempts = crawl[c].attempts
    BY <1>t, <1>3 DEF Heartbeat, IInv, TypeInv, TableTypeOK, Row
  <2> QED BY <1>3, <2>1, LifecycleStutter DEF Heartbeat
<1>4. ASSUME NEW w \in Workers, worker[w].pc \in {"run", "drain"},
             NEW n \in 1..worker[w].buffered,
             InsertPages(worker[w].job, w, Batch(worker[w], n))
      PROVE  LifecycleStep(c)
  BY <1>t, <1>4, SendsLifecycle, Callers DEF Sends, IInv
<1> QED
  BY <1>t, <1>1, <1>2, <1>3, <1>4, ApiLifecycle, ClaimLifecycle, GiveUpLifecycle,
     ReleaseLifecycle, FinishLifecycle, Callers DEF TableStep, IInv

LEMMA LifeInductive == Spec => []LifeInv
<1>1. Init => RunsCounted
  BY DEF Init, TableInit, NewRow, RunsCounted
<1>2. PagesInv /\ RunsCounted /\ [Next]_vars => RunsCounted'
  BY RunsCountedStep, NextTable DEF PagesInv, IInv
<1> QED BY <1>1, <1>2, PagesInductive, PTL DEF Spec, LifeInv

\* The workers, the reapers, the API and time implement the lifecycle that CrawlLifecycle
\* promises of every crawl, for any number of them: a client never sees a settled crawl run
\* again, a run that loses pages, or one run too many.
THEOREM ServiceImplementsLifecycle == Spec => ImplementsLifecycle
<1> DEFINE InitAll == \A c \in Crawls : Lifecycle(c)!Init
           StepAll == \A c \in Crawls : Lifecycle(c)!Next \/ UNCHANGED Lifecycle(c)!vars
<1>1. Init => InitAll
  <2> SUFFICES ASSUME Init, NEW c \in Crawls
               PROVE  Lifecycle(c)!Init
    OBVIOUS
  <2>1. crawl[c] = NewRow /\ page[c] = {}
    BY DEF Init, TableInit
  <2>2. Cardinality(page[c]) = 0
    BY <2>1, FS_EmptySet
  <2> QED BY <2>1, <2>2 DEF Lifecycle!Init, NewRow
<1>2. LifeInv /\ [Next]_vars => [StepAll]_vars
  <2> SUFFICES ASSUME LifeInv, [Next]_vars
               PROVE  StepAll
    OBVIOUS
  <2>1. TableStep
    BY NextTable DEF LifeInv, PagesInv, IInv
  <2> QED BY <2>1, StepLifecycle DEF LifecycleStep
<1> HIDE DEF InitAll, StepAll
<1>3. Spec => InitAll /\ [][StepAll]_vars
  BY <1>1, <1>2, LifeInductive, PTL DEF Spec
<1> QED BY <1>3 DEF ImplementsLifecycle, InitAll, StepAll
=============================================================================
