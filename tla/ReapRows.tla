------------------------------- MODULE ReapRows --------------------------------
(***************************************************************************)
(* reap() row by row.  In CrawlTable each of its three UPDATEs is a step;  *)
(* here an UPDATE takes a snapshot, reaches its rows in an order of its    *)
(* own, waits at the ones another reaper has locked and looks again at     *)
(* what it finds there.  Two reapers can wait for each other's rows;       *)
(* PostgreSQL then rolls one of them back.                                 *)
(***************************************************************************)
EXTENDS Integers, FiniteSets

CONSTANTS
  Crawls,
  Reapers,     \* workers that reap
  MaxAttempts,
  Unwanted     \* bound: the crawls that may be cancelled

ASSUME MaxAttemptsAssumption == MaxAttempts \in Nat \ {0}
ASSUME UnwantedAssumption == Unwanted \subseteq Crawls

VARIABLES
  row,  \* of each crawl
  txn   \* the transaction of each reaper

vars == <<row, txn>>

-----------------------------------------------------------------------------

Nowhere == {}

\* old: the rows with heartbeat_at < now() - lease, now() being the begin; asked: those whose
\* cancel was requested by then; todo and at: what the statement has yet to reach, and where
\* it is; new: the state it gave to the rows it locked.
NoReap ==
  [step |-> "none", old |-> {}, asked |-> {}, todo |-> {}, at |-> Nowhere,
   new |-> [c \in Crawls |-> "same"]]

Init ==
  /\ row \in [Crawls -> [state : {"running"}, attempts : {1},
                         cancel_requested : {FALSE}, stale : {FALSE}]]
  /\ txn = [r \in Reapers |-> NoReap]

Holders(c) == {r \in Reapers : txn[r].new[c] # "same"}

\* The WHERE clause of a statement on the committed row.
Matches(c, t, step) ==
  /\ c \in t.old /\ row[c].state = "running"
  /\ step = "abort" => row[c].cancel_requested
  /\ step = "requeue" => row[c].attempts < MaxAttempts

Target == [abort |-> "aborted", requeue |-> "queued", fail |-> "failed"]

\* A statement as it starts: its snapshot has every commit so far, and its own updates.
Statement(t, step) ==
  [t EXCEPT !.step = step,
            !.todo = {c \in Crawls : t.new[c] = "same" /\ Matches(c, t, step)}]

Begin(r) ==
  /\ txn[r].step = "none"
  /\ txn' = [txn EXCEPT ![r] =
       Statement([NoReap EXCEPT !.old = {c \in Crawls : row[c].stale},
                                !.asked = {c \in Crawls : row[c].cancel_requested}], "abort")]
  /\ UNCHANGED row

\* The next row in the order of the scan; one that a reaper is already waiting for goes to
\* that reaper first.
Reach(r) ==
  \E c \in txn[r].todo :
    /\ txn[r].at = Nowhere
    /\ \A s \in Reapers : txn[s].at # {c}
    /\ txn' = [txn EXCEPT ![r].at = {c}, ![r].todo = @ \ {c}]
    /\ UNCHANGED row

\* Mutant of StillMatches: the row is updated as the snapshot had it.
MatchedOnce(c, t) == TRUE

StillMatches(c, t) == Matches(c, t, t.step)

\* The row is free: it is locked and updated, unless a commit since the snapshot changed it.
Update(r) ==
  \E c \in txn[r].at :
    /\ Holders(c) = {}
    /\ txn' = [txn EXCEPT ![r].at = Nowhere,
                          ![r].new[c] = IF StillMatches(c, txn[r]) THEN Target[txn[r].step] ELSE @]
    /\ UNCHANGED row

\* Mutant of FollowingStep: no statement fails what is left.
FollowingStepOfTwo == [abort |-> {"requeue"}, requeue |-> {}, fail |-> {}]

FollowingStep == [abort |-> {"requeue"}, requeue |-> {"fail"}, fail |-> {}]

StatementDone(r) == txn[r].step # "none" /\ txn[r].todo = {} /\ txn[r].at = Nowhere

NextStatement(r) ==
  /\ StatementDone(r)
  /\ \E step \in FollowingStep[txn[r].step] : txn' = [txn EXCEPT ![r] = Statement(@, step)]
  /\ UNCHANGED row

Commit(r) ==
  /\ StatementDone(r) /\ FollowingStep[txn[r].step] = {}
  /\ row' = [c \in Crawls |->
       IF txn[r].new[c] = "same" THEN row[c] ELSE [row[c] EXCEPT !.state = txn[r].new[c]]]
  /\ txn' = [txn EXCEPT ![r] = NoReap]

WaitsFor(r) == UNION {Holders(c) : c \in txn[r].at}

\* Each waits for a row of the other: one is rolled back, run_once raises, and the next
\* reap comes a lease later.
Deadlock(r) ==
  /\ \E s \in WaitsFor(r) : r \in WaitsFor(s)
  /\ txn' = [txn EXCEPT ![r] = NoReap]
  /\ UNCHANGED row

-----------------------------------------------------------------------------
(***************************************************************************)
(* The transactions of the workers and the API, each on one row, which     *)
(* wait for a reaper's lock; and time.                                     *)
(***************************************************************************)

Free(c) == Holders(c) = {}

\* heartbeat_at is now: no open reap counts the row as expired any more.
Renew(c) == txn' = [r \in Reapers |-> [txn[r] EXCEPT !.old = @ \ {c}]]

Heartbeat(c) ==
  /\ Free(c) /\ row[c].state = "running"
  /\ row' = [row EXCEPT ![c].stale = FALSE]
  /\ Renew(c)

Claim(c) ==
  /\ Free(c) /\ row[c].state = "queued"
  /\ row' = [row EXCEPT ![c].state = "running", ![c].stale = FALSE, ![c].attempts = @ + 1]
  /\ Renew(c)

Finish(c) ==
  /\ Free(c) /\ row[c].state = "running"
  /\ row' = [row EXCEPT ![c].state = "finished"]
  /\ UNCHANGED txn

RequestCancel(c) ==
  /\ Free(c) /\ c \in Unwanted
  /\ \/ row[c].state = "queued" /\ row' = [row EXCEPT ![c].state = "aborted"]
     \/ row[c].state = "running" /\ row' = [row EXCEPT ![c].cancel_requested = TRUE]
  /\ UNCHANGED txn

Expire(c) ==
  /\ row[c].state = "running" /\ ~row[c].stale
  /\ row' = [row EXCEPT ![c].stale = TRUE]
  /\ UNCHANGED txn

Reap(r) == Begin(r) \/ Reach(r) \/ Update(r) \/ NextStatement(r) \/ Commit(r) \/ Deadlock(r)

Next ==
  \/ \E r \in Reapers : Reap(r)
  \/ \E c \in Crawls : Heartbeat(c) \/ Claim(c) \/ Finish(c) \/ RequestCancel(c) \/ Expire(c)

Spec == Init /\ [][Next]_vars

\* Workers reap again and again, and the database serves them and finds every deadlock.
FairSpec == Spec /\ \A r \in Reapers : WF_vars(Reap(r))

-----------------------------------------------------------------------------

Reaps(r, c) == txn[r].new[c] # "same" /\ txn'[r] = NoReap /\ row'[c] # row[c]

\* A reap ends only runs that were silent for a lease when it began and have been since:
\* a heartbeat that got through, a new claim and the worker's own final write all win,
\* however long the reaper waited between its snapshot and the row.
ReapsOnlyTheSilent ==
  [][\A r \in Reapers, c \in Crawls :
       Reaps(r, c) => row[c].state = "running" /\ row[c].stale /\ c \in txn[r].old]_vars

\* A cancel requested before the reap began is not answered with another run.
CancelledIsNotRequeued ==
  [][\A r \in Reapers, c \in Crawls :
       Reaps(r, c) /\ c \in txn[r].asked => row'[c].state # "queued"]_vars

Life(c) == INSTANCE CrawlLifecycle WITH
  state <- row[c].state, attempts <- row[c].attempts, pages <- 0,
  TerminalStates <- {"finished", "failed", "aborted"}

\* Rows that statements lock one by one, in any order and with rollbacks, still lead each
\* crawl through its lifecycle.
EachRowFollowsLifecycle == [][\A c \in Crawls : [Life(c)!Next]_(row[c].state)]_vars

\* What a reap commits is right about every row, whoever was at it meanwhile.
ReapIsSound == ReapsOnlyTheSilent /\ CancelledIsNotRequeued /\ EachRowFollowsLifecycle

\* An expired run is settled, requeued or heard of again, whatever deadlocks and rollbacks
\* the reapers go through.
SilentRunsAreReaped ==
  \A c \in Crawls : row[c].state = "running" /\ row[c].stale
    ~> ~(row[c].state = "running" /\ row[c].stale)
=============================================================================
