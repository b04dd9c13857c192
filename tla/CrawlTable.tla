------------------------------ MODULE CrawlTable ------------------------------
(***************************************************************************)
(* The two tables of the crawl service and the transactions of             *)
(* repository.py.  Every method of CrawlRepository is one short            *)
(* transaction; each operator below is the committed effect of one of      *)
(* them, together with the WHERE clause that has to match.  reap() is the  *)
(* exception: it runs three UPDATEs in one READ COMMITTED transaction, and *)
(* each UPDATE reads its own snapshot, so other transactions commit        *)
(* between them.  Its statements are separate operators and the row locks  *)
(* it holds until the commit are part of the state.                        *)
(*                                                                         *)
(* `lease` is a history column that the database does not have: the number *)
(* of claims of the row so far.  A stored page remembers the lease under   *)
(* which it was fetched, so that pages of two runs can be told apart.      *)
(***************************************************************************)
EXTENDS Integers, FiniteSets

CONSTANTS
  Crawls,       \* crawl ids
  Workers,      \* worker ids, `hostname:pid`
  MaxAttempts,  \* settings.max_attempts
  NoWorker      \* the NULL of crawl.worker_id

ASSUME MaxAttemptsAssumption == MaxAttempts \in Nat \ {0}
ASSUME NoWorkerAssumption == NoWorker \notin Workers

VARIABLES
  crawl,    \* the crawl table: Crawls -> Row
  page,     \* the page table: for each crawl the set of its stored pages
  reaping   \* the open reap() transaction of each worker

tableVars == <<crawl, page, reaping>>

-----------------------------------------------------------------------------

TerminalStates == {"finished", "failed", "aborted"}

\* heartbeat_at as the reaper sees it: NULL, or younger or older than a lease.
Heartbeats == {"null", "fresh", "stale"}

NoStats == -1

\* stats is abstracted to its pages_total.  A row that POST /crawls has not
\* written yet is "absent".
Row == [state : {"absent", "queued", "running"} \cup TerminalStates,
        heartbeat_at : Heartbeats,
        worker_id : Workers \cup {NoWorker},
        attempts : Nat,
        cancel_requested : BOOLEAN,
        stats : Nat \cup {NoStats},
        lease : Nat]

Page == [seq : Nat, lease : Nat]

Reap == [expired : SUBSET Crawls,     \* heartbeat_at < now() - lease, now() being the begin
         aborting : SUBSET Crawls,    \* rows the first UPDATE locked
         requeuing : SUBSET Crawls]   \* rows the second UPDATE locked

TableTypeOK ==
  /\ crawl \in [Crawls -> Row]
  /\ page \in [Crawls -> SUBSET Page]
  /\ reaping \in [Workers -> Reap]

NewRow == [state |-> "absent", heartbeat_at |-> "null", worker_id |-> NoWorker,
           attempts |-> 0, cancel_requested |-> FALSE, stats |-> NoStats, lease |-> 0]

NoReap == [expired |-> {}, aborting |-> {}, requeuing |-> {}]

TableInit ==
  /\ crawl = [c \in Crawls |-> NewRow]
  /\ page = [c \in Crawls |-> {}]
  /\ reaping = [w \in Workers |-> NoReap]

Terminal(c) == crawl[c].state \in TerminalStates

\* A row a reap() transaction has updated and not committed: writers of the
\* row block on its lock, FOR SHARE included.
Locked(c) == \E w \in Workers : c \in reaping[w].aborting \cup reaping[w].requeuing

-----------------------------------------------------------------------------

Create(c) ==
  /\ crawl[c].state = "absent"
  /\ crawl' = [crawl EXCEPT ![c].state = "queued"]
  /\ UNCHANGED <<page, reaping>>

\* A row whose heartbeat_at is refreshed is not expired for a transaction that
\* has already begun.
Refreshed(c) ==
  reaping' = [w \in Workers |-> [reaping[w] EXCEPT !.expired = @ \ {c}]]

\* Mutant of Claim: the claim forgets to delete the pages of earlier runs.
ClaimKeepsPages(c, w) ==
  /\ crawl[c].state = "queued"
  /\ crawl' = [crawl EXCEPT ![c] = [crawl[c] EXCEPT !.state = "running",
                                                    !.heartbeat_at = "fresh",
                                                    !.worker_id = w,
                                                    !.attempts = @ + 1,
                                                    !.lease = @ + 1]]
  /\ Refreshed(c)
  /\ UNCHANGED page

\* Mutant of Claim: heartbeat_at is left to the first heartbeat.
ClaimWithoutHeartbeat(c, w) ==
  /\ crawl[c].state = "queued"
  /\ crawl' = [crawl EXCEPT ![c] = [crawl[c] EXCEPT !.state = "running",
                                                    !.heartbeat_at = "null",
                                                    !.worker_id = w,
                                                    !.attempts = @ + 1,
                                                    !.lease = @ + 1]]
  /\ page' = [page EXCEPT ![c] = {}]
  /\ Refreshed(c)

\* Which queued crawl a claim takes is left open: the oldest one whose row lock
\* nobody holds at that instant.
Claim(c, w) ==
  /\ crawl[c].state = "queued"
  /\ crawl' = [crawl EXCEPT ![c] = [crawl[c] EXCEPT !.state = "running",
                                                    !.heartbeat_at = "fresh",
                                                    !.worker_id = w,
                                                    !.attempts = @ + 1,
                                                    !.lease = @ + 1]]
  /\ page' = [page EXCEPT ![c] = {}]
  /\ Refreshed(c)

\* WHERE id = c AND worker_id = w AND state = 'running'
Owns(w, c) == crawl[c].worker_id = w /\ crawl[c].state = "running"

Heartbeat(c, w, stats) ==
  /\ Owns(w, c) /\ ~Locked(c)
  /\ crawl' = [crawl EXCEPT ![c] = [crawl[c] EXCEPT !.heartbeat_at = "fresh", !.stats = stats]]
  /\ Refreshed(c)
  /\ UNCHANGED page

\* Mutant of FinishMatches: WHERE id = c only.
FinishMatchesAnyOwner(c, w) == TRUE

\* finish and release match on worker_id alone, whatever the state is.
FinishMatches(c, w) == crawl[c].worker_id = w

Finish(c, w, state, stats) ==
  /\ FinishMatches(c, w) /\ ~Locked(c)
  /\ crawl' = [crawl EXCEPT ![c] = [crawl[c] EXCEPT !.state = state, !.stats = stats]]
  /\ UNCHANGED <<page, reaping>>

ReleaseMatches(c, w) == crawl[c].worker_id = w /\ ~crawl[c].cancel_requested

\* greatest(attempts - 1, 0): a clean hand-back is not an attempt.
HandedBack(attempts) == IF attempts > 0 THEN attempts - 1 ELSE 0

Release(c, w) ==
  /\ ReleaseMatches(c, w) /\ ~Locked(c)
  /\ crawl' = [crawl EXCEPT ![c] = [crawl[c] EXCEPT !.state = "queued",
                                                    !.worker_id = NoWorker,
                                                    !.heartbeat_at = "null",
                                                    !.attempts = HandedBack(@)]]
  /\ UNCHANGED <<page, reaping>>

-----------------------------------------------------------------------------
(***************************************************************************)
(* reap(): abort the cancelled, requeue those with attempts left, fail the *)
(* rest.                                                                   *)
(***************************************************************************)

\* Rows the WHERE clause shared by the three statements matches for the open
\* transaction of w: its own updates are visible to it.
Expired(w) ==
  {c \in reaping[w].expired : crawl[c].state = "running"}
    \ (reaping[w].aborting \cup reaping[w].requeuing)

\* A statement that meets a row locked by another reaper waits for its commit.
Unlocked(cs) == \A c \in cs : ~Locked(c)

AbortCancelled(w) ==
  LET stale == {c \in Crawls : crawl[c].heartbeat_at = "stale"}
      matched == {c \in stale : crawl[c].state = "running" /\ crawl[c].cancel_requested}
  IN /\ Unlocked(matched)
     /\ reaping' = [reaping EXCEPT ![w] = [expired |-> stale,
                                           aborting |-> matched,
                                           requeuing |-> {}]]
     /\ UNCHANGED <<crawl, page>>

\* Mutant of Requeue: attempts <= max_attempts.
RequeueOnceTooOften(w) ==
  LET matched == {c \in Expired(w) : crawl[c].attempts <= MaxAttempts}
  IN /\ Unlocked(matched)
     /\ reaping' = [reaping EXCEPT ![w].requeuing = matched]
     /\ UNCHANGED <<crawl, page>>

Requeue(w) ==
  LET matched == {c \in Expired(w) : crawl[c].attempts < MaxAttempts}
  IN /\ Unlocked(matched)
     /\ reaping' = [reaping EXCEPT ![w].requeuing = matched]
     /\ UNCHANGED <<crawl, page>>

\* Mutant of Reaped: a row that is failed or aborted keeps its worker_id.
ReapedKeepsWorkerId(row, c, w, rest) ==
  IF c \in reaping[w].aborting THEN [row EXCEPT !.state = "aborted"]
  ELSE IF c \in reaping[w].requeuing
    THEN [row EXCEPT !.state = "queued", !.worker_id = NoWorker, !.heartbeat_at = "null"]
  ELSE IF c \in rest THEN [row EXCEPT !.state = "failed"]
  ELSE row

\* What the transaction of w leaves of a row; `rest` is what its third
\* statement matched.
Reaped(row, c, w, rest) ==
  IF c \in reaping[w].aborting
    THEN [row EXCEPT !.state = "aborted", !.worker_id = NoWorker]
  ELSE IF c \in reaping[w].requeuing
    THEN [row EXCEPT !.state = "queued", !.worker_id = NoWorker, !.heartbeat_at = "null"]
  ELSE IF c \in rest
    THEN [row EXCEPT !.state = "failed", !.worker_id = NoWorker]
  ELSE row

\* The third statement and the commit.
GiveUp(w) ==
  /\ Unlocked(Expired(w))
  /\ crawl' = [c \in Crawls |-> Reaped(crawl[c], c, w, Expired(w))]
  /\ reaping' = [reaping EXCEPT ![w] = NoReap]
  /\ UNCHANGED page

Rollback(w) ==
  /\ reaping' = [reaping EXCEPT ![w] = NoReap]
  /\ UNCHANGED <<crawl, page>>

-----------------------------------------------------------------------------

RequestCancel(c) ==
  /\ ~Locked(c)
  /\ \/ /\ crawl[c].state = "queued"
        /\ crawl' = [crawl EXCEPT ![c].state = "aborted"]
     \/ /\ crawl[c].state = "running"
        /\ crawl' = [crawl EXCEPT ![c].cancel_requested = TRUE]
  /\ UNCHANGED <<page, reaping>>

\* Mutant of InsertPages: the batch is fenced on the state alone.
InsertPagesOfAnyOwner(c, w, rows) ==
  /\ crawl[c].state = "running" /\ ~Locked(c)
  /\ page' = [page EXCEPT ![c] = @ \cup {p \in rows : \A q \in @ : q.seq # p.seq}]
  /\ UNCHANGED <<crawl, reaping>>

\* ON CONFLICT DO NOTHING on (crawl_id, seq): a seq that is stored stays as it is.
InsertPages(c, w, rows) ==
  /\ Owns(w, c) /\ ~Locked(c)
  /\ page' = [page EXCEPT ![c] = @ \cup {p \in rows : \A q \in @ : q.seq # p.seq}]
  /\ UNCHANGED <<crawl, reaping>>

\* Time: a lease passes without a heartbeat reaching the row.  Nobody reads the
\* age of a row that is not running.
Expire(c) ==
  /\ crawl[c].state = "running" /\ crawl[c].heartbeat_at = "fresh"
  /\ crawl' = [crawl EXCEPT ![c].heartbeat_at = "stale"]
  /\ UNCHANGED <<page, reaping>>
=============================================================================
