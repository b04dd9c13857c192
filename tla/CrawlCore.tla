------------------------------- MODULE CrawlCore ------------------------------
(***************************************************************************)
(* One crawl: crawler.py and frontier.py.  The seed's redirect chain runs  *)
(* alone; then a pool of tasks takes URLs from the frontier, fetches them  *)
(* and feeds the links they find back into it, until Queue.join() returns. *)
(* The tasks share one event loop: what a task does between two awaits is  *)
(* one step.                                                               *)
(*                                                                         *)
(* The order of the queue and of the links of a page is left open: any     *)
(* queued URL may be next, and of several new links with the same          *)
(* canonical key any one is added.                                         *)
(***************************************************************************)
EXTENDS Integers, FiniteSets

CONSTANTS
  Urls,     \* normalized URLs
  NoUrl,
  Key,      \* canonical_key
  Host,     \* HostScope.from_url
  Tasks,    \* the worker tasks: config.concurrency many
  NoLimit,  \* max_pages = None
  Setups    \* the crawls to run: a site, its robots.txt and a configuration

Setup == [
  seed : Urls,
  links : [Urls -> SUBSET Urls],          \* extract_links
  location : [Urls -> Urls \cup {NoUrl}], \* where a redirect of the URL points, if anywhere
  disallowed : SUBSET Urls,               \* {} with --ignore-robots, Urls when unreadable
  crawl_delay : BOOLEAN,
  max_pages : (Nat \ {0}) \cup {NoLimit},
  failure_fuse : Nat \ {0},
  max_seed_redirects : Nat,
  reporter_raises : BOOLEAN]              \* Reporter.page can raise

ASSUME SetupsAssumption == Setups \subseteq Setup
ASSUME NoUrlAssumption == NoUrl \notin Urls
ASSUME UrlFunctions == Key \in [Urls -> Urls] /\ DOMAIN Host = Urls
ASSUME FiniteAssumption == IsFiniteSet(Urls) /\ IsFiniteSet(Tasks)

VARIABLES
  setup,       \* the crawl that is run; never changes
  phase,
  url, hops,   \* the end of the seed's redirect chain so far, and its length
  seen,        \* Frontier._seen
  queue,       \* Frontier._queue
  unfinished,  \* the queue's count of puts without a task_done
  task,        \* the worker tasks
  claimed, failures, stopping, aborted,  \* _claimed, _consecutive_failures, _stopping, _aborted
  ok, failed,  \* stats.pages_ok, and the sum of stats.pages_failed
  reports,     \* history: how often each URL was reported
  found        \* history: the links of the reported pages

frontierVars == <<seen, queue, unfinished>>
chainVars == <<setup, url, hops>>
stopVars == <<claimed, failures, stopping, aborted>>
statsVars == <<ok, failed, reports, found>>
vars == <<phase, chainVars, frontierVars, task, stopVars, statsVars>>

-----------------------------------------------------------------------------

Over == {"ended",         \* run() returned
         "seed_error",    \* SeedError
         "seed_raised",   \* another exception before the tasks start
         "broken_pipe",   \* BrokenPipeError out of the TaskGroup
         "group_failed",  \* another exception out of the TaskGroup
         "cancelled"}

Idle == [at |-> "get", url |-> NoUrl]

Task == [at : {"get", "delay", "fetch"}, url : Urls \cup {NoUrl}]

TypeOK ==
  /\ setup \in Setups
  /\ phase \in {"seed", "crawl"} \cup Over
  /\ url \in Urls /\ hops \in Nat
  /\ seen \subseteq Urls /\ queue \subseteq Urls /\ unfinished \in Nat
  /\ task \in [Tasks -> Task]
  /\ claimed \in Nat /\ failures \in Nat
  /\ stopping \in BOOLEAN /\ aborted \in BOOLEAN
  /\ ok \in Nat /\ failed \in Nat
  /\ reports \in [Urls -> Nat] /\ found \subseteq Urls

Init ==
  /\ setup \in Setups
  /\ phase = "seed" /\ url = setup.seed /\ hops = 0
  /\ seen = {Key[setup.seed]} /\ queue = {} /\ unfinished = 0
  /\ task = [t \in Tasks |-> Idle]
  /\ claimed = 0 /\ failures = 0 /\ stopping = FALSE /\ aborted = FALSE
  /\ ok = 0 /\ failed = 0
  /\ reports = [u \in Urls |-> 0] /\ found = {}

\* stats.pages_total
Pages == ok + failed

\* Reporter.page
Report(u, links) ==
  /\ reports' = [reports EXCEPT ![u] = @ + 1]
  /\ found' = found \cup links

Target(u) == IF setup.location[u] = NoUrl THEN {} ELSE {setup.location[u]}

\* What a FetchResult of u yields: the links of its body, or the target of a redirect.
LinkSets(u) == {setup.links[u], Target(u)}

Keys(urls) == {Key[u] : u \in urls}

\* HostScope.allows and RobotsPolicy.allows; the scope is anchored where the seed landed.
Permitted(u) == Host[u] = Host[url] /\ u \notin setup.disallowed

\* _enqueue and Frontier.add, and the task_done that follows in a worker task.
Enqueue(links, done) ==
  LET fresh == {l \in links : Permitted(l) /\ Key[l] \notin seen}
  IN \E new \in SUBSET fresh :
       /\ Keys(new) = Keys(fresh)
       /\ \A a, b \in new : Key[a] = Key[b] => a = b
       /\ queue' = queue \cup new
       /\ seen' = seen \cup Keys(new)
       /\ unfinished' = unfinished + Cardinality(new) - done

-----------------------------------------------------------------------------
(***************************************************************************)
(* _follow_seed_redirects, the robots check and the seed's own page.       *)
(***************************************************************************)

\* Mutant of SeedHop: the hops are not marked as seen.
SeedHopUnmarked ==
  /\ phase = "seed" /\ hops < setup.max_seed_redirects
  /\ \E target \in Target(url) :
       /\ ok' = ok + 1
       /\ Report(url, {target})
       /\ url' = target /\ hops' = hops + 1
  /\ UNCHANGED <<phase, setup, frontierVars, task, stopVars, failed>>

SeedHop ==
  /\ phase = "seed" /\ hops < setup.max_seed_redirects
  /\ \E target \in Target(url) :
       /\ ok' = ok + 1
       /\ Report(url, {target})
       /\ \/ /\ Key[target] \in seen          \* a cycle
             /\ phase' = "seed_error"
             /\ UNCHANGED <<seen, url, hops>>
          \/ /\ Key[target] \notin seen
             /\ seen' = seen \cup {Key[target]}
             /\ url' = target /\ hops' = hops + 1
             /\ UNCHANGED phase
  /\ UNCHANGED <<setup, queue, unfinished, task, stopVars, failed>>

\* The guard's veto, a FetchError, one redirect too many, or robots.txt.
SeedRefused ==
  /\ phase = "seed"
  /\ phase' = "seed_error"
  /\ UNCHANGED <<chainVars, frontierVars, task, stopVars, statsVars>>

\* The response is no redirect, or one without a target.
SeedLands ==
  /\ phase = "seed" /\ url \notin setup.disallowed
  /\ \E links \in {setup.links[url]} \cup (IF Target(url) = {} THEN {{}} ELSE {}) :
       /\ Report(url, links)
       /\ Enqueue(links, 0)
  /\ ok' = ok + 1
  /\ claimed' = Pages + 1          \* = stats.pages_total, the hops included
  /\ phase' = "crawl"
  /\ UNCHANGED <<chainVars, task, failures, stopping, aborted, failed>>

\* The robots loader, the extractor or the reporter raises: nothing catches it here.
\* pages_ok is incremented before the reporter is called.
SeedRaises ==
  /\ phase = "seed"
  /\ \/ UNCHANGED ok
     \/ setup.reporter_raises /\ ok' = ok + 1
  /\ phase' = "seed_raised"
  /\ UNCHANGED <<chainVars, frontierVars, task, stopVars, failed, reports, found>>

-----------------------------------------------------------------------------
(***************************************************************************)
(* The worker tasks.  get() of a queue that is not empty does not suspend, *)
(* so the code may take several steps of this section in one go; here the  *)
(* other tasks may come in between.                                        *)
(***************************************************************************)

Crawling == phase = "crawl"

\* Mutant of LimitReached: pages in flight are not counted.
LimitReachedByReports == setup.max_pages # NoLimit /\ Pages >= setup.max_pages

LimitReached == setup.max_pages # NoLimit /\ claimed >= setup.max_pages

\* The task takes u and is done with it at once: the crawl is stopping, or stops here.
Drop(t) ==
  /\ Crawling /\ task[t].at = "get"
  /\ stopping \/ LimitReached
  /\ \E u \in queue : queue' = queue \ {u}
  /\ unfinished' = unfinished - 1
  /\ stopping' = TRUE
  /\ UNCHANGED <<phase, chainVars, seen, task, claimed, failures, aborted, statsVars>>

Claim(t) ==
  /\ Crawling /\ task[t].at = "get"
  /\ ~stopping /\ ~LimitReached
  /\ \E u \in queue :
       /\ queue' = queue \ {u}
       /\ task' = [task EXCEPT ![t] =
                     [at |-> IF setup.crawl_delay THEN "delay" ELSE "fetch", url |-> u]]
  /\ claimed' = claimed + 1
  /\ UNCHANGED <<phase, chainVars, seen, unfinished, failures, stopping, aborted, statsVars>>

\* The task has had the delay lock and slept.  In which order the tasks get the
\* lock is left open.  Whether the crawl is stopping is not looked at again.
DelayOver(t) ==
  /\ Crawling /\ task[t].at = "delay"
  /\ task' = [task EXCEPT ![t].at = "fetch"]
  /\ UNCHANGED <<phase, chainVars, frontierVars, stopVars, statsVars>>

Fetching(t) == Crawling /\ task[t].at = "fetch"

\* Back to get().
Free(t) == task' = [task EXCEPT ![t] = Idle]

\* task_done, in the finally clause.
TaskDone == unfinished' = unfinished - 1

\* Mutant of PageOk: a success takes the stop back.
PageOkResumes(t) ==
  /\ Fetching(t)
  /\ \E links \in LinkSets(task[t].url) :
       /\ Report(task[t].url, links)
       /\ Enqueue(links, 1)
  /\ ok' = ok + 1 /\ failures' = 0
  /\ Free(t)
  /\ stopping' = FALSE
  /\ UNCHANGED <<phase, chainVars, claimed, aborted, failed>>

PageOk(t) ==
  /\ Fetching(t)
  /\ \E links \in LinkSets(task[t].url) :
       /\ Report(task[t].url, links)
       /\ Enqueue(links, 1)
  /\ ok' = ok + 1 /\ failures' = 0
  /\ Free(t)
  /\ UNCHANGED <<phase, chainVars, claimed, stopping, aborted, failed>>

\* _check_fuse: a 4xx, an oversized body and the like count neither way.
CheckFuse(counts) ==
  IF aborted \/ ~counts
    THEN UNCHANGED <<failures, stopping, aborted>>
    ELSE LET tripped == failures + 1 >= setup.failure_fuse
         IN /\ failures' = failures + 1
            /\ stopping' = (stopping \/ tripped)
            /\ aborted' = tripped

PageFails(t) ==
  /\ Fetching(t)
  /\ Report(task[t].url, {})
  /\ failed' = failed + 1
  /\ \E counts \in BOOLEAN : CheckFuse(counts)
  /\ Free(t) /\ TaskDone
  /\ UNCHANGED <<phase, chainVars, seen, queue, claimed, ok>>

\* Mutant of PageRaises: task_done is not in a finally clause.
PageRaisesUndone(t) ==
  /\ Fetching(t)
  /\ Report(task[t].url, {})
  /\ failed' = failed + 1
  /\ failures' \in {failures, 0}
  /\ Free(t)
  /\ UNCHANGED <<phase, chainVars, frontierVars, claimed, stopping, aborted, ok>>

\* Mutant of PageRaises: pages_ok was incremented before the extraction.
PageRaisesCountedTwice(t) ==
  /\ Fetching(t)
  /\ Report(task[t].url, {})
  /\ failed' = failed + 1
  /\ \/ UNCHANGED <<failures, ok>>
     \/ failures' = 0 /\ ok' = ok + 1
  /\ Free(t) /\ TaskDone
  /\ UNCHANGED <<phase, chainVars, seen, queue, claimed, stopping, aborted>>

\* fetch raises, or the extractor does after the failure count was reset: the page
\* is reported as an internal failure.
PageRaises(t) ==
  /\ Fetching(t)
  /\ Report(task[t].url, {})
  /\ failed' = failed + 1
  /\ failures' \in {failures, 0}
  /\ Free(t) /\ TaskDone
  /\ UNCHANGED <<phase, chainVars, seen, queue, claimed, stopping, aborted, ok>>

\* How a page was counted by the time reporting it raised: as ok or failed, ...
CountedOnce ==
  \/ ok' = ok + 1 /\ failures' = 0 /\ UNCHANGED failed
  \/ failed' = failed + 1 /\ failures' \in {failures, 0} /\ UNCHANGED ok

\* ... and as an internal failure on top of it.
CountedTwice ==
  \/ ok' = ok + 1 /\ failures' = 0 /\ failed' = failed + 1
  \/ failed' = failed + 2 /\ UNCHANGED <<ok, failures>>

\* Reporting the page raises, and reporting that succeeds: neither the links of the
\* page nor the fuse are looked at.
ReportedAsInternal(t) ==
  /\ Fetching(t) /\ setup.reporter_raises
  /\ CountedTwice
  /\ Report(task[t].url, {})
  /\ Free(t) /\ TaskDone
  /\ UNCHANGED <<phase, chainVars, seen, queue, claimed, stopping, aborted>>

\* An exception leaves the task, and the TaskGroup cancels the others where they are:
\* a BrokenPipeError at once, another one when the handler's own report raises.
TaskRaises(t) ==
  /\ Fetching(t) /\ setup.reporter_raises
  /\ \/ phase' = "broken_pipe" /\ CountedOnce
     \/ phase' = "group_failed" /\ CountedTwice
     \/ /\ phase' = "group_failed"
        /\ failed' = failed + 1 /\ failures' \in {failures, 0} /\ UNCHANGED ok
  /\ Free(t) /\ TaskDone
  /\ UNCHANGED <<chainVars, seen, queue, claimed, stopping, aborted, reports, found>>

\* Mutant of Join: the end is an empty queue.
JoinOnEmptyQueue ==
  /\ Crawling /\ queue = {}
  /\ phase' = "ended"
  /\ UNCHANGED <<chainVars, frontierVars, task, stopVars, statsVars>>

\* Queue.join() returns; the tasks are cancelled where they are.
Join ==
  /\ Crawling /\ unfinished = 0
  /\ phase' = "ended"
  /\ UNCHANGED <<chainVars, frontierVars, task, stopVars, statsVars>>

\* task.cancel() of the CLI's signal handler or of the service's worker.
Cancel ==
  /\ phase \in {"seed", "crawl"}
  /\ phase' = "cancelled"
  /\ UNCHANGED <<chainVars, frontierVars, task, stopVars, statsVars>>

Stutter == phase \in Over /\ UNCHANGED vars

SeedStep == SeedHop \/ SeedRefused \/ SeedLands \/ SeedRaises

TaskStep(t) ==
  \/ Drop(t) \/ Claim(t) \/ DelayOver(t)
  \/ PageOk(t) \/ PageFails(t) \/ PageRaises(t)
  \/ ReportedAsInternal(t) \/ TaskRaises(t)

Next ==
  \/ SeedStep
  \/ \E t \in Tasks : TaskStep(t)
  \/ Join \/ Cancel \/ Stutter

Spec == Init /\ [][Next]_vars

\* The event loop runs every task that is ready, and every fetch returns: it has a
\* budget per attempt and a bounded number of attempts.
Fairness ==
  /\ WF_vars(SeedStep)
  /\ \A t \in Tasks : WF_vars(TaskStep(t))
  /\ WF_vars(Join)

FairSpec == Spec /\ Fairness

-----------------------------------------------------------------------------
(***************************************************************************)
(* Properties.                                                             *)
(***************************************************************************)

\* No two reports are of the same page: whichever tasks find a link, and whatever
\* spelling it has, a canonical key is fetched once, the hops of the seed included.
OncePerKey ==
  \A u, v \in Urls :
    /\ reports[u] <= 1
    /\ u # v /\ Key[u] = Key[v] => reports[u] + reports[v] <= 1

\* pages_total counts the reported pages, and what is claimed is reported or in
\* flight, as long as the reporter does not raise.
Accounted ==
  ~setup.reporter_raises =>
    /\ Pages = Cardinality({u \in Urls : reports[u] > 0})
    /\ Crawling => claimed = Pages + Cardinality({t \in Tasks : task[t].at # "get"})

\* --max-pages holds although several tasks claim pages at once: only a redirect
\* chain that is longer by itself exceeds it.
PagesCapped ==
  setup.max_pages # NoLimit /\ ~setup.reporter_raises =>
    Pages <= setup.max_pages \/ Pages <= hops + 1

\* A crawl that is stopping, for its limit or for the fuse, claims no page any more:
\* a page in flight that succeeds afterwards does not set it going again.
StopsForGood == [][stopping => stopping' /\ claimed' = claimed]_vars

\* Every crawl ends, in one way or another: no exception, fuse or limit leaves join()
\* waiting for a task_done that never comes.
EveryCrawlEnds == <>(phase \in Over)

\* Who reads the reports sees a walk of the site: the redirect chain, then permitted
\* pages that a reported page links to, each once, and unless the crawl was stopped or
\* failed, all of them.
Site == INSTANCE SiteWalk WITH
  disallowed <- setup.disallowed,
  state <- CASE phase = "seed" -> "chain"
             [] phase = "crawl" -> "walk"
             [] phase = "ended" /\ ~stopping -> "complete"
             [] OTHER -> "cut_short",
  at <- url,
  visited <- {u \in Urls : reports[u] > 0}

ImplementsSiteWalk == Site!Spec

\* pages_total is what --max-pages caps (docs/data-model.md, "stats").
MaxPagesCapsPagesTotal ==
  setup.max_pages # NoLimit => Pages <= setup.max_pages
=============================================================================
