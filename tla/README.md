# url-crawler in TLA+

A specification of `url-crawler`: the crawler (a library and a command line tool) and the crawl service around
it (an HTTP API, worker processes and a PostgreSQL database). The modules are model-checked with TLC on small
instances; all of the invariants of the passing runs, the action properties, and the refinements of the three
abstract specifications, are also proved with TLAPS for every value of the constants.

Paths below are relative to the repository root; `crawler.py` stands for
`src/url_crawler/crawler.py`, and `worker.py`, `repository.py`, `reporter.py`,
`api.py` for the files under `src/url_crawler_service/`.

## 1. The system

| part | state | operations | talks to |
|---|---|---|---|
| Crawl repository (`repository.py`, `orm.py`, `db.py`) | tables `crawl` and `page` | `create`, `claim`, `heartbeat`, `finish`, `release`, `reap`, `request_cancel`, `insert_pages`, reads | called by the API and by every worker; one transaction per call |
| Worker (`worker.py`) | stop event, time of the last reap, `_interrupt`, the tasks of the running job | claim loop, `run_job`, heartbeat and stop watchers, drain, final write | repository, crawler, page reporter; signals |
| Page reporter of the service (`reporter.py`) | `_seq`, `_buffer`, `_buffer_full`, the `_writing` lock | `page`, `run` (flusher), `close`, `discard` | called by the crawler, writes through the repository |
| HTTP API (`api.py`, `schemas.py`) | none of its own | submit, cancel, read one crawl, walk its pages, event stream | repository, host guard |
| Crawler and frontier (`crawler.py`, `frontier.py`) | frontier (`_seen`, queue, unfinished count), `_claimed`, `_consecutive_failures`, `_stopping`, `_aborted`, statistics | seed redirect chain, worker tasks, limit, fuse, join | fetcher, robots policy, parser, reporter |
| Fetcher and retry policy (`fetcher.py`, `retry.py`, `http.py`) | the attempt, the body read so far | `fetch`, `read_bounded`, `retry_delay` | a web server |
| robots.txt (`robots.py`) | the rules, once loaded | `load_robots`, the parsing of groups, rule matching | fetch of one file, guard |
| URLs (`urls.py`) | none | `normalize`, `canonical_key`, `HostScope` | crawler, frontier |
| Command line (`cli.py`, `progress.py`, `reporting.py`) | the crawl task, the progress task, the streams | parse flags, run a crawl, print, exit code | crawler, SIGINT and SIGTERM |
| Settings (`settings.py`), host guard (`hostcheck.py`) | none | read and check the environment; resolve a seed's host | environment, DNS |
| Parser, migrations, compose file, benchmark | none | | |

Where the difficulty lies:

- *Several processes, one fence.* A worker that stalled keeps working on a crawl that a
  reaper has already queued again and another worker has claimed. Nothing but the
  `worker_id` in the `WHERE` clauses keeps it away, `finish` and `release` do not look at
  anything else, and a restarted container comes back with the id of its predecessor.
- *A transaction of three statements.* `reap()` runs under READ COMMITTED, so claims,
  heartbeats and cancels commit between its UPDATEs, and two reapers lock rows in any order.
- *Two clocks.* A worker judges its lease by its own clock, the reaper by the row; no
  heartbeat runs during the drain and the final write.
- *Four tasks in one worker job*: the crawl, the page flusher, the heartbeat watcher and
  the stop watcher write the same fields, and the last interrupt wins.
- *Acknowledgements that are lost*: each database call may have committed although it
  raised, or commit after its client has given it up. Batches are sent again, final writes
  are repeated.
- *The end of a crawl*: a pool of tasks shares a queue and is finished when a counter
  reaches zero; limits, the fuse, exceptions and cancellation all interfere.
- *A server that may do anything*: endless bodies, decompression bombs, `Retry-After: 1h`,
  rings of redirects for `robots.txt`.
- *The end of a run of the command line*: signals, a closed pipe, a terminal that is gone
  and a progress task that dies, in any order.

What makes each part correct:

- Repository and workers: a crawl's stored pages come from one run and have no gaps; a
  settled crawl never changes; `finished` means that every page was stored; the number of
  runs is bounded; a silent worker is replaced and lets go in time; every accepted crawl is
  settled in the end.
- Page reporter: no page is dropped, no wake-up is lost, a clean close is complete.
- API: a body that is accepted can be run; a client that follows a crawl is told its
  outcome, reads no page twice and, if the crawl was not run again meanwhile, misses none.
- Crawler: no page twice, nothing forbidden fetched, nothing found and then forgotten,
  nothing uncounted; every crawl ends.
- Fetcher: memory, attempts and waiting are bounded, and every fetch returns.
- robots.txt: what could not be read allows nothing; the lines for us decide.
- URLs: spelling does not matter. Command line: what a run tells is whole and true.

`PROJECT.json` lists under `hazards` every place where these can go wrong, with the
property that would notice.

## 2. The modules

    CrawlLifecycle      what the service promises of one crawl           (abstract)
      ^ implemented by CrawlWorker, each row of ReapRows; extended by CrawlReader
    SiteWalk            what a crawl promises who reads its reports      (abstract)
      ^ implemented by CrawlCore
    PageLog             what the pages of a crawl look like from outside (abstract)
      ^ implemented by DbReporter

    CrawlTable <- CrawlWorker        the tables; the worker processes
    ReapRows                         reap() row by row
    LeaseClock                       the lease in time
    DbReporter                       the page buffer of a job, await by await
    CrawlReader                      clients of the API
    CrawlCore                        one crawl
    Fetch                            one fetch
    RobotsLoad, RobotsRules, Urls, Submission, Startup, Cli
                                     parts that work alone, put together by MCParts

    CrawlWorkerProof, ReapRowsProof, LeaseClockProof, DbReporterProof,
    CrawlReaderProof, CrawlCoreProof, FetchProof, PartsProof
                                     the proofs about the module of that name; PartsProof
                                     is about MCParts

### CrawlTable: the tables and their transactions

`crawl[c]` is a row of the crawl table and `page[c]` the set of its stored pages. Each
method of `CrawlRepository` that writes is one operator (`Create`, `Claim`, `Heartbeat`,
`Finish`, `Release`, `RequestCancel`, `InsertPages`): what its transaction commits, under
the condition of its WHERE clause. `reap()` is four: `AbortCancelled`, `Requeue` and
`GiveUp` are its statements (the commit is part of the third), `Rollback` its failure. The
row locks it holds in between are `reaping[w]`. Locks block every writer of the row,
`FOR SHARE` of `insert_pages` included. `now()` is the start of the transaction, hence
`expired` is computed by the first statement; a heartbeat that commits in between takes its
row out of it again (`Refreshed`).

Abstractions: `heartbeat_at` is null, younger or older than a lease (`Expire` is the passing
of time); `stats` is its `pages_total`; a page is its `seq`. Two history columns the database
does not have, `lease` of a row and of a page, number the claims, so that properties can tell
the pages of one run from those of another. Which of several queued crawls a claim takes is
left open (in the code: the oldest that is not locked).

### CrawlWorker: the worker processes

`worker[w].pc` follows `run_forever`, `run_once` and `run_job`:

| pc | code |
|---|---|
| `poll` | top of the loop in `run_forever`; reap if it is due |
| `requeue`, `give_up` | between two statements of `reap()` |
| `claim` | `repo.claim` |
| `run` | `_outcome` awaits the crawl task; crawl, flusher, watchers interleave |
| `drain` | `_drain_pages`: the closing flush |
| `record` | `_record` chooses between doing nothing, releasing, finishing |
| `get` | `repo.get` after a refused release |
| `finish` | `_write_terminal_state`, repeated until it succeeds or a lease has passed |
| `down` | the process is not running |

The actions are grouped as the code is: `ClaimLoop`, `RunJob` (the four tasks), `EndJob`,
`Process` (SIGTERM, crash, restart), `Api` and `Time`. A database call that raises is a
*fault*: an action of its own (`ClaimFails`, `HeartbeatFails`, `DrainFails`, `RequeueFails`,
`WriteTerminalStateFails`, or a disjunct of `Flush`), which either had no effect or committed
and lost its acknowledgement. Faults, signals and crashes are counted by `faults`.

A failed call that commits *later* needs no action of its own here: `insert_pages` holds its
`FOR SHARE` lock until COMMIT, and the other calls that lock, so that nothing can touch the row
between the failure and the late commit; committing at the failure is the same.
`DbReporter` models the late commit itself, and shows that it is.

The page reporter is `seq` and `buffered`: the buffered rows are always the last ones numbered.
A flush may happen at any time with any prefix of the buffer, which covers both of its triggers
and pages that are reported while a batch is being written. `DbReporter` is the detail.

### ReapRows: reap() row by row

`CrawlTable` takes each UPDATE of `reap()` for one step. Here an UPDATE takes a snapshot of the
rows its WHERE clause matches, reaches them in an order of its own, waits at a row another
reaper has locked, and looks again at what it finds when the lock is free (`StillMatches`,
PostgreSQL's recheck under READ COMMITTED). Two reapers that wait for each other are a deadlock;
one is rolled back. Heartbeats, claims, cancels and final writes come in between.

### LeaseClock: the lease in time

`CrawlWorker` lets a lease expire at any moment; `LeaseClock` has a discrete clock that does not
pass what is due. A is the worker of a crawl with its heartbeat calls, its drain and its final
write; B polls, reaps and claims; the database goes down and comes up; A may crash.
`row.beat` is `heartbeat_at`, `job.ok` the time A measures its silence from. A call takes up to
`CallTime`, commits at any time until then or not at all, and may fail after it committed; it fails
only while the database is down, and an outage may be as short as one call that fails by itself.

A round of B is `run_forever` and `run_once`: `StartRound` notes the time of the reap if one is due and
begins it, or else the claim; the reap commits and returns (`CommitReap`, `ReapReturns`), then the claim
(`CommitClaim`, `ClaimReturns`), and only then does B wait for `PollEvery`. Hence two polls are up to
`PollEvery` and two calls apart. A reap that fails is not followed by a claim (`RoundFails`) and not
repeated before the next is due. B has one slot and nothing else to do, until it gets the crawl.

### DbReporter: the page buffer, await by await

`job[w]` has the buffer, the event `full`, and where the two coroutines of `_flush` are: the
flusher (`wait`, `lock`, `call`, `done`) and the closer. A call of `insert_pages` is three round
trips: the SELECT FOR SHARE, the INSERT, the COMMIT. `CloseTimesOut` is the end of
`FLUSH_TIMEOUT_SECONDS` at whichever of them; a transaction whose client is gone stays in
`orphans` until it commits (if COMMIT was sent) or rolls back, and holds its row lock until then.

### CrawlLifecycle and PageLog: the abstract specifications of the service

One crawl as clients see it: a state, the attempts used, the number of pages stored. A run
starts from no pages and uses up an attempt; during a run pages are only added; a run ends by
settling the crawl, by being lost (only if an attempt is left) or by being handed back with its
attempt; a settled crawl never changes. `CrawlWorker!ImplementsLifecycle` says that the
service implements this for every crawl, with `state`, `attempts` and `Cardinality(page[c])` in
place of the three variables.

`PageLog` is the pages themselves: a log that only the run that holds the lease appends to, in
order and without gaps, which every claim empties and which is closed once the crawl is queued
again or settled.

### CrawlReader: clients of the API

On top of the lifecycle (the client cannot see more of the service than that) one client walks
`GET /crawls/{id}/pages` with the keyset cursor (`GetPages`), looks at `GET /crawls/{id}`
(`GetCrawl`), and another follows `GET /crawls/{id}/events`, whose generator reads a row, sends
it and decides by the same row whether to go on (`EventsGet`, `EventsSend`, `EventsEnd`).

### CrawlCore: one crawl

`phase` goes from `seed` (the redirect chain) to `crawl` (the tasks) to one of the ways a crawl
is over. Tasks are at `get`, `delay` or `fetch`; what a task does between two awaits is one
action: `Drop`, `Claim`, `DelayOver`, and one action for each way `_handle` and `_worker` can
come out, `PageOk`, `PageFails`, `PageRaises`, `ReportedAsInternal`, `TaskRaises`. `unfinished`
is the counter of `asyncio.Queue` that `join()` waits for; each of these actions contains the
`task_done()` of the finally clause.

What is crawled is a constant: `Setups` is a set of records with the links and redirects of a
site, the disallowed URLs and the settings; `Key` and `Host` are `canonical_key` and the host of
the scope. A page may come out as any of the things a fetch can return. The queue and the links
of a page are sets: their order is left open, and of several new links with one canonical key any
one is added. The statistics are `ok` and `failed`; the per-kind counters, log lines and the
count of duplicates are left out. `reports` (how often each URL was reported) and `found` (the
links reported) are what a reader of the reports has seen.

`SiteWalk` is what the crawl promises such a reader: first the redirects of the seed, one after
the other; then permitted pages that a reported page links to, each once; and complete only when
no such page is left.

### Fetch: one call of `Fetcher.fetch`

`pc` is `request`, `read` (in `read_bounded`), `sleep` or `done`. Bytes are counted and not
interpreted: `raw` received, `body` kept, `decoded` (history) what the body would be if nothing
were cut. The server answers with any status and headers of the constants and any chunks of up to
`MaxChunk` bytes that inflate to anything up to `MaxChunk`; `Fail` is any exception of httpx and one that is
not handled; `Budget` is the `asyncio.timeout` around the request. Delays are counted in half
seconds, since the backoff starts at half a second; its jitter may be anything up to its ceiling.

### The parts that work alone

- `RobotsLoad`: `load_robots`. The guard, up to five redirects, the body read to a cap, UTF-8; of
  a file only the bytes' roles matter (`char`, `head`, `tail`, `junk`).
- `RobotsRules`: the parser of groups, the choice of ours, patterns and precedence, as functions of
  a sequence of parsed lines and a path of tokens. There are two reference definitions, over lines and
  positions instead of states of a parser: `ShouldAllow` reads a file as the code does, with its
  departures from RFC 9309 (listed below), and `RfcAllows` reads it as section 2.2 of the RFC does. The
  answer is compared with the first always and with the second where `IsUndisputed` holds.
- `Urls`: `normalize` (dot segments, escapes, the length), `canonical_key` (escapes, the order of
  parameters) and `HostScope`. A URL is kept as the parts `urlsplit` gives; `IsResolved` (which
  segments survive), `SameText` (two texts whose characters have a common spelling each, `Spellings`),
  `SameQuery` (the parameters of one are those of the other, with equal keys in their order), `SamePage`
  and `ScopeIsHostAndPort` are the reference definitions, none of which folds or sorts.
- `Submission`: the flags of the command line or the body of a POST, the row, the worker that builds
  a configuration from the row, and the guard that asks DNS at both ends.
- `Startup`: a process reads its environment and runs or refuses to.
- `Cli`: `main()` in its stages, the crawl task and the progress task, the two reporters, signals,
  and a stdout and a terminal that may go away.

They share no state, so `MCParts` checks them in one run: each initial state is one of one part, the
variables of the others hold `None`, and only that part takes steps. The state space is the sum of
theirs.

## 3. What TLC checks

Each property of a passing run has a mutant: an operator beside the definition it changes, named in
its comment ("Mutant of ..."), which is a plausible mistake in that code. With it TLC finds the
property violated.

| run | instance | shows |
|---|---|---|
| `one_crawl` | 2 workers, 1 crawl, 2 pages, 2 attempts, 1 fault, stalls unbounded | types; pages are of the latest claim and gap-free; `finished` is complete; attempts bounded; `worker_id` fences; a settled crawl stays as it is; the service implements `CrawlLifecycle` |
| `settles` | 1 worker, 2 crawls (one with an unusable config), 1 page, 2 faults, fairness | every accepted crawl is settled in the end, a worker that forgets rows (a claim whose acknowledgement was lost, a restart under the same id) included |
| `crawl` | 3 tasks, 8 URLs, 96 setups, fairness | each page once; pages are counted once; `max_pages` under concurrency; stopping is for good; `CrawlCore` implements `SiteWalk`; every crawl ends |
| `reader` | 5 pages, 3 runs, 2 attempts, 2 pages per response, fairness | the walk skips and repeats nothing and is complete; the stream tells the outcome and ends |
| `fetch` | 3 attempts, a cap of 3 bytes, chunks of up to 5, fairness | the cap is exact; memory, attempts and waits are bounded; every fetch returns |
| `lease` | interval, poll and calls of 1, a lease of 5, 22 ticks, 2 outages, 1 crash | two workers overlap for less than an interval and two calls; a final write is given up; an expired run is taken from its worker within a lease, a poll and two calls; the shortest lease that covers a healthy worker is kept |
| `reporter` | 2 workers, 3 pages, batches of 2, 2 claims, 1 fault | no page is dropped; no wake-up lost, no lock left behind; a clean close is complete; `DbReporter` implements `PageLog` |
| `reap_rows` | 2 reapers, 2 rows, 2 attempts, one row that may be cancelled, fairness | a reap ends only silent runs, answers a cancel, and follows the lifecycle; deadlocks leave nothing behind |
| `parts` | the six parts of `MCParts`, fairness | a run of the command line tells the whole truth; what the API accepts can be run; a seed is fetched only from a public host; a process that runs has usable settings; `robots.txt` is loaded safely, its lines for us decide as the code picks them, and they decide as RFC 9309 says wherever the code does not depart from it; URLs are told apart exactly; interrupts and the loader come to an end |
| `cancel_race` | as `one_crawl`, 1 page | **violated**: see findings |
| `redirects_past_limit` | as `crawl`, reporters that never raise | **violated**: see findings |
| `urls_repeated` | as `parts` | **violated**: see findings |

### The bounds, and why they are enough

- *Workers and crawls.* Rows do not interact except that one reap handles several and one
  worker id may be on several; `settles` and `reap_rows` have two. On one row two workers are the
  owner and the one that outlived its lease; a third would be a second stale one. The two roles, and
  the row of a dead worker with the same id, all occur with two. A deadlock needs two reapers and two
  rows.
- *Attempts.* With `MaxAttempts = 2` a crawl is requeued, fails for want of attempts, and hands an
  attempt back.
- *Pages.* In `one_crawl` two make a batch that can be sent in part, and a second batch after a first.
  In `reporter` three pages in batches of two fill a batch and leave a rest. In `reader` five pages, two
  per response, end in a short response and four in a full one.
- *Faults.* Only failed calls, lost acknowledgements, signals and crashes count. A stalled
  worker, a lease that expires at the worst moment, a cancel, a `close()` that times out and any
  interleaving need no fault. The proofs below need no bound at all.
- *Time.* A lease of 5 is the shortest that `LeaseIsKept` covers with intervals and calls of 1
  (interval + 3 calls + drain). A silence is noticed within a lease (until the row has expired), another
  lease (until the next reap is due), a poll and two calls, here 13 ticks after the last heartbeat; the
  bound is tight, with a tick less TLC finds a violation. 22 ticks leave room for heartbeats before, for
  an outage, a failed reap and the next one. `CallTime` stands for all commands of a call. With the
  default settings (a lease of 30 s, a heartbeat every 5 s, 15 s for the drain) the lease covers a healthy
  worker only if a call takes no more than about three seconds, although it may take ten before it times
  out; a longer call at each point costs the crawl its run.
- *The site.* The eight URLs of `MCCrawlCore` include a cycle, two spellings of one page, a
  disallowed page, another host, and redirects that lead from the seed to a page, to another host
  and back. With three tasks, one can hold a page while the other two race. The setups take each
  limit up to 3 and none, each fuse up to 3, redirects on and off, with and without a crawl delay
  and a reporter that raises.
- *Bytes.* With a cap of 3 and chunks of up to 5, a chunk fits, fills the cap exactly, exceeds it by
  one or by more, alone or after others, raw or decoded.
- *robots.txt.* Five redirects, as in the code; files of up to four bytes against a cap of three, so that
  a character is cut in two. Rules: every file of up to four lines of eleven kinds, two groups with all
  mixes of names, every pattern of up to three tokens against every path of up to three, and all
  sequences of up to three rules. An escaped newline in a path is excepted from both references, since no
  `*` covers it. `IsUndisputed` has four more exceptions (see below), and each of the five is needed:
  without it TLC finds a file or a path among these on which the code and `RfcAllows` differ.
- *URLs.* Paths of up to five segments out of five kinds, queries of up to three parameters, a length of
  15 in place of 2048, so that paths are too long by a segment or by an escape.
- *Submission and startup.* Each number is tried at 0, at 1, at its maximum, one beyond, as nan and
  (for settings) as inf, unset and as text.
- *Command line.* Two pages and two signals: one that comes before, while or after the crawl ends, and a
  second one.
- *Symmetry* is used only where no property is a liveness property.
  Deadlock is checked in every run; a disjunct such as `Stutter` or `Rested` marks the states in which
  a crawl, a fetch or a run is over.

### Fairness

- `CrawlWorker!Fairness`. A worker process that is running takes its next step, and a worker that is
  down is restarted: `docker-compose.yml` has `restart: unless-stopped`. The reap falls due again
  and again because time passes however often a worker goes round its loop; that is a strong fairness,
  since between two reaps the worker is at other places. A crawl task ends by itself or is cancelled
  (`crawl` shows that it does). A row that nobody refreshes grows old. Nothing is assumed of
  the flusher, of heartbeats, of cancels, or of a row that is refreshed. Faults are finitely many.
- `CrawlCore!Fairness`. The event loop runs each task that is ready, and a fetch returns, which is
  what `fetch` shows. Cancellation is never assumed. A crawl delay is over some time: the code does
  not refuse `Crawl-delay: inf`, and with it the assumption is false (a hazard without a property).
- `Fetch!FairSpec`. Only the clock: the budget of a request runs out and a sleep is over. The
  server is not assumed to do anything.
- `CrawlReader!FairReaderSpec`. The generator of the event stream goes on. The client of the page
  walk may stop at any time.
- `ReapRows!FairSpec`. Each worker reaps again and again, and PostgreSQL finds every deadlock.
- `MCParts!Fairness`. `Cli`: the loop runs what is ready, and a task that was cancelled ends.
  `RobotsLoad`: httpx gives up on a server that is silent.
- `LeaseClock` and `DbReporter` state no fairness; `LeaseClock` bounds what happens when by the clock.

### Findings

Three statements of the documentation or of a comment do not hold of the code. Each is the single
property of a run that TLC refutes; `PROJECT.json` quotes the lines.

1. *A cancelled crawl that goes silent is aborted* (`docs/service.md`, Reaper). A cancel that commits
   between the first and the second UPDATE of `reap()` is seen by neither: the crawl is queued again or,
   without attempts left, fails as "worker lost". If it is queued, the flag survives the next
   claim, so the extra run is aborted by its first heartbeat. (`cancel_race`)
2. *`--max-pages` caps `pages_total`* (`docs/data-model.md`). The hops of the seed's redirect chain are
   counted before the limit is first looked at. What holds instead is `PagesCapped`.
   (`redirects_past_limit`)
3. *Repeated keys keep their order in the canonical key* (`urls.py`, `docs/design-decisions.md`). The
   parameters are sorted by their raw key and the escapes are folded afterwards, so `?a=2&%61=1` and
   `?a=1&a=2` are taken for one page. What holds instead, for keys that are spelled plainly, is part of
   `SpellingIsNoMatter`. (`urls_repeated`)

Smaller differences that were met on the way and are modelled as the code is:

- `docs/architecture.md` says that an exception anywhere in the pipeline fails one page. The handler
  reports the failed page; if the reporter raises again, the exception ends the TaskGroup (`TaskRaises`).
- `docs/service.md` says that the pages you read never mix two runs. True of the stored pages, and so of
  each response; a client that walks the pages while the crawl is run again carries its cursor from one run
  into the next. `WalkIsComplete` therefore excepts a client that holds pages of an earlier run.
- `docs/design-decisions.md` (line 89) says that matching follows RFC 9309 section 2.2. `robots.py` departs
  from it where
  - two groups name one agent: only the first applies, where 2.2.1 combines them;
  - a group names only the beginning of our name: it is taken for ours;
  - a rule has `%2A` or `%24`: it is special like `*` or `$`, where 2.2.3 makes it literal;
  - the path has an escaped newline: no `*` covers it;
  - a line that is no rule (`Sitemap`, `Crawl-delay`) stands between two user-agent lines: it ends the list of
    names, which by 2.2.4 only a rule does.

  `IsUndisputed` excludes the files and paths with one of these, and `FollowsRfc` says that for all others the
  answer is that of the RFC. Two more departures are outside the model's characters: a match is measured in
  characters of the rule as written and not in octets, and escapes that the RFC keeps, such as `%2F`, are
  unquoted too.
- A `robots.txt` longer than the cap is cut within a line, so that its last rule may be read as a shorter one.
- A redirect of `robots.txt` to a location that is no URL is not caught as unreachable but ends the crawl
  (`SeedRaises`). The loader has no budget of its own: only the gap between two chunks is bounded.
- `prepare_seed` takes `example.com/?next=http://x` for a URL with an unsupported scheme.
- `LEASE_SECONDS` equal to `HEARTBEAT_SECONDS` is accepted, although a worker with such a lease loses
  it between two heartbeats (`LeaseCovers` says what it takes).
- `--request-budget nan` passes every check of `CrawlConfig`; through the API it cannot be set.
- A closed pipe exits with 0, which `docs/cli.md` does not list and the tests require.
- A seed whose host has a label that is too long for DNS is a 500 and not a 422: the resolver raises a
  `UnicodeError`, which `private_host_reason` does not catch.

## 4. What is proved

TLAPS checks the proofs of eight modules. They hold for all values of the constants under the
assumptions named beside the constants: limits and bounds are natural numbers, null values are no members
of their sets, and, for a crawl, the URLs and tasks are finitely many. `Workers`, `Crawls` and
`Reapers` may be any sets; in `DbReporter` no worker is called "none", which stands for a row without
`worker_id`.

| theorem | states |
|---|---|
| `CrawlWorkerProof!TypeCorrect` | `Spec => []TypeOK` |
| `CrawlWorkerProof!WorkerIdIsAFence`, `PagesAreOfOneRun`, `AttemptsBounded` | `Spec => []WorkerIdFences`, `[]PagesOfLatestLease`, `[]AttemptsLeftInQueue` |
| `CrawlWorkerProof!SettledIsFinal` | `Spec => TerminalIsFinal` |
| `CrawlWorkerProof!PagesWithoutGaps`, `FinishedHasAllPages` | `Spec => []PagesGapFree`, `[]FinishedIsComplete` |
| `CrawlWorkerProof!ServiceImplementsLifecycle` | `Spec => ImplementsLifecycle` |
| `ReapRowsProof!ReapsAreSound` | `Spec => ReapIsSound` |
| `DbReporterProof!NoPageIsDropped`, `NoWakeUpIsLost`, `CleanCloseStoresAll` | `Spec => []NothingIsDropped`, `[]NobodyWaitsInVain`, `[]CleanCloseIsComplete` |
| `DbReporterProof!TableIsAPageLog` | `Spec => ImplementsPageLog` |
| `LeaseClockProof!TypeCorrect` | `Spec => []TypeOK` |
| `LeaseClockProof!LetsGo`, `SilenceBounded`, `LeaseSuffices` | `Spec => []LetsGoInTime`, `[]SilenceIsNoticed` (if a call takes less than a lease), `[]LeaseIsKept` |
| `CrawlReaderProof!TypeCorrect` | `ReaderSpec => []TypeOK` |
| `CrawlReaderProof!WalkExact`, `StreamTold` | `ReaderSpec => []WalkIsExact`, `[]StreamTellsOutcome` |
| `CrawlCoreProof!TypeCorrect` | `Spec => []TypeOK` |
| `CrawlCoreProof!ReportedOnce`, `PagesAccounted`, `LimitKept` | `Spec => []OncePerKey`, `[]Accounted`, `[]PagesCapped` |
| `CrawlCoreProof!StoppedForGood` | `Spec => StopsForGood` |
| `CrawlCoreProof!CrawlIsAWalk` | `Spec => ImplementsSiteWalk` |
| `FetchProof!TypeCorrect` | `Spec => []TypeOK` |
| `FetchProof!CapKept`, `MemoryKept`, `RetriesBounded` | `Spec => []CapIsExact`, `[]MemoryIsBounded`, `[]RetriesAreBounded` |
| `PartsProof!RunsAreReported`, `AcceptanceIsBinding`, `SeedsArePublic`, `SettingsAreUsable`, `LoadsAreSafe` | `Spec => []RunIsReported`, `[]AcceptanceIsKept`, `[]FetchedIsPublic`, `[]RunningCanLease`, `[]LoadIsSafe` |
| `PartsProof!PoliciesAreOurs`, `EveryFileIsObeyed` | `Spec => []PolicyIsOurs`, and `Rules!PolicyIsOurs` for every file and path |
| `PartsProof!SpellingsDoNotMatter`, `EverySpellingIsNoMatter` | `Spec => []SpellingIsNoMatter`, and `Urls!SpellingIsNoMatter` for every two texts |

### The workers: CrawlWorkerProof

*Type correctness* needs more than `TypeOK`: that a worker with a job has a crawl and not `NoCrawl`,
that only so many rows are buffered as were numbered, and that a job past its crawl has an outcome.
That is `TypeInv`. There is a lemma for each transaction and one for each group of actions.

*The fence.* `WorkerIdFences` says of a row that carries the id of a worker at work on it that the
row is of that worker's own claim and is running, or was settled by its own final write whose
acknowledgement was lost. It is not inductive: a reaper that commits must be known to clear the id of
every row it settles or requeues, and that needs to know that the rows it has locked are still
running when it commits. The inductive invariant is

    IInv == TypeInv /\ LockInv /\ AttemptsInv /\ WorkerIdFences /\ PagesOfLatestLease

`LockInv`: a row that a reaper has locked is running, is locked by no other reaper, and has an attempt
left if it is to be requeued. `AttemptsInv`: attempts never exceed the maximum and are below it
while a crawl is queued. `PagesOfLatestLease` follows from the fence: a batch passes the WHERE clause
only under the claim that fetched it.

The step is not proved action by action but from two sides. `TableStep` lists the
transactions a step may commit and what is known of the worker that commits it (lemmas
`ClaimLoopTable`, `RunJobTable`, `EndJobTable`, `NextTable`); `JobStep` says how little a step changes of a worker
that keeps its job (`ClaimLoopJob`, `RunJobJob`, `EndJobJob`, `NextJob`). `RowKept` and `Callers` combine
them. `SettledIsFinal` is an action property proved from `IInv` with `SettledStays`.

*The pages.* `PagesInv` adds two parts to `IInv`. `Contiguous`: the stored pages of a crawl are 1..n of
its latest claim. `WorkersInOrder` counts: while the row carries a worker's id, n is at least what
the worker has dropped from its buffer and at most what it has numbered, and it is all of it when the job is
about to be recorded as finished. The lower bound makes the next batch start at n + 1 or before, so that no gap
opens and a batch that is sent again adds only what is missing; the upper bound makes a full drain
complete. A worker that lost its lease is exempt, and writes no terminal state (`GivenUp`).
`FinishedHasAllPages` needs in addition that only a final write makes a crawl `finished`
(`FinishedByItsJob`) and that nothing changes it afterwards (`SettledStays`).

*The lifecycle.* `ServiceImplementsLifecycle` maps a step of the service to a step or a stutter of
`CrawlLifecycle` for each crawl: a transaction about one row leaves the others alone, and the commit of a
reap is a step of each row it touches. The guards of the abstract actions come from the invariants: an attempt
left for a start or a lost run (`AttemptsInv`, `LockInv`), an attempt to hand back (`RunsCounted`), and a running
state for pages and for the end of a run (the fence).

### The reaper row by row: ReapRowsProof

    IInv == TypeOK /\ AttemptLeft /\ OneHolder /\ \A r \in Reapers : Sound(txn[r])

`Sound` says how far a reaper may trust what it saw. `SnapshotHolds`: a row that a snapshot counts as expired
still is, since whatever refreshes a row takes it out of all snapshots, which is what PostgreSQL's recheck
amounts to. `LockedHolds`: a row it has locked is running, expired and, if it is to be queued again, has an
attempt left and no cancel that the first statement saw. `AskedFirst`: a cancel the reap knows of is
answered by its first statement or by somebody else. `OneHolder` is the lock. Together they give the
three parts of `ReapIsSound`, deadlocks and rollbacks included.

### The page buffer: DbReporterProof

    IInv == JobsOK /\ EventInv /\ TableInv

The buffer, a batch in flight and the table are runs of consecutive seqs that overlap (`InBuffer`, `InTable`,
`PagesOK`): the buffer ends with the last page reported, the batch is the oldest part of it, the table is 1..n, and
neither buffer nor batch starts beyond n + 1. Whichever of them commits next therefore leaves no gap and adds only
what is missing, a transaction whose client is gone (`OrphansInTable`) included. What keeps a batch from
committing under a claim that is not its own is the row lock: `LockHolds` says that while a call or an orphan
holds it the row stays as SELECT saw it, so that no claim comes in between. `EventInv` is about the
event: until a flush fails it is set whenever a full batch waits that nobody is writing, also when the batch filled
during another one. `InPhase` ties the coroutines of a job to its calls; from it follows that the writing
lock is never left behind. The refinement of `PageLog` is then that only a commit adds pages (`GrowthIsAppend`).

### The lease: LeaseClockProof

A deadline in the model is a wait that `Tick` does not outlast, and the properties follow from how such waits
add up. `Crawls` and `Records`: A began its current sleep or call less than a lease and an interval after its last
good heartbeat, or after its first final write, for it would have given up otherwise. `Owns`: what A believes of
its lease is at most a call younger than what the row says. `Lost`: when the crawl was taken from A, what A believed
had run out but for a call. `Rounds` and `Takes`: a call of B is no older than `CallTime`, and B gets only what was
taken from A. `SilenceBounded` adds `Watches`, about when B polls next, when its last reap began and what a call
that is under way has still to do; a reap must have returned before the next one is due, hence the assumption that
a call takes less than a lease. `LeaseSuffices` adds how old the row can be in each phase of a job that
nothing troubled.

### The fetch: FetchProof

`Reading`: as long as a body is read it was kept whole and is within the cap; hence `Room` is never 0, which
zlib would take for unlimited, and a body that ends there is all of it. `Pending`: only the last step sets the
result. `Counted` relates the requests to the attempts at each place of the loop, `Waited` bounds the sum of the
sleeps by the attempts.

### The crawl: CrawlCoreProof

    IInv == TypeOK /\ Apart /\ OncePerKey /\ Seeding /\ Unfinished /\ Accounted /\ Capped /\ PagesCapped

`OncePerKey` holds because the keys of what is queued, held by a task or reported are distinct and all of them
seen (`Apart`), the hops of the seed's chain included (`Seeding`). `Unfinished` says that the counter of
`join()` is the number of queued URLs and of tasks with a page, so that it is never decremented below zero.
`Capped` is the limit on `claimed`, from which, with `Accounted`, that on the pages follows.

The refinement needs more: `Linked` says that what is queued or held is permitted and
linked from a reported page, that every permitted link is seen, and that, until the crawl stops, nothing seen
is lost. Each step is then a step of the walk or a stutter; `Join` of an unstopped crawl is `Complete`, for
`unfinished = 0` leaves no URL but the reported ones.

### The readers: CrawlReaderProof

`Walked`: the pages read are the seqs up to the cursor, each of one run. `Current`: a client whose pages are all
of the latest run has not read beyond that run's pages. `Ended`: a terminal state in a row that was read or an
event that was sent is that of the crawl. `Attempted` lets a run be handed back. `GetPages` takes the last seq
of a response with CHOOSE: `After` and its lemmas show that a response is a contiguous piece behind the cursor,
and that a short one is the last.

### The parts: PartsProof

Each part has an invariant of its own, and a step of `MCParts` is a step of one part. `Startup`: whatever the
environment, the values read pass the checks before the process runs; the null values are no numbers
(`NoNumbers`). `RobotsLoad`: until the end there is no policy; a body is read only after a 200 (`said`, the
status of the last answer); `vetted` is reset by every redirect; a body that is still being read is within the
cap. `Submission`: from validation on the body is one that the checks of the API accept, and these imply those
of `CrawlConfig` (`Runnable`); there is no row before 202 or 500. `Cli`: what is printed on an open stdout is
determined by the number of pages and the stage (`Printed`), and from the end of the crawl the exit code is that
of its outcome unless a stream is broken or, where asyncio has no signal handlers, an interrupt made it 130
(`Told`).

`RobotsRules` and `Urls` have no state but a question and its answer. That the answer to the questions of
`MCParts` is right says little, so what is proved is that it is right for every question: `EveryFileIsObeyed`
for every sequence of lines and every path, `EverySpellingIsNoMatter` for every two texts with a path of any
segments and a query of any parameters. `RulesInv` and `UrlsInv` then only say that the questions asked are of
that kind. What is left of the instance are the atoms: the characters of `Chars` (all strings, of which the
model decodes and folds those of its tables), the schemes and hosts of `MCParts`, and keys written with
`Letters`, the characters that the model orders.

*Folds.* The loops of the code are folds, and a fold is a function chosen to satisfy an equation over the
subsets of the positions. `FoldExists` shows that the equation has a solution, `FoldRun` that its values form a
run: the state of the loop after each element (`ParseRun`, `LookRun`, `FindRun`, `ReachRun`, `DotsRun`,
`SortRun`). The induction theorems of the library take a formula as parameter; `NatSetInduction` and `UpTo` are
induction for a set, from the least number that it leaves out.

*Rules.* `GroupOf(run, k)`, how many groups there are after line k, is the group that the line goes to. Line by
line, `LinesRead` holds: the group number never falls (`Numbered`), and a further user-agent line joins the
group if only unreadable lines have come since the last one (`Naming`); what `_select_group` would choose so far
is the group of the line that `IsPick` would name so far (`Picked`); the rules and the delay kept of a group are
those of the lines that go to it (`Kept`). Hence the rules of the group applied are those of `OurLines`
(`HoldsOurs`). `ReachLies` says that the positions a pattern can have reached after k elements are the ends of
the ways in which its first k elements lie along the text. `AllowsAsItShould` compares the longest match with
`ShouldAllow`. In an undisputed file the RFC's reading is the same, part by part: the names of a group are those
of the code's (`GroupHeadsAre`), our name or else `*` is on one line, which is the pick (`PickIsNamed`,
`CombinedAreOurs`), and a pattern without escaped specials matches what it covers (`MatchesAsItCovers`);
`RfcAllowsAsWell` puts them together.

*URLs.* The segments kept by `_remove_dot_segments` are a stack. `StacksRun`: after k segments it holds, in
order, the names up to k that survive, that is, behind which no stretch has more `..` than names (`Survives`);
hence the path is the resolved one (`StackResolves`). A query says which value each key is given the first time,
the second and so on (`Given`). `Inserting` and `SortRun`: the stable sort keeps what a query says and orders
its keys, for `AtMost` is a total order of them (`AtMostTotal`). Two texts are spellings of one exactly if
folding their escapes makes them equal (`TextsSame`), and `SameQuery` is that the two queries, folded, say the
same (`QueriesSame`). `SameAll`: two ordered queries that say the same are the same, parameter by parameter, but
for the escapes of values. With plain keys two canonical keys are therefore equal exactly if the pages are the
same (`KeyParts`, `PageParts`).

### Only model-checked

- Every liveness property (`EveryCrawlSettles`, `EveryCrawlEnds`, `StreamEnds`, `FetchReturns`,
  `SilentRunsAreReaped`, `PartsEnd`): TLAPS has no support for fairness and ENABLED here.
- That deadlock is impossible where a run checks it.

Every invariant and every other action property or refinement that a passing run checks is stated by a theorem.

Nothing in the modules is RECURSIVE: folds and sequences do what the code does in loops.

## 5. What is not modelled

- `parser.py`, a pure function of a body over an HTML library: the links of a page are a constant of
  `CrawlCore`. The splitting of a URL (`urlsplit`), the table of public addresses (`ipaddress`) and the codecs
  are those of the standard library.
- The list of crawls and the health check of the API, which change nothing; the set-up of the processes
  (engine, client, logging); formatting, the progress line, log lines, per-kind counters.
- Migrations, the compose file (except that it restarts workers), the tests and the benchmark are not part of
  the running program.
- The order of the frontier, and therefore which pages a limited crawl visits. A task that calls `get()` on a
  queue that is not empty does not suspend; the model lets other tasks run in between. It has more behaviours
  than the code, never fewer.
- The guard and the fetch each resolve the host, and the answer may change between the two; the repository
  documents it (`docs/service.md`, "The seed guard resolves, it does not pin"). `FetchedIsPublic` is about the
  answer the guard got.
- Signals before the event loop runs or after it has ended, and a KeyboardInterrupt that tears a step of the
  loop on a platform without signal handlers.
- Three hazards have no property, or none for a part: an infinite `Crawl-delay` (there is no clock in
  `CrawlCore`, and the code bounds nothing), a rule of `robots.txt` that the cap cuts short (the code reads what
  is left, and nothing says it should not; `LoadIsSafe` only sees to a character that is cut in two) and the
  stats of an earlier run that a newly claimed row shows until its first heartbeat (the documentation does not
  say what it should show).

## 6. Plan

Done, in this order: the tables and workers with the proofs of the fence; the lifecycle and the refinement;
the crawl, the readers, the fetch; the page reporter, the reaper row by row, the lease in time; robots.txt,
URLs, submission, startup and the command line; the proofs of the lease, the fetch, the crawl with its
refinement, and the readers; the proofs of the pages and of the lifecycle, of the reaper row by row, of the page
buffer with its refinement, and of the parts; the proofs for every file of `robots.txt` and every spelling of a
URL.

What could follow:

1. That a batch of `DbReporter` is a flush of `CrawlWorker`: the refinement between the two, so that what is proved
   of the service rests on the detail of the buffer and not on its summary.
2. A clock in `CrawlCore`, for the order in which tasks get the lock of the crawl delay and for delays without end.
