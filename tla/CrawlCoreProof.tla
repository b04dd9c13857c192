---------------------------- MODULE CrawlCoreProof ----------------------------
(***************************************************************************)
(* Proofs about CrawlCore, for every site, robots.txt, configuration and   *)
(* number of tasks: no page is reported twice, the statistics account for  *)
(* every page, --max-pages is kept, a crawl that stops claims no more, and *)
(* what is reported is a walk of the site.                                 *)
(***************************************************************************)
EXTENDS CrawlCore, FiniteSetTheorems, TLAPS

-----------------------------------------------------------------------------
(***************************************************************************)
(* The inductive invariant.                                                *)
(***************************************************************************)

Reported == {u \in Urls : reports[u] > 0}

\* The tasks that hold a page they have claimed and not reported.
Busy == {t \in Tasks : task[t].at # "get"}

KeyOf(t) == Key[task[t].url]

\* A page that was reported or is in the hands of a task or the queue was seen; and
\* these three have no page in common, whatever it is called.
Apart ==
  /\ \A u \in Reported : Key[u] \in seen
  /\ phase = "crawl" =>
       /\ \A t \in Busy : task[t].url \in Urls /\ KeyOf(t) \in seen
       /\ \A u \in queue : Key[u] \in seen
       /\ \A u \in Reported, v \in queue : Key[u] # Key[v]
       /\ \A u \in Reported, t \in Busy : Key[u] # KeyOf(t)
       /\ \A u \in queue, t \in Busy : Key[u] # KeyOf(t)
       /\ \A u, v \in queue : Key[u] = Key[v] => u = v
       /\ \A s, t \in Busy : KeyOf(s) = KeyOf(t) => s = t

\* Before the tasks start there is only the end of the redirect chain.
Seeding ==
  phase = "seed" =>
    /\ Key[url] \in seen /\ \A u \in Reported : Key[u] # Key[url]
    /\ queue = {} /\ unfinished = 0 /\ ~stopping
    /\ \A t \in Tasks : task[t] = Idle
    /\ ok = hops /\ failed = 0
    /\ Cardinality(Reported) = Pages

\* join() waits for the queue and for the tasks that hold a page.
Unfinished == phase = "crawl" => unfinished = Cardinality(queue) + Cardinality(Busy)

\* The limit counts what is claimed.
Capped ==
  phase = "crawl" /\ setup.max_pages # NoLimit =>
    claimed <= setup.max_pages \/ claimed <= hops + 1

IInv ==
  /\ TypeOK /\ Apart /\ OncePerKey /\ Seeding /\ Unfinished
  /\ Accounted /\ Capped /\ PagesCapped

-----------------------------------------------------------------------------
(***************************************************************************)
(* Facts about the operators.                                              *)
(***************************************************************************)

LEMMA SetupFacts ==
  ASSUME setup \in Setups
  PROVE  /\ setup.seed \in Urls
         /\ \A u \in Urls : setup.links[u] \subseteq Urls /\ Target(u) \subseteq Urls
         /\ setup.max_pages # NoLimit => setup.max_pages \in Nat
         /\ setup.max_seed_redirects \in Nat
<1>1. setup \in Setup
  BY SetupsAssumption
<1>2. /\ setup.seed \in Urls
      /\ setup.links \in [Urls -> SUBSET Urls]
      /\ setup.location \in [Urls -> Urls \cup {NoUrl}]
      /\ setup.max_pages \in (Nat \ {0}) \cup {NoLimit}
      /\ setup.max_seed_redirects \in Nat
  BY <1>1 DEF Setup
<1> QED
  BY <1>2 DEF Target

\* Of Enqueue: some set of permitted new links, one for each new key, joins the queue.
Added(links, new, done) ==
  /\ \A u \in new : u \in links /\ Permitted(u) /\ Key[u] \notin seen
  /\ \A u \in links : Permitted(u) => Key[u] \in seen \/ \E v \in new : Key[v] = Key[u]
  /\ \A u, v \in new : Key[u] = Key[v] => u = v
  /\ queue' = queue \cup new
  /\ \A k : k \in seen' <=> k \in seen \/ \E v \in new : Key[v] = k
  /\ unfinished' = unfinished + Cardinality(new) - done

LEMMA Enqueuing ==
  ASSUME NEW links \in SUBSET Urls, NEW done, Enqueue(links, done)
  PROVE  \E new \in SUBSET Urls : Added(links, new, done)
<1> DEFINE fresh == {l \in links : Permitted(l) /\ Key[l] \notin seen}
<1>1. PICK new \in SUBSET fresh :
        /\ Keys(new) = Keys(fresh)
        /\ \A a, b \in new : Key[a] = Key[b] => a = b
        /\ queue' = queue \cup new
        /\ seen' = seen \cup Keys(new)
        /\ unfinished' = unfinished + Cardinality(new) - done
  BY DEF Enqueue
<1>2. \A u \in fresh : \E v \in new : Key[v] = Key[u]
  <2> TAKE u \in fresh
  <2>1. Key[u] \in Keys(new)
    BY <1>1 DEF Keys
  <2> QED
    BY <2>1 DEF Keys
<1>3. \A k : k \in seen' <=> k \in seen \/ \E v \in new : Key[v] = k
  BY <1>1 DEF Keys
<1>4. Added(links, new, done)
  BY <1>1, <1>2, <1>3 DEF Added
<1> QED
  BY <1>4

LEMMA AddingNothing ==
  ASSUME unfinished \in Nat, UNCHANGED <<seen, queue>>, TaskDone
  PROVE  Added({}, {}, 1)
BY FS_EmptySet DEF Added, TaskDone

LEMMA FiniteParts ==
  ASSUME TypeOK
  PROVE  /\ IsFiniteSet(queue) /\ IsFiniteSet(Busy) /\ IsFiniteSet(Reported)
         /\ Cardinality(queue) \in Nat /\ Cardinality(Busy) \in Nat
         /\ Cardinality(Reported) \in Nat
<1>1. queue \subseteq Urls /\ Busy \subseteq Tasks /\ Reported \subseteq Urls
  BY DEF TypeOK, Busy, Reported
<1>2. IsFiniteSet(queue) /\ IsFiniteSet(Busy) /\ IsFiniteSet(Reported)
  BY <1>1, FiniteAssumption, FS_Subset
<1> QED
  BY <1>2, FS_CardinalityType

LEMMA PagesType ==
  ASSUME ok' \in Nat, failed' \in Nat
  PROVE  Pages' \in Nat
<1> DEFINE good == ok'
           bad == failed'
<1>1. good \in Nat /\ bad \in Nat
  OBVIOUS
<1> HIDE DEF good, bad
<1>2. good + bad \in Nat
  BY <1>1
<1> QED
  BY <1>2 DEF good, bad, Pages

-----------------------------------------------------------------------------
(***************************************************************************)
(* Initial states, and the steps that end the crawl.                       *)
(***************************************************************************)

LEMMA InitIInv == Init => IInv
<1> SUFFICES ASSUME Init PROVE IInv
  OBVIOUS
<1>1. setup \in Setups /\ setup.seed \in Urls /\ Key[setup.seed] \in Urls
  BY SetupFacts, UrlFunctions DEF Init
<1>2. Reported = {}
  BY DEF Init, Reported
<1>3. TypeOK
  BY <1>1 DEF Init, TypeOK, Task, Idle
<1>4. Apart /\ OncePerKey /\ Unfinished /\ Capped
  BY <1>2 DEF Init, Apart, OncePerKey, Unfinished, Capped
<1>5. Seeding
  BY <1>2, FS_EmptySet DEF Init, Seeding, Pages
<1>6. Accounted
  BY <1>2, FS_EmptySet DEF Init, Accounted, Reported, Pages, Crawling
<1>7. PagesCapped
  BY DEF Init, PagesCapped, Pages
<1> QED
  BY <1>3, <1>4, <1>5, <1>6, <1>7 DEF IInv

\* The crawl is over, and nothing but what was counted changes.
LEMMA Leaving ==
  ASSUME IInv, phase' \in Over,
         UNCHANGED <<chainVars, seen, queue, claimed, reports, found>>,
         task' \in [Tasks -> Task], failures' \in Nat, unfinished' \in Nat,
         stopping' \in BOOLEAN, aborted' \in BOOLEAN,
         ok' \in Nat, failed' \in Nat,
         setup.reporter_raises \/ UNCHANGED <<ok, failed>>
  PROVE  IInv'
<1>1. phase' \notin {"seed", "crawl"}
  BY DEF Over
<1>2. TypeOK'
  BY DEF IInv, TypeOK, chainVars
<1>3. Apart' /\ Seeding' /\ Unfinished' /\ Capped'
  BY <1>1 DEF IInv, Apart, Seeding, Unfinished, Capped, Reported
<1>4. OncePerKey'
  BY DEF IInv, OncePerKey
<1>5. Accounted'
  BY <1>1 DEF IInv, Accounted, Pages, Crawling, chainVars
<1>6. PagesCapped'
  BY DEF IInv, PagesCapped, Pages, chainVars
<1> QED
  BY <1>2, <1>3, <1>4, <1>5, <1>6 DEF IInv

LEMMA StepLeaving ==
  ASSUME IInv, SeedRefused \/ SeedRaises \/ Join \/ Cancel
  PROVE  IInv'
<1>1. /\ task \in [Tasks -> Task] /\ failures \in Nat /\ unfinished \in Nat
      /\ stopping \in BOOLEAN /\ aborted \in BOOLEAN /\ ok \in Nat /\ failed \in Nat
  BY DEF IInv, TypeOK
<1>2. CASE SeedRefused \/ Join \/ Cancel
  <2>1. /\ phase' \in Over
        /\ UNCHANGED <<chainVars, frontierVars, task, stopVars, statsVars>>
    BY <1>2 DEF SeedRefused, Join, Cancel, Over
  <2>2. UNCHANGED <<chainVars, seen, queue, claimed, reports, found>>
    BY <2>1 DEF frontierVars, stopVars, statsVars
  <2>3. UNCHANGED <<task, failures, unfinished, stopping, aborted, ok, failed>>
    BY <2>1 DEF frontierVars, stopVars, statsVars
  <2> QED
    BY <1>1, <2>1, <2>2, <2>3, Leaving
<1>3. CASE SeedRaises
  <2>1. /\ phase' \in Over /\ failed' = failed /\ reports' = reports /\ found' = found
        /\ UNCHANGED <<chainVars, frontierVars, task, stopVars>>
    BY <1>3 DEF SeedRaises, Over
  <2>4. ok' = ok \/ (setup.reporter_raises /\ ok' = ok + 1)
    BY <1>3 DEF SeedRaises
  <2>5. ok' \in Nat /\ (setup.reporter_raises \/ ok' = ok)
    BY <1>1, <2>4
  <2>2. UNCHANGED <<chainVars, seen, queue, claimed, reports, found>>
    BY <2>1 DEF frontierVars, stopVars
  <2>3. UNCHANGED <<task, failures, unfinished, stopping, aborted, failed>>
    BY <2>1 DEF frontierVars, stopVars
  <2> QED
    BY <1>1, <2>1, <2>2, <2>3, <2>5, Leaving
<1> QED
  BY <1>2, <1>3

-----------------------------------------------------------------------------
(***************************************************************************)
(* The seed.                                                               *)
(***************************************************************************)

\* The page at the end of the chain is reported: it was not before.
LEMMA SeedReport ==
  ASSUME IInv, phase = "seed", NEW links \in SUBSET Urls, Report(url, links)
  PROVE  /\ url \in Urls /\ reports' \in [Urls -> Nat] /\ found' \subseteq Urls
         /\ Reported' = Reported \cup {url} /\ url \notin Reported
         /\ Cardinality(Reported') = Cardinality(Reported) + 1
         /\ OncePerKey'
<1>1. /\ url \in Urls /\ reports \in [Urls -> Nat] /\ found \subseteq Urls
      /\ \A u \in Reported : Key[u] # Key[url]
  BY DEF IInv, TypeOK, Seeding
<1>2. /\ reports' = [reports EXCEPT ![url] = @ + 1]
      /\ found' = found \cup links
  BY DEF Report
<1>3. url \notin Reported /\ reports[url] = 0
  BY <1>1 DEF Reported
<1>4. reports' \in [Urls -> Nat] /\ found' \subseteq Urls
  BY <1>1, <1>2
<1>5. reports'[url] = 1 /\ \A u \in Urls \ {url} : reports'[u] = reports[u]
  BY <1>1, <1>2, <1>3
<1>6. Reported' = Reported \cup {url}
  BY <1>1, <1>5 DEF Reported
<1>7. Cardinality(Reported') = Cardinality(Reported) + 1
  BY <1>3, <1>6, FiniteParts, FS_AddElement DEF IInv
<1>8. OncePerKey'
  <2> SUFFICES ASSUME NEW u \in Urls, NEW v \in Urls
               PROVE  /\ reports'[u] <= 1
                      /\ u # v /\ Key[u] = Key[v] => reports'[u] + reports'[v] <= 1
    BY DEF OncePerKey
  <2>1. \A w \in Urls \ {url} : Key[w] = Key[url] => reports'[w] = 0
    BY <1>1, <1>5 DEF Reported
  <2>2. /\ reports[u] <= 1 /\ reports[u] \in Nat /\ reports[v] \in Nat
        /\ u # v /\ Key[u] = Key[v] => reports[u] + reports[v] <= 1
    BY <1>1 DEF IInv, OncePerKey
  <2> QED
    BY <1>5, <2>1, <2>2
<1> QED
  BY <1>1, <1>3, <1>4, <1>6, <1>7, <1>8

LEMMA StepSeedHop ==
  ASSUME IInv, SeedHop
  PROVE  IInv'
<1>1. PICK target \in Target(url) :
        /\ ok' = ok + 1
        /\ Report(url, {target})
        /\ \/ /\ Key[target] \in seen
              /\ phase' = "seed_error"
              /\ UNCHANGED <<seen, url, hops>>
           \/ /\ Key[target] \notin seen
              /\ seen' = seen \cup {Key[target]}
              /\ url' = target /\ hops' = hops + 1
              /\ UNCHANGED phase
  BY DEF SeedHop
<1>2. phase = "seed" /\ UNCHANGED <<setup, queue, unfinished, task, stopVars, failed>>
  BY DEF SeedHop
<1>3. /\ TypeOK /\ url \in Urls /\ ok \in Nat /\ hops \in Nat /\ failed \in Nat
      /\ seen \subseteq Urls
  BY DEF IInv, TypeOK
<1>4. target \in Urls /\ Key[target] \in Urls
  BY <1>3, SetupFacts, UrlFunctions DEF TypeOK
<1>5. /\ reports' \in [Urls -> Nat] /\ found' \subseteq Urls
      /\ Reported' = Reported \cup {url} /\ url \notin Reported
      /\ Cardinality(Reported') = Cardinality(Reported) + 1
      /\ OncePerKey'
  BY <1>1, <1>2, <1>4, SeedReport
<1>6. /\ UNCHANGED <<claimed, failures, stopping, aborted>>
      /\ UNCHANGED <<setup, queue, unfinished, task, failed>>
  BY <1>2 DEF stopVars
<1>7. /\ Key[url] \in seen /\ queue = {} /\ unfinished = 0 /\ ~stopping
      /\ \A t \in Tasks : task[t] = Idle
      /\ ok = hops /\ failed = 0 /\ Cardinality(Reported) = ok + failed
      /\ \A u \in Reported : Key[u] \in seen
  BY <1>2 DEF IInv, Seeding, Apart, Pages
<1>8. ok' = ok + 1
  BY <1>1
<1>9. CASE Key[target] \in seen
  <2>1. seen' = seen /\ url' = url /\ hops' = hops
    BY <1>1, <1>9
  <2>2. phase' \in Over /\ phase' # "seed" /\ phase' # "crawl"
    BY <1>1, <1>9, Zenon DEF Over
  <2>3. TypeOK'
    BY <1>3, <1>5, <1>6, <1>8, <2>1, <2>2 DEF TypeOK
  <2>4. Apart' /\ Seeding' /\ Unfinished' /\ Capped'
    BY <1>5, <1>7, <2>1, <2>2 DEF Apart, Seeding, Unfinished, Capped
  <2>5. Accounted'
    BY <1>3, <1>5, <1>6, <1>7, <1>8, <2>1, <2>2 DEF Accounted, Pages, Crawling, Reported
  <2>6. PagesCapped'
    BY <1>3, <1>6, <1>7, <1>8, <2>1 DEF PagesCapped, Pages
  <2> QED
    BY <1>5, <2>3, <2>4, <2>5, <2>6 DEF IInv
<1>10. CASE Key[target] \notin seen
  <2>1. phase' = "seed" /\ seen' = seen \cup {Key[target]} /\ url' = target /\ hops' = hops + 1
    BY <1>1, <1>2, <1>10
  <2>2. TypeOK'
    BY <1>3, <1>4, <1>5, <1>6, <1>8, <2>1 DEF TypeOK
  <2>3. Apart' /\ Unfinished' /\ Capped'
    BY <1>5, <1>7, <2>1 DEF Apart, Unfinished, Capped
  <2>4. Seeding'
    <3>1. \A u \in Reported' : Key[u] # Key[target]
      BY <1>5, <1>7, <1>10
    <3>2. ok' = hops' /\ Cardinality(Reported') = ok' + failed' /\ failed' = 0
      BY <1>3, <1>5, <1>6, <1>7, <1>8, <2>1
    <3> QED
      BY <1>6, <1>7, <2>1, <3>1, <3>2 DEF Seeding, Pages
  <2>5. Accounted'
    BY <1>3, <1>5, <1>6, <1>7, <1>8, <2>1 DEF Accounted, Pages, Crawling, Reported
  <2>6. PagesCapped'
    BY <1>3, <1>6, <1>7, <1>8, <2>1 DEF PagesCapped, Pages
  <2> QED
    BY <1>5, <2>2, <2>3, <2>4, <2>5, <2>6 DEF IInv
<1> QED
  BY <1>9, <1>10

LEMMA StepSeedLands ==
  ASSUME IInv, SeedLands
  PROVE  IInv'
<1>1. /\ phase = "seed" /\ phase' = "crawl" /\ ok' = ok + 1 /\ claimed' = Pages + 1
      /\ UNCHANGED <<chainVars, task, failures, stopping, aborted, failed>>
  BY DEF SeedLands
<1>2. /\ TypeOK /\ setup \in Setups /\ url \in Urls /\ ok \in Nat /\ failed \in Nat
      /\ hops \in Nat /\ seen \subseteq Urls
  BY DEF IInv, TypeOK
<1>3. PICK links \in SUBSET Urls : Report(url, links) /\ Enqueue(links, 0)
  <2>1. setup.links[url] \in SUBSET Urls /\ {} \in SUBSET Urls
    BY <1>2, SetupFacts
  <2> QED
    BY <2>1 DEF SeedLands
<1>4. PICK new \in SUBSET Urls : Added(links, new, 0)
  BY <1>3, Enqueuing
<1>5. /\ reports' \in [Urls -> Nat] /\ found' \subseteq Urls
      /\ Reported' = Reported \cup {url} /\ url \notin Reported
      /\ Cardinality(Reported') = Cardinality(Reported) + 1
      /\ OncePerKey'
  BY <1>1, <1>3, SeedReport
<1>6. UNCHANGED <<setup, url, hops, task, failures, stopping, aborted, failed>>
  BY <1>1 DEF chainVars
<1>7. /\ Key[url] \in seen /\ queue = {} /\ unfinished = 0
      /\ \A t \in Tasks : task[t] = Idle
      /\ ok = hops /\ failed = 0 /\ Cardinality(Reported) = ok + failed
      /\ \A u \in Reported : Key[u] \in seen
  BY <1>1 DEF IInv, Seeding, Apart, Pages
<1>8. /\ queue' = new /\ unfinished' = Cardinality(new)
      /\ \A u \in new : Key[u] \notin seen
      /\ \A u, v \in new : Key[u] = Key[v] => u = v
      /\ \A k : k \in seen' <=> k \in seen \/ \E v \in new : Key[v] = k
  <2>1. IsFiniteSet(new) /\ Cardinality(new) \in Nat
    BY FiniteAssumption, FS_Subset, FS_CardinalityType
  <2> QED
    BY <1>4, <1>7, <2>1 DEF Added
<1>9. Busy' = {} /\ Cardinality(Busy') = 0
  <2>1. Busy' = {}
    BY <1>6, <1>7 DEF Busy, Idle
  <2> QED
    BY <2>1, FS_EmptySet
<1>10. IsFiniteSet(new) /\ Cardinality(new) \in Nat
  BY FiniteAssumption, FS_Subset, FS_CardinalityType
<1>11. TypeOK'
  <2>1. seen' \subseteq Urls
    BY <1>2, <1>8, UrlFunctions
  <2>2. claimed' \in Nat /\ ok' \in Nat
    BY <1>1, <1>2 DEF Pages
  <2> QED
    BY <1>1, <1>2, <1>5, <1>6, <1>8, <1>10, <2>1, <2>2 DEF TypeOK
<1>12. Apart'
  <2>1. \A u \in Reported' : Key[u] \in seen /\ Key[u] \in seen'
    BY <1>5, <1>7, <1>8
  <2>2. \A v \in queue' : Key[v] \in seen' /\ Key[v] \notin seen
    BY <1>8
  <2> QED
    BY <1>8, <1>9, <2>1, <2>2 DEF Apart
<1>13. Seeding'
  BY <1>1 DEF Seeding
<1>14. Unfinished'
  BY <1>8, <1>9, <1>10 DEF Unfinished
<1>15. Accounted' /\ Capped' /\ PagesCapped'
  <2>1. /\ Pages' = Cardinality(Reported') /\ claimed' = Pages' + Cardinality(Busy')
        /\ Pages' = hops + 1
    BY <1>1, <1>2, <1>5, <1>6, <1>7, <1>9 DEF Pages
  <2>2. claimed' = hops' + 1
    BY <1>2, <1>6, <1>9, <2>1
  <2> QED
    BY <1>2, <1>6, <2>1, <2>2 DEF Accounted, Capped, PagesCapped, Reported, Busy
<1> QED
  BY <1>5, <1>11, <1>12, <1>13, <1>14, <1>15 DEF IInv

-----------------------------------------------------------------------------
(***************************************************************************)
(* The tasks.                                                              *)
(***************************************************************************)

\* The page is dropped: nobody holds it any more.
LEMMA StepDrop ==
  ASSUME IInv, NEW t \in Tasks, Drop(t)
  PROVE  IInv'
<1>1. /\ phase = "crawl" /\ stopping' = TRUE /\ unfinished' = unfinished - 1
      /\ UNCHANGED <<phase, chainVars, seen, task, claimed, failures, aborted, statsVars>>
  BY DEF Drop, Crawling
<1>2. PICK u \in queue : queue' = queue \ {u}
  BY DEF Drop
<1>3. /\ UNCHANGED <<phase, setup, url, hops, seen, task, claimed, failures, aborted>>
      /\ UNCHANGED <<ok, failed, reports, found>>
  BY <1>1 DEF chainVars, statsVars
<1>4. Busy' = Busy /\ Reported' = Reported
  BY <1>3 DEF Busy, Reported
<1>5. Cardinality(queue') = Cardinality(queue) - 1 /\ Cardinality(queue') \in Nat
  BY <1>2, FiniteParts, FS_RemoveElement, FS_CardinalityType DEF IInv
<1>6. /\ Cardinality(queue) \in Nat /\ Cardinality(Busy) \in Nat
      /\ unfinished = Cardinality(queue) + Cardinality(Busy)
  BY <1>1, FiniteParts DEF IInv, Unfinished
<1>7. unfinished' = Cardinality(queue') + Cardinality(Busy') /\ unfinished' \in Nat
  BY <1>1, <1>4, <1>5, <1>6
<1>8. TypeOK'
  BY <1>1, <1>2, <1>3, <1>7 DEF IInv, TypeOK
<1>9. Apart'
  <2>1. \A s \in Tasks : KeyOf(s)' = KeyOf(s) /\ task'[s] = task[s]
    BY <1>3 DEF KeyOf
  <2> QED
    BY <1>1, <1>2, <1>3, <1>4, <2>1 DEF IInv, Apart, Busy
<1>10. OncePerKey' /\ Seeding' /\ Unfinished' /\ Capped' /\ PagesCapped'
  BY <1>1, <1>3, <1>7 DEF IInv, OncePerKey, Seeding, Unfinished, Capped, PagesCapped, Pages
<1>11. Accounted'
  BY <1>3 DEF IInv, Accounted, Pages, Crawling
<1> QED
  BY <1>8, <1>9, <1>10, <1>11 DEF IInv

\* The page goes from the queue to the task, and is counted against the limit.
LEMMA StepClaim ==
  ASSUME IInv, NEW t \in Tasks, Claim(t)
  PROVE  IInv'
<1>1. /\ phase = "crawl" /\ task[t].at = "get" /\ claimed' = claimed + 1 /\ ~LimitReached
      /\ UNCHANGED <<phase, chainVars, seen, unfinished, failures, stopping, aborted, statsVars>>
  BY DEF Claim, Crawling
<1>2. PICK u \in queue :
        /\ queue' = queue \ {u}
        /\ task' = [task EXCEPT ![t] =
                      [at |-> IF setup.crawl_delay THEN "delay" ELSE "fetch", url |-> u]]
  BY DEF Claim
<1>3. /\ UNCHANGED <<phase, setup, url, hops, seen, unfinished, failures, stopping, aborted>>
      /\ UNCHANGED <<ok, failed, reports, found>>
  BY <1>1 DEF chainVars, statsVars
<1>4. TypeOK /\ u \in Urls /\ task \in [Tasks -> Task]
  BY DEF IInv, TypeOK
<1>5. /\ task'[t].url = u /\ task'[t].at # "get" /\ task'[t] \in Task
      /\ \A s \in Tasks \ {t} : task'[s] = task[s]
      /\ task' \in [Tasks -> Task]
  BY <1>2, <1>4 DEF Task
<1>6. t \notin Busy /\ Busy' = Busy \cup {t} /\ Reported' = Reported
  BY <1>1, <1>3, <1>5 DEF Busy, Reported
<1>7. /\ Cardinality(queue') = Cardinality(queue) - 1
      /\ Cardinality(Busy') = Cardinality(Busy) + 1
      /\ Cardinality(queue) \in Nat /\ Cardinality(Busy) \in Nat
  BY <1>2, <1>4, <1>6, FiniteParts, FS_RemoveElement, FS_AddElement
<1>8. TypeOK'
  BY <1>1, <1>2, <1>3, <1>5 DEF IInv, TypeOK
<1>9. Apart'
  <2>1. KeyOf(t)' = Key[u] /\ \A s \in Busy : KeyOf(s)' = KeyOf(s) /\ task'[s] = task[s]
    BY <1>5, <1>6 DEF KeyOf, Busy
  <2>2. /\ \A s \in Busy : task[s].url \in Urls /\ KeyOf(s) \in seen
        /\ \A v \in queue : Key[v] \in seen
        /\ \A v \in Reported, w \in queue : Key[v] # Key[w]
        /\ \A v \in Reported, s \in Busy : Key[v] # KeyOf(s)
        /\ \A v \in queue, s \in Busy : Key[v] # KeyOf(s)
        /\ \A v, w \in queue : Key[v] = Key[w] => v = w
        /\ \A r, s \in Busy : KeyOf(r) = KeyOf(s) => r = s
        /\ \A v \in Reported : Key[v] \in seen
    BY <1>1 DEF IInv, Apart
  <2>3. \A s \in Busy' : task'[s].url \in Urls /\ KeyOf(s)' \in seen'
    BY <1>3, <1>4, <1>5, <1>6, <2>1, <2>2
  <2>4. \A v \in queue' : v \in queue /\ v # u
    BY <1>2
  <2>5. /\ \A v \in Reported', s \in Busy' : Key[v] # KeyOf(s)'
        /\ \A v \in queue', s \in Busy' : Key[v] # KeyOf(s)'
        /\ \A r, s \in Busy' : KeyOf(r)' = KeyOf(s)' => r = s
    BY <1>6, <2>1, <2>2, <2>4
  <2> QED
    BY <1>3, <1>6, <2>2, <2>3, <2>4, <2>5 DEF Apart
<1>10. OncePerKey' /\ Seeding' /\ PagesCapped'
  BY <1>1, <1>3 DEF IInv, OncePerKey, Seeding, PagesCapped, Pages
<1>11. Unfinished'
  BY <1>1, <1>3, <1>7 DEF IInv, Unfinished
<1>12. Accounted'
  <2>1. ~setup.reporter_raises => /\ Pages = Cardinality(Reported)
                                  /\ claimed = Pages + Cardinality(Busy)
    BY <1>1 DEF IInv, Accounted, Crawling, Reported, Busy
  <2>2. ok \in Nat /\ failed \in Nat /\ claimed \in Nat
    BY DEF IInv, TypeOK
  <2>3. ~setup'.reporter_raises =>
          Pages' = Cardinality(Reported') /\ claimed' = Pages' + Cardinality(Busy')
    BY <1>1, <1>3, <1>6, <1>7, <2>1, <2>2 DEF Pages
  <2> QED
    BY <2>3 DEF Accounted, Crawling, Reported, Busy
<1>13. Capped'
  <2>1. setup.max_pages # NoLimit => setup.max_pages \in Nat /\ claimed < setup.max_pages
    BY <1>1, <1>4, SetupFacts DEF IInv, TypeOK, LimitReached
  <2> QED
    BY <1>1, <1>3, <1>4, <2>1 DEF Capped, TypeOK
<1> QED
  BY <1>8, <1>9, <1>10, <1>11, <1>12, <1>13 DEF IInv

LEMMA StepDelayOver ==
  ASSUME IInv, NEW t \in Tasks, DelayOver(t)
  PROVE  IInv'
<1>1. /\ phase = "crawl" /\ task[t].at = "delay" /\ task' = [task EXCEPT ![t].at = "fetch"]
      /\ UNCHANGED <<phase, chainVars, frontierVars, stopVars, statsVars>>
  BY DEF DelayOver, Crawling
<1>2. /\ UNCHANGED <<phase, setup, url, hops, seen, queue, unfinished>>
      /\ UNCHANGED <<claimed, failures, stopping, aborted, ok, failed, reports, found>>
  BY <1>1 DEF chainVars, frontierVars, stopVars, statsVars
<1>3. task \in [Tasks -> Task]
  BY DEF IInv, TypeOK
<1>4. /\ task' \in [Tasks -> Task]
      /\ \A s \in Tasks : task'[s].url = task[s].url
      /\ \A s \in Tasks : task'[s].at # "get" <=> task[s].at # "get"
  BY <1>1, <1>3 DEF Task
<1>5. Busy' = Busy /\ Reported' = Reported /\ \A s \in Tasks : KeyOf(s)' = KeyOf(s)
  BY <1>2, <1>4 DEF Busy, Reported, KeyOf
<1>6. TypeOK'
  BY <1>2, <1>4 DEF IInv, TypeOK
<1>7. Apart'
  BY <1>1, <1>2, <1>4, <1>5 DEF IInv, Apart, Busy
<1>8. OncePerKey' /\ Seeding' /\ Unfinished' /\ Capped' /\ PagesCapped'
  BY <1>1, <1>2, <1>5
     DEF IInv, OncePerKey, Seeding, Unfinished, Capped, PagesCapped, Pages
<1>9. Accounted'
  BY <1>2, <1>5 DEF IInv, Accounted, Pages, Crawling, Reported, Busy
<1> QED
  BY <1>6, <1>7, <1>8, <1>9 DEF IInv

\* What a task that frees itself leaves.
LEMMA Freeing ==
  ASSUME TypeOK, NEW t \in Tasks, Fetching(t), Free(t)
  PROVE  /\ phase = "crawl" /\ t \in Busy /\ Busy' = Busy \ {t}
         /\ task' \in [Tasks -> Task]
         /\ \A s \in Busy' : task'[s] = task[s] /\ KeyOf(s)' = KeyOf(s)
         /\ Cardinality(Busy') = Cardinality(Busy) - 1 /\ Cardinality(Busy') \in Nat
<1>1. phase = "crawl" /\ task[t].at = "fetch" /\ task' = [task EXCEPT ![t] = Idle]
  BY DEF Fetching, Crawling, Free
<1>2. task \in [Tasks -> Task] /\ Idle \in Task
  BY DEF TypeOK, Task, Idle
<1>3. /\ task' \in [Tasks -> Task] /\ task'[t] = Idle
      /\ \A s \in Tasks \ {t} : task'[s] = task[s]
  BY <1>1, <1>2
<1>4. t \in Busy /\ Busy' = Busy \ {t}
  BY <1>1, <1>3 DEF Busy, Idle
<1>5. \A s \in Busy' : task'[s] = task[s] /\ KeyOf(s)' = KeyOf(s)
  BY <1>3, <1>4 DEF Busy, KeyOf
<1>6. Cardinality(Busy') = Cardinality(Busy) - 1 /\ Cardinality(Busy') \in Nat
  BY <1>4, FiniteParts, FS_RemoveElement, FS_CardinalityType
<1> QED
  BY <1>1, <1>3, <1>4, <1>5, <1>6

\* The page of a task is reported and some new links, if any, join the queue.
LEMMA Reporting ==
  ASSUME IInv, NEW t \in Tasks, Fetching(t), Free(t),
         NEW links \in SUBSET Urls, Report(task[t].url, links),
         NEW from, NEW new \in SUBSET Urls, Added(from, new, 1),
         UNCHANGED <<phase, chainVars, claimed>>,
         failures' \in Nat, stopping' \in BOOLEAN, aborted' \in BOOLEAN,
         ok' \in Nat, failed' \in Nat,
         ~setup.reporter_raises => Pages' = Pages + 1
  PROVE  IInv'
<1> DEFINE u == task[t].url
<1>1. /\ TypeOK /\ setup \in Setups /\ reports \in [Urls -> Nat] /\ found \subseteq Urls
      /\ seen \subseteq Urls /\ queue \subseteq Urls /\ ok \in Nat /\ failed \in Nat
      /\ claimed \in Nat
  BY DEF IInv, TypeOK
<1>2. /\ phase = "crawl" /\ t \in Busy /\ Busy' = Busy \ {t}
      /\ task' \in [Tasks -> Task]
      /\ \A s \in Busy' : task'[s] = task[s] /\ KeyOf(s)' = KeyOf(s)
      /\ Cardinality(Busy') = Cardinality(Busy) - 1 /\ Cardinality(Busy') \in Nat
  BY <1>1, Freeing
<1>3. UNCHANGED <<phase, setup, url, hops, claimed>>
  BY DEF chainVars
<1>4. /\ \A s \in Busy : task[s].url \in Urls /\ KeyOf(s) \in seen
      /\ \A v \in queue : Key[v] \in seen
      /\ \A v \in Reported, w \in queue : Key[v] # Key[w]
      /\ \A v \in Reported, s \in Busy : Key[v] # KeyOf(s)
      /\ \A v \in queue, s \in Busy : Key[v] # KeyOf(s)
      /\ \A v, w \in queue : Key[v] = Key[w] => v = w
      /\ \A r, s \in Busy : KeyOf(r) = KeyOf(s) => r = s
      /\ \A v \in Reported : Key[v] \in seen
  BY <1>2 DEF IInv, Apart
<1>5. /\ \A v \in new : Key[v] \notin seen
      /\ \A v, w \in new : Key[v] = Key[w] => v = w
      /\ queue' = queue \cup new
      /\ \A k : k \in seen' <=> k \in seen \/ \E v \in new : Key[v] = k
      /\ unfinished' = unfinished + Cardinality(new) - 1
  BY DEF Added
<1>6. u \in Urls /\ Key[u] = KeyOf(t) /\ u \notin Reported
  BY <1>2, <1>4 DEF KeyOf
<1>7. /\ reports' = [reports EXCEPT ![u] = @ + 1] /\ found' = found \cup links
  BY DEF Report
<1> HIDE DEF u
<1>8. reports[u] = 0
  BY <1>1, <1>6 DEF Reported
<1>9. /\ reports' \in [Urls -> Nat] /\ found' \subseteq Urls
      /\ reports'[u] = 1 /\ \A v \in Urls \ {u} : reports'[v] = reports[v]
  BY <1>1, <1>6, <1>7, <1>8
<1>10. Reported' = Reported \cup {u}
  BY <1>6, <1>9 DEF Reported
<1>11. Cardinality(Reported') = Cardinality(Reported) + 1 /\ Cardinality(Reported) \in Nat
  BY <1>1, <1>6, <1>10, FiniteParts, FS_AddElement
<1>12. /\ Cardinality(queue') = Cardinality(queue) + Cardinality(new)
       /\ Cardinality(queue) \in Nat /\ Cardinality(new) \in Nat /\ Cardinality(Busy) \in Nat
  <2>1. IsFiniteSet(new) /\ IsFiniteSet(queue)
    BY <1>1, FiniteAssumption, FS_Subset
  <2>2. queue \cap new = {}
    BY <1>4, <1>5
  <2>3. Cardinality(queue') = Cardinality(queue) + Cardinality(new) - Cardinality({})
    BY <1>5, <2>1, <2>2, FS_Union
  <2> QED
    BY <1>1, <2>1, <2>3, FiniteParts, FS_EmptySet, FS_CardinalityType
<1>13. unfinished = Cardinality(queue) + Cardinality(Busy)
  BY <1>2 DEF IInv, Unfinished
<1>14. unfinished' = Cardinality(queue') + Cardinality(Busy') /\ unfinished' \in Nat
  BY <1>2, <1>5, <1>12, <1>13
<1>15. TypeOK'
  <2>1. seen' \subseteq Urls /\ queue' \subseteq Urls
    BY <1>1, <1>5, UrlFunctions
  <2> QED
    BY <1>1, <1>2, <1>3, <1>9, <1>14, <2>1 DEF TypeOK
<1>16. Apart'
  <2>1. \A v \in Reported' : Key[v] \in seen /\ Key[v] \in seen'
    BY <1>2, <1>4, <1>5, <1>6, <1>10
  <2>2. \A s \in Busy' : s \in Busy /\ s # t /\ KeyOf(s)' = KeyOf(s) /\ task'[s].url \in Urls
    BY <1>2, <1>4
  <2>3. \A s \in Busy' : KeyOf(s)' \in seen'
    BY <1>4, <1>5, <2>2
  <2>4. \A v \in queue' : v \in queue \/ (v \in new /\ Key[v] \notin seen)
    BY <1>5
  <2>5. \A v \in queue' : Key[v] \in seen'
    BY <1>4, <1>5
  <2>6. \A v \in Reported', w \in queue' : Key[v] # Key[w]
    BY <1>2, <1>4, <1>6, <1>10, <2>1, <2>4
  <2>7. \A v \in Reported', s \in Busy' : Key[v] # KeyOf(s)'
    BY <1>2, <1>4, <1>6, <1>10, <2>2
  <2>8. \A v \in queue', s \in Busy' : Key[v] # KeyOf(s)'
    BY <1>4, <2>2, <2>4
  <2>9. \A v, w \in queue' : Key[v] = Key[w] => v = w
    BY <1>4, <1>5, <2>4
  <2>10. \A r, s \in Busy' : KeyOf(r)' = KeyOf(s)' => r = s
    BY <1>4, <2>2
  <2> QED
    BY <2>1, <2>2, <2>3, <2>5, <2>6, <2>7, <2>8, <2>9, <2>10 DEF Apart
<1>17. OncePerKey'
  <2> SUFFICES ASSUME NEW v \in Urls, NEW w \in Urls
               PROVE  /\ reports'[v] <= 1
                      /\ v # w /\ Key[v] = Key[w] => reports'[v] + reports'[w] <= 1
    BY DEF OncePerKey
  <2>1. \A x \in Urls \ {u} : Key[x] = Key[u] => reports'[x] = 0
    BY <1>1, <1>2, <1>4, <1>6, <1>9 DEF Reported
  <2>2. /\ reports[v] <= 1 /\ reports[v] \in Nat /\ reports[w] \in Nat
        /\ v # w /\ Key[v] = Key[w] => reports[v] + reports[w] <= 1
    BY <1>1 DEF IInv, OncePerKey
  <2> QED
    BY <1>9, <2>1, <2>2
<1>18. Seeding' /\ Capped'
  BY <1>2, <1>3 DEF IInv, Seeding, Capped
<1>19. Unfinished'
  BY <1>14 DEF Unfinished
<1>20. Pages \in Nat /\ Pages' \in Nat
  <2>1. Pages \in Nat
    BY <1>1 DEF Pages
  <2> QED
    BY <2>1, PagesType
<1>21. ~setup.reporter_raises =>
         Pages' = Cardinality(Reported') /\ claimed' = Pages' + Cardinality(Busy')
  <2>1. ~setup.reporter_raises => /\ Pages = Cardinality(Reported)
                                  /\ claimed = Pages + Cardinality(Busy)
    BY <1>2 DEF IInv, Accounted, Crawling, Reported, Busy
  <2> QED
    BY <1>2, <1>3, <1>11, <1>12, <1>20, <2>1
<1>22. Accounted'
  BY <1>3, <1>21 DEF Accounted, Reported, Busy
<1>23. PagesCapped'
  <2>1. Capped /\ claimed' = claimed /\ hops' = hops /\ hops \in Nat
    BY <1>3 DEF IInv, TypeOK
  <2>2. setup.max_pages # NoLimit => setup.max_pages \in Nat
    BY <1>1, SetupFacts
  <2> QED
    BY <1>1, <1>2, <1>3, <1>20, <1>21, <2>1, <2>2 DEF PagesCapped, Capped
<1> QED
  BY <1>15, <1>16, <1>17, <1>18, <1>19, <1>22, <1>23 DEF IInv

LEMMA StepPageOk ==
  ASSUME IInv, NEW t \in Tasks, PageOk(t)
  PROVE  IInv'
<1>1. /\ Fetching(t) /\ Free(t) /\ ok' = ok + 1 /\ failures' = 0
      /\ UNCHANGED <<phase, chainVars, claimed, stopping, aborted, failed>>
  BY DEF PageOk
<1>2. /\ TypeOK /\ ok \in Nat /\ failed \in Nat /\ stopping \in BOOLEAN /\ aborted \in BOOLEAN
  BY DEF IInv, TypeOK
<1>3. task[t].url \in Urls
  BY <1>1, <1>2, Freeing DEF IInv, Apart
<1>4. PICK links \in SUBSET Urls : Report(task[t].url, links) /\ Enqueue(links, 1)
  <2>1. LinkSets(task[t].url) \subseteq SUBSET Urls
    BY <1>2, <1>3, SetupFacts DEF LinkSets, TypeOK
  <2> QED
    BY <2>1 DEF PageOk
<1>5. PICK new \in SUBSET Urls : Added(links, new, 1)
  BY <1>4, Enqueuing
<1>6. /\ UNCHANGED <<phase, chainVars, claimed>>
      /\ stopping' \in BOOLEAN /\ aborted' \in BOOLEAN
      /\ failures' \in Nat /\ ok' \in Nat /\ failed' \in Nat
  BY <1>1, <1>2
<1>7. Pages' = Pages + 1
  BY <1>1, <1>2 DEF Pages
<1> QED
  BY <1>1, <1>4, <1>5, <1>6, <1>7, Reporting

\* A page without links: it failed, or reporting it did.
LEMMA ReportingNothing ==
  ASSUME IInv, NEW t \in Tasks, Fetching(t), Free(t), TaskDone,
         Report(task[t].url, {}),
         UNCHANGED <<phase, chainVars, seen, queue, claimed>>,
         failures' \in Nat, stopping' \in BOOLEAN, aborted' \in BOOLEAN,
         ok' \in Nat, failed' \in Nat,
         ~setup.reporter_raises => Pages' = Pages + 1
  PROVE  IInv'
<1>1. unfinished \in Nat /\ UNCHANGED <<seen, queue>>
      /\ UNCHANGED <<phase, chainVars, claimed>>
  BY DEF IInv, TypeOK
<1>2. Added({}, {}, 1)
  BY <1>1, AddingNothing
<1>3. {} \in SUBSET Urls
  OBVIOUS
<1> QED
  BY <1>1, <1>2, <1>3, Reporting

LEMMA StepPageFails ==
  ASSUME IInv, NEW t \in Tasks, PageFails(t)
  PROVE  IInv'
<1>1. /\ Fetching(t) /\ Report(task[t].url, {}) /\ Free(t) /\ TaskDone
      /\ failed' = failed + 1
      /\ UNCHANGED <<phase, chainVars, seen, queue, claimed, ok>>
  BY DEF PageFails
<1>2. /\ ok \in Nat /\ failed \in Nat /\ failures \in Nat
      /\ stopping \in BOOLEAN /\ aborted \in BOOLEAN
  BY DEF IInv, TypeOK
<1>3. failures' \in Nat /\ stopping' \in BOOLEAN /\ aborted' \in BOOLEAN
  <2>1. PICK counts \in BOOLEAN : CheckFuse(counts)
    BY DEF PageFails
  <2>2. CASE UNCHANGED <<failures, stopping, aborted>>
    BY <1>2, <2>2
  <2>3. CASE ~(aborted \/ ~counts)
    BY <1>2, <2>1, <2>3 DEF CheckFuse
  <2> QED
    BY <2>1, <2>2, <2>3 DEF CheckFuse
<1>4. /\ ok' \in Nat /\ failed' \in Nat
      /\ UNCHANGED <<phase, chainVars, seen, queue, claimed>>
  BY <1>1, <1>2
<1>5. Pages' = Pages + 1
  BY <1>1, <1>2 DEF Pages
<1> QED
  BY <1>1, <1>3, <1>4, <1>5, ReportingNothing

LEMMA StepPageRaises ==
  ASSUME IInv, NEW t \in Tasks, PageRaises(t) \/ ReportedAsInternal(t)
  PROVE  IInv'
<1>1. /\ Fetching(t) /\ Report(task[t].url, {}) /\ Free(t) /\ TaskDone
      /\ UNCHANGED <<phase, chainVars, seen, queue, claimed, stopping, aborted>>
  BY DEF PageRaises, ReportedAsInternal
<1>2. /\ ok \in Nat /\ failed \in Nat /\ failures \in Nat
      /\ stopping \in BOOLEAN /\ aborted \in BOOLEAN
  BY DEF IInv, TypeOK
<1>3. CASE PageRaises(t)
  <2>1. failed' = failed + 1 /\ failures' \in {failures, 0} /\ ok' = ok
    BY <1>3 DEF PageRaises
  <2>2. failed' \in Nat /\ failures' \in Nat /\ ok' \in Nat
    BY <1>2, <2>1
  <2>3. Pages' = Pages + 1
    BY <1>2, <2>1 DEF Pages
  <2> QED
    BY <1>1, <1>2, <2>2, <2>3, ReportingNothing
<1>4. CASE ReportedAsInternal(t)
  <2>1. setup.reporter_raises /\ CountedTwice
    BY <1>4 DEF ReportedAsInternal
  <2>2. failed' \in Nat /\ failures' \in Nat /\ ok' \in Nat
    BY <1>2, <2>1 DEF CountedTwice
  <2> QED
    BY <1>1, <1>2, <2>1, <2>2, ReportingNothing
<1> QED
  BY <1>3, <1>4

LEMMA StepTaskRaises ==
  ASSUME IInv, NEW t \in Tasks, TaskRaises(t)
  PROVE  IInv'
<1>1. /\ Fetching(t) /\ setup.reporter_raises /\ Free(t) /\ TaskDone
      /\ UNCHANGED <<chainVars, seen, queue, claimed, stopping, aborted, reports, found>>
  BY DEF TaskRaises
<1>2. /\ TypeOK /\ ok \in Nat /\ failed \in Nat /\ failures \in Nat /\ unfinished \in Nat
      /\ stopping \in BOOLEAN /\ aborted \in BOOLEAN
  BY DEF IInv, TypeOK
<1>3. phase' \in Over
  BY DEF TaskRaises, Over
<1>4. \/ CountedOnce \/ CountedTwice
      \/ failed' = failed + 1 /\ failures' \in {failures, 0} /\ UNCHANGED ok
  BY DEF TaskRaises
<1>5. ok' \in Nat /\ failed' \in Nat /\ failures' \in Nat
  BY <1>2, <1>4 DEF CountedOnce, CountedTwice
<1>6. task' \in [Tasks -> Task] /\ t \in Busy /\ phase = "crawl"
      /\ Cardinality(Busy) \in Nat /\ Cardinality(Busy) - 1 \in Nat
  BY <1>1, <1>2, Freeing, FiniteParts
<1>7. unfinished' \in Nat
  <2>1. unfinished = Cardinality(queue) + Cardinality(Busy) /\ Cardinality(queue) \in Nat
    BY <1>2, <1>6, FiniteParts DEF IInv, Unfinished
  <2> QED
    BY <1>1, <1>6, <2>1 DEF TaskDone
<1>8. UNCHANGED <<chainVars, seen, queue, claimed, reports, found>>
  BY <1>1
<1> QED
  BY <1>1, <1>2, <1>3, <1>5, <1>6, <1>7, <1>8, Leaving

LEMMA StepStutter ==
  ASSUME IInv, UNCHANGED vars
  PROVE  IInv'
<1>1. /\ UNCHANGED <<phase, setup, url, hops, seen, queue, unfinished, task>>
      /\ UNCHANGED <<claimed, failures, stopping, aborted, ok, failed, reports, found>>
  BY DEF vars, chainVars, frontierVars, stopVars, statsVars
<1>2. /\ Busy' = Busy /\ Reported' = Reported /\ Pages' = Pages
      /\ \A t \in Busy : KeyOf(t)' = KeyOf(t)
  BY <1>1 DEF Busy, Reported, Pages, KeyOf
<1>3. TypeOK' /\ OncePerKey'
  BY <1>1 DEF IInv, TypeOK, OncePerKey
<1>4. Apart'
  BY <1>1, <1>2 DEF IInv, Apart
<1>5. Seeding' /\ Unfinished' /\ Capped' /\ PagesCapped'
  BY <1>1, <1>2 DEF IInv, Seeding, Unfinished, Capped, PagesCapped
<1>6. Accounted'
  BY <1>1, <1>2 DEF IInv, Accounted, Crawling, Reported, Busy
<1> QED
  BY <1>3, <1>4, <1>5, <1>6 DEF IInv

LEMMA Inductive == IInv /\ [Next]_vars => IInv'
<1> SUFFICES ASSUME IInv, [Next]_vars PROVE IInv'
  OBVIOUS
<1>1. CASE SeedHop
  BY <1>1, StepSeedHop
<1>2. CASE SeedLands
  BY <1>2, StepSeedLands
<1>3. CASE SeedRefused \/ SeedRaises \/ Join \/ Cancel
  BY <1>3, StepLeaving
<1>4. ASSUME NEW t \in Tasks, TaskStep(t) PROVE IInv'
  <2>1. CASE Drop(t)
    BY <2>1, StepDrop
  <2>2. CASE Claim(t)
    BY <2>2, StepClaim
  <2>3. CASE DelayOver(t)
    BY <2>3, StepDelayOver
  <2>4. CASE PageOk(t)
    BY <2>4, StepPageOk
  <2>5. CASE PageFails(t)
    BY <2>5, StepPageFails
  <2>6. CASE PageRaises(t) \/ ReportedAsInternal(t)
    BY <2>6, StepPageRaises
  <2>7. CASE TaskRaises(t)
    BY <2>7, StepTaskRaises
  <2> QED
    BY <1>4, <2>1, <2>2, <2>3, <2>4, <2>5, <2>6, <2>7 DEF TaskStep
<1>5. CASE Stutter \/ UNCHANGED vars
  BY <1>5, StepStutter DEF Stutter
<1> QED
  BY <1>1, <1>2, <1>3, <1>4, <1>5 DEF Next, SeedStep

LEMMA Invariance == Spec => []IInv
BY InitIInv, Inductive, PTL DEF Spec

-----------------------------------------------------------------------------
(***************************************************************************)
(* The theorems.                                                           *)
(***************************************************************************)

\* Every state has its types: task_done is never called more often than there are puts.
THEOREM TypeCorrect == Spec => []TypeOK
<1>1. IInv => TypeOK
  BY DEF IInv
<1> QED
  BY <1>1, Invariance, PTL

\* No two reports are of the same page, whatever the site links to and whichever tasks
\* find the links.
THEOREM ReportedOnce == Spec => []OncePerKey
<1>1. IInv => OncePerKey
  BY DEF IInv
<1> QED
  BY <1>1, Invariance, PTL

\* The statistics count the reported pages, and the limit what is reported or in flight.
THEOREM PagesAccounted == Spec => []Accounted
<1>1. IInv => Accounted
  BY DEF IInv
<1> QED
  BY <1>1, Invariance, PTL

\* --max-pages is kept, but for a redirect chain that is longer.
THEOREM LimitKept == Spec => []PagesCapped
<1>1. IInv => PagesCapped
  BY DEF IInv
<1> QED
  BY <1>1, Invariance, PTL

LEMMA StoppingStep ==
  ASSUME IInv, [Next]_vars, stopping
  PROVE  stopping' /\ claimed' = claimed
<1>1. phase # "seed"
  BY DEF IInv, Seeding
<1>2. CASE UNCHANGED vars
  BY <1>2 DEF vars, stopVars
<1>3. CASE Stutter \/ Join \/ Cancel
  BY <1>3 DEF Stutter, Join, Cancel, vars, stopVars
<1>4. ASSUME NEW t \in Tasks, TaskStep(t) PROVE stopping' /\ claimed' = claimed
  <2>1. CASE Drop(t)
    BY <2>1 DEF Drop
  <2>2. CASE Claim(t)
    BY <2>2 DEF Claim
  <2>3. CASE DelayOver(t)
    BY <2>3 DEF DelayOver, stopVars
  <2>4. CASE PageOk(t)
    BY <2>4 DEF PageOk
  <2>5. CASE PageFails(t)
    <3>1. PICK counts \in BOOLEAN : CheckFuse(counts)
      BY <2>5 DEF PageFails
    <3>2. stopping'
      BY <3>1 DEF CheckFuse
    <3>3. claimed' = claimed
      BY <2>5 DEF PageFails
    <3> QED
      BY <3>2, <3>3
  <2>6. CASE PageRaises(t) \/ ReportedAsInternal(t)
    BY <2>6 DEF PageRaises, ReportedAsInternal
  <2>7. CASE TaskRaises(t)
    BY <2>7 DEF TaskRaises
  <2> QED
    BY <1>4, <2>1, <2>2, <2>3, <2>4, <2>5, <2>6, <2>7 DEF TaskStep
<1>5. ~SeedStep
  BY <1>1 DEF SeedStep, SeedHop, SeedRefused, SeedLands, SeedRaises
<1> QED
  BY <1>2, <1>3, <1>4, <1>5 DEF Next

\* A crawl that is stopping claims no page any more and is not set going again.
THEOREM StoppedForGood == Spec => StopsForGood
<1>1. IInv /\ [Next]_vars => [stopping => stopping' /\ claimed' = claimed]_vars
  BY StoppingStep
<1> QED
  BY <1>1, Invariance, PTL DEF Spec, StopsForGood

-----------------------------------------------------------------------------
(***************************************************************************)
(* CrawlCore implements SiteWalk: what is reported is a walk of the site,  *)
(* and a crawl that ends by itself has reported all of it.  First what the *)
(* refinement needs beyond IInv.                                           *)
(***************************************************************************)

\* Of the page there is a report, or a task or the queue holds it.
Held(key) ==
  \/ \E u \in Reported : Key[u] = key
  \/ \E u \in queue : Key[u] = key
  \/ \E t \in Busy : KeyOf(t) = key

\* What a task or the queue holds may be visited, every permitted link was seen, and until
\* the crawl stops, nothing that was seen gets lost.
Linked ==
  /\ phase = "seed" =>
       /\ \A u \in found : Key[u] \in seen
       /\ \A key \in seen : key = Key[url] \/ \E u \in Reported : Key[u] = key
  /\ phase = "crawl" =>
       /\ \A u \in queue : u \in found /\ Permitted(u)
       /\ \A t \in Busy : task[t].url \in found /\ Permitted(task[t].url)
       /\ \A u \in found : Permitted(u) => Key[u] \in seen
       /\ ~stopping => \A key \in seen : Held(key)

-----------------------------------------------------------------------------

LEMMA SiteInit == Init => Site!Init
<1> SUFFICES ASSUME Init PROVE Site!Init
  OBVIOUS
<1>1. setup \in Setup
  BY SetupsAssumption DEF Init
<1>2. setup.disallowed \subseteq Urls /\ setup.seed \in Urls
  BY <1>1 DEF Setup
<1> QED
  BY <1>2 DEF Init, Site!Init

\* A report of a page that nobody has reported.
LEMMA Visiting ==
  ASSUME TypeOK, NEW u \in Urls, NEW links \in SUBSET Urls, Report(u, links),
         \A v \in Reported : Key[v] # Key[u], UNCHANGED setup
  PROVE  /\ Reported' = Reported \cup {u} /\ found' = found \cup links
         /\ Key[u] \notin Site!KeysOf(Reported)
         /\ found \subseteq found' /\ found' \subseteq Urls
<1>1. /\ reports \in [Urls -> Nat] /\ found \subseteq Urls
      /\ reports' = [reports EXCEPT ![u] = @ + 1] /\ found' = found \cup links
  BY DEF TypeOK, Report
<1>2. reports[u] = 0
  BY <1>1 DEF Reported
<1>3. Reported' = Reported \cup {u}
  BY <1>1, <1>2 DEF Reported
<1>4. Key[u] \notin Site!KeysOf(Reported)
  BY DEF Site!KeysOf
<1>5. found \subseteq found' /\ found' \subseteq Urls
  BY <1>1
<1> QED
  BY <1>1, <1>3, <1>4, <1>5

LEMMA InitLinked == Init => Linked
BY DEF Init, Linked

\* The end of the crawl, whatever brings it about, is one of the walk.
LEMMA Ending ==
  ASSUME IInv, phase \in {"seed", "crawl"}, phase' \in Over,
         phase' = "ended" => stopping', UNCHANGED <<setup, url, reports, found>>
  PROVE  Site!CutShort /\ Linked'
<1>1. phase' # "seed" /\ phase' # "crawl"
  BY DEF Over
<1> QED
  BY <1>1 DEF Site!CutShort, Linked, Over

-----------------------------------------------------------------------------
(***************************************************************************)
(* The seed.                                                               *)
(***************************************************************************)

LEMMA HopStep ==
  ASSUME IInv, Linked, SeedHop
  PROVE  Site!Hop /\ Linked'
<1>1. PICK target \in Target(url) :
        /\ Report(url, {target})
        /\ \/ /\ Key[target] \in seen
              /\ phase' = "seed_error"
              /\ UNCHANGED <<seen, url, hops>>
           \/ /\ Key[target] \notin seen
              /\ seen' = seen \cup {Key[target]}
              /\ url' = target /\ hops' = hops + 1
              /\ UNCHANGED phase
  BY DEF SeedHop
<1>2. /\ phase = "seed" /\ setup' = setup
      /\ TypeOK /\ url \in Urls /\ \A v \in Reported : Key[v] # Key[url]
      /\ Key[url] \in seen
  BY DEF SeedHop, IInv, TypeOK, Seeding
<1>3. target \in Urls
  BY <1>2, SetupFacts DEF TypeOK
<1>4. /\ Reported' = Reported \cup {url} /\ found' = found \cup {target}
      /\ Key[url] \notin Site!KeysOf(Reported)
      /\ found \subseteq found' /\ found' \subseteq Urls
  BY <1>1, <1>2, <1>3, Visiting
<1>5. \A key : key \in Site!KeysOf(Reported') <=> \E u \in Reported' : Key[u] = key
  BY DEF Site!KeysOf
<1>6. /\ \A u \in found : Key[u] \in seen
      /\ \A key \in seen : key = Key[url] \/ \E u \in Reported : Key[u] = key
  BY <1>2 DEF Linked
<1>7. \A key \in seen : key \in Site!KeysOf(Reported')
  BY <1>4, <1>5, <1>6
<1>8. CASE Key[target] \in seen
  <2>1. phase' = "seed_error" /\ url' = url
    BY <1>1, <1>8
  <2>2. Key[target] \in Site!KeysOf(Reported')
    BY <1>7, <1>8
  <2> QED
    BY <1>2, <1>4, <2>1, <2>2 DEF Site!Hop, Site!Visit, Reported, Linked
<1>9. CASE Key[target] \notin seen
  <2>1. phase' = "seed" /\ url' = target /\ seen' = seen \cup {Key[target]}
    BY <1>1, <1>2, <1>9
  <2>2. Key[target] \notin Site!KeysOf(Reported')
    <3>1. \A u \in Reported' : Key[u] \in seen
      BY <1>2, <1>4 DEF IInv, Apart
    <3> QED
      BY <1>5, <1>9, <3>1
  <2>3. Site!Hop
    BY <1>2, <1>4, <2>1, <2>2 DEF Site!Hop, Site!Visit, Reported
  <2>4. Linked'
    <3>1. \A u \in found' : Key[u] \in seen'
      BY <1>4, <1>6, <2>1
    <3>2. \A key \in seen' : key = Key[target] \/ \E u \in Reported' : Key[u] = key
      BY <1>5, <1>7, <2>1
    <3> QED
      BY <2>1, <3>1, <3>2 DEF Linked
  <2> QED
    BY <2>3, <2>4
<1> QED
  BY <1>8, <1>9

LEMMA LandStep ==
  ASSUME IInv, Linked, SeedLands
  PROVE  Site!Land /\ Linked'
<1>1. /\ phase = "seed" /\ url \notin setup.disallowed /\ phase' = "crawl"
      /\ UNCHANGED <<chainVars, task, stopping>>
  BY DEF SeedLands
<1>2. UNCHANGED <<setup, url, task, stopping>>
  BY <1>1 DEF chainVars
<1>3. /\ TypeOK /\ url \in Urls /\ \A v \in Reported : Key[v] # Key[url]
      /\ Key[url] \in seen /\ queue = {} /\ \A t \in Tasks : task[t] = Idle
  BY <1>1 DEF IInv, TypeOK, Seeding
<1>4. PICK links \in SUBSET Urls : Report(url, links) /\ Enqueue(links, 0)
  <2>1. setup.links[url] \in SUBSET Urls /\ {} \in SUBSET Urls
    BY <1>3, SetupFacts DEF TypeOK
  <2> QED
    BY <2>1 DEF SeedLands
<1>5. PICK new \in SUBSET Urls : Added(links, new, 0)
  BY <1>4, Enqueuing
<1>6. /\ Reported' = Reported \cup {url} /\ found' = found \cup links
      /\ Key[url] \notin Site!KeysOf(Reported)
      /\ found \subseteq found' /\ found' \subseteq Urls
  BY <1>2, <1>3, <1>4, Visiting
<1>7. Site!Land
  BY <1>1, <1>2, <1>6 DEF Site!Land, Site!Visit, Reported
<1>8. /\ \A u \in found : Key[u] \in seen
      /\ \A key \in seen : key = Key[url] \/ \E u \in Reported : Key[u] = key
  BY <1>1 DEF Linked
<1>9. /\ queue' = new
      /\ \A u \in new : u \in links /\ Permitted(u)
      /\ \A u \in links : Permitted(u) => Key[u] \in seen \/ \E v \in new : Key[v] = Key[u]
      /\ \A key : key \in seen' <=> key \in seen \/ \E v \in new : Key[v] = key
  BY <1>3, <1>5 DEF Added
<1>10. Busy' = {}
  BY <1>2, <1>3 DEF Busy, Idle
<1>11. \A u : Permitted(u)' <=> Permitted(u)
  BY <1>2 DEF Permitted
<1>12. Linked'
  <2>1. \A u \in queue' : u \in found' /\ Permitted(u)'
    BY <1>6, <1>9, <1>11
  <2>2. \A u \in found' : Permitted(u)' => Key[u] \in seen'
    BY <1>6, <1>8, <1>9, <1>11
  <2>3. \A key \in seen' : Held(key)'
    BY <1>6, <1>8, <1>9 DEF Held
  <2> QED
    BY <1>1, <1>10, <2>1, <2>2, <2>3 DEF Linked
<1> QED
  BY <1>7, <1>12

-----------------------------------------------------------------------------
(***************************************************************************)
(* The tasks.                                                              *)
(***************************************************************************)

\* A step that reports nothing is none of the walk.
LEMMA Unseen ==
  ASSUME UNCHANGED <<setup, url, reports, found>>, phase = "crawl", phase' = "crawl"
  PROVE  UNCHANGED Site!vars
BY DEF Site!vars

LEMMA WalkStep ==
  ASSUME IInv, Linked, NEW t \in Tasks, Fetching(t), Free(t),
         NEW links \in SUBSET Urls, Report(task[t].url, links),
         NEW new \in SUBSET Urls, Added(links, new, 1),
         UNCHANGED <<phase, chainVars>>, stopping => stopping'
  PROVE  Site!Walk /\ Linked'
<1> DEFINE u == task[t].url
<1>1. /\ phase = "crawl" /\ t \in Busy /\ Busy' = Busy \ {t}
      /\ \A s \in Busy' : task'[s] = task[s] /\ KeyOf(s)' = KeyOf(s)
  BY Freeing DEF IInv
<1>2. UNCHANGED <<phase, setup, url>>
  BY DEF chainVars
<1>3. /\ TypeOK /\ u \in Urls /\ \A v \in Reported : Key[v] # Key[u]
      /\ Key[u] = KeyOf(t)
  BY <1>1 DEF IInv, Apart, KeyOf
<1>4. /\ u \in found /\ Permitted(u)
      /\ \A v \in queue : v \in found /\ Permitted(v)
      /\ \A s \in Busy : task[s].url \in found /\ Permitted(task[s].url)
      /\ \A v \in found : Permitted(v) => Key[v] \in seen
      /\ ~stopping => \A key \in seen : Held(key)
  BY <1>1 DEF Linked
<1>5. Report(u, links)
  OBVIOUS
<1> HIDE DEF u
<1>6. /\ Reported' = Reported \cup {u} /\ found' = found \cup links
      /\ Key[u] \notin Site!KeysOf(Reported)
      /\ found \subseteq found' /\ found' \subseteq Urls
  BY <1>2, <1>3, <1>5, Visiting
<1>7. Site!Walk
  <2>1. u \in Site!Open
    BY <1>4, <1>6 DEF Site!Open, Permitted, Reported
  <2> QED
    BY <1>1, <1>2, <1>6, <2>1 DEF Site!Walk, Site!Visit, Reported
<1>8. /\ \A v \in new : v \in links /\ Permitted(v)
      /\ \A v \in links : Permitted(v) => Key[v] \in seen \/ \E w \in new : Key[w] = Key[v]
      /\ queue' = queue \cup new
      /\ \A key : key \in seen' <=> key \in seen \/ \E v \in new : Key[v] = key
  BY DEF Added
<1>9. \A v : Permitted(v)' <=> Permitted(v)
  BY <1>2 DEF Permitted
<1>10. Linked'
  <2>1. \A v \in queue' : v \in found' /\ Permitted(v)'
    BY <1>4, <1>6, <1>8, <1>9
  <2>2. \A s \in Busy' : task'[s].url \in found' /\ Permitted(task'[s].url)
    BY <1>1, <1>4, <1>6
  <2>3. \A s \in Busy' : Permitted(task[s].url)'
    BY <1>2, <2>2 DEF Permitted
  <2>4. \A v \in found' : Permitted(v)' => Key[v] \in seen'
    BY <1>4, <1>6, <1>8, <1>9
  <2>5. ASSUME ~stopping', NEW key \in seen' PROVE Held(key)'
    <3>1. CASE key \in seen
      <4>1. Held(key)
        BY <1>4, <2>5, <3>1
      <4>2. CASE \E v \in Reported : Key[v] = key
        BY <1>6, <4>2 DEF Held
      <4>3. CASE \E v \in queue : Key[v] = key
        BY <1>8, <4>3 DEF Held
      <4>4. CASE \E s \in Busy : KeyOf(s) = key
        BY <1>1, <1>3, <1>6, <4>4 DEF Held
      <4> QED
        BY <4>1, <4>2, <4>3, <4>4 DEF Held
    <3>2. CASE \E v \in new : Key[v] = key
      BY <1>8, <3>2 DEF Held
    <3> QED
      BY <1>8, <2>5, <3>1, <3>2
  <2> QED
    BY <1>1, <1>2, <2>1, <2>2, <2>3, <2>4, <2>5 DEF Linked
<1> QED
  BY <1>7, <1>10

LEMMA FailStep ==
  ASSUME IInv, Linked, NEW t \in Tasks,
         PageFails(t) \/ PageRaises(t) \/ ReportedAsInternal(t)
  PROVE  Site!Walk /\ Linked'
<1>1. /\ Fetching(t) /\ Free(t) /\ TaskDone /\ Report(task[t].url, {})
      /\ UNCHANGED <<phase, chainVars>> /\ UNCHANGED <<seen, queue>>
  BY DEF PageFails, PageRaises, ReportedAsInternal
<1>2. Added({}, {}, 1)
  BY <1>1, AddingNothing DEF IInv, TypeOK
<1>3. stopping => stopping'
  <2>1. CASE PageFails(t)
    BY <2>1 DEF PageFails, CheckFuse
  <2>2. CASE PageRaises(t) \/ ReportedAsInternal(t)
    BY <2>2 DEF PageRaises, ReportedAsInternal
  <2> QED
    BY <2>1, <2>2
<1>4. {} \in SUBSET Urls
  OBVIOUS
<1> QED
  BY <1>1, <1>2, <1>3, <1>4, WalkStep

LEMMA OkStep ==
  ASSUME IInv, Linked, NEW t \in Tasks, PageOk(t)
  PROVE  Site!Walk /\ Linked'
<1>1. Fetching(t) /\ Free(t) /\ UNCHANGED <<phase, chainVars>> /\ stopping' = stopping
  BY DEF PageOk
<1>2. TypeOK /\ task[t].url \in Urls
  BY <1>1, Freeing DEF IInv, Apart
<1>3. PICK links \in SUBSET Urls : Report(task[t].url, links) /\ Enqueue(links, 1)
  <2>1. LinkSets(task[t].url) \subseteq SUBSET Urls
    BY <1>2, SetupFacts DEF LinkSets, TypeOK
  <2> QED
    BY <2>1 DEF PageOk
<1>4. PICK new \in SUBSET Urls : Added(links, new, 1)
  BY <1>3, Enqueuing
<1> QED
  BY <1>1, <1>3, <1>4, WalkStep

LEMMA DropStep ==
  ASSUME Linked, NEW t \in Tasks, Drop(t)
  PROVE  UNCHANGED Site!vars /\ Linked'
<1>1. /\ phase = "crawl" /\ stopping' = TRUE
      /\ UNCHANGED <<phase, chainVars, seen, task, statsVars>>
      /\ \E u \in queue : queue' = queue \ {u}
  BY DEF Drop, Crawling
<1>2. UNCHANGED <<phase, setup, url, seen, task, reports, found>>
  BY <1>1 DEF chainVars, statsVars
<1>3. Busy' = Busy /\ \A v : Permitted(v)' <=> Permitted(v)
  BY <1>2 DEF Busy, Permitted
<1>4. Linked'
  <2>1. \A s \in Busy' : Permitted(task[s].url)' <=> Permitted(task[s].url)
    BY <1>2 DEF Permitted
  <2> QED
    BY <1>1, <1>2, <1>3, <2>1 DEF Linked
<1> QED
  BY <1>1, <1>2, <1>4, Unseen

LEMMA ClaimStep ==
  ASSUME IInv, Linked, NEW t \in Tasks, Claim(t)
  PROVE  UNCHANGED Site!vars /\ Linked'
<1>1. /\ phase = "crawl" /\ task[t].at = "get"
      /\ UNCHANGED <<phase, chainVars, seen, stopping, statsVars>>
  BY DEF Claim, Crawling
<1>2. PICK u \in queue :
        /\ queue' = queue \ {u}
        /\ task' = [task EXCEPT ![t] =
                      [at |-> IF setup.crawl_delay THEN "delay" ELSE "fetch", url |-> u]]
  BY DEF Claim
<1>3. UNCHANGED <<phase, setup, url, seen, stopping, reports, found>>
  BY <1>1 DEF chainVars, statsVars
<1>4. /\ task'[t].url = u /\ task'[t].at # "get"
      /\ \A s \in Tasks \ {t} : task'[s] = task[s]
  BY <1>2 DEF IInv, TypeOK
<1>5. /\ Busy' = Busy \cup {t} /\ Reported' = Reported
      /\ KeyOf(t)' = Key[u] /\ \A s \in Busy : KeyOf(s)' = KeyOf(s) /\ task'[s] = task[s]
  BY <1>1, <1>3, <1>4 DEF Busy, Reported, KeyOf
<1>6. /\ \A v \in queue : v \in found /\ Permitted(v)
      /\ \A s \in Busy : task[s].url \in found /\ Permitted(task[s].url)
      /\ \A v \in found : Permitted(v) => Key[v] \in seen
      /\ ~stopping => \A key \in seen : Held(key)
  BY <1>1 DEF Linked
<1>7. \A v : Permitted(v)' <=> Permitted(v)
  BY <1>3 DEF Permitted
<1>8. \A s \in Busy' : task'[s].url \in found /\ Permitted(task'[s].url)
  BY <1>4, <1>5, <1>6
<1>9. \A s \in Busy' : Permitted(task[s].url)'
  BY <1>3, <1>8 DEF Permitted
<1>10. ASSUME ~stopping, NEW key \in seen PROVE Held(key)'
  <2>1. Held(key)
    BY <1>6, <1>10
  <2>2. CASE \E v \in Reported : Key[v] = key
    BY <1>5, <2>2 DEF Held
  <2>3. CASE \E v \in queue : Key[v] = key
    BY <1>2, <1>5, <2>3 DEF Held
  <2>4. CASE \E s \in Busy : KeyOf(s) = key
    BY <1>5, <2>4 DEF Held
  <2> QED
    BY <2>1, <2>2, <2>3, <2>4 DEF Held
<1>11. Linked'
  BY <1>1, <1>2, <1>3, <1>6, <1>7, <1>8, <1>9, <1>10 DEF Linked
<1> QED
  BY <1>1, <1>3, <1>11, Unseen

LEMMA DelayStep ==
  ASSUME IInv, Linked, NEW t \in Tasks, DelayOver(t)
  PROVE  UNCHANGED Site!vars /\ Linked'
<1>1. /\ phase = "crawl" /\ task[t].at = "delay" /\ task' = [task EXCEPT ![t].at = "fetch"]
      /\ UNCHANGED <<phase, chainVars, frontierVars, stopVars, statsVars>>
  BY DEF DelayOver, Crawling
<1>2. UNCHANGED <<phase, setup, url, seen, queue, stopping, reports, found>>
  BY <1>1 DEF chainVars, frontierVars, stopVars, statsVars
<1>3. /\ \A s \in Tasks : task'[s].url = task[s].url
      /\ \A s \in Tasks : task'[s].at # "get" <=> task[s].at # "get"
  BY <1>1 DEF IInv, TypeOK, Task
<1>4. Busy' = Busy /\ Reported' = Reported /\ \A s \in Busy : KeyOf(s)' = KeyOf(s)
  BY <1>2, <1>3 DEF Busy, Reported, KeyOf
<1>5. \A v : Permitted(v)' <=> Permitted(v)
  BY <1>2 DEF Permitted
<1>6. \A s \in Busy : Permitted(task[s].url)' <=> Permitted(task[s].url)
  BY <1>2, <1>3 DEF Busy, Permitted
<1>7. \A key : Held(key)' <=> Held(key)
  BY <1>2, <1>4 DEF Held
<1>8. \A s \in Busy : task'[s].url = task[s].url
  BY <1>3 DEF Busy
<1>9. Linked'
  BY <1>1, <1>2, <1>4, <1>5, <1>6, <1>7, <1>8 DEF Linked
<1> QED
  BY <1>1, <1>2, <1>9, Unseen

-----------------------------------------------------------------------------
(***************************************************************************)
(* The end.                                                                *)
(***************************************************************************)

\* Nothing is left when join() returns of a crawl that did not stop.
LEMMA JoinStep ==
  ASSUME IInv, Linked, Join
  PROVE  Site!Next /\ Linked'
<1>1. /\ phase = "crawl" /\ unfinished = 0 /\ phase' = "ended"
      /\ UNCHANGED <<chainVars, stopVars, statsVars>>
  BY DEF Join, Crawling
<1>2. UNCHANGED <<setup, url, stopping, reports, found>>
  BY <1>1 DEF chainVars, stopVars, statsVars
<1>3. CASE stopping
  BY <1>1, <1>2, <1>3, Ending DEF Over, Site!Next
<1>4. CASE ~stopping
  <2>1. queue = {} /\ Busy = {}
    <3>1. /\ IsFiniteSet(queue) /\ IsFiniteSet(Busy)
          /\ Cardinality(queue) \in Nat /\ Cardinality(Busy) \in Nat
      BY FiniteParts DEF IInv
    <3>2. Cardinality(queue) + Cardinality(Busy) = 0
      BY <1>1 DEF IInv, Unfinished
    <3>3. Cardinality(queue) = 0 /\ Cardinality(Busy) = 0
      BY <3>1, <3>2
    <3> QED
      BY <3>1, <3>3, FS_EmptySet
  <2>2. \A u \in found : Permitted(u) => \E v \in Reported : Key[v] = Key[u]
    <3>1. /\ \A u \in found : Permitted(u) => Key[u] \in seen
          /\ \A key \in seen : Held(key)
      BY <1>1, <1>4 DEF Linked
    <3> QED
      BY <2>1, <3>1 DEF Held
  <2>3. \A u \in found : Permitted(u) => Key[u] \in Site!KeysOf(Reported)
    BY <2>2 DEF Site!KeysOf
  <2>4. Site!Open = {}
    BY <2>3 DEF Site!Open, Permitted, Reported
  <2>5. Site!Complete
    BY <1>1, <1>2, <1>4, <2>4 DEF Site!Complete
  <2>6. Linked'
    BY <1>1 DEF Linked
  <2> QED
    BY <2>5, <2>6 DEF Site!Next
<1> QED
  BY <1>3, <1>4

LEMMA EndStep ==
  ASSUME IInv, Linked,
         SeedRefused \/ SeedRaises \/ Cancel \/ \E t \in Tasks : TaskRaises(t)
  PROVE  Site!CutShort /\ Linked'
<1>1. phase \in {"seed", "crawl"}
  BY DEF SeedRefused, SeedRaises, Cancel, TaskRaises, Fetching, Crawling
<1>2. phase' \in Over /\ phase' # "ended"
  BY DEF SeedRefused, SeedRaises, Cancel, TaskRaises, Over
<1>3. UNCHANGED <<setup, url, reports, found>>
  <2>1. UNCHANGED <<chainVars, reports, found>>
    BY DEF SeedRefused, SeedRaises, Cancel, TaskRaises, statsVars
  <2> QED
    BY <2>1 DEF chainVars
<1> QED
  BY <1>1, <1>2, <1>3, Ending

LEMMA Stuttering ==
  ASSUME Linked, UNCHANGED vars
  PROVE  UNCHANGED Site!vars /\ Linked'
<1>1. UNCHANGED <<phase, setup, url, seen, queue, task, stopping, reports, found>>
  BY DEF vars, chainVars, frontierVars, stopVars, statsVars
<1>2. UNCHANGED Site!vars
  BY <1>1 DEF Site!vars
<1>3. Linked'
  BY <1>1 DEF Linked, Held, Busy, Reported, KeyOf, Permitted
<1> QED
  BY <1>2, <1>3

LEMMA SiteStep ==
  ASSUME IInv, Linked, [Next]_vars
  PROVE  [Site!Next]_Site!vars /\ Linked'
<1>1. CASE SeedHop
  BY <1>1, HopStep DEF Site!Next
<1>2. CASE SeedLands
  BY <1>2, LandStep DEF Site!Next
<1>3. CASE SeedRefused \/ SeedRaises \/ Cancel
  BY <1>3, EndStep DEF Site!Next
<1>4. CASE Join
  BY <1>4, JoinStep
<1>5. ASSUME NEW t \in Tasks, TaskStep(t) PROVE [Site!Next]_Site!vars /\ Linked'
  <2>1. CASE Drop(t)
    BY <2>1, DropStep
  <2>2. CASE Claim(t)
    BY <2>2, ClaimStep
  <2>3. CASE DelayOver(t)
    BY <2>3, DelayStep
  <2>4. CASE PageOk(t)
    BY <2>4, OkStep DEF Site!Next
  <2>5. CASE PageFails(t) \/ PageRaises(t) \/ ReportedAsInternal(t)
    BY <2>5, FailStep DEF Site!Next
  <2>6. CASE TaskRaises(t)
    BY <2>6, EndStep DEF Site!Next
  <2> QED
    BY <1>5, <2>1, <2>2, <2>3, <2>4, <2>5, <2>6 DEF TaskStep
<1>6. CASE Stutter \/ UNCHANGED vars
  BY <1>6, Stuttering DEF Stutter
<1> QED
  BY <1>1, <1>2, <1>3, <1>4, <1>5, <1>6 DEF Next, SeedStep

-----------------------------------------------------------------------------

\* Whoever reads the reports sees a walk of the site: the redirects of the seed, then
\* permitted pages a reported page links to, each once, and all of them if the crawl says
\* it is complete.
THEOREM CrawlIsAWalk == Spec => ImplementsSiteWalk
<1>1. Init => Site!Init /\ Linked
  BY SiteInit, InitLinked
<1>2. IInv /\ Linked /\ [Next]_vars => [Site!Next]_Site!vars /\ Linked'
  BY SiteStep
<1> QED
  BY <1>1, <1>2, Invariance, PTL DEF Spec, ImplementsSiteWalk, Site!Spec
=============================================================================
