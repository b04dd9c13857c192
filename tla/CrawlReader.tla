------------------------------ MODULE CrawlReader -----------------------------
(***************************************************************************)
(* Clients of the API that follow one crawl: one walks its pages with the  *)
(* keyset cursor of GET /crawls/{id}/pages, one follows the event stream   *)
(* of GET /crawls/{id}/events.  The crawl is the one of CrawlLifecycle,    *)
(* which the workers implement (CrawlWorker!ImplementsLifecycle); `run`    *)
(* numbers its runs, so that the pages of two runs can be told apart.      *)
(***************************************************************************)
EXTENDS CrawlLifecycle, FiniteSets

CONSTANTS
  Limit,     \* the limit parameter of the page list
  MaxPages,  \* bound: pages of a run
  MaxRuns    \* bound: runs of the crawl

ASSUME LimitAssumption == Limit \in Nat \ {0}
ASSUME TerminalAssumption ==
  "aborted" \in TerminalStates /\ TerminalStates \cap {"absent", "queued", "running"} = {}

VARIABLES
  run,       \* history: how often the crawl was started
  cursor,    \* the last seq the client has seen, 0 at first
  read,      \* history: the pages the client has read in this walk
  caughtUp,  \* next_after of its last response was null
  sawEnd,    \* it has seen the crawl in a terminal state
  stream,    \* the generator of the event stream: "get", "send", "end" or "closed"
  row,       \* the state in the row it has read
  sent       \* the state in the last event the client received

crawlVars == <<state, attempts, pages, run>>
walkVars == <<cursor, read, caughtUp, sawEnd>>
streamVars == <<stream, row, sent>>
readerVars == <<crawlVars, walkVars, streamVars>>

States == {"absent", "queued", "running"} \cup TerminalStates

TypeOK ==
  /\ state \in States /\ attempts \in Nat /\ pages \in Nat /\ run \in Nat
  /\ cursor \in Nat /\ read \subseteq [seq : Nat, run : Nat]
  /\ caughtUp \in BOOLEAN /\ sawEnd \in BOOLEAN
  /\ stream \in {"get", "send", "end", "closed"}
  /\ row \in States /\ sent \in States

ReaderInit ==
  /\ Init /\ run = 0
  /\ cursor = 0 /\ read = {} /\ caughtUp = FALSE /\ sawEnd = FALSE
  /\ stream = "get" /\ row = "absent" /\ sent = "absent"

-----------------------------------------------------------------------------

Crawl ==
  /\ \/ Start /\ run < MaxRuns /\ run' = run + 1
     \/ /\ \/ Submit \/ Settle \/ Lose \/ HandBack \/ CancelQueued
           \/ \E n \in 1..MaxPages : pages' = n /\ Store
        /\ UNCHANGED run
  /\ UNCHANGED <<walkVars, streamVars>>

\* get_or_404
Found == state # "absent"

\* Mutant of Items: the newest pages come first.
ItemsNewestFirst(after) ==
  {seq \in 1..pages : seq > after /\ seq > pages - Limit}

\* WHERE seq > after ORDER BY seq LIMIT limit
Items(after) == {seq \in 1..pages : seq > after /\ seq <= after + Limit}

\* next_after is None.
LastResponse(items) == Cardinality(items) # Limit

\* GET /crawls/{id}/pages?after=cursor
GetPages ==
  /\ Found
  /\ LET items == Items(cursor)
     IN /\ read' = read \cup {[seq |-> seq, run |-> run] : seq \in items}
        /\ cursor' = IF items = {} THEN cursor
                     ELSE CHOOSE last \in items : \A seq \in items : seq <= last
        /\ caughtUp' = LastResponse(items)
  /\ UNCHANGED <<crawlVars, sawEnd, streamVars>>

\* GET /crawls/{id}: what was read before tells nothing about a crawl that has ended since.
GetCrawl ==
  /\ Found /\ ~sawEnd
  /\ sawEnd' = (state \in TerminalStates)
  /\ caughtUp' = FALSE
  /\ UNCHANGED <<crawlVars, cursor, read, streamVars>>

\* Mutant of EventsSend: the loop is left before the event is sent.
EventsSendAfterBreak ==
  /\ stream = "send"
  /\ IF row \in TerminalStates
       THEN stream' = "end" /\ UNCHANGED sent
       ELSE stream' = "get" /\ sent' = row
  /\ UNCHANGED <<crawlVars, walkVars, row>>

\* Mutant of EventsSend: the stream does not look at the state.
EventsSendForever ==
  /\ stream = "send"
  /\ sent' = row
  /\ stream' = "get"
  /\ UNCHANGED <<crawlVars, walkVars, row>>

EventsGet ==
  /\ Found /\ stream = "get"
  /\ row' = state
  /\ stream' = "send"
  /\ UNCHANGED <<crawlVars, walkVars, sent>>

\* The event carries the row that was read, and that row decides whether to go on.
EventsSend ==
  /\ stream = "send"
  /\ sent' = row
  /\ stream' = IF row \in TerminalStates THEN "end" ELSE "get"
  /\ UNCHANGED <<crawlVars, walkVars, row>>

EventsEnd ==
  /\ stream = "end"
  /\ stream' = "closed"
  /\ UNCHANGED <<crawlVars, walkVars, row, sent>>

Events == EventsGet \/ EventsSend \/ EventsEnd

ReaderNext == Crawl \/ GetPages \/ GetCrawl \/ Events

ReaderSpec == ReaderInit /\ [][ReaderNext]_readerVars

\* The server goes on with a stream whose client stays connected.
FairReaderSpec == ReaderSpec /\ WF_readerVars(Events)

-----------------------------------------------------------------------------

\* The seqs a walk has read are 1..cursor, none skipped and none read twice, even
\* when the crawl is claimed again between two responses.
WalkIsGapFree ==
  {p.seq : p \in read} = 1..cursor /\ Cardinality(read) = cursor

\* A client that sees a terminal state and then reads until next_after is null has
\* every page of the crawl, unless it holds pages of an earlier run.
WalkIsComplete ==
  sawEnd /\ caughtUp /\ (\A p \in read : p.run = run) => cursor = pages

\* A walk is exact: at every moment it has read what its cursor says, and in the end all.
WalkIsExact == WalkIsGapFree /\ WalkIsComplete

\* The stream says "end" only after it has sent the state in which the crawl ended,
\* although a row is read, sent and judged in three steps.
StreamTellsOutcome ==
  stream = "closed" => sent \in TerminalStates /\ sent = state

\* The stream of a crawl that is settled comes to its end.
StreamEnds == state \in TerminalStates ~> stream = "closed"
=============================================================================
