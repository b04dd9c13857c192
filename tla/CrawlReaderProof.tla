--------------------------- MODULE CrawlReaderProof ----------------------------
(***************************************************************************)
(* Proofs about CrawlReader, for every page limit, number of pages and     *)
(* number of runs: a walk with the keyset cursor reads every seq once and, *)
(* when it has caught up with a crawl that is over, all of them; and the   *)
(* event stream ends with the state the crawl ended in.                    *)
(***************************************************************************)
EXTENDS CrawlReader, FiniteSetTheorems, TLAPS

-----------------------------------------------------------------------------
(***************************************************************************)
(* The inductive invariant.                                                *)
(***************************************************************************)

\* A running crawl has used an attempt, which it can hand back.
Attempted == state = "running" => attempts > 0

\* The walk has read the seqs up to its cursor, each of one run.
Walked ==
  /\ \A p \in read : p.seq \in 1..cursor /\ p.run <= run
  /\ \A seq \in 1..cursor : \E p \in read : p.seq = seq
  /\ \A p, q \in read : p.seq = q.seq => p = q

\* Pages of the latest run are still there.
Current == (\A p \in read : p.run = run) => cursor <= pages

\* What ended has ended for good, and the end that was seen, or is about to be sent, is it.
Ended ==
  /\ sawEnd => state \in TerminalStates
  /\ stream = "send" /\ row \in TerminalStates => state = row
  /\ stream \in {"end", "closed"} => sent \in TerminalStates /\ sent = state

IInv == TypeOK /\ Attempted /\ Walked /\ Current /\ Ended /\ WalkIsComplete

-----------------------------------------------------------------------------
(***************************************************************************)
(* Facts about the pages of a response.                                    *)
(***************************************************************************)

\* The cursor after a response.
After(items) ==
  IF items = {} THEN cursor
  ELSE CHOOSE last \in items : \A seq \in items : seq <= last

\* A response that is not empty leads the cursor to its last page, and one that is not
\* full to the last page there is.
LEMMA ResponseFacts ==
  ASSUME TypeOK
  PROVE  LET items == Items(cursor)
         IN /\ items = (cursor + 1)..After(items)
            /\ After(items) \in Nat /\ cursor <= After(items)
            /\ After(items) <= pages \/ items = {}
            /\ LastResponse(items) /\ cursor <= pages => After(items) = pages
<1> DEFINE items == Items(cursor)
<1>1. /\ cursor \in Nat /\ pages \in Nat /\ Limit \in Nat \ {0}
  BY LimitAssumption DEF TypeOK
<1>2. \A seq : seq \in items <=>
               seq \in Nat /\ cursor < seq /\ seq <= pages /\ seq <= cursor + Limit
  BY <1>1 DEF Items
<1> HIDE DEF items
<1>3. CASE pages <= cursor
  <2>1. items = {}
    BY <1>1, <1>2, <1>3
  <2> QED
    BY <1>1, <1>3, <2>1 DEF After, items
<1>4. CASE cursor < pages
  <2> DEFINE last == IF pages <= cursor + Limit THEN pages ELSE cursor + Limit
  <2>1. last \in Nat /\ cursor < last /\ last <= pages
    BY <1>1, <1>4
  <2>2. items = (cursor + 1)..last
    <3>1. ASSUME NEW seq \in items
          PROVE  seq \in (cursor + 1)..last
      BY <1>1, <1>2
    <3>2. ASSUME NEW seq \in (cursor + 1)..last
          PROVE  seq \in items
      BY <1>1, <1>2, <2>1
    <3> QED BY <3>1, <3>2
  <2>3. last \in items /\ \A seq \in items : seq <= last
    BY <1>1, <2>1, <2>2
  <2>4. \A max \in items : (\A seq \in items : seq <= max) => max = last
    BY <1>1, <2>1, <2>2, <2>3
  <2>5. After(items) = last
    BY <2>3, <2>4 DEF After
  <2>6. LastResponse(items) => last = pages
    <3>1. Cardinality(items) = last - cursor
      BY <1>1, <2>1, <2>2, FS_Interval
    <3> QED
      BY <1>1, <3>1 DEF LastResponse
  <2> HIDE DEF last
  <2> QED
    BY <1>1, <2>1, <2>2, <2>5, <2>6 DEF items
<1> QED
  BY <1>1, <1>3, <1>4

\* A walk that is as the invariant says has read as many pages as its cursor tells.
LEMMA WalkedIsGapFree ==
  ASSUME TypeOK, Walked
  PROVE  WalkIsGapFree
<1> DEFINE f == [seq \in 1..cursor |-> CHOOSE p \in read : p.seq = seq]
<1>1. cursor \in Nat
  BY DEF TypeOK
<1>2. \A seq \in 1..cursor : f[seq] \in read /\ f[seq].seq = seq
  BY DEF Walked
<1>3. \A p \in read : p.seq \in 1..cursor /\ f[p.seq] = p
  BY <1>2 DEF Walked
<1>4. f \in [1..cursor -> read]
  BY <1>2
<1> HIDE DEF f
<1>5. f \in Bijection(1..cursor, read)
  BY <1>2, <1>3, <1>4 DEF Bijection, Injection, Surjection, IsInjective
<1>6. Cardinality(read) = Cardinality(1..cursor)
  BY <1>1, <1>5, FS_Interval, FS_Bijection DEF ExistsBijection
<1>7. Cardinality(1..cursor) = cursor
  BY <1>1, FS_Interval
<1>8. {p.seq : p \in read} = 1..cursor
  BY <1>2, <1>3
<1> QED
  BY <1>6, <1>7, <1>8 DEF WalkIsGapFree

-----------------------------------------------------------------------------
(***************************************************************************)
(* The steps.                                                              *)
(***************************************************************************)

LEMMA InitIInv == ReaderInit => IInv
<1> SUFFICES ASSUME ReaderInit PROVE IInv
  OBVIOUS
<1>1. TypeOK /\ Attempted
  BY DEF ReaderInit, Init, TypeOK, States, Attempted
<1>2. Walked /\ Current /\ Ended /\ WalkIsComplete
  BY DEF ReaderInit, Init, Walked, Current, Ended, WalkIsComplete
<1> QED
  BY <1>1, <1>2 DEF IInv

\* What the service does to a crawl that has not ended: all that changes is the crawl.
LEMMA StepCrawl ==
  ASSUME IInv, Crawl
  PROVE  IInv'
<1>1. UNCHANGED <<cursor, read, caughtUp, sawEnd, stream, row, sent>>
  BY DEF Crawl, walkVars, streamVars
<1>2. /\ state \in States /\ attempts \in Nat /\ pages \in Nat /\ run \in Nat
      /\ cursor \in Nat /\ read \subseteq [seq : Nat, run : Nat]
  BY DEF IInv, TypeOK
<1>3. state \in {"absent", "queued", "running"} /\ state \notin TerminalStates
  BY TerminalAssumption
     DEF Crawl, Start, Submit, Settle, Lose, HandBack, CancelQueued, Store
<1>4. /\ state' \in States /\ attempts' \in Nat /\ run' \in Nat /\ run <= run'
      /\ state' = "running" => attempts' > 0
  BY <1>2, TerminalAssumption
     DEF IInv, Attempted, States, Crawl, Start, Submit, Settle, Lose, HandBack, CancelQueued,
         Store
<1>5. pages' \in Nat /\ (run' = run + 1 \/ (run' = run /\ pages <= pages'))
  BY <1>2 DEF Crawl, Start, Submit, Settle, Lose, HandBack, CancelQueued, Store
<1>6. TypeOK' /\ Attempted'
  BY <1>1, <1>4, <1>5 DEF IInv, TypeOK, Attempted
<1>7. \A p \in read : p.run \in Nat
  BY <1>2
<1>8. Walked'
  <2>1. \A p \in read : p.run <= run'
    BY <1>2, <1>4, <1>7 DEF IInv, Walked
  <2> QED
    BY <1>1, <2>1 DEF IInv, Walked
<1>9. Current'
  <2>1. CASE run' = run /\ pages <= pages'
    BY <1>1, <1>2, <1>5, <2>1 DEF IInv, Current
  <2>2. CASE run' = run + 1 /\ read = {}
    <3>1. cursor = 0
      BY <1>2, <2>2 DEF IInv, Walked
    <3> QED
      BY <1>1, <1>5, <3>1 DEF Current
  <2>3. CASE run' = run + 1 /\ read # {}
    <3>1. \A p \in read : p.run # run'
      BY <1>2, <1>7, <2>3 DEF IInv, Walked
    <3> QED
      BY <1>1, <2>3, <3>1 DEF Current
  <2> QED
    BY <1>5, <2>1, <2>2, <2>3
<1>10. Ended' /\ WalkIsComplete'
  BY <1>1, <1>3 DEF IInv, Ended, WalkIsComplete
<1> QED
  BY <1>6, <1>8, <1>9, <1>10 DEF IInv

LEMMA StepGetPages ==
  ASSUME IInv, GetPages
  PROVE  IInv'
<1> DEFINE items == Items(cursor)
<1>1. /\ read' = read \cup {[seq |-> seq, run |-> run] : seq \in items}
      /\ cursor' = After(items) /\ caughtUp' = LastResponse(items)
      /\ UNCHANGED <<state, attempts, pages, run, sawEnd, stream, row, sent>>
  BY DEF GetPages, After, crawlVars, streamVars
<1>2. /\ cursor \in Nat /\ pages \in Nat /\ run \in Nat
      /\ read \subseteq [seq : Nat, run : Nat]
  BY DEF IInv, TypeOK
<1>3. /\ items = (cursor + 1)..cursor' /\ cursor' \in Nat /\ cursor <= cursor'
      /\ cursor' <= pages \/ items = {}
      /\ LastResponse(items) /\ cursor <= pages => cursor' = pages
  BY <1>1, ResponseFacts DEF IInv
<1>4. caughtUp' \in BOOLEAN
  BY <1>1 DEF LastResponse
<1> HIDE DEF items
<1>5. TypeOK' /\ Attempted'
  <2>1. read' \subseteq [seq : Nat, run : Nat]
    BY <1>1, <1>2, <1>3
  <2> QED
    BY <1>1, <1>3, <1>4, <2>1 DEF IInv, TypeOK, Attempted
<1>6. /\ \A p \in read : p.seq \in 1..cursor /\ p.run <= run
      /\ \A seq \in 1..cursor : \E p \in read : p.seq = seq
      /\ \A p, q \in read : p.seq = q.seq => p = q
  BY DEF IInv, Walked
<1>7. Walked'
  <2>1. \A p \in read' : p \in read \/ \E seq \in items : p = [seq |-> seq, run |-> run]
    BY <1>1
  <2>2. \A p \in read' : \/ p \in read /\ p.seq \in 1..cursor
                         \/ p.seq \in items /\ p = [seq |-> p.seq, run |-> run]
    BY <1>6, <2>1
  <2>3. \A p \in read' : p.seq \in 1..cursor' /\ p.run <= run
    BY <1>2, <1>3, <1>6, <2>2
  <2>4. \A seq \in 1..cursor' : \E p \in read' : p.seq = seq
    <3> TAKE seq \in 1..cursor'
    <3>1. CASE seq \in 1..cursor
      BY <1>1, <1>6, <3>1
    <3>2. CASE seq \in items
      <4>1. [seq |-> seq, run |-> run] \in read'
        BY <1>1, <3>2
      <4> QED
        BY <4>1
    <3> QED
      BY <1>2, <1>3, <3>1, <3>2
  <2>5. \A p, q \in read' : p.seq = q.seq => p = q
    <3>1. \A seq \in items : seq \notin 1..cursor
      BY <1>2, <1>3
    <3> QED
      BY <1>6, <2>2, <3>1
  <2> QED
    BY <1>1, <2>3, <2>4, <2>5 DEF Walked
<1>8. (\A p \in read' : p.run = run) => \A p \in read : p.run = run
  BY <1>1
<1>9. Current'
  <2>1. (\A p \in read : p.run = run) => cursor <= pages
    BY DEF IInv, Current
  <2>2. items = {} => cursor' = cursor
    BY <1>1 DEF After
  <2> QED
    BY <1>1, <1>2, <1>3, <1>8, <2>1, <2>2 DEF Current
<1>10. Ended'
  BY <1>1 DEF IInv, Ended
<1>11. WalkIsComplete'
  BY <1>1, <1>3, <1>8 DEF IInv, Current, WalkIsComplete
<1> QED
  BY <1>5, <1>7, <1>9, <1>10, <1>11 DEF IInv

\* The other requests do not touch the walk.
LEMMA WalkStays ==
  ASSUME IInv, UNCHANGED <<state, attempts, pages, run, cursor, read>>
  PROVE  Attempted' /\ Walked' /\ Current'
BY DEF IInv, Attempted, Walked, Current

LEMMA StepGetCrawl ==
  ASSUME IInv, GetCrawl
  PROVE  IInv'
<1>1. /\ sawEnd' = (state \in TerminalStates) /\ caughtUp' = FALSE
      /\ UNCHANGED <<state, attempts, pages, run, cursor, read, stream, row, sent>>
  BY DEF GetCrawl, crawlVars, streamVars
<1>2. TypeOK'
  <2>1. sawEnd' \in BOOLEAN
    BY <1>1
  <2>2. caughtUp' \in BOOLEAN
    BY <1>1, Zenon
  <2> QED
    BY <1>1, <2>1, <2>2 DEF IInv, TypeOK
<1>3. Ended'
  BY <1>1 DEF IInv, Ended
<1>4. WalkIsComplete'
  BY <1>1 DEF WalkIsComplete
<1> QED
  BY <1>1, <1>2, <1>3, <1>4, WalkStays DEF IInv

LEMMA StepEvents ==
  ASSUME IInv, Events
  PROVE  IInv'
<1>1. UNCHANGED <<state, attempts, pages, run, cursor, read, caughtUp, sawEnd>>
  BY DEF Events, EventsGet, EventsSend, EventsEnd, crawlVars, walkVars
<1>2. TypeOK'
  BY <1>1 DEF IInv, TypeOK, Events, EventsGet, EventsSend, EventsEnd
<1>3. Ended'
  BY <1>1 DEF IInv, Ended, Events, EventsGet, EventsSend, EventsEnd
<1>4. WalkIsComplete'
  BY <1>1 DEF IInv, WalkIsComplete
<1> QED
  BY <1>1, <1>2, <1>3, <1>4, WalkStays DEF IInv

LEMMA StepStutter ==
  ASSUME IInv, UNCHANGED readerVars
  PROVE  IInv'
BY DEF readerVars, crawlVars, walkVars, streamVars, IInv, TypeOK, Attempted, Walked, Current,
       Ended, WalkIsComplete

LEMMA Inductive == IInv /\ [ReaderNext]_readerVars => IInv'
BY StepCrawl, StepGetPages, StepGetCrawl, StepEvents, StepStutter DEF ReaderNext

LEMMA Invariance == ReaderSpec => []IInv
BY InitIInv, Inductive, PTL DEF ReaderSpec

-----------------------------------------------------------------------------
(***************************************************************************)
(* The theorems.                                                           *)
(***************************************************************************)

\* Every state has its types.
THEOREM TypeCorrect == ReaderSpec => []TypeOK
<1>1. IInv => TypeOK
  BY DEF IInv
<1> QED
  BY <1>1, Invariance, PTL

\* A walk with the cursor of GET /crawls/{id}/pages skips no seq and reads none twice, and
\* has every page when it has caught up with a crawl that is over.
THEOREM WalkExact == ReaderSpec => []WalkIsExact
<1>1. IInv => WalkIsExact
  BY WalkedIsGapFree DEF IInv, WalkIsExact
<1> QED
  BY <1>1, Invariance, PTL

\* The stream of GET /crawls/{id}/events closes only after it has sent how the crawl ended.
THEOREM StreamTold == ReaderSpec => []StreamTellsOutcome
<1>1. IInv => StreamTellsOutcome
  BY DEF IInv, Ended, StreamTellsOutcome
<1> QED
  BY <1>1, Invariance, PTL
=============================================================================
