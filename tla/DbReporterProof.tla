---------------------------- MODULE DbReporterProof ----------------------------
(***************************************************************************)
(* Why no page is dropped between the crawl and the table.  The buffer of  *)
(* a job is the run of seqs that ends with the last page reported; a batch *)
(* in flight is a run too, the oldest part of the buffer; and the table    *)
(* holds the seqs 1..n of the latest claim.  The runs overlap: nothing     *)
(* before the buffer, and nothing before a batch or the batch of a         *)
(* transaction without a client, is missing from the table, so that        *)
(* whichever of them commits leaves no gap.  The row lock keeps the claim  *)
(* from changing while a batch can still commit.                           *)
(***************************************************************************)
EXTENDS DbReporter, FiniteSetTheorems, TLAPS

-----------------------------------------------------------------------------
(***************************************************************************)
(* Runs of seqs.                                                           *)
(***************************************************************************)

\* The seqs a+1..b, in order.
From(a, b) == [i \in 1..b - a |-> a + i]

Before(rows) == rows[1] - 1

IsRun(rows) ==
  /\ rows # <<>> /\ Before(rows) \in Nat /\ Last(rows) \in Nat /\ Before(rows) < Last(rows)
  /\ rows = From(Before(rows), Last(rows))

LEMMA SameSeq ==
  ASSUME NEW s \in Seq(Nat), NEW t \in Seq(Nat), Len(s) = Len(t),
         \A i \in 1..Len(s) : s[i] = t[i]
  PROVE  s = t
OBVIOUS

LEMMA FromIsSeq ==
  ASSUME NEW a \in Nat, NEW b \in Nat, a <= b
  PROVE  From(a, b) \in Seq(Nat) /\ Len(From(a, b)) = b - a
BY DEF From

LEMMA FromSet ==
  ASSUME NEW a \in Nat, NEW b \in Nat, a <= b
  PROVE  ToSet(From(a, b)) = a + 1..b
<1> DEFINE f == From(a, b)
<1>1. DOMAIN f = 1..b - a /\ \A i \in 1..b - a : f[i] = a + i
  BY DEF From
<1> HIDE DEF f
<1>2. ASSUME NEW s \in a + 1..b
      PROVE  s \in ToSet(f)
  <2>1. s - a \in 1..b - a /\ f[s - a] = s
    BY <1>1
  <2> QED BY <1>1, <2>1 DEF ToSet
<1>3. ASSUME NEW s \in ToSet(f)
      PROVE  s \in a + 1..b
  BY <1>1, <1>3 DEF ToSet
<1> QED BY <1>2, <1>3 DEF f

LEMMA FromAppend ==
  ASSUME NEW a \in Nat, NEW b \in Nat, a <= b
  PROVE  Append(From(a, b), b + 1) = From(a, b + 1)
<1> DEFINE f == From(a, b)
           g == From(a, b + 1)
           h == Append(f, b + 1)
<1>0. b + 1 \in Nat /\ a <= b + 1
  OBVIOUS
<1>1. /\ f \in Seq(Nat) /\ Len(f) = b - a /\ g \in Seq(Nat) /\ Len(g) = b + 1 - a
  <2> HIDE DEF f, g
  <2>1. f \in Seq(Nat) /\ Len(f) = b - a
    BY FromIsSeq DEF f
  <2>2. g \in Seq(Nat) /\ Len(g) = b + 1 - a
    BY <1>0, FromIsSeq DEF g
  <2> QED BY <2>1, <2>2
<1>2. /\ \A i \in 1..b - a : f[i] = a + i
      /\ \A i \in 1..b + 1 - a : g[i] = a + i
  BY DEF From
<1> HIDE DEF f, g
<1>3. h \in Seq(Nat) /\ Len(h) = b + 1 - a
  BY <1>1
<1>4. \A i \in 1..b + 1 - a : h[i] = a + i
  BY <1>1, <1>2
<1> HIDE DEF h
<1>5. h = g
  <2>1. Len(h) = Len(g) /\ \A i \in 1..Len(h) : h[i] = g[i]
    BY <1>1, <1>2, <1>3, <1>4
  <2> QED BY <1>1, <1>3, <2>1, SameSeq
<1> QED BY <1>5 DEF f, g, h

LEMMA FromRest ==
  ASSUME NEW a \in Nat, NEW b \in Nat, a <= b, NEW m \in Nat, a <= m, m <= b
  PROVE  SubSeq(From(a, b), m - a + 1, b - a) = From(m, b)
<1> DEFINE f == From(a, b)
           g == From(m, b)
           h == SubSeq(f, m - a + 1, b - a)
<1>1. /\ f \in Seq(Nat) /\ Len(f) = b - a /\ g \in Seq(Nat) /\ Len(g) = b - m
  BY FromIsSeq
<1>2. /\ \A i \in 1..b - a : f[i] = a + i
      /\ \A i \in 1..b - m : g[i] = m + i
  BY DEF From
<1> HIDE DEF f, g
<1>3. h \in Seq(Nat) /\ Len(h) = b - m
  BY <1>1
<1>4. \A i \in 1..b - m : h[i] = m + i
  BY <1>1, <1>2
<1> HIDE DEF h
<1>5. h = g
  <2>1. Len(h) = Len(g) /\ \A i \in 1..Len(h) : h[i] = g[i]
    BY <1>1, <1>2, <1>3, <1>4
  <2> QED BY <1>1, <1>3, <2>1, SameSeq
<1> QED BY <1>5 DEF f, g, h

LEMMA FromIsRun ==
  ASSUME NEW a \in Nat, NEW b \in Nat, a < b
  PROVE  IsRun(From(a, b)) /\ Before(From(a, b)) = a /\ Last(From(a, b)) = b
<1> DEFINE f == From(a, b)
<1>1. f \in Seq(Nat) /\ Len(f) = b - a
  BY FromIsSeq
<1>2. f[1] = a + 1 /\ f[b - a] = b
  BY DEF From
<1> HIDE DEF f
<1>3. Before(f) = a /\ Last(f) = b /\ f # <<>>
  BY <1>1, <1>2 DEF Before, Last
<1> QED BY <1>3 DEF IsRun, f

LEMMA RunSet ==
  ASSUME NEW rows, IsRun(rows)
  PROVE  /\ ToSet(rows) = Before(rows) + 1..Last(rows)
         /\ rows \in Seq(Nat) /\ Len(rows) = Last(rows) - Before(rows)
<1>1. rows = From(Before(rows), Last(rows)) /\ Before(rows) \in Nat /\ Last(rows) \in Nat
      /\ Before(rows) <= Last(rows)
  BY DEF IsRun
<1> QED BY <1>1, FromSet, FromIsSeq

LEMMA EmptyRun == \A a \in Nat : From(a, a) = <<>>
<1> TAKE a \in Nat
<1>1. From(a, a) \in Seq(Nat) /\ Len(From(a, a)) = 0
  BY FromIsSeq
<1> QED BY <1>1

-----------------------------------------------------------------------------
(***************************************************************************)
(* The invariant.                                                          *)
(***************************************************************************)

Call == [by : {"none", "flusher", "closer"},
         phase : {"none", "select", "insert", "commit", "reply"},
         rows : Seq(Nat)]

Job == [phase : {"idle", "crawling", "closing", "record"},
        lease : Nat, seq : Nat, buffer : Seq(Nat), full : BOOLEAN,
        flusher : {"wait", "lock", "call", "dead", "done"},
        closer : {"off", "lock", "call", "clean", "failed", "lost"},
        call : Call, lost : BOOLEAN, clean : BOOLEAN, written : Nat]

Orphan == [rows : Seq(Nat), lease : Nat, sent : BOOLEAN]

RowOK == row \in [state : {"queued", "running", "settled"},
                  owner : Workers \cup {"none"}, lease : Nat]

\* The seqs that have left the buffer.
Taken(j) == j.seq - Len(j.buffer)

\* Who waits for what, in each phase of the job.
InPhase(j) ==
  /\ j.phase = "idle" => j.call = NoCall /\ j.flusher = "done" /\ j.closer = "off"
  /\ j.phase = "crawling" => j.closer = "off" /\ ~j.lost
  /\ j.phase = "closing" => j.closer \in {"lock", "call"} /\ (j.lost => j.buffer = <<>>)
  /\ j.phase = "record" => /\ j.call = NoCall /\ j.flusher = "done" /\ j.closer \notin {"lock", "call"}
                           /\ j.clean /\ ~j.lost => j.buffer = <<>>
  /\ j.call.by = "none" <=> j.call = NoCall
  /\ j.flusher = "call" <=> j.call.by = "flusher"
  /\ j.closer = "call" <=> j.call.by = "closer"

\* The buffer ends with the last page reported, and a batch is the oldest part of it: all
\* of it when close() sends it.
InBuffer(j) ==
  /\ j.seq <= MaxPages /\ Len(j.buffer) <= j.seq
  /\ j.buffer = From(Taken(j), j.seq)
  /\ ~j.lost => j.written = Taken(j)
  /\ j.call # NoCall =>
       /\ IsRun(j.call.rows) /\ Last(j.call.rows) <= j.seq
       /\ ~j.lost => Before(j.call.rows) = Taken(j)
       /\ ~j.lost /\ j.call.by = "closer" => Last(j.call.rows) = j.seq

Sound(j) == j \in Job /\ InPhase(j) /\ InBuffer(j)

\* The event is set when a batch is full that nobody is writing.
Noticed(j) ==
  /\ j.flusher = "wait" /\ Len(j.buffer) >= BatchSize => j.full
  /\ j.flusher = "call" /\ Len(j.buffer) >= BatchSize /\ Len(j.call.rows) < Len(j.buffer)
       => j.full

Stored == Cardinality(page)

\* The pages 1..n of one claim.
Filled(lease, n) == {[seq |-> i, lease |-> lease] : i \in 1..n}

PagesOK == Stored \in Nat /\ Stored <= MaxPages /\ page = Filled(row.lease, Stored)

\* The job of the latest claim.
Current(w) == job[w].phase # "idle" /\ job[w].lease = row.lease

\* An owner's job is the current one.
Leased ==
  \A w \in Workers : job[w].phase # "idle" =>
    /\ job[w].lease <= row.lease
    /\ row.owner = w => row.state = "running" /\ job[w].lease = row.lease

OneCurrent == \A v, w \in Workers : Current(v) /\ Current(w) => v = w

\* While a batch can commit, the row stays as SELECT saw it.
LockHolds ==
  /\ \A w \in Workers : HoldsLock(w) => Owns(w)
  /\ orphans # {} => row.state = "running"

\* What the current job has taken out of its buffer is stored, what is stored it has
\* reported, and its batch has no gap before it.
InTable(j, n) ==
  /\ n <= j.seq
  /\ ~j.lost => Taken(j) <= n
  /\ j.call # NoCall => Before(j.call.rows) <= n
  /\ j.call.phase = "reply" => Last(j.call.rows) <= n

JobsInTable == \A w \in Workers : Current(w) => InTable(job[w], Stored)

OrphansInTable ==
  \A o \in orphans :
    /\ o \in Orphan /\ o.lease = row.lease
    /\ IsRun(o.rows) /\ Before(o.rows) <= Stored /\ Last(o.rows) <= MaxPages
    /\ \A w \in Workers : Current(w) => Last(o.rows) <= job[w].seq

JobsOK == job \in [Workers -> {j \in Job : Sound(j)}] /\ faults \in Nat

EventInv == faults = 0 => \A w \in Workers : Noticed(job[w])

TableInv ==
  RowOK /\ PagesOK /\ Leased /\ OneCurrent /\ LockHolds /\ JobsInTable /\ OrphansInTable

IInv == JobsOK /\ EventInv /\ TableInv

-----------------------------------------------------------------------------
(***************************************************************************)
(* What a step makes of a job.                                             *)
(***************************************************************************)

LEMMA IdleSound == Sound(Idle)
<1>1. Idle \in Job /\ InPhase(Idle)
  BY DEF Idle, Job, Call, NoCall, InPhase
<1>2. InBuffer(Idle)
  BY EmptyRun, BoundsAssumption DEF Idle, InBuffer, Taken, NoCall
<1> QED BY <1>1, <1>2 DEF Sound

LEMMA ClaimedSound ==
  ASSUME NEW l \in Nat
  PROVE  Sound([Idle EXCEPT !.phase = "crawling", !.lease = l, !.flusher = "wait"])
<1> DEFINE next == [Idle EXCEPT !.phase = "crawling", !.lease = l, !.flusher = "wait"]
<1>0. Idle \in Job
  BY IdleSound DEF Sound
<1>1. next \in Job
  BY <1>0 DEF Job
<1>2. /\ next.phase = "crawling" /\ next.closer = "off" /\ next.flusher = "wait"
      /\ next.call = NoCall /\ next.lost = FALSE /\ next.seq = 0 /\ next.buffer = <<>>
      /\ next.written = 0
  BY DEF Idle
<1> HIDE DEF next
<1>3. InPhase(next)
  BY <1>2 DEF InPhase, NoCall
<1>4. Taken(next) = 0
  <2>1. Len(next.buffer) = 0 /\ next.seq = 0
    BY <1>2
  <2> QED BY <2>1 DEF Taken
<1>5. InBuffer(next)
  BY <1>2, <1>4, EmptyRun, BoundsAssumption DEF InBuffer
<1> QED BY <1>1, <1>3, <1>5 DEF Sound, next

LEMMA PageSound ==
  ASSUME NEW j, Sound(j), j.phase = "crawling", j.seq < MaxPages, NEW full \in BOOLEAN
  PROVE  Sound([j EXCEPT !.seq = j.seq + 1, !.buffer = Append(j.buffer, j.seq + 1),
                         !.full = full])
<1> DEFINE s == j.seq + 1
           b == Append(j.buffer, s)
           next == [j EXCEPT !.seq = s, !.buffer = b, !.full = full]
<1>1. /\ s \in Nat /\ b \in Seq(Nat) /\ Len(b) = Len(j.buffer) + 1 /\ s <= MaxPages
      /\ j \in Job /\ Len(j.buffer) \in Nat /\ MaxPages \in Nat /\ j.seq \in Nat
  BY BoundsAssumption DEF Sound, Job
<1>2. b = From(Taken(j), s)
  <2>1. Taken(j) \in Nat /\ Taken(j) <= j.seq /\ j.buffer = From(Taken(j), j.seq)
    BY <1>1 DEF Sound, InBuffer, Taken
  <2> QED BY <1>1, <2>1, FromAppend
<1>3. j.seq < s /\ s - Len(b) = Taken(j)
  BY <1>1 DEF Taken
<1> HIDE DEF s, b
<1>4. next \in Job
  BY <1>1 DEF Job
<1>5. /\ next.seq = s /\ next.buffer = b /\ next.call = j.call /\ next.phase = j.phase
      /\ next.flusher = j.flusher /\ next.closer = j.closer /\ next.lost = j.lost
      /\ next.written = j.written /\ next.clean = j.clean
  BY <1>1 DEF Job
<1> HIDE DEF next
<1>6. InPhase(next)
  BY <1>5 DEF InPhase, Sound
<1>7. Taken(next) = Taken(j)
  BY <1>3, <1>5 DEF Taken
<1>8. Len(b) <= s
  BY <1>1, <1>3 DEF Sound, InBuffer
<1>9. j.call # NoCall => Last(j.call.rows) <= s /\ j.call.by # "closer"
  BY <1>1, <1>3 DEF Sound, InBuffer, InPhase, IsRun
<1>10. InBuffer(next)
  BY <1>1, <1>2, <1>5, <1>7, <1>8, <1>9 DEF Sound, InBuffer
<1> QED BY <1>4, <1>6, <1>10 DEF Sound, next, s, b

LEMMA EndSound ==
  ASSUME NEW j, Sound(j), j.phase = "crawling", NEW lost \in BOOLEAN
  PROVE  Sound([j EXCEPT !.phase = "closing", !.lost = lost, !.full = TRUE, !.closer = "lock",
                         !.buffer = IF lost THEN <<>> ELSE j.buffer])
<1> DEFINE b == IF lost THEN <<>> ELSE j.buffer
           next == [j EXCEPT !.phase = "closing", !.lost = lost, !.full = TRUE,
                             !.closer = "lock", !.buffer = b]
<1>1. /\ j \in Job /\ b \in Seq(Nat) /\ j.seq \in Nat /\ Len(b) \in Nat /\ Len(b) <= j.seq
      /\ b = From(j.seq - Len(b), j.seq) /\ (~lost => b = j.buffer) /\ (lost => b = <<>>)
  <2>1. j \in Job /\ j.seq \in Nat /\ j.buffer \in Seq(Nat)
    BY DEF Sound, Job
  <2>2. CASE lost
    <3>1. b = <<>> /\ Len(b) = 0
      BY <2>2
    <3> QED BY <2>1, <2>2, <3>1, EmptyRun
  <2>3. CASE ~lost
    BY <2>1, <2>3 DEF Sound, InBuffer, Taken
  <2> QED BY <2>2, <2>3
<1> HIDE DEF b
<1>2. /\ next.phase = "closing" /\ next.lost = lost /\ next.closer = "lock"
      /\ next.buffer = b /\ next.seq = j.seq /\ next.call = j.call
      /\ next.flusher = j.flusher /\ next.written = j.written
  BY <1>1 DEF Job
<1>3. next \in Job
  BY <1>1 DEF Job
<1> HIDE DEF next
<1>4. j.closer = "off" /\ ~j.lost
  BY DEF Sound, InPhase
<1>5. InPhase(next)
  BY <1>1, <1>2, <1>4 DEF InPhase, Sound
<1>6. Taken(next) = j.seq - Len(b) /\ (~lost => Taken(next) = Taken(j))
  BY <1>1, <1>2 DEF Taken
<1>7. InBuffer(next)
  BY <1>1, <1>2, <1>4, <1>6 DEF InBuffer, Sound
<1> QED BY <1>3, <1>5, <1>7 DEF Sound, next, b

LEMMA DrainedSound ==
  ASSUME NEW j, Sound(j), j.phase = "closing", NEW outcome \in {"clean", "failed", "lost"},
         outcome = "clean" /\ ~j.lost => j.buffer = <<>>
  PROVE  Sound(Drained(j, outcome))
<1> DEFINE next == Drained(j, outcome)
<1>1. /\ next.phase = "record" /\ next.closer = outcome /\ next.flusher = "done"
      /\ next.call = NoCall /\ next.lost = (j.lost \/ outcome = "lost")
      /\ next.clean = (outcome = "clean")
      /\ next.seq = j.seq /\ next.buffer = j.buffer /\ next.written = j.written
  BY DEF Drained, Sound, Job
<1>2. next \in Job
  <2>1. (j.lost \/ outcome = "lost") \in BOOLEAN /\ (outcome = "clean") \in BOOLEAN
    OBVIOUS
  <2>2. NoCall \in Call
    BY DEF NoCall, Call
  <2> QED BY <2>1, <2>2 DEF Drained, Sound, Job
<1> HIDE DEF next
<1>3. InPhase(next)
  <2>1. next.clean /\ ~next.lost => next.buffer = <<>>
    BY <1>1
  <2>2. next.closer \notin {"lock", "call"}
    BY <1>1
  <2> QED BY <1>1, <2>1, <2>2 DEF InPhase, NoCall
<1>4. InBuffer(next)
  BY <1>1 DEF InBuffer, Sound, Taken
<1> QED BY <1>2, <1>3, <1>4 DEF Sound, next

LEMMA WakeSound ==
  ASSUME NEW j, Sound(j), j.flusher = "wait"
  PROVE  Sound([j EXCEPT !.flusher = "lock", !.full = FALSE])
<1> DEFINE next == [j EXCEPT !.flusher = "lock", !.full = FALSE]
<1>1. /\ next.phase = j.phase /\ next.closer = j.closer /\ next.flusher = "lock"
      /\ next.call = j.call /\ next.lost = j.lost /\ next.clean = j.clean
      /\ next.seq = j.seq /\ next.buffer = j.buffer /\ next.written = j.written
  BY DEF Sound, Job
<1>2. next \in Job
  BY DEF Sound, Job
<1> HIDE DEF next
<1>3. InPhase(next)
  BY <1>1 DEF InPhase, Sound
<1>4. InBuffer(next)
  BY <1>1 DEF InBuffer, Sound, Taken
<1> QED BY <1>2, <1>3, <1>4 DEF Sound, next

LEMMA NextRoundSound ==
  ASSUME NEW j, Sound(j), j.phase \in {"crawling", "closing"},
         j.call = NoCall \/ j.call.by = "flusher"
  PROVE  Sound(NextRound(j))
<1> DEFINE f == IF j.phase = "closing" THEN "done" ELSE "wait"
           next == [j EXCEPT !.flusher = f, !.call = NoCall]
<1>1. f \in {"done", "wait"} /\ j.closer # "call" /\ NoCall \in Call
  BY DEF Sound, InPhase, NoCall, Call
<1> HIDE DEF f
<1>2. /\ next.phase = j.phase /\ next.closer = j.closer /\ next.flusher = f
      /\ next.call = NoCall /\ next.lost = j.lost /\ next.clean = j.clean
      /\ next.seq = j.seq /\ next.buffer = j.buffer /\ next.written = j.written
  BY DEF Sound, Job
<1>3. next \in Job
  BY <1>1 DEF Sound, Job
<1> HIDE DEF next
<1>4. InPhase(next)
  BY <1>1, <1>2 DEF InPhase, Sound, NoCall
<1>5. InBuffer(next)
  BY <1>2 DEF InBuffer, Sound, Taken
<1> QED BY <1>3, <1>4, <1>5 DEF Sound, NextRound, next, f

\* A flush takes the whole buffer.
LEMMA EnterSound ==
  ASSUME NEW j, Sound(j), j.call = NoCall, NEW by \in {"flusher", "closer"}, j[by] = "lock",
         j.buffer # <<>>
  PROVE  Sound([j EXCEPT ![by] = "call",
                         !.call = [by |-> by, phase |-> "select", rows |-> j.buffer]])
<1> DEFINE c == [by |-> by, phase |-> "select", rows |-> j.buffer]
           next == [j EXCEPT ![by] = "call", !.call = c]
<1>0. c.by = by /\ c.phase = "select" /\ c.rows = j.buffer
  OBVIOUS
<1>1. j \in Job /\ j.seq \in Nat /\ j.buffer \in Seq(Nat) /\ c \in Call /\ c # NoCall
  BY DEF Sound, Job, Call, NoCall
<1> HIDE DEF c
<1>2. /\ next.phase = j.phase /\ next.call = c /\ next.lost = j.lost /\ next.clean = j.clean
      /\ next.seq = j.seq /\ next.buffer = j.buffer /\ next.written = j.written
  BY <1>1 DEF Job
<1>3. /\ next \in Job
      /\ by = "flusher" => next.flusher = "call" /\ next.closer = j.closer /\ j.flusher = "lock"
      /\ by = "closer" => next.closer = "call" /\ next.flusher = j.flusher /\ j.closer = "lock"
  BY <1>1 DEF Job
<1> HIDE DEF next
<1>4. InPhase(next)
  <2>0. /\ j.call.by = "none" /\ j.flusher # "call" /\ j.closer # "call" /\ InPhase(j)
        /\ j.phase \notin {"idle", "record"}
    BY <1>3 DEF InPhase, Sound, NoCall
  <2>1. CASE by = "flusher"
    BY <1>0, <1>1, <1>2, <1>3, <2>0, <2>1 DEF InPhase
  <2>2. CASE by = "closer"
    BY <1>0, <1>1, <1>2, <1>3, <2>0, <2>2 DEF InPhase
  <2> QED BY <2>1, <2>2
<1>5. Taken(next) = Taken(j)
  BY <1>2 DEF Taken
<1>6. /\ IsRun(j.buffer) /\ Last(j.buffer) = j.seq /\ Before(j.buffer) = Taken(j)
  <2>1. Taken(j) \in Nat /\ Taken(j) < j.seq /\ j.buffer = From(Taken(j), j.seq)
    <3>1. Len(j.buffer) \in Nat /\ Len(j.buffer) # 0 /\ Len(j.buffer) <= j.seq
      BY <1>1 DEF Sound, InBuffer
    <3> QED BY <1>1, <3>1 DEF Sound, InBuffer, Taken
  <2> QED BY <1>1, <2>1, FromIsRun
<1>7. InBuffer(next)
  BY <1>0, <1>1, <1>2, <1>5, <1>6 DEF InBuffer, Sound
<1> QED BY <1>3, <1>4, <1>7 DEF Sound, next, c

LEMMA CallSound ==
  ASSUME NEW j, Sound(j), j.call # NoCall, NEW p \in {"insert", "commit", "reply"}
  PROVE  Sound([j EXCEPT !.call.phase = p])
<1> DEFINE c == [j.call EXCEPT !.phase = p]
           next == [j EXCEPT !.call = c]
<1>0. /\ j \in Job /\ j.call \in Call /\ j.call.by # "none"
  BY DEF Sound, Job, InPhase
<1>1. /\ c.by = j.call.by /\ c.phase = p /\ c.rows = j.call.rows /\ c \in Call
  BY <1>0 DEF Call
<1> HIDE DEF c
<1>2. c # NoCall
  BY <1>0, <1>1 DEF NoCall
<1>3. /\ next.phase = j.phase /\ next.closer = j.closer /\ next.flusher = j.flusher
      /\ next.call = c /\ next.lost = j.lost /\ next.clean = j.clean
      /\ next.seq = j.seq /\ next.buffer = j.buffer /\ next.written = j.written
  BY <1>0 DEF Job
<1>4. next \in Job
  BY <1>0, <1>1 DEF Job
<1> HIDE DEF next
<1>5. InPhase(next)
  BY <1>0, <1>1, <1>2, <1>3 DEF InPhase, Sound
<1>6. Taken(next) = Taken(j)
  BY <1>3 DEF Taken
<1>7. InBuffer(next)
  BY <1>1, <1>2, <1>3, <1>6 DEF InBuffer, Sound
<1> QED BY <1>4, <1>5, <1>7 DEF Sound, next, c

LEMMA DeadSound ==
  ASSUME NEW j, Sound(j), j.call.by = "flusher"
  PROVE  Sound([j EXCEPT !.flusher = "dead", !.call = NoCall])
<1> DEFINE next == [j EXCEPT !.flusher = "dead", !.call = NoCall]
<1>1. /\ next.phase = j.phase /\ next.closer = j.closer /\ next.flusher = "dead"
      /\ next.call = NoCall /\ next.lost = j.lost /\ next.clean = j.clean
      /\ next.seq = j.seq /\ next.buffer = j.buffer /\ next.written = j.written
  BY DEF Sound, Job
<1>0. NoCall \in Call
  BY DEF NoCall, Call
<1>2. next \in Job
  BY <1>0 DEF Sound, Job
<1> HIDE DEF next
<1>3. j.call # NoCall
  BY DEF NoCall
<1>4. InPhase(next)
  BY <1>1, <1>3 DEF InPhase, Sound, NoCall
<1>5. InBuffer(next)
  BY <1>1 DEF InBuffer, Sound, Taken
<1> QED BY <1>2, <1>4, <1>5 DEF Sound, next

\* What the batch leaves of the buffer, which may have been discarded meanwhile.
LEMMA RestOfBuffer ==
  ASSUME NEW j, Sound(j), j.call # NoCall,
         NEW rest, rest = Rest(j.buffer, j.call.rows)
  PROVE  /\ rest \in Seq(Nat) /\ Len(rest) \in Nat /\ Len(rest) <= j.seq
         /\ rest = From(j.seq - Len(rest), j.seq)
         /\ ~j.lost => /\ j.seq - Len(rest) = Last(j.call.rows)
                       /\ j.seq - Len(rest) = Taken(j) + Len(j.call.rows)
         /\ j.phase = "closing" /\ j.call.by = "closer" => rest = <<>>
<1> DEFINE rows == j.call.rows
           b == Last(rows)
           a == Before(rows)
<1>1. /\ j.seq \in Nat /\ j.buffer \in Seq(Nat) /\ IsRun(rows) /\ b <= j.seq
      /\ a \in Nat /\ b \in Nat /\ a < b /\ Len(rows) = b - a
  BY RunSet DEF Sound, Job, InBuffer, IsRun
<1>2. CASE ~j.lost
  <2>1. a = Taken(j) /\ j.buffer = From(a, j.seq)
    BY <1>2 DEF Sound, InBuffer
  <2> HIDE DEF a, b
  <2>2. a <= j.seq /\ Len(j.buffer) = j.seq - a
    <3>1. a <= j.seq /\ a \in Nat /\ j.seq \in Nat
      BY <1>1
    <3> QED BY <2>1, <3>1, FromIsSeq
  <2>3. rest = SubSeq(From(a, j.seq), b - a + 1, j.seq - a)
    <3>1. rest = SubSeq(j.buffer, Len(rows) + 1, Len(j.buffer))
      BY DEF Rest
    <3> QED BY <1>1, <2>1, <2>2, <3>1
  <2>4. rest = From(b, j.seq)
    <3>1. a \in Nat /\ b \in Nat /\ j.seq \in Nat /\ a <= j.seq /\ a <= b /\ b <= j.seq
      BY <1>1, <2>2
    <3>2. SubSeq(From(a, j.seq), b - a + 1, j.seq - a) = From(b, j.seq)
      BY <3>1, FromRest
    <3> QED BY <2>3, <3>2
  <2>5. rest \in Seq(Nat) /\ Len(rest) = j.seq - b
    BY <1>1, <2>4, FromIsSeq
  <2>6. j.call.by = "closer" => b = j.seq
    BY <1>2 DEF Sound, InBuffer, b
  <2>7. j.call.by = "closer" => rest = <<>>
    BY <1>1, <2>5, <2>6
  <2>8. j.seq - Len(rest) = b
    BY <1>1, <2>5
  <2>9. rest = From(j.seq - Len(rest), j.seq)
    BY <2>4, <2>8
  <2>10. j.seq - Len(rest) = Taken(j) + Len(j.call.rows) /\ Len(rest) <= j.seq
    BY <1>1, <2>1, <2>5, <2>8
  <2> QED BY <2>5, <2>7, <2>8, <2>9, <2>10 DEF b
<1>3. CASE j.lost
  <2>1. j.buffer = <<>>
    BY <1>3 DEF Sound, InPhase, Job
  <2>2. rest = <<>> /\ Len(rest) = 0
    <3>1. rest = SubSeq(j.buffer, Len(rows) + 1, Len(j.buffer))
      BY DEF Rest
    <3>2. Len(j.buffer) = 0 /\ Len(rows) \in Nat
      BY <1>1, <2>1
    <3>3. rest \in Seq(Nat) /\ Len(rest) = 0
      BY <1>1, <3>1, <3>2
    <3> QED BY <3>3
  <2>3. j.seq - Len(rest) = j.seq /\ From(j.seq, j.seq) = <<>>
    BY <1>1, <2>2, EmptyRun
  <2>4. rest = From(j.seq - Len(rest), j.seq)
    BY <2>2, <2>3
  <2>5. rest \in Seq(Nat) /\ Len(rest) \in Nat /\ Len(rest) <= j.seq
    BY <1>1, <2>2
  <2> HIDE DEF rows, a, b
  <2> QED BY <1>3, <2>2, <2>4, <2>5
<1> QED BY <1>2, <1>3

LEMMA RestLength ==
  ASSUME NEW s \in Seq(Nat), NEW k \in Nat, k <= Len(s)
  PROVE  Len(SubSeq(s, k + 1, Len(s))) = Len(s) - k
OBVIOUS

LEMMA ReplySound ==
  ASSUME NEW j, Sound(j), j.call # NoCall,
         NEW next, next = Written(j)
  PROVE  /\ Sound(next)
         /\ next.phase # "idle" /\ next.lease = j.lease /\ next.seq = j.seq
         /\ next.call = NoCall /\ next.lost = j.lost
         /\ ~j.lost => Taken(next) = Last(j.call.rows)
         /\ next.buffer = Rest(j.buffer, j.call.rows)
         /\ next.flusher = "wait" => j.call.by = "flusher" /\ next.full = j.full
<1> DEFINE rest == Rest(j.buffer, j.call.rows)
           n == j.written + Len(j.call.rows)
           k == [j EXCEPT !.buffer = rest, !.written = n]
<1>r. /\ rest \in Seq(Nat) /\ Len(rest) \in Nat /\ Len(rest) <= j.seq
      /\ rest = From(j.seq - Len(rest), j.seq)
      /\ ~j.lost => /\ j.seq - Len(rest) = Last(j.call.rows)
                    /\ j.seq - Len(rest) = Taken(j) + Len(j.call.rows)
      /\ j.phase = "closing" /\ j.call.by = "closer" => rest = <<>>
  BY RestOfBuffer
<1>n. n \in Nat /\ (~j.lost => n = j.seq - Len(rest))
  <2>1. j.written \in Nat /\ Len(j.call.rows) \in Nat
    BY RunSet DEF Sound, Job, InBuffer
  <2>2. ~j.lost => j.written = Taken(j)
    BY DEF Sound, InBuffer
  <2> QED BY <1>r, <2>1, <2>2
<1>q. next = Returned(k, j.call.by)
  BY DEF Written, k, n, rest
<1>e. Rest(j.buffer, j.call.rows) = rest
  OBVIOUS
<1> HIDE DEF rest, n
<1>j. /\ j \in Job /\ j.seq \in Nat /\ j.seq <= MaxPages /\ NoCall \in Call
      /\ j.phase \in {"crawling", "closing"} /\ j.call.by \in {"flusher", "closer"}
  BY DEF Sound, Job, InPhase, InBuffer, Call, NoCall
<1>1. /\ k \in Job /\ k.phase = j.phase /\ k.closer = j.closer /\ k.call = j.call
      /\ k.lost = j.lost /\ k.seq = j.seq /\ k.buffer = rest /\ k.written = n
      /\ k.lease = j.lease /\ k.flusher = j.flusher /\ k.full = j.full
  BY <1>r, <1>n, <1>j DEF Job
<1> HIDE DEF k
<1>2. CASE j.call.by = "flusher"
  <2> DEFINE f == IF j.phase = "closing" THEN "done" ELSE "wait"
  <2>1. next = [k EXCEPT !.flusher = f, !.call = NoCall]
    BY <1>q, <1>1, <1>2 DEF Returned, NextRound
  <2>2. f \in {"done", "wait"} /\ j.closer # "call"
    BY <1>2, <1>j DEF Sound, InPhase
  <2> HIDE DEF f
  <2>m. next \in Job
    <3>1. k \in Job /\ NoCall \in Call
      BY <1>1, <1>j
    <3> QED BY <2>1, <2>2, <3>1 DEF Job
  <2>3. /\ next.phase = j.phase /\ next.closer = j.closer /\ next.call = NoCall
        /\ next.lost = j.lost /\ next.seq = j.seq /\ next.buffer = rest /\ next.written = n
        /\ next.lease = j.lease /\ next.flusher = f /\ next.full = j.full
    BY <1>1, <2>1 DEF Job
  <2>4. InPhase(next)
    <3>1. j.phase = "closing" /\ j.lost => rest = <<>>
      <4>1. j.phase = "closing" /\ j.lost => j.buffer = <<>>
        BY DEF Sound, InPhase
      <4>2. Len(j.call.rows) \in Nat
        BY RunSet DEF Sound, InBuffer
      <4>3. j.buffer = <<>> => rest = <<>>
        BY <1>r, <4>2 DEF Rest, rest
      <4> QED BY <4>1, <4>3
    <3> QED BY <1>j, <2>2, <2>3, <3>1 DEF InPhase, Sound, NoCall
  <2>5. Taken(next) = j.seq - Len(rest)
    BY <2>3 DEF Taken
  <2>6. InBuffer(next)
    BY <1>r, <1>n, <1>j, <2>3, <2>5 DEF InBuffer
  <2> QED BY <1>2, <1>r, <1>j, <1>e, <2>m, <2>3, <2>4, <2>5, <2>6 DEF Sound
<1>3. CASE j.call.by = "closer"
  <2>1. /\ next = Drained(k, "clean") /\ j.phase = "closing" /\ rest = <<>>
    BY <1>q, <1>r, <1>3, <1>j DEF Returned, Sound, InPhase
  <2> DEFINE lost == k.lost \/ "clean" = "lost"
             clean == "clean" = "clean"
  <2>d. next = [k EXCEPT !.phase = "record", !.closer = "clean", !.flusher = "done",
                         !.call = NoCall, !.lost = lost, !.clean = clean]
    BY <2>1 DEF Drained
  <2>b. lost \in BOOLEAN /\ clean \in BOOLEAN
    OBVIOUS
  <2> HIDE DEF lost, clean
  <2>m. next \in Job
    <3>1. k \in Job /\ NoCall \in Call
      BY <1>1, <1>j
    <3> QED BY <2>b, <2>d, <3>1 DEF Job
  <2>2. /\ next.phase = "record" /\ next.closer = "clean" /\ next.call = NoCall
        /\ next.lost = j.lost /\ next.seq = j.seq /\ next.buffer = rest /\ next.written = n
        /\ next.lease = j.lease /\ next.flusher = "done"
    <3>1. /\ next.phase = "record" /\ next.closer = "clean" /\ next.call = NoCall
          /\ next.seq = j.seq /\ next.buffer = rest /\ next.written = n
          /\ next.lease = j.lease /\ next.flusher = "done" /\ next.lost = lost
      BY <1>1, <2>d DEF Job
    <3>2. next.lost = (k.lost \/ "clean" = "lost")
      BY <3>1 DEF lost
    <3>3. next.lost = j.lost
      BY <1>1, <1>j, <3>2 DEF Job
    <3> QED BY <3>1, <3>3
  <2>3. InPhase(next)
    BY <2>1, <2>2 DEF InPhase, NoCall
  <2>4. Taken(next) = j.seq - Len(rest)
    BY <2>2 DEF Taken
  <2>5. InBuffer(next)
    BY <1>r, <1>n, <1>j, <2>2, <2>4 DEF InBuffer
  <2> QED BY <1>r, <1>j, <1>e, <2>m, <2>2, <2>3, <2>4, <2>5 DEF Sound
<1> QED BY <1>2, <1>3, <1>j

-----------------------------------------------------------------------------
(***************************************************************************)
(* The steps that leave the row and the pages alone.                       *)
(***************************************************************************)

\* Worker w's job moves on to `next`, or ends; it takes a row lock only as the owner.
Moves(w, next) ==
  /\ job' = [job EXCEPT ![w] = next] /\ Sound(next)
  /\ faults' \in Nat /\ (faults' = 0 => faults = 0 /\ Noticed(next))
  /\ next.phase # "idle" =>
       /\ job[w].phase # "idle" /\ next.lease = job[w].lease /\ job[w].seq <= next.seq
       /\ next.call.phase \in {"insert", "commit"} => Owns(w)
       /\ \A n \in Nat : InTable(job[w], n) => InTable(next, n)

LEMMA JobFields ==
  ASSUME JobsOK, NEW w \in Workers
  PROVE  /\ Sound(job[w]) /\ job[w] \in Job /\ job[w].seq \in Nat /\ job[w].lease \in Nat
         /\ job[w].buffer \in Seq(Nat) /\ Len(job[w].buffer) \in Nat
         /\ job[w].call \in Call /\ Taken(job[w]) \in Nat
<1>1. job[w] \in Job /\ Sound(job[w])
  BY DEF JobsOK
<1>2. /\ job[w].seq \in Nat /\ job[w].lease \in Nat /\ job[w].buffer \in Seq(Nat)
      /\ job[w].call \in Call
  BY <1>1 DEF Job
<1>3. Len(job[w].buffer) \in Nat /\ Taken(job[w]) \in Nat
  BY <1>1, <1>2 DEF Sound, InBuffer, Taken
<1> QED BY <1>1, <1>2, <1>3

\* Who holds the lock has a batch, and the latest claim.
LEMMA LockHolder ==
  ASSUME JobsOK, TableInv, NEW w \in Workers, HoldsLock(w)
  PROVE  /\ row.state = "running" /\ row.owner = w /\ Current(w) /\ job[w].call # NoCall
         /\ InTable(job[w], Stored)
         /\ job[w].phase \in {"crawling", "closing"}
<1>1. job[w].call # NoCall
  BY DEF HoldsLock, NoCall
<1>2. job[w].phase \in {"crawling", "closing"}
  BY <1>1, JobFields DEF Sound, InPhase, Job
<1>3. row.state = "running" /\ row.owner = w
  BY DEF TableInv, LockHolds, Owns
<1>4. Current(w)
  BY <1>2, <1>3 DEF TableInv, Leased, Current
<1> QED BY <1>1, <1>2, <1>3, <1>4 DEF TableInv, JobsInTable

LEMMA MovesJobs ==
  ASSUME JobsOK, EventInv, NEW w \in Workers, NEW next, Moves(w, next)
  PROVE  JobsOK' /\ EventInv' /\ job'[w] = next /\ \A v \in Workers : v # w => job'[v] = job[v]
<1>1. job'[w] = next /\ \A v \in Workers : v # w => job'[v] = job[v]
  BY DEF Moves, JobsOK
<1>2. JobsOK'
  BY DEF Moves, JobsOK, Sound
<1>3. EventInv'
  BY <1>1 DEF Moves, EventInv
<1> QED BY <1>1, <1>2, <1>3

\* A transaction left behind holds a batch of the latest claim.
LEMMA LeftInTable ==
  ASSUME JobsOK, TableInv, NEW w \in Workers, NEW o \in Left(w)
  PROVE  /\ row.state = "running"
         /\ o \in Orphan /\ o.lease = row.lease
         /\ IsRun(o.rows) /\ Before(o.rows) <= Stored /\ Last(o.rows) <= job[w].seq
         /\ Current(w)
<1>1. HoldsLock(w)
  BY DEF Left
<1>2. o = [rows |-> job[w].call.rows, lease |-> job[w].lease,
           sent |-> job[w].call.phase = "commit"]
  BY <1>1 DEF Left
<1>3. o.rows = job[w].call.rows /\ o.lease = job[w].lease
  BY <1>2
<1>4. o \in Orphan
  <2>1. (job[w].call.phase = "commit") \in BOOLEAN
    OBVIOUS
  <2>2. job[w].call.rows \in Seq(Nat) /\ job[w].lease \in Nat
    BY JobFields DEF Call
  <2> QED BY <1>2, <2>1, <2>2 DEF Orphan
<1> QED
  BY <1>1, <1>3, <1>4, LockHolder, JobFields DEF Sound, InBuffer, InTable, Current

LEMMA MovesTable ==
  ASSUME JobsOK, EventInv, TableInv, NEW w \in Workers, NEW next, Moves(w, next),
         UNCHANGED <<row, page>>, orphans' \subseteq orphans \cup Left(w)
  PROVE  TableInv'
<1>j. job'[w] = next /\ \A v \in Workers : v # w => job'[v] = job[v]
  BY MovesJobs
<1>n. Stored \in Nat /\ UNCHANGED Stored
  BY DEF TableInv, PagesOK, Stored
<1>i. next.phase = "idle" => next.call.phase = "none"
  BY DEF Moves, Sound, InPhase, NoCall
<1>c. \A v \in Workers : Current(v)' => Current(v) /\ job[v].seq <= job'[v].seq
  <2> TAKE v \in Workers
  <2>1. CASE v = w
    BY <1>j, <2>1 DEF Current, Moves
  <2>2. CASE v # w
    BY <1>j, <2>2, JobFields DEF Current
  <2> QED BY <2>1, <2>2
<1>1. RowOK' /\ PagesOK'
  BY <1>n DEF TableInv, RowOK, PagesOK, Filled
<1>2. Leased'
  <2> SUFFICES ASSUME NEW v \in Workers, job'[v].phase # "idle"
               PROVE  /\ job'[v].lease <= row'.lease
                      /\ row'.owner = v => row'.state = "running" /\ job'[v].lease = row'.lease
    BY DEF Leased
  <2>1. job[v].phase # "idle" /\ job'[v].lease = job[v].lease
    BY <1>j DEF Moves
  <2> QED BY <2>1 DEF TableInv, Leased
<1>3. OneCurrent'
  BY <1>c DEF TableInv, OneCurrent
<1>4. LockHolds'
  <2>1. ASSUME NEW v \in Workers, HoldsLock(v)'
        PROVE  Owns(v)'
    <3>1. CASE v = w
      BY <1>i, <1>j, <2>1, <3>1 DEF Moves, HoldsLock, Owns
    <3>2. CASE v # w
      BY <1>j, <2>1, <3>2 DEF HoldsLock, Owns, TableInv, LockHolds
    <3> QED BY <3>1, <3>2
  <2>2. orphans' # {} => row'.state = "running"
    <3>1. orphans # {} => row.state = "running"
      BY DEF TableInv, LockHolds
    <3> QED BY <3>1, LeftInTable
  <2> QED BY <2>1, <2>2 DEF LockHolds
<1>5. JobsInTable'
  <2> SUFFICES ASSUME NEW v \in Workers, Current(v)'
               PROVE  InTable(job'[v], Stored')
    BY DEF JobsInTable
  <2>1. InTable(job[v], Stored)
    BY <1>c DEF TableInv, JobsInTable
  <2>2. CASE v = w
    BY <1>j, <1>n, <2>1, <2>2 DEF Moves, Current
  <2>3. CASE v # w
    BY <1>j, <1>n, <2>1, <2>3
  <2> QED BY <2>2, <2>3
<1>6. OrphansInTable'
  <2> SUFFICES ASSUME NEW o \in orphans'
               PROVE  /\ o \in Orphan /\ o.lease = row.lease
                      /\ IsRun(o.rows) /\ Before(o.rows) <= Stored /\ Last(o.rows) <= MaxPages
                      /\ \A v \in Workers : Current(v)' => Last(o.rows) <= job'[v].seq
    BY <1>n DEF OrphansInTable
  <2>1. Last(o.rows) \in Nat => \A v \in Workers : Current(v)' /\ Last(o.rows) <= job[v].seq
          => Last(o.rows) <= job'[v].seq
    <3> SUFFICES ASSUME Last(o.rows) \in Nat, NEW v \in Workers, Current(v)',
                        Last(o.rows) <= job[v].seq
                 PROVE  Last(o.rows) <= job'[v].seq
      OBVIOUS
    <3>1. job[v].seq \in Nat /\ job'[v].seq \in Nat
      <4>1. JobsOK'
        BY MovesJobs
      <4> QED BY <4>1, JobFields DEF JobsOK, Job
    <3> QED BY <1>c, <3>1
  <2>2. CASE o \in orphans
    BY <1>c, <2>1, <2>2 DEF TableInv, OrphansInTable, IsRun
  <2>3. CASE o \in Left(w)
    <3>1. /\ o \in Orphan /\ o.lease = row.lease
          /\ IsRun(o.rows) /\ Before(o.rows) <= Stored /\ Last(o.rows) <= job[w].seq
          /\ Current(w)
      BY <2>3, LeftInTable
    <3>2. job[w].seq <= MaxPages /\ job[w].seq \in Nat /\ Last(o.rows) \in Nat
          /\ MaxPages \in Nat
      BY <3>1, JobFields, BoundsAssumption DEF Sound, InBuffer, IsRun
    <3>3. \A v \in Workers : Current(v)' => v = w
      BY <1>c, <3>1 DEF TableInv, OneCurrent
    <3>4. Last(o.rows) <= MaxPages
      BY <3>1, <3>2
    <3> QED BY <2>1, <3>1, <3>2, <3>3, <3>4
  <2> QED BY <2>2, <2>3
<1> QED BY <1>1, <1>2, <1>3, <1>4, <1>5, <1>6 DEF TableInv

LEMMA IdleMoves ==
  ASSUME IInv, NEW w \in Workers, job' = [job EXCEPT ![w] = Idle],
         faults' \in Nat, faults' = 0 => faults = 0
  PROVE  Moves(w, Idle)
BY IdleSound DEF Moves, Noticed, Idle

LEMMA PageMoves ==
  ASSUME IInv, NEW w \in Workers, Page(w)
  PROVE  \E next : Moves(w, next)
<1>j. PICK j : j = job[w]
  OBVIOUS
<1> DEFINE s == j.seq + 1
           b == Append(j.buffer, s)
           full == j.full \/ Len(j.buffer) + 1 >= BatchSize
           next == [j EXCEPT !.seq = s, !.buffer = b, !.full = full]
<1>0. /\ JobsOK /\ Sound(j) /\ j \in Job /\ j.seq \in Nat /\ Len(j.buffer) \in Nat
      /\ j.buffer \in Seq(Nat) /\ BatchSize \in Nat /\ faults \in Nat
      /\ (faults = 0 => Noticed(j)) /\ (HoldsLock(w) => Owns(w))
  BY <1>j, JobFields, BoundsAssumption DEF IInv, JobsOK, EventInv, TableInv, LockHolds
<1>1. job' = [job EXCEPT ![w] = next] /\ j.phase = "crawling" /\ j.seq < MaxPages
      /\ UNCHANGED faults
  BY <1>j DEF Page, JobsOK, Job
<1>2. full \in BOOLEAN
  BY <1>0 DEF Job
<1>3. Sound(next)
  BY <1>0, <1>1, <1>2, PageSound
<1>4. s \in Nat /\ Len(b) = Len(j.buffer) + 1 /\ j.seq <= s /\ s - Len(b) = Taken(j)
  <2>1. s \in Nat /\ j.seq <= s
    BY <1>0
  <2> HIDE DEF s
  <2>2. Len(b) = Len(j.buffer) + 1 /\ b \in Seq(Nat)
    BY <1>0, <2>1
  <2>3. ASSUME NEW m \in Nat, m = Len(j.buffer) + 1
        PROVE  j.seq + 1 - m = Taken(j)
    BY <1>0, <2>3 DEF Taken
  <2>4. s - Len(b) = Taken(j)
    BY <1>0, <2>1, <2>2, <2>3 DEF s
  <2> QED BY <2>1, <2>2, <2>4
<1>5. Len(b) >= BatchSize => full
  BY <1>0, <1>4
<1> HIDE DEF s, b, full
<1>6. /\ next.phase = j.phase /\ next.lease = j.lease /\ next.seq = s /\ next.buffer = b
      /\ next.full = full /\ next.call = j.call /\ next.lost = j.lost
      /\ next.flusher = j.flusher
  BY <1>0 DEF Job
<1> HIDE DEF next
<1>7. Noticed(next)
  BY <1>5, <1>6 DEF Noticed
<1>8. Taken(next) = Taken(j)
  BY <1>4, <1>6 DEF Taken
<1>9. ASSUME NEW n \in Nat, InTable(j, n)
      PROVE  InTable(next, n)
  <2>1. n <= s
    BY <1>0, <1>4, <1>9 DEF InTable
  <2> QED BY <1>6, <1>8, <1>9, <2>1 DEF InTable
<1>10. Moves(w, next)
  BY <1>j, <1>0, <1>1, <1>3, <1>4, <1>6, <1>7, <1>9 DEF Moves, HoldsLock
<1> QED BY <1>10

LEMMA EndMoves ==
  ASSUME IInv, NEW w \in Workers, EndCrawl(w)
  PROVE  \E next : Moves(w, next)
<1>j. PICK j : j = job[w]
  OBVIOUS
<1>0. /\ JobsOK /\ Sound(j) /\ j \in Job /\ j.seq \in Nat /\ Len(j.buffer) \in Nat
      /\ faults \in Nat /\ (HoldsLock(w) => Owns(w))
  BY <1>j, JobFields DEF IInv, JobsOK, TableInv, LockHolds
<1>1. PICK lost \in BOOLEAN :
        job' = [job EXCEPT ![w].phase = "closing", ![w].lost = lost, ![w].full = TRUE,
                           ![w].closer = "lock",
                           ![w].buffer = IF lost THEN <<>> ELSE @]
  BY DEF EndCrawl
<1> DEFINE b == IF lost THEN <<>> ELSE j.buffer
           next == [j EXCEPT !.phase = "closing", !.lost = lost, !.full = TRUE,
                             !.closer = "lock", !.buffer = b]
<1>2. job' = [job EXCEPT ![w] = next] /\ j.phase = "crawling" /\ UNCHANGED faults
  BY <1>j, <1>0, <1>1 DEF EndCrawl, JobsOK, Job
<1>3. Sound(next)
  BY <1>0, <1>2, EndSound
<1>4. ~lost => b = j.buffer
  OBVIOUS
<1> HIDE DEF b
<1>5. /\ next.phase = "closing" /\ next.lease = j.lease /\ next.seq = j.seq
      /\ next.full = TRUE /\ next.call = j.call /\ next.lost = lost /\ next.buffer = b
  BY <1>0 DEF Job
<1> HIDE DEF next
<1>6. Noticed(next)
  BY <1>5 DEF Noticed
<1>7. ~lost => Taken(next) = Taken(j)
  BY <1>4, <1>5 DEF Taken
<1>8. ASSUME NEW n \in Nat, InTable(j, n)
      PROVE  InTable(next, n)
  BY <1>0, <1>2, <1>5, <1>7, <1>8 DEF InTable, Sound, InPhase
<1>9. Moves(w, next)
  BY <1>j, <1>0, <1>2, <1>3, <1>5, <1>6, <1>8 DEF Moves, HoldsLock
<1> QED BY <1>9

\* The ways a job can leave its call, or had none, and goes on with the same buffer.
LEMMA DropMoves ==
  ASSUME IInv, NEW w \in Workers, NEW j, j = job[w], NEW next,
         job' = [job EXCEPT ![w] = next], Sound(next),
         faults' \in Nat, faults' = 0 => faults = 0 /\ Noticed(next),
         j.phase # "idle", next.lease = j.lease, next.seq = j.seq,
         next.buffer = j.buffer, j.lost => next.lost, next.call = NoCall
  PROVE  Moves(w, next)
<1>1. Taken(next) = Taken(j)
  BY DEF Taken
<1>2. NoCall.phase = "none"
  BY DEF NoCall
<1>3. ASSUME NEW n \in Nat, InTable(j, n)
      PROVE  InTable(next, n)
  BY <1>1, <1>2, <1>3 DEF InTable
<1>4. j.seq \in Nat
  BY JobFields DEF IInv
<1> QED BY <1>2, <1>3, <1>4 DEF Moves

LEMMA DrainedMoves ==
  ASSUME IInv, NEW w \in Workers, NEW outcome \in {"clean", "failed", "lost"},
         job' = [job EXCEPT ![w] = Drained(job[w], outcome)],
         job[w].phase = "closing",
         outcome = "clean" /\ ~job[w].lost => job[w].buffer = <<>>,
         faults' \in Nat, faults' = 0 => faults = 0
  PROVE  \E next : Moves(w, next)
<1>j. PICK j : j = job[w]
  OBVIOUS
<1>n. PICK next : next = Drained(j, outcome)
  OBVIOUS
<1>0. Sound(j) /\ j \in Job
  BY <1>j, JobFields DEF IInv
<1>1. Sound(next)
  BY <1>j, <1>n, <1>0, DrainedSound
<1>2. /\ next.lease = j.lease /\ next.seq = j.seq /\ next.buffer = j.buffer
      /\ next.flusher = "done" /\ next.call = NoCall
  BY <1>0, <1>n DEF Drained, Job
<1>3. j.lost => next.lost
  BY <1>0, <1>n DEF Drained, Job
<1>4. Noticed(next)
  BY <1>2 DEF Noticed
<1>5. Moves(w, next)
  BY <1>j, <1>n, <1>1, <1>2, <1>3, <1>4, DropMoves
<1> QED BY <1>5

LEMMA NextRoundMoves ==
  ASSUME IInv, NEW w \in Workers,
         job' = [job EXCEPT ![w] = NextRound(job[w])],
         job[w].phase \in {"crawling", "closing"},
         job[w].call = NoCall \/ job[w].call.by = "flusher",
         faults' \in Nat, faults' = 0 => faults = 0 /\ job[w].buffer = <<>>
  PROVE  \E next : Moves(w, next)
<1>j. PICK j : j = job[w]
  OBVIOUS
<1>n. PICK next : next = NextRound(j)
  OBVIOUS
<1>0. Sound(j) /\ j \in Job /\ BatchSize \in Nat \ {0}
  BY <1>j, JobFields, BoundsAssumption DEF IInv
<1>1. Sound(next)
  BY <1>j, <1>n, <1>0, NextRoundSound
<1>2. /\ next.lease = j.lease /\ next.seq = j.seq /\ next.buffer = j.buffer
      /\ next.call = NoCall /\ next.lost = j.lost /\ next.flusher \in {"done", "wait"}
  BY <1>0, <1>n DEF NextRound, Job
<1>3. faults' = 0 => faults = 0 /\ Noticed(next)
  <2> SUFFICES ASSUME faults' = 0 PROVE faults = 0 /\ Noticed(next)
    OBVIOUS
  <2>1. Len(next.buffer) = 0
    BY <1>j, <1>2
  <2> QED BY <1>0, <1>2, <2>1 DEF Noticed
<1>4. Moves(w, next)
  BY <1>j, <1>n, <1>1, <1>2, <1>3, DropMoves
<1> QED BY <1>4

LEMMA WakeMoves ==
  ASSUME IInv, NEW w \in Workers, Wake(w)
  PROVE  \E next : Moves(w, next)
<1>j. PICK j : j = job[w]
  OBVIOUS
<1> DEFINE next == [j EXCEPT !.flusher = "lock", !.full = FALSE]
<1>0. /\ JobsOK /\ Sound(j) /\ j \in Job /\ j.seq \in Nat
      /\ faults \in Nat /\ (HoldsLock(w) => Owns(w))
  BY <1>j, JobFields DEF IInv, JobsOK, TableInv, LockHolds
<1>1. job' = [job EXCEPT ![w] = next] /\ j.flusher = "wait" /\ UNCHANGED faults
  BY <1>j, <1>0 DEF Wake, JobsOK, Job
<1>2. Sound(next)
  BY <1>0, <1>1, WakeSound
<1>3. /\ next.phase = j.phase /\ next.lease = j.lease /\ next.seq = j.seq
      /\ next.call = j.call /\ next.lost = j.lost /\ next.buffer = j.buffer
      /\ next.flusher = "lock"
  BY <1>0 DEF Job
<1> HIDE DEF next
<1>4. Noticed(next)
  BY <1>3 DEF Noticed
<1>5. Taken(next) = Taken(j)
  BY <1>3 DEF Taken
<1>6. \A n : InTable(j, n) => InTable(next, n)
  BY <1>3, <1>5 DEF InTable
<1>7. Moves(w, next)
  BY <1>j, <1>0, <1>1, <1>2, <1>3, <1>4, <1>6 DEF Moves, HoldsLock
<1> QED BY <1>7

\* A job with a call, or that waits for the lock, is running.
LEMMA Awake ==
  ASSUME NEW j, Sound(j),
         j.call # NoCall \/ j.flusher = "lock" \/ j.closer = "lock"
  PROVE  /\ j.phase \in {"crawling", "closing"}
         /\ j.closer = "lock" \/ j.call.by = "closer" => j.phase = "closing"
         /\ j.call # NoCall => j.call.by \in {"flusher", "closer"}
BY DEF Sound, InPhase, Job, Call, NoCall

LEMMA EnterMoves ==
  ASSUME IInv, NEW w \in Workers, NEW by \in {"flusher", "closer"}, Enter(w, by)
  PROVE  \E next : Moves(w, next)
<1>j. PICK j : j = job[w]
  OBVIOUS
<1>0. /\ JobsOK /\ Sound(j) /\ j \in Job /\ j.seq \in Nat /\ j.buffer \in Seq(Nat)
      /\ Len(j.buffer) \in Nat /\ Taken(j) \in Nat /\ faults \in Nat
  BY <1>j, JobFields DEF IInv, JobsOK
<1>1. j.call = NoCall /\ j[by] = "lock" /\ UNCHANGED faults
  BY <1>j DEF Enter
<1>2. j.flusher = "lock" \/ j.closer = "lock"
  BY <1>1
<1>3. CASE j.buffer = <<>>
  <2>1. job' = [job EXCEPT ![w] = Returned(job[w], by)]
    BY <1>j, <1>3 DEF Enter, Batch
  <2>2. CASE by = "flusher"
    BY <1>j, <1>0, <1>1, <1>2, <1>3, <2>1, <2>2, Awake, NextRoundMoves DEF Returned
  <2>3. CASE by = "closer"
    <3>1. job' = [job EXCEPT ![w] = Drained(job[w], "clean")] /\ j.phase = "closing"
      BY <1>0, <1>1, <2>1, <2>3, Awake DEF Returned
    <3> QED BY <1>j, <1>0, <1>1, <1>3, <3>1, DrainedMoves
  <2> QED BY <2>2, <2>3
<1>4. CASE j.buffer # <<>>
  <2> DEFINE c == [by |-> by, phase |-> "select", rows |-> j.buffer]
             next == [j EXCEPT ![by] = "call", !.call = c]
  <2>1. job' = [job EXCEPT ![w] = next]
    BY <1>j, <1>0, <1>4 DEF Enter, Batch, JobsOK
  <2>2. Sound(next)
    BY <1>0, <1>1, <1>4, EnterSound
  <2>3. c.phase = "select" /\ c.rows = j.buffer
    OBVIOUS
  <2> HIDE DEF c
  <2>4. /\ next.phase = j.phase /\ next.lease = j.lease /\ next.seq = j.seq
        /\ next.call = c /\ next.lost = j.lost /\ next.buffer = j.buffer
        /\ next.flusher # "wait" \/ next.flusher = j.flusher
        /\ next.full = j.full
    BY <1>0 DEF Job
  <2> HIDE DEF next
  <2>5. faults = 0 => Noticed(next)
    <3>1. faults = 0 => Noticed(j)
      BY <1>j DEF IInv, EventInv
    <3> QED BY <1>0, <2>3, <2>4, <3>1 DEF Noticed
  <2>6. Taken(next) = Taken(j)
    BY <2>4 DEF Taken
  <2>7. ASSUME NEW n \in Nat, InTable(j, n)
        PROVE  InTable(next, n)
    <3>1. ~j.lost
      BY <1>0, <1>1, <1>2, <1>4, Awake DEF Sound, InPhase, Job
    <3>2. Taken(j) <= n
      BY <2>7, <3>1 DEF InTable
    <3>3. Before(j.buffer) = Taken(j)
      <4>1. Taken(j) < j.seq /\ j.buffer = From(Taken(j), j.seq)
        <5>1. Len(j.buffer) # 0
          BY <1>0, <1>4
        <5> QED BY <1>0, <5>1 DEF Sound, InBuffer, Taken
      <4> QED BY <1>0, <4>1, FromIsRun
    <3> QED BY <2>3, <2>4, <2>6, <2>7, <3>1, <3>2, <3>3 DEF InTable
  <2>8. j.phase # "idle"
    BY <1>0, <1>2, Awake
  <2>9. Moves(w, next)
    BY <1>j, <1>0, <1>1, <2>1, <2>2, <2>3, <2>4, <2>5, <2>7, <2>8 DEF Moves
  <2> QED BY <2>9
<1> QED BY <1>3, <1>4

\* The call goes on: to the insert as the owner of the row, and from there on.
LEMMA CallMoves ==
  ASSUME IInv, NEW w \in Workers, job[w].call # NoCall, Owns(w),
         NEW p \in {"insert", "commit"}, job' = [job EXCEPT ![w].call.phase = p],
         UNCHANGED faults
  PROVE  \E next : Moves(w, next)
<1>j. PICK j : j = job[w]
  OBVIOUS
<1> DEFINE c == [j.call EXCEPT !.phase = p]
           next == [j EXCEPT !.call = c]
<1>0. /\ JobsOK /\ Sound(j) /\ j \in Job /\ j.seq \in Nat /\ j.call \in Call
      /\ faults \in Nat /\ (faults = 0 => Noticed(j)) /\ j.phase # "idle"
  BY <1>j, JobFields, Awake DEF IInv, JobsOK, EventInv
<1>1. job' = [job EXCEPT ![w] = next]
  BY <1>j, <1>0 DEF JobsOK, Job
<1>2. Sound(next)
  BY <1>j, <1>0, CallSound
<1>3. c.phase = p /\ c.rows = j.call.rows
  BY <1>0 DEF Call
<1> HIDE DEF c
<1>4. /\ next.phase = j.phase /\ next.lease = j.lease /\ next.seq = j.seq
      /\ next.call = c /\ next.lost = j.lost /\ next.buffer = j.buffer
      /\ next.flusher = j.flusher /\ next.full = j.full
  BY <1>0 DEF Job
<1> HIDE DEF next
<1>5. faults = 0 => Noticed(next)
  BY <1>0, <1>3, <1>4 DEF Noticed
<1>6. Taken(next) = Taken(j)
  BY <1>4 DEF Taken
<1>7. ASSUME NEW n \in Nat, InTable(j, n)
      PROVE  InTable(next, n)
  BY <1>j, <1>3, <1>4, <1>6, <1>7 DEF InTable
<1>8. /\ faults' \in Nat /\ (faults' = 0 => faults = 0 /\ Noticed(next))
      /\ j.seq <= next.seq /\ Owns(w)
  BY <1>0, <1>4, <1>5
<1>9. Moves(w, next)
  BY <1>j, <1>0, <1>1, <1>2, <1>4, <1>7, <1>8 DEF Moves
<1> QED BY <1>9

LEMMA SelectMoves ==
  ASSUME IInv, NEW w \in Workers, Select(w)
  PROVE  \E next : Moves(w, next)
<1>0. /\ JobsOK /\ Sound(job[w]) /\ job[w] \in Job /\ job[w].call # NoCall
      /\ job[w].phase # "idle" /\ faults \in Nat /\ UNCHANGED faults
      /\ job[w].call.by \in {"flusher", "closer"}
      /\ job[w].call.by = "closer" => job[w].phase = "closing"
  <2>1. job[w].call # NoCall
    BY DEF Select, NoCall
  <2> QED BY <2>1, JobFields, Awake DEF IInv, JobsOK, Select
<1>1. CASE Owns(w)
  <2>1. job' = [job EXCEPT ![w].call.phase = "insert"]
    BY <1>1, <1>0 DEF Select, JobsOK
  <2> QED BY <1>0, <1>1, <2>1, CallMoves
<1>2. CASE ~Owns(w) /\ job[w].call.by = "flusher"
  <2>j. PICK j : j = job[w]
    OBVIOUS
  <2> DEFINE next == [j EXCEPT !.flusher = "dead", !.call = NoCall]
  <2>1. job' = [job EXCEPT ![w] = next]
    BY <1>0, <1>2, <2>j DEF Select, JobsOK
  <2>2. Sound(next)
    BY <1>0, <1>2, <2>j, DeadSound
  <2>3. /\ next.lease = j.lease /\ next.seq = j.seq /\ next.buffer = j.buffer
        /\ next.call = NoCall /\ next.lost = j.lost /\ next.flusher = "dead"
    BY <1>0, <2>j DEF Job
  <2> HIDE DEF next
  <2>4. Noticed(next)
    BY <2>3 DEF Noticed
  <2>5. Moves(w, next)
    BY <1>0, <2>j, <2>1, <2>2, <2>3, <2>4, DropMoves
  <2> QED BY <2>5
<1>3. CASE ~Owns(w) /\ job[w].call.by = "closer"
  <2>1. job' = [job EXCEPT ![w] = Drained(job[w], "lost")]
    BY <1>0, <1>3 DEF Select, JobsOK
  <2> QED BY <1>0, <1>3, <2>1, DrainedMoves
<1> QED BY <1>0, <1>1, <1>2, <1>3

LEMMA ReplyMoves ==
  ASSUME IInv, NEW w \in Workers, Reply(w)
  PROVE  \E next : Moves(w, next)
<1>j. PICK j : j = job[w]
  OBVIOUS
<1>n. PICK next : next = Written(j)
  OBVIOUS
<1>0. /\ JobsOK /\ Sound(j) /\ j \in Job /\ j.seq \in Nat /\ j.call # NoCall
      /\ j.phase # "idle" /\ faults \in Nat /\ UNCHANGED faults
      /\ j.call.phase = "reply" /\ (faults = 0 => Noticed(j))
  <2>1. j.call # NoCall /\ j.call.phase = "reply"
    BY <1>j DEF Reply, NoCall
  <2> QED BY <1>j, <2>1, JobFields, Awake DEF IInv, JobsOK, EventInv, Reply
<1>1. job' = [job EXCEPT ![w] = next]
  BY <1>j, <1>n DEF Reply
<1>2. /\ Sound(next)
      /\ next.phase # "idle" /\ next.lease = j.lease /\ next.seq = j.seq
      /\ next.call = NoCall /\ next.lost = j.lost
      /\ ~j.lost => Taken(next) = Last(j.call.rows)
      /\ next.buffer = Rest(j.buffer, j.call.rows)
      /\ next.flusher = "wait" => j.call.by = "flusher" /\ next.full = j.full
  BY <1>0, <1>n, ReplySound
<1>3. faults = 0 => Noticed(next)
  <2> SUFFICES ASSUME faults = 0, next.flusher = "wait", Len(next.buffer) >= BatchSize
               PROVE  j.full
    BY <1>2 DEF Noticed, NoCall, InPhase, Sound
  <2>1. j.flusher = "call" /\ Noticed(j)
    BY <1>0, <1>2 DEF Sound, InPhase
  <2>2. Len(j.call.rows) < Len(j.buffer) /\ BatchSize <= Len(j.buffer)
    <3>1. j.buffer \in Seq(Nat) /\ Len(j.buffer) \in Nat /\ BatchSize \in Nat \ {0}
      BY <1>0, BoundsAssumption DEF Job
    <3>2. j.call.rows \in Seq(Nat) /\ Len(j.call.rows) \in Nat
      BY <1>0 DEF Job, Call
    <3>3. next.buffer = SubSeq(j.buffer, Len(j.call.rows) + 1, Len(j.buffer))
      BY <1>2 DEF Rest
    <3>4. CASE Len(j.buffer) <= Len(j.call.rows)
      <4>1. Len(next.buffer) = 0
        BY <3>1, <3>2, <3>3, <3>4
      <4> QED BY <3>1, <4>1
    <3>5. CASE Len(j.call.rows) < Len(j.buffer)
      <4>1. Len(next.buffer) = Len(j.buffer) - Len(j.call.rows)
        <5>1. PICK k : k = Len(j.call.rows)
          OBVIOUS
        <5>2. k \in Nat /\ k <= Len(j.buffer)
          BY <3>1, <3>2, <3>5, <5>1
        <5>3. Len(SubSeq(j.buffer, k + 1, Len(j.buffer))) = Len(j.buffer) - k
          BY <3>1, <5>2, RestLength
        <5> QED BY <3>3, <5>1, <5>3
      <4> QED BY <3>1, <3>2, <3>5, <4>1
    <3> QED BY <3>1, <3>2, <3>4, <3>5
  <2> QED BY <2>1, <2>2 DEF Noticed
<1>4. ASSUME NEW n \in Nat, InTable(j, n)
      PROVE  InTable(next, n)
  <2>1. NoCall.phase = "none"
    BY DEF NoCall
  <2> QED BY <1>0, <1>2, <1>4, <2>1 DEF InTable
<1>5. Moves(w, next)
  BY <1>j, <1>0, <1>1, <1>2, <1>3, <1>4 DEF Moves, NoCall
<1> QED BY <1>5

LEMMA FailMoves ==
  ASSUME IInv, NEW w \in Workers, Fail(w)
  PROVE  \E next : Moves(w, next)
<1>0. /\ job[w].call # NoCall /\ Sound(job[w])
      /\ job[w].phase \in {"crawling", "closing"}
      /\ job[w].call.by \in {"flusher", "closer"}
      /\ job[w].call.by = "closer" => job[w].phase = "closing"
      /\ faults' \in Nat /\ faults' # 0
  BY JobFields, Awake DEF IInv, JobsOK, Fail
<1>1. CASE job[w].call.by = "flusher"
  BY <1>0, <1>1, NextRoundMoves DEF Fail, Failed
<1>2. CASE job[w].call.by = "closer"
  <2>1. job' = [job EXCEPT ![w] = Drained(job[w], "failed")]
    BY <1>2 DEF Fail, Failed
  <2> QED BY <1>0, <1>2, <2>1, DrainedMoves
<1> QED BY <1>0, <1>1, <1>2

\* Every step but Claim, a Record that writes the row, Reap, Commit and OrphanEnds.
LEMMA MovesStep ==
  ASSUME IInv, NEW w \in Workers, UNCHANGED row,
         \/ Page(w) \/ EndCrawl(w) \/ CloseTimesOut(w) \/ Record(w) \/ Crash(w)
         \/ Wake(w) \/ Enter(w, "flusher") \/ Enter(w, "closer") \/ Select(w) \/ Insert(w)
         \/ Reply(w) \/ Fail(w)
  PROVE  IInv' /\ UNCHANGED page
<1>0. JobsOK /\ EventInv /\ TableInv /\ faults \in Nat
  BY DEF IInv, JobsOK
<1>1. UNCHANGED page /\ orphans' \subseteq orphans \cup Left(w)
  BY DEF Page, EndCrawl, CloseTimesOut, Record, Crash, Wake, Enter, Select, Insert, Reply,
         Fail
<1>2. \E next : Moves(w, next)
  <2>1. CASE CloseTimesOut(w)
    BY <1>0, <2>1, DrainedMoves DEF CloseTimesOut
  <2>2. CASE Record(w) \/ Crash(w)
    BY <1>0, <2>2, IdleMoves DEF Record, Crash
  <2>3. CASE Insert(w)
    <3>1. /\ job[w].call # NoCall /\ HoldsLock(w) /\ UNCHANGED faults
          /\ job' = [job EXCEPT ![w].call.phase = "commit"]
      BY <2>3 DEF Insert, HoldsLock, NoCall
    <3>2. Owns(w)
      BY <1>0, <3>1 DEF TableInv, LockHolds
    <3> QED BY <3>1, <3>2, CallMoves
  <2> QED
    BY <2>1, <2>2, <2>3, PageMoves, EndMoves, WakeMoves, EnterMoves, SelectMoves,
       ReplyMoves, FailMoves
<1>3. PICK next : Moves(w, next)
  BY <1>2
<1> QED BY <1>0, <1>1, <1>3, MovesJobs, MovesTable DEF IInv

-----------------------------------------------------------------------------
(***************************************************************************)
(* The steps on the row.                                                   *)
(***************************************************************************)

LEMMA FilledCardinality ==
  ASSUME NEW l, NEW n \in Nat
  PROVE  Cardinality(Filled(l, n)) = n
<1> DEFINE f == [i \in 1..n |-> [seq |-> i, lease |-> l]]
<1>1. f \in [1..n -> Filled(l, n)]
  BY DEF Filled
<1>2. \A i, j \in 1..n : f[i] = f[j] => i = j
  <2>1. \A i \in 1..n : f[i].seq = i
    OBVIOUS
  <2> HIDE DEF f
  <2> QED BY <2>1
<1>3. \A p \in Filled(l, n) : \E i \in 1..n : f[i] = p
  BY DEF Filled
<1> HIDE DEF f
<1>4. f \in Bijection(1..n, Filled(l, n))
  BY <1>1, <1>2, <1>3 DEF Bijection, Injection, Surjection, IsInjective
<1>5. IsFiniteSet(1..n) /\ Cardinality(1..n) = n
  BY FS_Interval
<1> QED BY <1>4, <1>5, FS_Bijection DEF ExistsBijection

\* A job begins with an empty buffer and an empty table.
LEMMA ClaimStep ==
  ASSUME IInv, NEW w \in Workers, Claim(w)
  PROVE  IInv'
<1> DEFINE l == row.lease + 1
           next == [Idle EXCEPT !.phase = "crawling", !.lease = l, !.flusher = "wait"]
<1>0. /\ JobsOK /\ EventInv /\ TableInv /\ row.lease \in Nat /\ l \in Nat
      /\ job \in [Workers -> {j \in Job : Sound(j)}] /\ row.lease < l
  BY DEF IInv, JobsOK, TableInv, RowOK
<1>1. /\ job' = [job EXCEPT ![w] = next] /\ page' = {} /\ UNCHANGED <<orphans, faults>>
      /\ row' = [state |-> "running", owner |-> w, lease |-> l]
      /\ orphans = {} /\ \A v \in Workers : ~HoldsLock(v)
  BY DEF Claim, RowIsFree
<1>2. Sound(next)
  BY <1>0, ClaimedSound
<1> HIDE DEF l
<1>3. /\ next.phase = "crawling" /\ next.lease = l /\ next.seq = 0 /\ next.buffer = <<>>
      /\ next.call = NoCall /\ next.lost = FALSE
  BY DEF Idle
<1> HIDE DEF next
<1>4. job'[w] = next /\ \A v \in Workers : v # w => job'[v] = job[v]
  BY <1>0, <1>1
<1>5. row'.state = "running" /\ row'.owner = w /\ row'.lease = l
  BY <1>1
<1>6. Stored' = 0
  BY <1>1, FS_EmptySet DEF Stored
<1>7. JobsOK'
  BY <1>0, <1>1, <1>2 DEF JobsOK, Sound
<1>8. EventInv'
  <2>1. BatchSize > 0 /\ Len(next.buffer) = 0 /\ BatchSize \in Nat
    BY <1>3, BoundsAssumption
  <2>2. Noticed(next)
    BY <1>3, <2>1 DEF Noticed, NoCall, Sound, InPhase
  <2> QED BY <1>0, <1>1, <1>4, <2>2 DEF EventInv
<1>9. \A v \in Workers : Current(v)' => v = w
  <2> SUFFICES ASSUME NEW v \in Workers, v # w, Current(v)'
               PROVE  FALSE
    OBVIOUS
  <2>1. job[v].lease <= row.lease /\ job[v].lease = l
    BY <1>0, <1>4, <1>5 DEF Current, TableInv, Leased
  <2> QED BY <1>0, <2>1, JobFields
<1>10. RowOK' /\ PagesOK'
  <2>1. RowOK'
    BY <1>0, <1>1 DEF RowOK
  <2>2. Filled(l, 0) = {}
    BY DEF Filled
  <2> QED BY <1>1, <1>5, <1>6, <2>1, <2>2, BoundsAssumption DEF PagesOK, Filled
<1>11. Leased'
  <2> SUFFICES ASSUME NEW v \in Workers, job'[v].phase # "idle"
               PROVE  /\ job'[v].lease <= row'.lease
                      /\ row'.owner = v => row'.state = "running" /\ job'[v].lease = row'.lease
    BY DEF Leased
  <2>1. CASE v = w
    BY <1>0, <1>3, <1>4, <1>5, <2>1
  <2>2. CASE v # w
    <3>1. job[v].lease <= row.lease /\ job[v].lease \in Nat
      BY <1>0, <1>4, <2>2, JobFields DEF TableInv, Leased
    <3> QED BY <1>0, <1>4, <1>5, <2>2, <3>1
  <2> QED BY <2>1, <2>2
<1>12. OneCurrent' /\ OrphansInTable'
  BY <1>1, <1>9 DEF OneCurrent, OrphansInTable
<1>13. LockHolds'
  BY <1>1, <1>3, <1>4, <1>5 DEF LockHolds, HoldsLock, NoCall
<1>14. JobsInTable'
  <2>1. Taken(next) = 0
    <3>1. Len(next.buffer) = 0 /\ next.seq = 0
      BY <1>3
    <3> QED BY <3>1 DEF Taken
  <2>2. InTable(next, 0)
    BY <1>3, <2>1 DEF InTable, NoCall
  <2> QED BY <1>4, <1>6, <1>9, <2>2 DEF JobsInTable
<1> QED
  BY <1>7, <1>8, <1>10, <1>11, <1>12, <1>13, <1>14 DEF IInv, TableInv

\* The row gives its claim up while nobody holds its lock; the job, if it is still there,
\* is an owner no more.
LEMMA GivenUp ==
  ASSUME IInv, RowIsFree, NEW w \in Workers, job' = job \/ job' = [job EXCEPT ![w] = Idle],
         RowOK', row'.lease = row.lease,
         \A v \in Workers : row'.owner = v => job'[v].phase = "idle",
         UNCHANGED <<page, orphans, faults>>
  PROVE  IInv'
<1>0. /\ JobsOK /\ EventInv /\ TableInv
      /\ job \in [Workers -> {j \in Job : Sound(j)}]
      /\ orphans = {} /\ \A v \in Workers : ~HoldsLock(v)
  BY DEF IInv, JobsOK, RowIsFree
<1>1. \A v \in Workers : job'[v] = job[v] \/ job'[v] = Idle
  BY <1>0
<1>2. Idle.phase = "idle" /\ Idle.flusher = "done" /\ Idle.call = NoCall
  BY DEF Idle
<1>3. JobsOK'
  BY <1>0, IdleSound DEF JobsOK, Sound
<1>4. EventInv'
  BY <1>0, <1>1, <1>2 DEF EventInv, Noticed
<1>5. \A v \in Workers : Current(v)' => Current(v) /\ job'[v] = job[v]
  BY <1>1, <1>2 DEF Current
<1>6. Stored' = Stored
  BY DEF Stored
<1>7. PagesOK' /\ OneCurrent' /\ OrphansInTable' /\ JobsInTable'
  BY <1>0, <1>5, <1>6
     DEF TableInv, PagesOK, Filled, OneCurrent, OrphansInTable, JobsInTable
<1>8. Leased' /\ LockHolds'
  <2>1. Leased'
    BY <1>0, <1>1, <1>2 DEF TableInv, Leased
  <2>2. \A v \in Workers : ~HoldsLock(v)'
    BY <1>0, <1>1, <1>2 DEF HoldsLock, NoCall
  <2> QED BY <1>0, <2>1, <2>2 DEF LockHolds
<1> QED BY <1>3, <1>4, <1>7, <1>8 DEF IInv, TableInv

LEMMA ReapStep ==
  ASSUME IInv, Reap
  PROVE  IInv'
<1>1. /\ RowOK' /\ row'.lease = row.lease /\ row'.owner = "none"
  BY DEF IInv, TableInv, RowOK, Reap
<1>2. CASE Workers = {}
  BY <1>1, <1>2 DEF Reap, IInv, JobsOK, EventInv, TableInv, PagesOK, Stored, Filled, Leased, OneCurrent,
       LockHolds, JobsInTable, OrphansInTable, RowIsFree, Current
<1>3. ASSUME NEW w \in Workers
      PROVE  IInv'
  BY <1>1, NobodyAssumption, GivenUp DEF Reap
<1> QED BY <1>2, <1>3

LEMMA RecordStep ==
  ASSUME IInv, NEW w \in Workers, Record(w)
  PROVE  IInv'
<1>1. CASE UNCHANGED row
  BY <1>1, MovesStep
<1>2. CASE row' # row
  <2>1. /\ ~job[w].lost /\ row.owner = w /\ RowIsFree /\ job' = [job EXCEPT ![w] = Idle]
        /\ \/ row' = [row EXCEPT !.state = "settled"]
           \/ row' = [row EXCEPT !.state = "queued", !.owner = "none"]
        /\ UNCHANGED <<page, orphans, faults>>
    BY <1>2 DEF Record
  <2>2. RowOK' /\ row'.lease = row.lease /\ row'.owner \in {w, "none"}
    BY <2>1 DEF IInv, TableInv, RowOK
  <2>3. job'[w].phase = "idle"
    BY <2>1 DEF IInv, JobsOK, Idle
  <2> QED BY <2>1, <2>2, <2>3, NobodyAssumption, GivenUp
<1> QED BY <1>1, <1>2

-----------------------------------------------------------------------------
(***************************************************************************)
(* The steps on the pages.                                                 *)
(***************************************************************************)

\* A batch without a gap before it adds what is missing, whatever is already stored.
LEMMA InsertedPages ==
  ASSUME PagesOK, NEW rows, IsRun(rows), Before(rows) <= Stored, Last(rows) <= MaxPages,
         page' = Inserted(rows, row.lease), UNCHANGED row
  PROVE  /\ PagesOK' /\ Stored <= Stored' /\ Last(rows) <= Stored'
         /\ Stored' = Stored \/ Stored' = Last(rows)
         /\ page' = Filled(row.lease, Stored')
<1>a. PICK a : a = Before(rows)
  OBVIOUS
<1>b. PICK b : b = Last(rows)
  OBVIOUS
<1>n. PICK n : n = Stored
  OBVIOUS
<1> DEFINE l == row.lease
           m == IF n < b THEN b ELSE n
<1>1. /\ a \in Nat /\ b \in Nat /\ n \in Nat /\ a <= n /\ b <= MaxPages /\ n <= MaxPages
      /\ page = Filled(l, n) /\ ToSet(rows) = a + 1..b
  BY <1>a, <1>b, <1>n, RunSet DEF PagesOK, IsRun
<1>2. Seqs = 1..n
  <2>1. \A p \in page : p.seq \in 1..n
    BY <1>1 DEF Filled
  <2>2. ASSUME NEW i \in 1..n
        PROVE  \E p \in page : p.seq = i
    <3>1. [seq |-> i, lease |-> l] \in page
      BY <1>1 DEF Filled
    <3> QED BY <3>1
  <2> QED BY <2>1, <2>2 DEF Seqs
<1>3. page' = page \cup {[seq |-> s, lease |-> l] : s \in (a + 1..b) \ (1..n)}
  BY <1>1, <1>2 DEF Inserted
<1>4. m \in Nat /\ n <= m /\ b <= m /\ m <= MaxPages /\ (m = n \/ m = b)
      /\ 1..m = (1..n) \cup ((a + 1..b) \ (1..n))
  <2>1. CASE n < b
    BY <1>1, <2>1
  <2>2. CASE ~(n < b)
    BY <1>1, <2>2
  <2> QED BY <2>1, <2>2
<1> HIDE DEF m
<1>5. page' = Filled(l, m)
  <2>1. page' = {[seq |-> s, lease |-> l] : s \in (1..n) \cup ((a + 1..b) \ (1..n))}
    BY <1>1, <1>3 DEF Filled
  <2> QED BY <1>4, <2>1 DEF Filled
<1>6. Stored' = m
  BY <1>4, <1>5, FilledCardinality DEF Stored
<1> QED BY <1>b, <1>n, <1>4, <1>5, <1>6 DEF PagesOK

\* What the jobs and the orphans know of the table stays true as it grows.
LEMMA GrownTable ==
  ASSUME JobsOK, TableInv, NEW rows, PagesOK', Stored <= Stored',
         Stored' = Stored \/ Stored' = Last(rows),
         \A w \in Workers : Current(w) => Last(rows) <= job[w].seq,
         orphans' \subseteq orphans, UNCHANGED row,
         NEW w \in Workers, NEW next, job'[w] = next,
         next = job[w] \/ /\ next.phase = job[w].phase /\ next.lease = job[w].lease
                          /\ next.seq = job[w].seq /\ next.call.phase = "reply"
                          /\ Current(w) => InTable(next, Stored'),
         \A v \in Workers : v # w => job'[v] = job[v]
  PROVE  TableInv'
<1>0. Stored \in Nat /\ Stored' \in Nat
  BY DEF TableInv, PagesOK
<1>1. \A v \in Workers : /\ job'[v].phase = job[v].phase /\ job'[v].lease = job[v].lease
                         /\ job'[v].seq = job[v].seq
                         /\ HoldsLock(v)' => HoldsLock(v)
                         /\ Current(v)' <=> Current(v)
  BY DEF HoldsLock, Current
<1>2. ASSUME NEW v \in Workers, Current(v)
      PROVE  InTable(job[v], Stored')
  <2>1. InTable(job[v], Stored) /\ Last(rows) <= job[v].seq
    BY <1>2 DEF TableInv, JobsInTable
  <2>2. job[v].seq \in Nat /\ Taken(job[v]) \in Nat /\ Sound(job[v])
    BY JobFields
  <2>3. job[v].call # NoCall => /\ Before(job[v].call.rows) \in Nat
                                /\ Last(job[v].call.rows) \in Nat
    BY <2>2 DEF Sound, InBuffer, IsRun
  <2>4. job[v].call.phase = "reply" => job[v].call # NoCall
    BY DEF NoCall
  <2>5. Stored' <= job[v].seq
    BY <2>1 DEF InTable
  <2> QED BY <1>0, <2>1, <2>2, <2>3, <2>4, <2>5 DEF InTable
<1>3. JobsInTable'
  <2> SUFFICES ASSUME NEW v \in Workers, Current(v)'
               PROVE  InTable(job'[v], Stored')
    BY DEF JobsInTable
  <2> QED BY <1>1, <1>2
<1>4. OrphansInTable'
  <2> SUFFICES ASSUME NEW o \in orphans'
               PROVE  /\ o \in Orphan /\ o.lease = row.lease
                      /\ IsRun(o.rows) /\ Before(o.rows) <= Stored' /\ Last(o.rows) <= MaxPages
                      /\ \A v \in Workers : Current(v)' => Last(o.rows) <= job'[v].seq
    BY DEF OrphansInTable
  <2> QED BY <1>0, <1>1 DEF TableInv, OrphansInTable, IsRun
<1>5. RowOK' /\ Leased' /\ OneCurrent' /\ LockHolds'
  <2>1. LockHolds'
    BY <1>1 DEF TableInv, LockHolds, Owns
  <2> QED BY <1>1, <2>1 DEF TableInv, RowOK, Leased, OneCurrent
<1> QED BY <1>3, <1>4, <1>5 DEF TableInv

LEMMA CommitStep ==
  ASSUME IInv, NEW w \in Workers, Commit(w)
  PROVE  /\ IInv' /\ row.state = "running" /\ UNCHANGED row
         /\ Stored <= Stored' /\ page' = Filled(row.lease, Stored')
         /\ Stored \in Nat /\ Stored' \in Nat /\ Stored' <= MaxPages
<1>j. PICK j : j = job[w]
  OBVIOUS
<1> DEFINE c == [j.call EXCEPT !.phase = "reply"]
           next == [j EXCEPT !.call = c]
<1>0. /\ JobsOK /\ EventInv /\ TableInv /\ Sound(j) /\ j \in Job /\ j.call \in Call
      /\ job \in [Workers -> {k \in Job : Sound(k)}]
      /\ HoldsLock(w) /\ j.call.phase = "commit" /\ j.call.rows \in Seq(Nat)
  BY <1>j, JobFields DEF IInv, JobsOK, Commit, HoldsLock, Call
<1>1. /\ row.state = "running" /\ Current(w) /\ j.call # NoCall /\ InTable(j, Stored)
      /\ j.lease = row.lease
  BY <1>j, <1>0, LockHolder DEF Current
<1>2. /\ IsRun(j.call.rows) /\ Before(j.call.rows) <= Stored
      /\ Last(j.call.rows) <= j.seq /\ Last(j.call.rows) <= MaxPages
  <2>1. IsRun(j.call.rows) /\ Last(j.call.rows) <= j.seq /\ j.seq <= MaxPages
    BY <1>0, <1>1 DEF Sound, InBuffer
  <2> QED BY <1>0, <1>1, <2>1, BoundsAssumption DEF InTable, IsRun, Job
<1>3. /\ page' = Inserted(j.call.rows, row.lease) /\ UNCHANGED <<row, orphans, faults>>
      /\ job' = [job EXCEPT ![w] = next]
  BY <1>j, <1>0, <1>1 DEF Commit, JobsOK, Job
<1>4. /\ PagesOK' /\ Stored <= Stored' /\ Last(j.call.rows) <= Stored'
      /\ Stored' = Stored \/ Stored' = Last(j.call.rows)
      /\ page' = Filled(row.lease, Stored')
  BY <1>0, <1>2, <1>3, InsertedPages DEF TableInv
<1>5. Sound(next)
  BY <1>0, <1>1, CallSound
<1>6. c.phase = "reply" /\ c.rows = j.call.rows
  BY <1>0 DEF Call
<1> HIDE DEF c
<1>7. /\ next.phase = j.phase /\ next.lease = j.lease /\ next.seq = j.seq
      /\ next.call = c /\ next.lost = j.lost /\ next.buffer = j.buffer
      /\ next.flusher = j.flusher /\ next.full = j.full
  BY <1>0 DEF Job
<1> HIDE DEF next
<1>8. job'[w] = next /\ \A v \in Workers : v # w => job'[v] = job[v]
  BY <1>0, <1>3
<1>9. JobsOK'
  BY <1>0, <1>3, <1>5 DEF JobsOK, Sound
<1>10. EventInv'
  BY <1>j, <1>0, <1>3, <1>6, <1>7, <1>8 DEF EventInv, Noticed
<1>11. InTable(next, Stored')
  <2>1. Taken(next) = Taken(j)
    BY <1>7 DEF Taken
  <2>2. /\ Taken(j) \in Nat /\ j.seq \in Nat /\ Stored \in Nat /\ Stored' \in Nat
        /\ Before(j.call.rows) \in Nat
    BY <1>j, <1>0, <1>2, <1>4, JobFields DEF TableInv, PagesOK, IsRun
  <2> QED BY <1>1, <1>2, <1>4, <1>6, <1>7, <2>1, <2>2 DEF InTable
<1>12. \A v \in Workers : Current(v) => Last(j.call.rows) <= job[v].seq
  BY <1>j, <1>0, <1>1, <1>2 DEF TableInv, OneCurrent
<1>13. TableInv'
  BY <1>j, <1>0, <1>3, <1>4, <1>6, <1>7, <1>8, <1>11, <1>12, GrownTable
<1> QED BY <1>0, <1>1, <1>3, <1>4, <1>9, <1>10, <1>13 DEF IInv, TableInv, PagesOK

LEMMA OrphanStep ==
  ASSUME IInv, OrphanEnds
  PROVE  /\ IInv' /\ UNCHANGED row
         /\ \/ UNCHANGED page
            \/ /\ row.state = "running"
               /\ Stored <= Stored' /\ page' = Filled(row.lease, Stored')
               /\ Stored \in Nat /\ Stored' \in Nat /\ Stored' <= MaxPages
<1>1. PICK o \in orphans :
        /\ orphans' = orphans \ {o}
        /\ \/ UNCHANGED page
           \/ o.sent /\ page' = Inserted(o.rows, o.lease)
        /\ UNCHANGED <<row, job, faults>>
  BY DEF OrphanEnds
<1>2. /\ JobsOK /\ TableInv /\ JobsOK' /\ EventInv'
  BY <1>1 DEF IInv, JobsOK, EventInv
<1>3. CASE UNCHANGED page
  BY <1>1, <1>2, <1>3
     DEF IInv, TableInv, RowOK, PagesOK, Stored, Filled, Leased, OneCurrent, LockHolds,
         JobsInTable, OrphansInTable, Current, HoldsLock, Owns
<1>4. CASE page' = Inserted(o.rows, o.lease)
  <2>1. /\ o.lease = row.lease /\ IsRun(o.rows) /\ Before(o.rows) <= Stored
        /\ Last(o.rows) <= MaxPages /\ row.state = "running"
        /\ \A w \in Workers : Current(w) => Last(o.rows) <= job[w].seq
    BY <1>2 DEF TableInv, OrphansInTable, LockHolds
  <2>2. /\ PagesOK' /\ Stored <= Stored'
        /\ Stored' = Stored \/ Stored' = Last(o.rows)
        /\ page' = Filled(row.lease, Stored')
    BY <1>1, <1>2, <1>4, <2>1, InsertedPages DEF TableInv
  <2>3. TableInv'
    <3>1. CASE Workers = {}
      BY <1>1, <1>2, <2>1, <2>2, <3>1
         DEF TableInv, RowOK, PagesOK, Leased, OneCurrent, LockHolds, JobsInTable,
             OrphansInTable, IsRun
    <3>2. ASSUME NEW w \in Workers
          PROVE  TableInv'
      BY <1>1, <1>2, <2>1, <2>2, GrownTable
    <3> QED BY <3>1, <3>2
  <2> QED BY <1>1, <1>2, <2>1, <2>2, <2>3 DEF IInv, TableInv, PagesOK
<1> QED BY <1>1, <1>3, <1>4

-----------------------------------------------------------------------------
(***************************************************************************)
(* The invariant holds, and what it says.                                  *)
(***************************************************************************)

LEMMA InitInv ==
  ASSUME Init
  PROVE  IInv
<1>1. /\ row = [state |-> "queued", owner |-> "none", lease |-> 0] /\ page = {}
      /\ job = [w \in Workers |-> Idle] /\ orphans = {} /\ faults = 0
  BY DEF Init
<1>2. \A w \in Workers : job[w] = Idle
  BY <1>1
<1>3. Idle.phase = "idle" /\ Idle.flusher = "done" /\ Idle.call.phase = "none"
  BY DEF Idle, NoCall
<1>4. JobsOK
  BY <1>1, IdleSound DEF JobsOK, Sound
<1>5. EventInv
  BY <1>2, <1>3 DEF EventInv, Noticed
<1>6. RowOK
  BY <1>1 DEF RowOK
<1>7. PagesOK
  <2>1. Stored = 0
    BY <1>1, FS_EmptySet DEF Stored
  <2>2. Filled(row.lease, 0) = {}
    BY DEF Filled
  <2> QED BY <1>1, <2>1, <2>2, BoundsAssumption DEF PagesOK
<1>8. Leased /\ OneCurrent /\ JobsInTable
  BY <1>2, <1>3 DEF Leased, OneCurrent, JobsInTable, Current
<1>9. LockHolds /\ OrphansInTable
  BY <1>1, <1>2, <1>3 DEF LockHolds, HoldsLock, OrphansInTable
<1> QED BY <1>4, <1>5, <1>6, <1>7, <1>8, <1>9 DEF IInv, TableInv

LEMMA Standstill ==
  ASSUME IInv, UNCHANGED vars
  PROVE  IInv'
BY DEF vars, IInv, JobsOK, EventInv, TableInv, RowOK, PagesOK, Stored, Filled, Leased,
       OneCurrent, LockHolds, JobsInTable, OrphansInTable, Current, HoldsLock, Owns

LEMMA Inductive ==
  ASSUME IInv, [Next]_vars
  PROVE  IInv'
<1>1. ASSUME NEW w \in Workers, Claim(w)
      PROVE  IInv'
  BY <1>1, ClaimStep
<1>2. ASSUME NEW w \in Workers, Record(w)
      PROVE  IInv'
  BY <1>2, RecordStep
<1>3. ASSUME NEW w \in Workers, Commit(w)
      PROVE  IInv'
  BY <1>3, CommitStep
<1>4. ASSUME NEW w \in Workers,
             \/ Page(w) \/ EndCrawl(w) \/ CloseTimesOut(w) \/ Crash(w)
             \/ Wake(w) \/ Enter(w, "flusher") \/ Enter(w, "closer") \/ Select(w)
             \/ Insert(w) \/ Reply(w) \/ Fail(w)
      PROVE  IInv'
  <2>1. UNCHANGED row
    BY <1>4 DEF Page, EndCrawl, CloseTimesOut, Crash, Wake, Enter, Select, Insert, Reply,
                Fail
  <2> QED BY <1>4, <2>1, MovesStep
<1>5. CASE Reap
  BY <1>5, ReapStep
<1>6. CASE OrphanEnds
  BY <1>6, OrphanStep
<1>7. CASE Rested \/ UNCHANGED vars
  BY <1>7, Standstill DEF Rested
<1> QED BY <1>1, <1>2, <1>3, <1>4, <1>5, <1>6, <1>7 DEF Next, Flush

LEMMA Invariance == Spec => []IInv
<1>1. Init => IInv
  BY InitInv
<1>2. IInv /\ [Next]_vars => IInv'
  BY Inductive
<1> QED BY <1>1, <1>2, PTL DEF Spec

\* The seqs of the table are 1 to as many as there are.
LEMMA SeqsOfTable ==
  ASSUME IInv
  PROVE  Stored \in Nat /\ Seqs = 1..Stored
<1>1. Stored \in Nat /\ page = {[seq |-> i, lease |-> row.lease] : i \in 1..Stored}
  BY DEF IInv, TableInv, PagesOK, Filled
<1> HIDE DEF Stored
<1>2. \A i \in 1..Stored : [seq |-> i, lease |-> row.lease].seq = i
  OBVIOUS
<1> QED BY <1>1, <1>2 DEF Seqs

\* A page that has been reported is in the database or in the buffer as long as the job
\* can still write it, however its flushes are interleaved, fail or commit without it.
THEOREM NoPageIsDropped == Spec => []NothingIsDropped
<1>1. IInv => NothingIsDropped
  <2> SUFFICES ASSUME IInv, NEW w \in Workers,
                      job[w].phase # "idle", ~job[w].lost, row.lease = job[w].lease,
                      NEW s \in 1..job[w].seq
               PROVE  s \in Seqs \cup ToSet(job[w].buffer)
    BY DEF NothingIsDropped
  <2>j. PICK j : j = job[w]
    OBVIOUS
  <2>1. /\ Sound(j) /\ j.seq \in Nat /\ Taken(j) \in Nat /\ Taken(j) <= j.seq
        /\ j.buffer = From(Taken(j), j.seq)
    <3>1. Sound(j) /\ j.seq \in Nat /\ Len(j.buffer) \in Nat
      BY <2>j, JobFields DEF IInv
    <3> QED BY <3>1 DEF Sound, InBuffer, Taken
  <2>2. Taken(j) <= Stored
    BY <2>j DEF IInv, TableInv, JobsInTable, Current, InTable
  <2>3. ToSet(j.buffer) = Taken(j) + 1..j.seq
    BY <2>1, FromSet
  <2>4. Stored \in Nat /\ Seqs = 1..Stored
    BY SeqsOfTable
  <2> QED BY <2>j, <2>1, <2>2, <2>3, <2>4
<1> QED BY <1>1, Invariance, PTL

\* A batch that is full is noticed also when it fills while another is being written, and
\* the lock of run and close is with a coroutine that will release it: one that has failed,
\* died or been cancelled has let it go.
THEOREM NoWakeUpIsLost == Spec => []NobodyWaitsInVain
<1>1. IInv => FullBufferIsNoticed
  BY DEF IInv, EventInv, Noticed, FullBufferIsNoticed
<1>2. IInv => LockIsHeldByACall
  <2> SUFFICES ASSUME IInv, NEW w \in Workers, job[w].call.by # "none"
               PROVE  job[w][job[w].call.by] = "call"
    BY DEF LockIsHeldByACall
  <2>1. job[w].call \in Call /\ InPhase(job[w])
    BY JobFields DEF IInv, Sound
  <2>2. job[w].call.by \in {"flusher", "closer"}
    BY <2>1 DEF Call
  <2> QED BY <2>1, <2>2 DEF InPhase
<1>3. IInv => NobodyWaitsInVain
  BY <1>1, <1>2 DEF NobodyWaitsInVain
<1> QED BY <1>3, Invariance, PTL

\* A job whose close() raised nothing is about to record a result that counts every page
\* it reported, and the table holds exactly those.
THEOREM CleanCloseStoresAll == Spec => []CleanCloseIsComplete
<1>1. IInv => CleanCloseIsComplete
  <2> SUFFICES ASSUME IInv, NEW w \in Workers, job[w].phase = "record", job[w].clean,
                      ~job[w].lost, row.lease = job[w].lease
               PROVE  Seqs = 1..job[w].seq /\ job[w].written = job[w].seq
    BY DEF CleanCloseIsComplete
  <2>j. PICK j : j = job[w]
    OBVIOUS
  <2>1. /\ Sound(j) /\ j.seq \in Nat /\ j.buffer = <<>> /\ j.written = Taken(j)
    BY <2>j, JobFields DEF IInv, Sound, InPhase, InBuffer
  <2>2. Taken(j) = j.seq
    BY <2>1 DEF Taken
  <2>3. Taken(j) <= Stored /\ Stored <= j.seq
    BY <2>j DEF IInv, TableInv, JobsInTable, Current, InTable
  <2>4. Stored \in Nat /\ Seqs = 1..Stored
    BY SeqsOfTable
  <2> QED BY <2>j, <2>1, <2>2, <2>3, <2>4
<1> QED BY <1>1, Invariance, PTL

-----------------------------------------------------------------------------
(***************************************************************************)
(* The pages are a log.                                                    *)
(***************************************************************************)

\* A step that adds pages appends to the log; one that adds none shows nothing.
LEMMA GrowthIsAppend ==
  ASSUME IInv, row.state = "running", UNCHANGED row, Stored \in Nat, Stored' \in Nat,
         Stored <= Stored', Stored' <= MaxPages, page' = Filled(row.lease, Stored')
  PROVE  Log!Append \/ UNCHANGED <<row.state, row.lease, page>>
<1>1. CASE Stored' = Stored
  BY <1>1 DEF IInv, TableInv, PagesOK, Filled
<1>2. CASE Stored' > Stored
  <2>1. MaxPages \in Nat
    BY BoundsAssumption
  <2>2. PICK n : n = Stored'
    OBVIOUS
  <2>3. n \in Stored + 1..MaxPages /\ page' = Filled(row.lease, n)
    BY <1>2, <2>1, <2>2
  <2>4. page' = {[seq |-> s, lease |-> row.lease] : s \in 1..n}
    BY <2>3 DEF Filled
  <2>5. \E m \in Cardinality(page) + 1..MaxPages :
          page' = {[seq |-> s, lease |-> row.lease] : s \in 1..m}
    BY <2>3, <2>4 DEF Stored
  <2> QED BY <2>5 DEF Log!Append, Log!Cardinality, Cardinality
<1> QED BY <1>1, <1>2

LEMMA LogStep ==
  ASSUME IInv, [Next]_vars
  PROVE  [Log!Next]_(Log!vars)
<1> USE DEF Log!vars
<1>1. ASSUME NEW w \in Workers, Claim(w)
      PROVE  Log!Claim
  BY <1>1 DEF Claim, Log!Claim
<1>2. ASSUME NEW w \in Workers, Record(w)
      PROVE  Log!Requeue \/ Log!Settle \/ UNCHANGED Log!vars
  <2>1. CASE UNCHANGED row
    BY <1>2, <2>1 DEF Record
  <2>2. CASE row' # row
    <3>1. /\ job[w].phase # "idle" /\ row.owner = w /\ UNCHANGED page
          /\ \/ row' = [row EXCEPT !.state = "settled"]
             \/ row' = [row EXCEPT !.state = "queued", !.owner = "none"]
      BY <1>2, <2>2 DEF Record
    <3>2. row.state = "running" /\ RowOK
      BY <3>1 DEF IInv, TableInv, Leased
    <3> QED BY <3>1, <3>2 DEF RowOK, Log!Requeue, Log!Settle
  <2> QED BY <2>1, <2>2
<1>3. ASSUME NEW w \in Workers, Commit(w)
      PROVE  Log!Append \/ UNCHANGED Log!vars
  <2>1. /\ row.state = "running" /\ UNCHANGED row
        /\ Stored <= Stored' /\ page' = Filled(row.lease, Stored')
        /\ Stored \in Nat /\ Stored' \in Nat /\ Stored' <= MaxPages
    BY <1>3, CommitStep
  <2> QED BY <2>1, GrowthIsAppend
<1>4. ASSUME OrphanEnds
      PROVE  Log!Append \/ UNCHANGED Log!vars
  <2>1. /\ UNCHANGED row
        /\ \/ UNCHANGED page
           \/ /\ row.state = "running"
              /\ Stored <= Stored' /\ page' = Filled(row.lease, Stored')
              /\ Stored \in Nat /\ Stored' \in Nat /\ Stored' <= MaxPages
    BY <1>4, OrphanStep
  <2>2. CASE UNCHANGED page
    BY <2>1, <2>2
  <2>3. CASE ~UNCHANGED page
    BY <2>1, <2>3, GrowthIsAppend
  <2> QED BY <2>2, <2>3
<1>5. ASSUME Reap
      PROVE  Log!Requeue
  BY <1>5 DEF Reap, IInv, TableInv, RowOK, Log!Requeue
<1>6. ASSUME NEW w \in Workers,
             \/ Page(w) \/ EndCrawl(w) \/ CloseTimesOut(w) \/ Crash(w)
             \/ Wake(w) \/ Enter(w, "flusher") \/ Enter(w, "closer") \/ Select(w)
             \/ Insert(w) \/ Reply(w) \/ Fail(w)
      PROVE  UNCHANGED Log!vars
  BY <1>6 DEF Page, EndCrawl, CloseTimesOut, Crash, Wake, Enter, Select, Insert, Reply,
              Fail
<1>7. CASE Rested \/ UNCHANGED vars
  BY <1>7 DEF Rested, vars
<1> QED
  BY <1>1, <1>2, <1>3, <1>4, <1>5, <1>6, <1>7 DEF Next, Flush, Log!Next

\* Await by await, with clients that time out, fail and die and a database that goes on
\* without them, the table of pages is the log of PageLog: a late COMMIT adds to the run
\* that has the lease or to none.
THEOREM TableIsAPageLog == Spec => ImplementsPageLog
<1>1. Init => Log!Init
  BY DEF Init, Log!Init
<1>2. IInv /\ [Next]_vars => [Log!Next]_(Log!vars)
  BY LogStep
<1> QED BY <1>1, <1>2, Invariance, PTL DEF Spec, ImplementsPageLog, Log!Spec
=============================================================================
