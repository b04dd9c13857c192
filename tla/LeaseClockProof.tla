---------------------------- MODULE LeaseClockProof ----------------------------
(***************************************************************************)
(* Proofs about LeaseClock, for all intervals, leases and timeouts: how    *)
(* long two workers overlap, how long a final write is tried, how soon a   *)
(* silent worker is replaced, and how long a lease has to be for a healthy *)
(* worker to keep it.                                                      *)
(***************************************************************************)
EXTENDS LeaseClock, TLAPS

-----------------------------------------------------------------------------
(***************************************************************************)
(* The inductive invariant.  A deadline in the model is a wait that Tick   *)
(* does not outlast; the properties follow from how such waits add up.     *)
(***************************************************************************)

\* A that crawls sleeps or calls, and began that less than a lease and an interval
\* after its last good heartbeat, for it would have given up otherwise.
Crawls ==
  job.phase = "crawl" =>
    /\ job.ok <= now
    /\ \/ /\ job.call = NoCall
          /\ now <= job.next
          /\ job.next < job.ok + Lease + HeartbeatEvery
       \/ /\ job.call.kind = "heartbeat"
          /\ job.ok <= job.call.began /\ job.call.began <= now
          /\ now <= job.call.began + CallTime
          /\ job.call.began < job.ok + Lease + HeartbeatEvery

\* The same of the final write, counted from its first try.
Records ==
  job.phase = "record" =>
    \/ /\ job.call = NoCall
       /\ now <= job.next
       /\ job.next < job.started + Lease + HeartbeatEvery
    \/ /\ job.call.kind = "finish"
       /\ now <= job.call.began + CallTime
       /\ job.call.began < job.started + Lease + HeartbeatEvery

Idle == job.phase \in {"drain", "over"} => job.call = NoCall

\* What A believes of its lease is at most a call younger than what the row says.
Owns ==
  row.owner = "A" /\ job.phase = "crawl" =>
    /\ row.state = "running"
    /\ job.ok <= row.beat + CallTime
    /\ job.call # NoCall => row.beat <= job.call.began
    /\ job.call.result = "ok" => row.beat = job.call.began

\* When the lease was taken, what A believes had run out but for a call.
Lost ==
  row.owner # "A" /\ job.phase = "crawl" =>
    /\ job.ok + Lease < row.lost + CallTime
    /\ job.call.result = "ok" => job.call.began + Lease < row.lost

\* A call of B is no older than its timeout.
Rounds ==
  \/ reaper.call = NoCall
  \/ /\ reaper.call.kind \in {"reap", "claim"}
     /\ reaper.call.began <= now /\ now <= reaper.call.began + CallTime

\* B gets only what was taken from A.
Takes ==
  /\ row.state = "queued" => row.owner # "A"
  /\ reaper.busy \/ (reaper.call.kind = "claim" /\ reaper.call.result = "ok") => row.owner # "A"

IInv == TypeOK /\ Crawls /\ Records /\ Idle /\ Owns /\ Lost /\ Rounds /\ Takes

LEMMA CallTypes ==
  ASSUME now \in Nat
  PROVE  /\ NoCall \in Calls
         /\ \A kind \in {"heartbeat", "finish", "reap", "claim"} : Call(kind) \in Calls
BY DEF Calls, NoCall, Call

LEMMA NextJob == TypeOK /\ [Next]_vars => job' \in Jobs
<1> SUFFICES ASSUME TypeOK, [Next]_vars PROVE job' \in Jobs
  OBVIOUS
<1> USE SettingsAssumption
<1>0. /\ now \in Nat /\ job \in Jobs /\ job.call \in Calls
      /\ now + HeartbeatEvery \in Nat
      /\ NoCall \in Calls /\ Call("heartbeat") \in Calls /\ Call("finish") \in Calls
  BY CallTypes DEF TypeOK, Jobs
<1>1. CASE CommitHeartbeat \/ CommitFinish
  <2>1. \A r \in {"ok", "gone"} : [job.call EXCEPT !.result = r] \in Calls
    BY <1>0 DEF Calls
  <2>2. PICK r \in {"ok", "gone"} : job' = [job EXCEPT !.call = [job.call EXCEPT !.result = r]]
    BY <1>0, <1>1 DEF CommitHeartbeat, CommitFinish, Jobs
  <2> DEFINE c == [job.call EXCEPT !.result = r]
  <2>3. c \in Calls
    BY <2>1
  <2>4. job' = [job EXCEPT !.call = c]
    BY <2>2
  <2> QED
    BY ONLY <1>0, <2>3, <2>4 DEF Jobs
<1>2. CASE StartHeartbeat \/ RetryFinish
  BY <1>0, <1>2 DEF StartHeartbeat, RetryFinish, Jobs
<1>3. Over(job) \in Jobs
  BY <1>0 DEF Over, Jobs, Phases
<1>4. CASE HeartbeatReturns
  BY <1>0, <1>3, <1>4 DEF HeartbeatReturns, Jobs
<1>5. CASE HeartbeatFails \/ FinishFails
  <2>1. job' = Over(job) \/ job' = [job EXCEPT !.next = now + HeartbeatEvery, !.call = NoCall]
    BY <1>5 DEF HeartbeatFails, FinishFails
  <2>2. [job EXCEPT !.next = now + HeartbeatEvery, !.call = NoCall] \in Jobs
    BY <1>0 DEF Jobs
  <2> QED
    BY <1>3, <2>1, <2>2
<1>6. CASE EndCrawl \/ EndDrain \/ FinishReturns
  <2>1. CASE EndCrawl
    BY <1>0, <2>1 DEF EndCrawl, Jobs, Phases
  <2>2. CASE EndDrain
    <3> DEFINE c == Call("finish")
    <3>2. job' = [job EXCEPT !.phase = "record", !.started = now, !.call = c] /\ c \in Calls
      BY <1>0, <2>2 DEF EndDrain
    <3> HIDE DEF c
    <3> QED
      BY <1>0, <3>2 DEF Jobs, Phases
  <2>3. CASE FinishReturns
    BY <1>3, <2>3 DEF FinishReturns
  <2> QED
    BY <1>6, <2>1, <2>2, <2>3
<1>7. CASE Crash
  <2>1. job.crashes + 1 \in 0..MaxCrashes /\ Over(job).crashes = job.crashes
    BY <1>0, <1>7 DEF Crash, Jobs, Over
  <2>2. job' = [Over(job) EXCEPT !.crashes = job.crashes + 1]
    BY <1>7, <2>1 DEF Crash
  <2> QED
    BY <1>3, <2>1, <2>2 DEF Jobs
<1>8. CASE UNCHANGED job
  BY <1>0, <1>8
<1> QED
  BY <1>1, <1>2, <1>3, <1>4, <1>5, <1>6, <1>7, <1>8
     DEF Next, Tick, GoDown, ComeUp, Round, StartRound, CommitReap, ReapReturns, CommitClaim,
       ClaimReturns, RoundFails, Stopped, vars

\* A call of B that commits or fails keeps its kind and the time it began.
LEMMA CallCommits ==
  ASSUME reaper \in Reapers
  PROVE  \A r \in {"ok", "gone"} :
           LET c == [reaper.call EXCEPT !.result = r]
           IN  /\ c \in Calls /\ c.kind = reaper.call.kind /\ c.began = reaper.call.began
               /\ c.result = r
               /\ [reaper EXCEPT !.call.result = r] = [reaper EXCEPT !.call = c]
BY DEF Reapers, Calls

\* What each step of B makes of its own state.
LEMMA RoundSteps ==
  ASSUME reaper \in Reapers, now \in Nat, Round
  PROVE  /\ now' = now /\ db' = db /\ job' = job
         /\ reaper' \in Reapers
         /\ \/ StartRound \/ CommitReap \/ ReapReturns \/ CommitClaim \/ ClaimReturns
            \/ RoundFails
         /\ StartRound =>
              /\ Waiting /\ now = reaper.poll /\ row' = row /\ ~reaper'.busy
              /\ reaper'.last = LastReap
              /\ reaper'.call = Call(IF Due THEN "reap" ELSE "claim")
         /\ CommitReap =>
              /\ db.up /\ reaper.call.kind = "reap" /\ reaper.call.result = "none"
              /\ reaper'.last = reaper.last /\ reaper'.busy = reaper.busy
              /\ reaper'.call.kind = "reap" /\ reaper'.call.began = reaper.call.began
              /\ reaper'.call.result = "ok"
         /\ ReapReturns =>
              /\ reaper.call.kind = "reap" /\ reaper.call.result # "none" /\ row' = row
              /\ reaper'.last = reaper.last /\ reaper'.busy = reaper.busy
              /\ reaper'.call = Call("claim")
         /\ CommitClaim =>
              /\ db.up /\ reaper.call.kind = "claim" /\ reaper.call.result = "none"
              /\ reaper'.last = reaper.last /\ reaper'.busy = reaper.busy
              /\ reaper'.call.kind = "claim" /\ reaper'.call.began = reaper.call.began
              /\ reaper'.call.result = IF row.state = "queued" THEN "ok" ELSE "gone"
         /\ ClaimReturns =>
              /\ reaper.call.kind = "claim" /\ reaper.call.result # "none" /\ row' = row
              /\ reaper'.last = reaper.last /\ reaper'.call = NoCall
              /\ \/ reaper.call.result = "ok" /\ reaper'.busy
                 \/ reaper'.busy = reaper.busy /\ reaper'.poll = now + PollEvery
         /\ RoundFails =>
              /\ reaper.call # NoCall /\ ~db.up /\ row' = row
              /\ reaper'.last = reaper.last /\ reaper'.busy = reaper.busy
              /\ reaper'.call = NoCall /\ reaper'.poll = now + PollEvery
<1> USE SettingsAssumption
<1>0. /\ NoCall \in Calls /\ Call("reap") \in Calls /\ Call("claim") \in Calls
      /\ now + PollEvery \in Nat /\ 0 \in Nat /\ reaper.call \in Calls
  BY CallTypes DEF Reapers
<1>1. CASE StartRound
  <2> DEFINE c == Call(IF Due THEN "reap" ELSE "claim")
  <2>1. c \in Calls
    BY <1>0
  <2>2. LastReap \in Int
    BY DEF LastReap, Reapers
  <2>3. /\ reaper' = [reaper EXCEPT !.last = LastReap, !.poll = 0, !.call = c]
        /\ Waiting /\ now = reaper.poll /\ UNCHANGED <<now, db, row, job>>
    BY <1>1 DEF StartRound
  <2>4. ~CommitReap /\ ~ReapReturns /\ ~CommitClaim /\ ~ClaimReturns /\ ~RoundFails
    BY <2>3 DEF Waiting, CommitReap, ReapReturns, CommitClaim, ClaimReturns, RoundFails, NoCall
  <2> HIDE DEF c
  <2>5. /\ reaper' \in Reapers /\ reaper'.last = LastReap /\ reaper'.call = c
        /\ reaper'.busy = reaper.busy
    BY <1>0, <2>1, <2>2, <2>3 DEF Reapers
  <2> QED
    BY <1>1, <2>3, <2>4, <2>5 DEF c, Waiting
<1>2. CASE CommitReap
  <2> DEFINE c == [reaper.call EXCEPT !.result = "ok"]
  <2>1. /\ reaper' = [reaper EXCEPT !.call = c]
        /\ db.up /\ reaper.call.kind = "reap" /\ reaper.call.result = "none"
        /\ UNCHANGED <<now, db, job>>
    BY <1>2, CallCommits DEF CommitReap
  <2>2. c \in Calls /\ c.kind = "reap" /\ c.began = reaper.call.began /\ c.result = "ok"
    BY <2>1, CallCommits
  <2>3. ~StartRound /\ ~ReapReturns /\ ~CommitClaim /\ ~ClaimReturns /\ ~RoundFails
    BY <2>1 DEF StartRound, Waiting, ReapReturns, CommitClaim, ClaimReturns, RoundFails, NoCall
  <2> HIDE DEF c
  <2>4. /\ reaper' \in Reapers /\ reaper'.call = c
        /\ reaper'.last = reaper.last /\ reaper'.busy = reaper.busy
    BY <2>1, <2>2 DEF Reapers
  <2> QED
    BY <1>2, <2>1, <2>2, <2>3, <2>4
<1>3. CASE ReapReturns
  <2> DEFINE c == Call("claim")
  <2>1. /\ reaper' = [reaper EXCEPT !.call = c] /\ c \in Calls
        /\ reaper.call.kind = "reap" /\ reaper.call.result # "none"
        /\ UNCHANGED <<now, db, row, job>>
    BY <1>0, <1>3 DEF ReapReturns
  <2>2. ~StartRound /\ ~CommitReap /\ ~CommitClaim /\ ~ClaimReturns
    BY <2>1 DEF StartRound, Waiting, CommitReap, CommitClaim, ClaimReturns, NoCall
  <2>3. ~RoundFails
    <3>1. c # NoCall
      BY DEF Call, NoCall
    <3> HIDE DEF c
    <3> QED
      BY <1>0, <2>1, <3>1 DEF RoundFails, Reapers
  <2> HIDE DEF c
  <2>4. /\ reaper' \in Reapers /\ reaper'.call = c
        /\ reaper'.last = reaper.last /\ reaper'.busy = reaper.busy
    BY <2>1 DEF Reapers
  <2> QED
    BY <1>3, <2>1, <2>2, <2>3, <2>4 DEF c
<1>4. CASE CommitClaim
  <2> DEFINE r == IF row.state = "queued" THEN "ok" ELSE "gone"
             c == [reaper.call EXCEPT !.result = r]
  <2>1. /\ reaper' = [reaper EXCEPT !.call.result = r]
        /\ db.up /\ reaper.call.kind = "claim" /\ reaper.call.result = "none"
        /\ UNCHANGED <<now, db, job>>
    BY <1>4 DEF CommitClaim
  <2>a. r \in {"ok", "gone"}
    OBVIOUS
  <2>2. /\ c \in Calls /\ c.kind = "claim" /\ c.began = reaper.call.began /\ c.result = r
        /\ reaper' = [reaper EXCEPT !.call = c]
    BY <2>1, <2>a, CallCommits
  <2>3. ~StartRound /\ ~CommitReap /\ ~ReapReturns /\ ~ClaimReturns /\ ~RoundFails
    BY <2>1 DEF StartRound, Waiting, CommitReap, ReapReturns, ClaimReturns, RoundFails, NoCall
  <2> HIDE DEF c
  <2>4. /\ reaper' \in Reapers /\ reaper'.call = c
        /\ reaper'.last = reaper.last /\ reaper'.busy = reaper.busy
    BY <2>2 DEF Reapers
  <2> QED
    BY <1>4, <2>1, <2>2, <2>3, <2>4
<1>5. CASE ClaimReturns
  <2>1. /\ \/ /\ reaper.call.result = "ok"
              /\ reaper' = [reaper EXCEPT !.call = NoCall, !.busy = TRUE]
           \/ reaper' = [reaper EXCEPT !.call = NoCall, !.poll = now + PollEvery]
        /\ reaper.call.kind = "claim" /\ reaper.call.result # "none"
        /\ UNCHANGED <<now, db, row, job>>
    BY <1>5 DEF ClaimReturns
  <2>2. ~StartRound /\ ~CommitReap /\ ~ReapReturns /\ ~CommitClaim
    BY <2>1 DEF StartRound, Waiting, CommitReap, ReapReturns, CommitClaim, NoCall
  <2>3. /\ reaper' \in Reapers /\ reaper'.call = NoCall /\ reaper'.last = reaper.last
        /\ \/ reaper.call.result = "ok" /\ reaper'.busy
           \/ reaper'.busy = reaper.busy /\ reaper'.poll = now + PollEvery
    BY <1>0, <2>1 DEF Reapers
  <2>4. RoundFails => /\ reaper.call # NoCall /\ ~db.up /\ reaper'.busy = reaper.busy
                      /\ reaper'.poll = now + PollEvery
    BY <1>0 DEF RoundFails, Reapers
  <2> QED
    BY <1>5, <2>1, <2>2, <2>3, <2>4
<1>6. CASE RoundFails
  <2>1. /\ reaper' = [reaper EXCEPT !.call = NoCall, !.poll = now + PollEvery]
        /\ reaper.call # NoCall /\ ~db.up /\ UNCHANGED <<now, db, row, job>>
    BY <1>6 DEF RoundFails
  <2>2. /\ reaper' \in Reapers /\ reaper'.call = NoCall /\ reaper'.last = reaper.last
        /\ reaper'.busy = reaper.busy /\ reaper'.poll = now + PollEvery
    BY <1>0, <2>1 DEF Reapers
  <2>3. ~StartRound /\ ~CommitReap /\ ~CommitClaim
    BY <2>1 DEF StartRound, Waiting, CommitReap, CommitClaim
  <2>4. ~ReapReturns
    <3>1. Call("claim") # NoCall
      BY DEF Call, NoCall
    <3> QED
      BY <1>0, <2>2, <3>1 DEF ReapReturns, Reapers
  <2> QED
    BY <1>6, <2>1, <2>2, <2>3, <2>4 DEF ClaimReturns
<1> QED
  BY <1>1, <1>2, <1>3, <1>4, <1>5, <1>6 DEF Round

\* A step of B leaves the row alone, takes an expired run away, or claims what is queued.
LEMMA RoundTakes ==
  ASSUME TypeOK, Rounds, Round
  PROVE  \/ row' = row
         \/ /\ CommitReap /\ Expired /\ row.beat + Lease < now
            /\ row' \in Rows /\ row'.owner = "none" /\ row'.state # "running"
            /\ row'.beat = row.beat
            /\ row'.lost = IF row.owner = "A" THEN now ELSE row.lost
         \/ /\ CommitClaim /\ row.state = "queued"
            /\ row' \in Rows /\ row'.owner = "B" /\ row'.state = "running"
            /\ row'.beat <= now /\ row'.lost = row.lost
<1> USE SettingsAssumption
<1>0. /\ now \in Nat /\ row \in Rows /\ row.beat \in Nat /\ row.lost \in Nat
      /\ reaper \in Reapers /\ reaper.call \in Calls /\ reaper.call.began \in Nat
  BY DEF TypeOK, Rows, Reapers, Calls
<1>1. CASE CommitReap
  <2>1. CASE Expired
    <3>1. PICK state \in {"queued", "settled"} :
            row' = [row EXCEPT !.owner = "none", !.state = state,
                               !.lost = IF row.owner = "A" THEN now ELSE row.lost]
      BY <1>0, <1>1, <2>1 DEF CommitReap, Rows
    <3>2. reaper.call.began <= now
      BY <1>1 DEF CommitReap, Rounds, NoCall
    <3>3. row.beat + Lease < now
      BY <1>0, <2>1, <3>2 DEF Expired
    <3>4. (IF row.owner = "A" THEN now ELSE row.lost) \in Nat
      BY <1>0
    <3> QED
      BY <1>0, <1>1, <2>1, <3>1, <3>3, <3>4 DEF Rows
  <2>2. CASE ~Expired
    BY <1>1, <2>2 DEF CommitReap
  <2> QED
    BY <2>1, <2>2
<1>2. CASE CommitClaim
  <2>1. CASE row.state = "queued"
    <3>1. row' = [row EXCEPT !.owner = "B", !.state = "running", !.beat = reaper.call.began]
      BY <1>2, <2>1 DEF CommitClaim
    <3>2. reaper.call.began <= now
      BY <1>2 DEF CommitClaim, Rounds, NoCall
    <3> QED
      BY <1>0, <1>2, <2>1, <3>1, <3>2 DEF Rows
  <2>2. CASE row.state # "queued"
    BY <1>2, <2>2 DEF CommitClaim
  <2> QED
    BY <2>1, <2>2
<1> QED
  BY <1>1, <1>2 DEF Round, StartRound, ReapReturns, ClaimReturns, RoundFails

LEMMA NextTypes == IInv /\ [Next]_vars => TypeOK'
<1> SUFFICES ASSUME IInv, [Next]_vars PROVE TypeOK'
  OBVIOUS
<1> USE SettingsAssumption
<1>0. job' \in Jobs /\ TypeOK
  BY NextJob DEF IInv
<1>1. now' \in Nat /\ now' >= now
  BY <1>0 DEF TypeOK, Next, vars, Tick, GoDown, ComeUp, CommitHeartbeat, CommitFinish,
       StartHeartbeat, HeartbeatReturns, HeartbeatFails, EndCrawl, EndDrain, FinishReturns,
       FinishFails, RetryFinish, Crash, Round, StartRound, CommitReap, ReapReturns, CommitClaim,
       ClaimReturns, RoundFails, Stopped
<1>2. CASE GoDown \/ ComeUp
  <2>1. db' \in [up : BOOLEAN, since : Nat, outages : 0..MaxOutages]
    <3>1. CASE GoDown
      <4>1. db.outages + 1 \in 0..MaxOutages
        BY <1>0, <3>1 DEF GoDown, TypeOK
      <4> QED
        BY <1>0, <3>1, <4>1 DEF GoDown, TypeOK
    <3>2. CASE ComeUp
      BY <1>0, <3>2 DEF ComeUp, TypeOK
    <3> QED
      BY <1>2, <3>1, <3>2
  <2> QED
    BY <1>0, <1>2, <2>1 DEF GoDown, ComeUp, TypeOK
<1>3. CASE CommitHeartbeat
  <2>1. job.phase = "crawl" /\ job.call # NoCall
    BY <1>3 DEF CommitHeartbeat, IInv, Crawls, Records, Idle, TypeOK, Jobs, Phases, NoCall
  <2>2. job.call.began \in Nat /\ job.call.began <= now
    BY <1>0, <2>1 DEF IInv, Crawls, TypeOK, Jobs, Calls
  <2> QED
    BY <1>0, <1>3, <2>2 DEF CommitHeartbeat, TypeOK, Rows
<1>4. CASE CommitFinish
  BY <1>0, <1>4 DEF CommitFinish, TypeOK, Rows
<1>5. CASE Round
  <2>1. reaper' \in Reapers /\ UNCHANGED <<now, db>>
    BY <1>0, <1>5, RoundSteps DEF TypeOK
  <2>2. row' \in Rows /\ row'.beat <= now
    BY <1>0, <1>5, RoundTakes DEF TypeOK, IInv
  <2> QED
    BY <1>0, <1>1, <2>1, <2>2 DEF TypeOK
<1>6. CASE UNCHANGED <<db, row, reaper>>
  BY <1>0, <1>1, <1>6 DEF TypeOK, Rows
<1> QED
  BY <1>2, <1>3, <1>4, <1>5, <1>6
     DEF Next, vars, Tick, StartHeartbeat, HeartbeatReturns, HeartbeatFails, EndCrawl,
       EndDrain, FinishReturns, FinishFails, RetryFinish, Crash, Stopped

\* A heartbeat that commits renews the lease of A, or finds that A has it no more.
LEMMA HeartbeatCommits ==
  ASSUME IInv, CommitHeartbeat
  PROVE  /\ job.phase = "crawl" /\ job.call.kind = "heartbeat" /\ job.call.result = "none"
         /\ now' = now /\ reaper' = reaper
         /\ job'.phase = "crawl" /\ job'.ok = job.ok
         /\ job'.call.kind = "heartbeat" /\ job'.call.began = job.call.began
         /\ row'.owner = row.owner /\ row'.state = row.state /\ row'.lost = row.lost
         /\ \/ /\ row.owner = "A" /\ row'.beat = job.call.began /\ job'.call.result = "ok"
            \/ /\ job'.call.result = "gone" /\ row' = row
               /\ ~(row.owner = "A" /\ row.state = "running")
<1>1. /\ job \in Jobs /\ job.call \in Calls /\ row \in Rows
  BY DEF IInv, TypeOK, Jobs
<1>2. job.phase = "crawl" /\ job.call.kind = "heartbeat" /\ job.call.result = "none"
  BY <1>1 DEF CommitHeartbeat, IInv, Crawls, Records, Idle, Jobs, Phases, NoCall
<1>3. \A r : LET c == [job.call EXCEPT !.result = r]
             IN  c.kind = job.call.kind /\ c.began = job.call.began /\ c.result = r
  BY <1>1 DEF Calls
<1>4. CASE row.owner = "A" /\ row.state = "running"
  <2> DEFINE c == [job.call EXCEPT !.result = "ok"]
  <2>1. /\ job' = [job EXCEPT !.call = c]
        /\ row' = [row EXCEPT !.beat = job.call.began]
        /\ now' = now /\ reaper' = reaper
    BY <1>1, <1>4 DEF CommitHeartbeat, Jobs
  <2>2. c.kind = job.call.kind /\ c.began = job.call.began /\ c.result = "ok"
    BY <1>3
  <2> HIDE DEF c
  <2> QED
    BY <1>1, <1>2, <1>4, <2>1, <2>2 DEF Jobs, Rows
<1>5. CASE ~(row.owner = "A" /\ row.state = "running")
  <2> DEFINE c == [job.call EXCEPT !.result = "gone"]
  <2>1. /\ job' = [job EXCEPT !.call = c] /\ row' = row
        /\ now' = now /\ reaper' = reaper
    BY <1>1, <1>5 DEF CommitHeartbeat, Jobs
  <2>2. c.kind = job.call.kind /\ c.began = job.call.began /\ c.result = "gone"
    BY <1>3
  <2> HIDE DEF c
  <2> QED
    BY <1>1, <1>2, <1>5, <2>1, <2>2 DEF Jobs, Rows
<1> QED
  BY <1>4, <1>5

USE DEF Phases, Calls, NoCall, Call, Jobs, Rows, Reapers

LEMMA InitIInv == Init => IInv
<1> SUFFICES ASSUME Init PROVE IInv
  OBVIOUS
<1>1. now \in Nat /\ 0 <= now /\ now <= CallTime
  BY SettingsAssumption DEF Init
<1>2. reaper \in Reapers /\ reaper.busy = FALSE /\ reaper.call = NoCall
  <2>1. reaper \in [last : 1 - Lease..0, poll : now..now + PollEvery, call : {NoCall},
                    busy : {FALSE}]
    BY DEF Init
  <2>2. 1 - Lease..0 \subseteq Int /\ now..now + PollEvery \subseteq Nat /\ NoCall \in Calls
    BY <1>1, SettingsAssumption
  <2> QED
    BY <2>1, <2>2
<1>3. TypeOK
  BY <1>1, <1>2, SettingsAssumption DEF Init, TypeOK
<1>4. Crawls /\ Records /\ Idle
  BY <1>1, SettingsAssumption DEF Init, Crawls, Records, Idle
<1>5. Owns /\ Lost /\ Rounds /\ Takes
  BY <1>1, <1>2, SettingsAssumption DEF Init, Owns, Lost, Rounds, Takes
<1> QED
  BY <1>3, <1>4, <1>5 DEF IInv

LEMMA NextWaits == IInv /\ TypeOK' /\ [Next]_vars => (Crawls /\ Records /\ Idle)'
<1> SUFFICES ASSUME IInv, TypeOK', [Next]_vars PROVE (Crawls /\ Records /\ Idle)'
  OBVIOUS
<1> USE SettingsAssumption DEF IInv, TypeOK, Crawls, Records, Idle
<1>1. CASE Tick
  BY <1>1 DEF Tick
<1>2. CASE GoDown
  BY <1>2 DEF GoDown
<1>3. CASE ComeUp
  BY <1>3 DEF ComeUp
<1>4. CASE CommitHeartbeat
  BY <1>4, HeartbeatCommits
<1>5. CASE CommitFinish
  BY <1>5 DEF CommitFinish
<1>6. CASE StartHeartbeat
  BY <1>6 DEF StartHeartbeat
<1>7. CASE HeartbeatReturns
  BY <1>7 DEF HeartbeatReturns, Over
<1>8. CASE HeartbeatFails
  BY <1>8 DEF HeartbeatFails, PastLease, Over
<1>9. CASE EndCrawl
  BY <1>9 DEF EndCrawl
<1>10. CASE EndDrain
  BY <1>10 DEF EndDrain
<1>11. CASE FinishReturns
  BY <1>11 DEF FinishReturns, Over
<1>12. CASE FinishFails
  BY <1>12 DEF FinishFails, PastDeadline, Over
<1>13. CASE RetryFinish
  BY <1>13 DEF RetryFinish
<1>14. CASE Crash
  BY <1>14 DEF Crash, Over
<1>15. CASE Round
  BY <1>15, RoundSteps
<1>16. CASE Stopped \/ UNCHANGED vars
  BY <1>16 DEF Stopped, vars
<1> QED
  BY <1>1, <1>2, <1>3, <1>4, <1>5, <1>6, <1>7, <1>8, <1>9, <1>10, <1>11,
     <1>12, <1>13, <1>14, <1>15, <1>16 DEF Next

LEMMA NextRounds == IInv /\ TypeOK' /\ [Next]_vars => Rounds'
<1> SUFFICES ASSUME IInv, TypeOK', [Next]_vars PROVE Rounds'
  OBVIOUS
<1> USE SettingsAssumption DEF Rounds
<1>0. TypeOK /\ now \in Nat /\ reaper \in Reapers /\ Rounds
  BY DEF IInv, TypeOK
<1>1. CASE Tick
  BY <1>0, <1>1 DEF Tick
<1>2. CASE Round
  BY <1>0, <1>2, RoundSteps
<1>3. CASE UNCHANGED <<now, reaper>>
  BY <1>0, <1>3
<1> QED
  BY <1>1, <1>2, <1>3
     DEF Next, vars, GoDown, ComeUp, CommitHeartbeat, CommitFinish, StartHeartbeat,
       HeartbeatReturns, HeartbeatFails, EndCrawl, EndDrain, FinishReturns, FinishFails,
       RetryFinish, Crash, Stopped

LEMMA NextOwners == IInv /\ TypeOK' /\ [Next]_vars => (Owns /\ Lost /\ Takes)'
<1> SUFFICES ASSUME IInv, TypeOK', [Next]_vars PROVE (Owns /\ Lost /\ Takes)'
  OBVIOUS
<1> USE SettingsAssumption DEF IInv, TypeOK, Crawls, Idle, Owns, Lost, Takes
<1>1. CASE Tick
  BY <1>1 DEF Tick
<1>2. CASE GoDown
  BY <1>2 DEF GoDown
<1>3. CASE ComeUp
  BY <1>3 DEF ComeUp
<1>4. CASE CommitHeartbeat
  BY <1>4, HeartbeatCommits
<1>5. CASE CommitFinish
  BY <1>5 DEF CommitFinish
<1>6. CASE StartHeartbeat
  BY <1>6 DEF StartHeartbeat
<1>7. CASE HeartbeatReturns
  BY <1>7 DEF HeartbeatReturns, Over
<1>8. CASE HeartbeatFails
  BY <1>8 DEF HeartbeatFails, PastLease, Over
<1>9. CASE EndCrawl
  BY <1>9 DEF EndCrawl
<1>10. CASE EndDrain
  BY <1>10 DEF EndDrain
<1>11. CASE FinishReturns
  BY <1>11 DEF FinishReturns, Over
<1>12. CASE FinishFails
  BY <1>12 DEF FinishFails, PastDeadline, Over
<1>13. CASE RetryFinish
  BY <1>13 DEF RetryFinish
<1>14. CASE Crash
  BY <1>14 DEF Crash, Over
<1>15. CASE Round
  <2>0. /\ now \in Nat /\ row.beat \in Nat /\ row.lost \in Nat /\ job.ok \in Nat
        /\ job.call.began \in Nat /\ reaper \in Reapers
        /\ now' = now /\ job' = job
    BY <1>15, RoundSteps
  <2>1. CASE row' = row
    <3>1. CASE row.owner = "A"
      <4>1. /\ row.state # "queued" /\ ~reaper.busy
            /\ ~(reaper.call.kind = "claim" /\ reaper.call.result = "ok")
        BY <3>1 DEF Takes
      <4>2. ~reaper'.busy /\ ~(reaper'.call.kind = "claim" /\ reaper'.call.result = "ok")
        <5>1. CASE StartRound \/ CommitReap \/ ReapReturns \/ RoundFails
          BY <1>15, <2>0, <4>1, <5>1, RoundSteps
        <5>2. CASE CommitClaim
          BY <1>15, <2>0, <4>1, <5>2, RoundSteps
        <5>3. CASE ClaimReturns
          BY <1>15, <2>0, <4>1, <5>3, RoundSteps
        <5> QED
          BY <1>15, <5>1, <5>2, <5>3 DEF Round
      <4> QED
        BY <2>0, <2>1, <3>1, <4>1, <4>2
    <3>2. CASE row.owner # "A"
      BY <2>0, <2>1, <3>2
    <3> QED
      BY <3>1, <3>2
  <2>2. CASE CommitReap /\ row' # row
    <3>1. /\ row.state = "running" /\ row.beat + Lease < now /\ row'.owner = "none"
          /\ row'.lost = IF row.owner = "A" THEN now ELSE row.lost
      BY <1>15, <2>2, RoundTakes DEF CommitReap, CommitClaim, Expired
    <3> QED
      BY <2>0, <3>1
  <2>3. CASE CommitClaim /\ row' # row
    <3>1. row.owner # "A" /\ row'.owner = "B" /\ row'.lost = row.lost /\ row'.state = "running"
      BY <1>15, <2>3, RoundTakes DEF CommitReap, CommitClaim
    <3> QED
      BY <2>0, <3>1
  <2> QED
    BY <1>15, <2>1, <2>2, <2>3, RoundTakes
<1>16. CASE Stopped \/ UNCHANGED vars
  BY <1>16 DEF Stopped, vars
<1> QED
  BY <1>1, <1>2, <1>3, <1>4, <1>5, <1>6, <1>7, <1>8, <1>9, <1>10, <1>11,
     <1>12, <1>13, <1>14, <1>15, <1>16 DEF Next

LEMMA IInvHolds == Spec => []IInv
<1>1. IInv /\ [Next]_vars => IInv'
  BY NextTypes, NextWaits, NextRounds, NextOwners DEF IInv
<1> QED
  BY <1>1, InitIInv, PTL DEF Spec

\* Every variable keeps its type, and the row is never refreshed at a time to come.
THEOREM TypeCorrect == Spec => []TypeOK
<1>1. IInv => TypeOK
  BY DEF IInv
<1> QED
  BY <1>1, IInvHolds, PTL

\* Two workers are at the same crawl for less than a heartbeat and two calls, and a worker
\* is free again a lease, an interval and a call after it first tried to record: whatever
\* the lease, and whatever the database does meanwhile.
THEOREM LetsGo == Spec => []LetsGoInTime
<1>1. IInv => OverlapIsShort
  BY SettingsAssumption DEF IInv, TypeOK, Crawls, Lost, OverlapIsShort
<1>2. IInv => RecordEnds
  BY SettingsAssumption DEF IInv, TypeOK, Records, RecordEnds
<1>3. IInv => LetsGoInTime
  BY <1>1, <1>2 DEF LetsGoInTime
<1> QED
  BY <1>3, IInvHolds, PTL

-----------------------------------------------------------------------------
(***************************************************************************)
(* How soon a silent worker is replaced.                                   *)
(***************************************************************************)

\* When an expired run is there for B to see.
Visible == Latest(row.beat + Lease, db.since)

\* How far the rounds of B have come since its last reap.  A reap that is behind B found
\* the run not expired, or the database down; the next falls due a lease after it.
Watches ==
  /\ reaper.last <= now
  /\ Waiting =>
       now <= reaper.poll /\ reaper.poll < reaper.last + Lease + CallTime + PollEvery
  /\ reaper.call.kind = "reap" => reaper.call.began = reaper.last
  /\ reaper.call.kind = "claim" => reaper.call.began < reaper.last + Lease
  /\ row.owner = "A" /\ row.state = "running" /\ db.up =>
       IF reaper.call.kind = "reap" /\ reaper.call.result = "none"
         THEN reaper.last < Visible + Lease + CallTime + PollEvery
         ELSE reaper.last <= Visible

LEMMA InitWatches == CallTime < Lease /\ Init => Watches
<1> SUFFICES ASSUME CallTime < Lease, Init PROVE Watches
  OBVIOUS
<1>1. now \in Nat /\ now <= CallTime /\ row.beat = 0 /\ db.since = 0 /\ Visible = Lease
  BY SettingsAssumption DEF Init, Visible, Latest
<1>2. /\ reaper.last \in 1 - Lease..0 /\ reaper.call = NoCall
      /\ reaper.poll \in now..now + PollEvery
  <2>1. reaper \in [last : 1 - Lease..0, poll : now..now + PollEvery, call : {NoCall},
                    busy : {FALSE}]
    BY DEF Init
  <2> QED
    BY <2>1
<1> QED
  BY <1>1, <1>2, SettingsAssumption DEF Watches

\* The rounds of B keep to their times, each reap or claim up to CallTime long.
LEMMA RoundWatches ==
  ASSUME CallTime < Lease, IInv, Watches, TypeOK', Round
  PROVE  Watches'
<1> USE SettingsAssumption
<1>0. /\ TypeOK /\ now \in Nat /\ row.beat \in Nat /\ db.since \in Nat
      /\ reaper \in Reapers /\ reaper.last \in Int /\ reaper.poll \in Nat
      /\ reaper.call.began \in Nat /\ reaper'.poll \in Nat /\ reaper'.last \in Int
      /\ Visible \in Nat /\ row.beat + Lease <= Visible
  BY DEF IInv, TypeOK, Visible, Latest
<1>1. now' = now /\ db' = db
  BY <1>0, RoundSteps
\* The row is still A's only if the step left it alone.
<1>2. ASSUME row'.owner = "A", row'.state = "running", db'.up
      PROVE  row' = row /\ Visible' = Visible /\ (CommitReap => ~Expired)
  <2>1. row' = row
    BY <1>2, RoundTakes DEF IInv
  <2>2. CommitReap => ~Expired
    <3>1. SUFFICES ASSUME CommitReap, Expired PROVE FALSE
      OBVIOUS
    <3>2. PICK state \in {"queued", "settled"} :
            row' = [row EXCEPT !.owner = "none", !.state = state,
                               !.lost = IF row.owner = "A" THEN now ELSE row.lost]
      BY <1>0, <3>1 DEF CommitReap, TypeOK
    <3> QED
      BY <1>0, <1>2, <3>2 DEF TypeOK
  <2> QED
    BY <1>1, <2>1, <2>2 DEF Visible
<1>3. CASE StartRound
  <2>1. /\ Waiting /\ now = reaper.poll /\ reaper'.last = LastReap
        /\ reaper'.call = Call(IF Due THEN "reap" ELSE "claim")
    BY <1>0, <1>3, RoundSteps
  <2>2. CASE Due
    <3>1. /\ reaper'.last = now /\ reaper'.call.kind = "reap" /\ reaper'.call.began = now
          /\ reaper'.call.result = "none" /\ reaper'.call # NoCall
      BY <2>1, <2>2 DEF LastReap
    <3>2. row'.owner = "A" /\ row'.state = "running" /\ db'.up =>
            now < Visible' + Lease + CallTime + PollEvery
      BY <1>0, <1>1, <1>2, <2>1 DEF Watches, Waiting
    <3> QED
      BY <1>0, <1>1, <3>1, <3>2 DEF Watches, Waiting
  <2>3. CASE ~Due
    <3>1. /\ reaper'.last = reaper.last /\ reaper'.call.kind = "claim"
          /\ reaper'.call.began = now /\ reaper'.call # NoCall
          /\ now < reaper.last + Lease
      BY <1>0, <2>1, <2>3 DEF LastReap, Due
    <3>2. row'.owner = "A" /\ row'.state = "running" /\ db'.up => reaper.last <= Visible'
      BY <1>0, <1>1, <1>2, <2>1 DEF Watches, Waiting
    <3> QED
      BY <1>0, <1>1, <3>1, <3>2 DEF Watches, Waiting
  <2> QED
    BY <2>2, <2>3
<1>4. CASE CommitReap
  <2>1. /\ db.up /\ reaper.call.kind = "reap" /\ reaper.call.result = "none"
        /\ reaper'.last = reaper.last /\ reaper'.call.kind = "reap"
        /\ reaper'.call.began = reaper.call.began /\ reaper'.call.result = "ok"
        /\ reaper'.call # NoCall
    BY <1>0, <1>4, RoundSteps
  <2>2. row'.owner = "A" /\ row'.state = "running" /\ db'.up => reaper.last <= Visible'
    BY <1>0, <1>2, <1>4, <2>1 DEF Watches, Expired
  <2> QED
    BY <1>0, <1>1, <2>1, <2>2 DEF Watches, Waiting
<1>5. CASE ReapReturns
  <2>1. /\ reaper.call.kind = "reap" /\ reaper.call.result # "none"
        /\ reaper'.last = reaper.last /\ reaper'.call = Call("claim")
    BY <1>0, <1>5, RoundSteps
  <2>2. reaper'.call.kind = "claim" /\ reaper'.call.began = now /\ reaper'.call # NoCall
    BY <2>1
  <2>3. now < reaper.last + Lease
    BY <1>0, <2>1 DEF IInv, Rounds, Watches
  <2>4. row'.owner = "A" /\ row'.state = "running" /\ db'.up => reaper.last <= Visible'
    BY <1>0, <1>1, <1>2, <2>1 DEF Watches
  <2> QED
    BY <1>0, <1>1, <2>1, <2>2, <2>3, <2>4 DEF Watches, Waiting
<1>6. CASE CommitClaim
  <2>1. /\ reaper.call.kind = "claim" /\ reaper'.last = reaper.last
        /\ reaper'.call.kind = "claim" /\ reaper'.call.began = reaper.call.began
        /\ reaper'.call # NoCall
    BY <1>0, <1>6, RoundSteps
  <2>2. row'.owner = "A" /\ row'.state = "running" /\ db'.up => reaper.last <= Visible'
    BY <1>0, <1>1, <1>2, <2>1 DEF Watches
  <2> QED
    BY <1>0, <1>1, <2>1, <2>2 DEF Watches, Waiting
<1>7. CASE ClaimReturns
  <2>1. /\ reaper.call.kind = "claim" /\ reaper'.last = reaper.last /\ reaper'.call = NoCall
        /\ reaper'.busy \/ reaper'.poll = now + PollEvery
    BY <1>0, <1>7, RoundSteps
  <2>2. now + PollEvery < reaper.last + Lease + CallTime + PollEvery
    BY <1>0, <2>1 DEF IInv, Rounds, Watches
  <2>3. row'.owner = "A" /\ row'.state = "running" /\ db'.up => reaper.last <= Visible'
    BY <1>0, <1>1, <1>2, <2>1 DEF Watches
  <2> QED
    BY <1>0, <1>1, <2>1, <2>2, <2>3 DEF Watches, Waiting
<1>8. CASE RoundFails
  <2>1. /\ reaper.call # NoCall /\ ~db.up /\ reaper'.last = reaper.last
        /\ reaper'.call = NoCall /\ reaper'.poll = now + PollEvery
    BY <1>0, <1>8, RoundSteps
  <2>2. now + PollEvery < reaper.last + Lease + CallTime + PollEvery
    BY <1>0, <2>1 DEF IInv, Rounds, Watches
  <2> QED
    BY <1>0, <1>1, <2>1, <2>2 DEF Watches, Waiting
<1> QED
  BY <1>3, <1>4, <1>5, <1>6, <1>7, <1>8 DEF Round

LEMMA NextWatches ==
  CallTime < Lease /\ IInv /\ Watches /\ TypeOK' /\ [Next]_vars => Watches'
<1> SUFFICES ASSUME CallTime < Lease, IInv, Watches, TypeOK', [Next]_vars PROVE Watches'
  OBVIOUS
<1> USE SettingsAssumption DEF TypeOK
<1>0. /\ now \in Nat /\ row.beat \in Nat /\ db.since \in Nat
      /\ reaper.last \in Int /\ reaper.poll \in Nat /\ TypeOK
  BY DEF IInv
<1>1. CASE Tick
  BY <1>0, <1>1 DEF Tick, Waiting, Watches, Visible, Latest
<1>2. CASE GoDown
  BY <1>0, <1>2 DEF GoDown, Waiting, Watches, Visible, Latest
<1>3. CASE ComeUp
  <2>1. UNCHANGED <<now, row, reaper>> /\ now <= Visible' /\ Visible' \in Nat
    BY <1>0, <1>3 DEF ComeUp, Visible, Latest
  <2> QED
    BY <1>0, <2>1 DEF Watches, Waiting
<1>4. CASE CommitHeartbeat
  <2>1. row.owner = "A" /\ row'.owner = "A" =>
          row'.beat >= row.beat /\ row'.beat \in Nat /\ row.state = row'.state
    BY <1>0, <1>4, HeartbeatCommits DEF IInv, Owns
  <2>2. UNCHANGED <<now, db, reaper>> /\ row'.owner = row.owner
    BY <1>4, HeartbeatCommits DEF CommitHeartbeat
  <2>3. row'.owner = "A" => Visible' >= Visible /\ Visible' \in Nat /\ Visible \in Nat
    BY <1>0, <2>1, <2>2 DEF Visible, Latest
  <2> QED
    BY <1>0, <2>1, <2>2, <2>3 DEF Watches, Waiting
<1>5. CASE CommitFinish
  BY <1>0, <1>5 DEF CommitFinish, Waiting, Watches, Visible, Latest
<1>6. CASE Round
  BY <1>6, RoundWatches
<1>7. CASE UNCHANGED <<now, db, row, reaper>>
  BY <1>7 DEF Watches, Waiting, Visible
<1> QED
  BY <1>1, <1>2, <1>3, <1>4, <1>5, <1>6, <1>7
     DEF Next, vars, StartHeartbeat, HeartbeatReturns, HeartbeatFails, EndCrawl, EndDrain,
       FinishReturns, FinishFails, RetryFinish, Crash, Stopped

\* If a call takes less than a lease, a worker that falls silent loses its run within a lease,
\* a poll and two calls of when its lease ran out or the database came back: a claim that began
\* just before the reap was due and took its time, the poll behind it, and the reap itself.
THEOREM SilenceBounded ==
  ASSUME CallTime < Lease
  PROVE  Spec => []SilenceIsNoticed
<1>1. IInv /\ TypeOK' /\ Watches /\ [Next]_vars => Watches'
  BY NextWatches
<1>2. IInv => TypeOK
  BY DEF IInv
<1>3. Init => Watches
  BY InitWatches
<1>4. Spec => []Watches
  BY <1>1, <1>2, <1>3, IInvHolds, PTL DEF Spec
<1>5. IInv /\ Watches => SilenceIsNoticed
  <2> SUFFICES ASSUME IInv, Watches, row.state = "running", row.owner = "A", db.up
               PROVE  now < Visible + Lease + PollEvery + 2 * CallTime
    BY DEF SilenceIsNoticed, Visible
  <2>0. /\ now \in Nat /\ reaper.last \in Int /\ reaper.poll \in Nat
        /\ reaper.call.began \in Nat /\ Visible \in Nat
    BY SettingsAssumption DEF IInv, TypeOK, Visible, Latest
  <2>1. CASE Waiting
    BY <2>0, <2>1, SettingsAssumption DEF Watches, Waiting
  <2>2. CASE reaper.call.kind = "claim"
    BY <2>0, <2>2, SettingsAssumption DEF IInv, Rounds, Watches
  <2>3. CASE reaper.call.kind = "reap"
    BY <2>0, <2>3, SettingsAssumption DEF IInv, Rounds, Watches
  <2>4. ~reaper.busy
    BY Zenon DEF IInv, Takes
  <2>5. reaper.call = NoCall \/ reaper.call.kind \in {"reap", "claim"}
    BY DEF IInv, Rounds
  <2> QED
    BY <2>1, <2>2, <2>3, <2>4, <2>5 DEF Waiting
<1> QED
  BY <1>4, <1>5, IInvHolds, PTL

-----------------------------------------------------------------------------
(***************************************************************************)
(* How long a lease has to be for a healthy worker to keep it.             *)
(***************************************************************************)

\* How old the lease can be in each phase.
Keeps ==
  /\ row.owner = "A" /\ db.up
  /\ job.phase = "crawl" =>
       /\ job.call = NoCall => job.next <= job.ok + HeartbeatEvery
       /\ job.call # NoCall =>
            job.call.began <= job.ok + HeartbeatEvery /\ job.call.result # "gone"
  /\ job.phase = "drain" =>
       /\ row.state = "running"
       /\ job.started <= row.beat + 2 * CallTime + HeartbeatEvery
       /\ now <= job.started + FlushTime
  /\ job.phase = "record" =>
       /\ job.call.kind = "finish"
       /\ \/ /\ job.call.result = "none"
             /\ job.call.began <= row.beat + 2 * CallTime + HeartbeatEvery + FlushTime
          \/ job.call.result = "ok" /\ row.state = "settled"
  /\ job.phase = "over" => row.state = "settled"

LEMMA InitKeeps == Init => Keeps
BY SettingsAssumption DEF Init, Keeps

\* A failure is remembered.
LEMMA TroubleStays ==
  ASSUME TypeOK, [Next]_vars, Untroubled'
  PROVE  Untroubled /\ ~GoDown /\ ~Crash
<1>0. /\ job \in Jobs /\ job.crashes \in Nat /\ db.outages \in Nat
      /\ db \in [up : BOOLEAN, since : Nat, outages : 0..MaxOutages]
  BY SettingsAssumption DEF TypeOK
<1>1. Over(job).crashes = job.crashes
  BY <1>0 DEF Over
<1>2. db'.outages = db.outages \/ (GoDown /\ db'.outages = db.outages + 1)
  <2>1. CASE GoDown
    BY <1>0, <2>1 DEF GoDown
  <2>2. CASE ComeUp
    BY <1>0, <2>2 DEF ComeUp
  <2>3. CASE UNCHANGED db
    BY <2>3
  <2> QED
    BY <2>1, <2>2, <2>3
       DEF Next, vars, Tick, CommitHeartbeat, CommitFinish, StartHeartbeat, HeartbeatReturns,
         HeartbeatFails, EndCrawl, EndDrain, FinishReturns, FinishFails, RetryFinish, Crash,
         Round, StartRound, CommitReap, ReapReturns, CommitClaim, ClaimReturns, RoundFails,
         Stopped
<1>3. job'.crashes = job.crashes \/ (Crash /\ job'.crashes = job.crashes + 1)
  <2>1. CASE CommitHeartbeat \/ CommitFinish
    <3>1. PICK c : job' = [job EXCEPT !.call = c]
      BY <2>1 DEF CommitHeartbeat, CommitFinish
    <3> QED
      BY <1>0, <3>1
  <2>2. CASE StartHeartbeat \/ RetryFinish
    BY <1>0, <2>2 DEF StartHeartbeat, RetryFinish
  <2>3. CASE HeartbeatReturns \/ FinishReturns
    BY <1>0, <1>1, <2>3 DEF HeartbeatReturns, FinishReturns
  <2>4. CASE HeartbeatFails \/ FinishFails
    BY <1>0, <1>1, <2>4 DEF HeartbeatFails, FinishFails
  <2>5. CASE EndCrawl \/ EndDrain
    BY <1>0, <2>5 DEF EndCrawl, EndDrain
  <2>6. CASE Crash
    BY <1>0, <2>6 DEF Crash, Over
  <2>7. CASE UNCHANGED job
    BY <2>7
  <2> QED
    BY <2>1, <2>2, <2>3, <2>4, <2>5, <2>6, <2>7
       DEF Next, vars, Tick, GoDown, ComeUp, Round, StartRound, CommitReap, ReapReturns,
         CommitClaim, ClaimReturns, RoundFails, Stopped
<1>4. GoDown => db'.outages = db.outages + 1
  BY <1>0 DEF GoDown
<1>5. Crash => job'.crashes = job.crashes + 1
  BY <1>0 DEF Crash, Over
<1> QED
  BY <1>0, <1>2, <1>3, <1>4, <1>5 DEF Untroubled

LEMMA NextKeeps ==
  LeaseCovers /\ IInv /\ (Untroubled => Keeps) /\ TypeOK' /\ [Next]_vars
    => (Untroubled => Keeps)'
<1> SUFFICES ASSUME LeaseCovers, IInv, Untroubled => Keeps, TypeOK', [Next]_vars, Untroubled'
             PROVE  Keeps'
  OBVIOUS
<1> USE SettingsAssumption DEF TypeOK
<1>0. /\ TypeOK /\ now \in Nat /\ row \in Rows /\ job \in Jobs
      /\ db \in [up : BOOLEAN, since : Nat, outages : 0..MaxOutages]
  BY DEF IInv
<1>a. Untroubled /\ ~GoDown /\ ~Crash
  BY <1>0, TroubleStays
<1>b. Keeps
  BY <1>a
<1>1. ~GoDown /\ ~ComeUp /\ ~Crash /\ ~HeartbeatFails /\ ~FinishFails
  BY <1>a, <1>b DEF ComeUp, HeartbeatFails, FinishFails, Keeps
<1>2. CASE Tick
  BY <1>b, <1>0, <1>2 DEF Tick, Keeps
<1>3. CASE CommitHeartbeat
  <2>1. /\ job'.call.kind = "heartbeat" /\ job'.call.result = "ok" /\ job.call.result = "none"
        /\ job'.ok = job.ok /\ job'.call.began = job.call.began
        /\ job.phase = "crawl" /\ job'.phase = "crawl" /\ row'.owner = "A"
    BY <1>b, <1>0, <1>3, HeartbeatCommits DEF Keeps, IInv, Owns
  <2>2. db' = db /\ job.call # NoCall
    BY <1>3 DEF CommitHeartbeat
  <2> QED
    BY <1>b, <1>0, <2>1, <2>2 DEF Keeps
<1>4. CASE CommitFinish
  <2>1. job.phase = "record"
    BY <1>b, <1>0, <1>4 DEF CommitFinish, IInv, Crawls, Idle
  <2> DEFINE c == [job.call EXCEPT !.result = "ok"]
  <2>2. job' = [job EXCEPT !.call = c] /\ row' = [row EXCEPT !.state = "settled"] /\ db' = db
    BY <1>b, <1>0, <1>4 DEF CommitFinish, Keeps
  <2>3. c.result = "ok" /\ c.kind = "finish"
    BY <1>b, <1>0, <1>4 DEF CommitFinish
  <2> HIDE DEF c
  <2> QED
    BY <1>b, <1>0, <2>1, <2>2, <2>3 DEF Keeps
<1>5. CASE StartHeartbeat
  BY <1>b, <1>0, <1>5 DEF StartHeartbeat, Keeps
<1>6. CASE HeartbeatReturns
  BY <1>b, <1>0, <1>6 DEF HeartbeatReturns, Keeps
<1>7. CASE EndCrawl
  <2>1. row.state = "running" /\ job.ok <= row.beat + CallTime
    BY <1>b, <1>7 DEF EndCrawl, IInv, Owns, Keeps
  <2>2. now <= row.beat + 2 * CallTime + HeartbeatEvery
    BY <1>b, <1>0, <1>7, <2>1 DEF EndCrawl, IInv, Crawls, Keeps
  <2> QED
    BY <1>b, <1>0, <1>7, <2>1, <2>2 DEF EndCrawl, Keeps
<1>8. CASE EndDrain
  BY <1>b, <1>0, <1>8 DEF EndDrain, Keeps
<1>9. CASE FinishReturns
  BY <1>b, <1>0, <1>9 DEF FinishReturns, Over, Keeps
<1>10. CASE RetryFinish
  BY <1>b, <1>0, <1>10 DEF RetryFinish, Keeps
<1>11. CASE Round
  <2>1. UNCHANGED <<now, db, job>>
    BY <1>0, <1>11, RoundSteps
  <2>2. row.state # "queued"
    BY <1>b DEF Keeps, IInv, Takes
  \* A run of an untroubled A is never found expired.
  <2>3. ~(CommitReap /\ Expired /\ row.beat + Lease < now)
    <3> SUFFICES ASSUME CommitReap, Expired, row.beat + Lease < now PROVE FALSE
      OBVIOUS
    <3>1. row.state = "running" /\ row.beat + Lease < now
      BY DEF Expired
    <3>2. job.phase # "over"
      BY <1>b, <3>1 DEF Keeps
    <3>3. job.phase # "drain"
      BY <1>b, <1>0, <3>1 DEF Keeps, LeaseCovers
    <3>4. job.phase # "record"
      BY <1>b, <1>0, <3>1 DEF Keeps, LeaseCovers, IInv, Records
    <3>5. job.phase # "crawl"
      <4>1. SUFFICES ASSUME job.phase = "crawl" PROVE FALSE
        OBVIOUS
      <4>2. job.ok <= row.beat + CallTime
        BY <1>b, <4>1 DEF IInv, Owns, Keeps
      <4>3. now <= job.ok + HeartbeatEvery + CallTime
        BY <1>b, <1>0, <4>1 DEF Keeps, IInv, Crawls
      <4> QED
        BY <1>b, <1>0, <3>1, <4>2, <4>3 DEF LeaseCovers
    <3> QED
      BY <1>b, <1>0, <3>2, <3>3, <3>4, <3>5
  <2>4. row' = row
    BY <1>0, <1>11, <2>2, <2>3, RoundTakes DEF IInv
  <2> QED
    BY <1>b, <2>1, <2>4 DEF Keeps
<1>12. CASE Stopped \/ UNCHANGED vars
  BY <1>b, <1>12 DEF Stopped, vars, Keeps
<1> QED
  BY <1>1, <1>2, <1>3, <1>4, <1>5, <1>6, <1>7, <1>8, <1>9, <1>10, <1>11, <1>12 DEF Next

\* A worker whose lease covers an interval, three calls and a full drain never loses it,
\* as long as neither it nor the database fails.
THEOREM LeaseSuffices == Spec => []LeaseIsKept
<1>1. CASE LeaseCovers
  <2>1. IInv /\ TypeOK' /\ (Untroubled => Keeps) /\ [Next]_vars => (Untroubled => Keeps)'
    BY <1>1, NextKeeps
  <2>2. IInv => TypeOK
    BY DEF IInv
  <2>3. Init => (Untroubled => Keeps)
    BY InitKeeps
  <2>4. (Untroubled => Keeps) => LeaseIsKept
    BY DEF Keeps, LeaseIsKept
  <2> QED
    BY <2>1, <2>2, <2>3, <2>4, IInvHolds, PTL DEF Spec
<1>2. CASE ~LeaseCovers
  <2>1. LeaseIsKept
    BY <1>2 DEF LeaseIsKept
  <2> QED
    BY <2>1, PTL
<1> QED
  BY <1>1, <1>2
=============================================================================
