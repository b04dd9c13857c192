----------------------------- MODULE ReapRowsProof -----------------------------
(***************************************************************************)
(* Why a reap is right about every row it commits, for any number of       *)
(* crawls and of reapers that take the rows in any order.  A row that a    *)
(* reaper has locked stays as the reaper found it.  A row it has yet to    *)
(* reach may change, but not into one of an expired run again: what makes  *)
(* a run live also takes it out of every snapshot.                         *)
(***************************************************************************)
EXTENDS ReapRows, TLAPS

-----------------------------------------------------------------------------
(***************************************************************************)
(* The inductive invariant.                                                *)
(***************************************************************************)

Row == [state : {"queued", "running", "finished", "failed", "aborted"}, attempts : Nat,
        cancel_requested : BOOLEAN, stale : BOOLEAN]

\* Of a reaper, at most one row is waited for.
Places == {Nowhere} \cup {{c} : c \in Crawls}

Txn == [step : {"none", "abort", "requeue", "fail"},
        old : SUBSET Crawls, asked : SUBSET Crawls, todo : SUBSET Crawls, at : Places,
        new : [Crawls -> {"same", "aborted", "queued", "failed"}]]

TypeOK == row \in [Crawls -> Row] /\ txn \in [Reapers -> Txn]

\* A queued crawl has an attempt left.
AttemptLeft == \A c \in Crawls : row[c].state = "queued" => row[c].attempts < MaxAttempts

\* What a snapshot counts as expired, or as cancelled, still is.
SnapshotHolds(t) ==
  /\ \A c \in t.old : row[c].stale
  /\ \A c \in t.asked : row[c].cancel_requested

\* A row that a reaper has locked is as the reaper found it.
LockedHolds(t) ==
  \A c \in Crawls : t.new[c] # "same" =>
    /\ row[c].state = "running" /\ c \in t.old
    /\ t.new[c] = "queued" => row[c].attempts < MaxAttempts /\ c \notin t.asked

\* An expired run whose cancel the reap knows of is settled by the first statement, unless
\* somebody else has ended it.
AskedFirst(t) ==
  \A c \in t.old \cap t.asked : t.new[c] = "same" /\ row[c].state = "running" =>
    t.step = "abort" /\ c \in t.todo \cup t.at

\* Between two reaps a reaper has nothing.
Resting(t) ==
  t.step = "none" =>
    /\ t.old = {} /\ t.todo = {} /\ t.at = Nowhere
    /\ \A c \in Crawls : t.new[c] = "same"

Sound(t) == SnapshotHolds(t) /\ LockedHolds(t) /\ AskedFirst(t) /\ Resting(t)

OneHolder ==
  \A r, s \in Reapers, c \in Crawls : txn[r].new[c] # "same" /\ txn[s].new[c] # "same" => r = s

IInv == TypeOK /\ AttemptLeft /\ OneHolder /\ \A r \in Reapers : Sound(txn[r])

-----------------------------------------------------------------------------
(***************************************************************************)
(* Steps of a reaper: the rows stay as they are.                           *)
(***************************************************************************)

LEMMA NoReapSound == NoReap \in Txn /\ Sound(NoReap)
<1>1. NoReap \in Txn
  BY DEF NoReap, Txn, Places
<1>2. /\ NoReap.step = "none" /\ NoReap.old = {} /\ NoReap.asked = {} /\ NoReap.todo = {}
      /\ NoReap.at = Nowhere /\ \A c \in Crawls : NoReap.new[c] = "same"
  BY DEF NoReap
<1> QED BY <1>1, <1>2 DEF Sound, SnapshotHolds, LockedHolds, AskedFirst, Resting

LEMMA ReaperStep ==
  ASSUME IInv, NEW r \in Reapers, NEW t \in Txn, txn' = [txn EXCEPT ![r] = t], UNCHANGED row,
         Sound(t),
         \A c \in Crawls, s \in Reapers \ {r} : t.new[c] # "same" => txn[s].new[c] = "same"
  PROVE  IInv'
<1>1. txn'[r] = t /\ \A s \in Reapers \ {r} : txn'[s] = txn[s]
  BY DEF IInv, TypeOK
<1>2. TypeOK' /\ AttemptLeft'
  BY DEF IInv, TypeOK, AttemptLeft
<1>3. OneHolder'
  BY <1>1 DEF IInv, OneHolder
<1>4. \A s \in Reapers : Sound(txn'[s])
  BY <1>1 DEF IInv
<1>5. \A s \in Reapers : Sound(txn[s])'
  BY <1>4 DEF Sound, SnapshotHolds, LockedHolds, AskedFirst, Resting
<1> QED BY <1>2, <1>3, <1>5 DEF IInv

LEMMA StepBegin ==
  ASSUME IInv, NEW r \in Reapers, Begin(r)
  PROVE  IInv'
<1> DEFINE old == {c \in Crawls : row[c].stale}
           asked == {c \in Crawls : row[c].cancel_requested}
           start == [NoReap EXCEPT !.old = old, !.asked = asked]
           t == Statement(start, "abort")
<1>1. txn' = [txn EXCEPT ![r] = t] /\ UNCHANGED row
  BY DEF Begin
<1>2. /\ start \in Txn /\ start.old = old /\ start.asked = asked /\ start.at = Nowhere
      /\ \A c \in Crawls : start.new[c] = "same"
  BY NoReapSound DEF NoReap, Txn
<1> HIDE DEF start
<1>3. /\ t \in Txn /\ t.step = "abort" /\ t.old = old /\ t.asked = asked
      /\ t.new = start.new
      /\ t.todo = {c \in Crawls : start.new[c] = "same" /\ Matches(c, start, "abort")}
  BY <1>2 DEF Statement, Txn
<1> HIDE DEF t
<1>4. Sound(t)
  <2>1. SnapshotHolds(t) /\ LockedHolds(t) /\ Resting(t)
    BY <1>2, <1>3 DEF SnapshotHolds, LockedHolds, Resting
  <2>2. AskedFirst(t)
    BY <1>2, <1>3 DEF AskedFirst, Matches
  <2> QED BY <2>1, <2>2 DEF Sound
<1>5. \A c \in Crawls, s \in Reapers \ {r} : t.new[c] # "same" => txn[s].new[c] = "same"
  BY <1>2, <1>3
<1> QED BY <1>1, <1>3, <1>4, <1>5, ReaperStep

LEMMA StepReach ==
  ASSUME IInv, NEW r \in Reapers, Reach(r)
  PROVE  IInv'
<1>1. PICK c \in txn[r].todo :
        /\ txn[r].at = Nowhere
        /\ txn' = [txn EXCEPT ![r].at = {c}, ![r].todo = @ \ {c}] /\ UNCHANGED row
  BY DEF Reach
<1>2. PICK u : u = txn[r]
  OBVIOUS
<1> DEFINE t == [u EXCEPT !.at = {c}, !.todo = u.todo \ {c}]
<1>3. u \in Txn /\ Sound(u) /\ c \in Crawls /\ u.at = {}
  BY <1>1, <1>2 DEF IInv, TypeOK, Txn, Nowhere
<1>4. txn' = [txn EXCEPT ![r] = t]
  BY <1>1, <1>2 DEF IInv, TypeOK, Txn
<1>5. /\ t \in Txn /\ t.step = u.step /\ t.old = u.old /\ t.asked = u.asked /\ t.new = u.new
      /\ t.todo = u.todo \ {c} /\ t.at = {c}
  BY <1>3 DEF Txn, Places
<1> HIDE DEF t
<1>6. Sound(t)
  <2>1. SnapshotHolds(t) /\ LockedHolds(t)
    BY <1>3, <1>5 DEF Sound, SnapshotHolds, LockedHolds
  <2>2. AskedFirst(t)
    BY <1>3, <1>5 DEF Sound, AskedFirst
  <2>3. u.step # "none"
    BY <1>1, <1>2, <1>3 DEF Sound, Resting
  <2> QED BY <1>5, <2>1, <2>2, <2>3 DEF Sound, Resting
<1>7. \A d \in Crawls, s \in Reapers \ {r} : t.new[d] # "same" => txn[s].new[d] = "same"
  BY <1>2, <1>5 DEF IInv, OneHolder
<1> QED BY <1>1, <1>4, <1>5, <1>6, <1>7, ReaperStep

\* Nobody else holds a row that is updated, and it is an expired run, whose cancel the reap
\* knows of only in the first statement.
LEMMA StepUpdate ==
  ASSUME IInv, NEW r \in Reapers, Update(r)
  PROVE  IInv'
<1>1. PICK c \in txn[r].at :
        /\ Holders(c) = {}
        /\ txn' = [txn EXCEPT ![r].at = Nowhere,
                              ![r].new[c] = IF StillMatches(c, txn[r]) THEN Target[txn[r].step]
                                                                      ELSE @]
        /\ UNCHANGED row
  BY DEF Update
<1>2. PICK u : u = txn[r]
  OBVIOUS
<1>3. u \in Txn /\ Sound(u) /\ c \in Crawls /\ u.at = {c}
  <2>1. u \in Txn /\ Sound(u) /\ c \in u.at
    BY <1>1, <1>2 DEF IInv, TypeOK
  <2>2. u.at = {} \/ \E d \in Crawls : u.at = {d}
    BY <2>1 DEF Txn, Places, Nowhere
  <2> QED BY <2>1, <2>2
<1>4. \A s \in Reapers : txn[s].new[c] = "same"
  BY <1>1 DEF Holders
<1>5. PICK outcome : outcome = IF StillMatches(c, u) THEN Target[u.step] ELSE u.new[c]
  OBVIOUS
<1>6. u.step \in {"abort", "requeue", "fail"} /\ u.new \in [Crawls -> {"same", "aborted", "queued", "failed"}]
  BY <1>3 DEF Sound, Resting, Txn, Nowhere
<1>7. outcome \in {"same", "aborted", "queued", "failed"}
  BY <1>3, <1>5, <1>6 DEF Target
<1> DEFINE n == [u.new EXCEPT ![c] = outcome]
           t == [u EXCEPT !.at = Nowhere, !.new = n]
<1>8. txn' = [txn EXCEPT ![r] = t]
  BY <1>1, <1>2, <1>5 DEF IInv, TypeOK, Txn
<1>9. /\ n \in [Crawls -> {"same", "aborted", "queued", "failed"}] /\ n[c] = outcome
      /\ \A d \in Crawls : d # c => n[d] = u.new[d]
  BY <1>3, <1>6, <1>7
<1> HIDE DEF n
<1>10. /\ t \in Txn /\ t.step = u.step /\ t.old = u.old /\ t.asked = u.asked /\ t.new = n
       /\ t.todo = u.todo /\ t.at = {}
  BY <1>3, <1>9 DEF Txn, Places, Nowhere
<1> HIDE DEF t
<1>11. LockedHolds(t)
  <2>1. CASE StillMatches(c, u)
    <3>1. /\ c \in u.old /\ row[c].state = "running"
          /\ u.step = "requeue" => row[c].attempts < MaxAttempts
          /\ outcome = "queued" => u.step = "requeue"
      BY <1>5, <1>6, <2>1 DEF StillMatches, Matches, Target
    <3>2. u.step = "requeue" => c \notin u.asked
      BY <1>2, <1>3, <1>4, <3>1 DEF Sound, AskedFirst
    <3> QED BY <1>3, <1>9, <1>10, <3>1, <3>2 DEF LockedHolds, Sound
  <2>2. CASE ~StillMatches(c, u)
    BY <1>2, <1>3, <1>4, <1>5, <1>9, <1>10, <2>2 DEF LockedHolds, Sound
  <2> QED BY <2>1, <2>2
<1>12. AskedFirst(t)
  <2> SUFFICES ASSUME NEW d \in t.old \cap t.asked, t.new[d] = "same", row[d].state = "running"
               PROVE  t.step = "abort" /\ d \in t.todo \cup t.at
    BY DEF AskedFirst
  <2>1. d \in Crawls /\ row[d].cancel_requested
    BY <1>3, <1>10 DEF Txn, Sound, SnapshotHolds
  <2>2. CASE d # c
    BY <1>3, <1>9, <1>10, <2>1, <2>2 DEF Sound, AskedFirst
  <2>3. CASE d = c
    <3>1. u.step = "abort"
      BY <1>2, <1>3, <1>4, <1>10, <2>3 DEF Sound, AskedFirst
    <3>2. StillMatches(c, u) /\ outcome = "aborted"
      BY <1>5, <1>10, <2>1, <2>3, <3>1 DEF StillMatches, Matches, Target
    <3> QED BY <1>9, <1>10, <2>3, <3>2
  <2> QED BY <2>2, <2>3
<1>13. Sound(t)
  BY <1>3, <1>6, <1>10, <1>11, <1>12 DEF Sound, SnapshotHolds, Resting
<1>14. \A d \in Crawls, s \in Reapers \ {r} : t.new[d] # "same" => txn[s].new[d] = "same"
  BY <1>2, <1>4, <1>9, <1>10 DEF IInv, OneHolder
<1> QED BY <1>1, <1>8, <1>10, <1>13, <1>14, ReaperStep

LEMMA StepNextStatement ==
  ASSUME IInv, NEW r \in Reapers, NextStatement(r)
  PROVE  IInv'
<1>1. PICK step \in FollowingStep[txn[r].step] :
        txn' = [txn EXCEPT ![r] = Statement(@, step)]
  BY DEF NextStatement
<1>2. PICK u : u = txn[r]
  OBVIOUS
<1>3. /\ u \in Txn /\ Sound(u) /\ u.todo = {} /\ u.at = {} /\ u.step # "none" /\ UNCHANGED row
  BY <1>2 DEF NextStatement, StatementDone, IInv, TypeOK, Nowhere
<1>4. step \in {"requeue", "fail"}
  BY <1>1, <1>2, <1>3 DEF FollowingStep, Txn
<1> DEFINE todo == {c \in Crawls : u.new[c] = "same" /\ Matches(c, u, step)}
           t == [u EXCEPT !.step = step, !.todo = todo]
<1>5. txn' = [txn EXCEPT ![r] = t]
  BY <1>1, <1>2 DEF Statement, IInv, TypeOK
<1>6. /\ t \in Txn /\ t.step = step /\ t.old = u.old /\ t.asked = u.asked /\ t.new = u.new
  BY <1>3, <1>4 DEF Txn
<1> HIDE DEF t
<1>7. Sound(t)
  BY <1>3, <1>4, <1>6 DEF Sound, SnapshotHolds, LockedHolds, AskedFirst, Resting
<1>8. \A d \in Crawls, s \in Reapers \ {r} : t.new[d] # "same" => txn[s].new[d] = "same"
  BY <1>2, <1>6 DEF IInv, OneHolder
<1> QED BY <1>3, <1>5, <1>6, <1>7, <1>8, ReaperStep

LEMMA StepDeadlock ==
  ASSUME IInv, NEW r \in Reapers, Deadlock(r)
  PROVE  IInv'
<1>1. \A c \in Crawls : NoReap.new[c] = "same"
  BY DEF NoReap
<1> QED BY <1>1, NoReapSound, ReaperStep DEF Deadlock

\* What the reaper settles or requeues was nobody else's.
LEMMA StepCommit ==
  ASSUME IInv, NEW r \in Reapers, Commit(r)
  PROVE  IInv'
<1>1. /\ txn' = [txn EXCEPT ![r] = NoReap]
      /\ row' = [c \in Crawls |-> IF txn[r].new[c] = "same" THEN row[c]
                                  ELSE [row[c] EXCEPT !.state = txn[r].new[c]]]
  BY DEF Commit
<1>2. /\ row \in [Crawls -> Row] /\ txn \in [Reapers -> Txn]
      /\ \A c \in Crawls : txn[r].new[c] \in {"same", "aborted", "queued", "failed"}
  BY DEF IInv, TypeOK, Txn
<1>3. txn'[r] = NoReap /\ \A s \in Reapers \ {r} : txn'[s] = txn[s]
  BY <1>1, <1>2
<1>4. \A c \in Crawls :
        /\ row'[c] \in Row /\ row'[c].attempts = row[c].attempts
        /\ row'[c].stale = row[c].stale /\ row'[c].cancel_requested = row[c].cancel_requested
        /\ txn[r].new[c] = "same" => row'[c] = row[c]
        /\ txn[r].new[c] # "same" => row'[c].state = txn[r].new[c]
  BY <1>1, <1>2 DEF Row
<1>5. TypeOK'
  BY <1>1, <1>2, <1>4, NoReapSound DEF TypeOK
<1>6. AttemptLeft'
  BY <1>4 DEF AttemptLeft, IInv, Sound, LockedHolds
<1>7. OneHolder'
  <2>1. \A c \in Crawls : NoReap.new[c] = "same"
    BY DEF NoReap
  <2> QED BY <1>3, <2>1 DEF IInv, OneHolder
<1>8. ASSUME NEW s \in Reapers
      PROVE  Sound(txn[s])'
  <2>1. CASE s = r
    <3>1. /\ NoReap.step = "none" /\ NoReap.old = {} /\ NoReap.asked = {} /\ NoReap.todo = {}
          /\ NoReap.at = Nowhere /\ \A c \in Crawls : NoReap.new[c] = "same"
      BY DEF NoReap
    <3> QED BY <1>3, <2>1, <3>1 DEF Sound, SnapshotHolds, LockedHolds, AskedFirst, Resting
  <2>2. CASE s # r
    <3>1. PICK u : u = txn[s]
      OBVIOUS
    <3>2. u \in Txn /\ Sound(u) /\ txn'[s] = u
      BY <1>2, <1>3, <2>2, <3>1 DEF IInv
    <3>3. \A c \in Crawls : u.new[c] # "same" => txn[r].new[c] = "same"
      BY <2>2, <3>1 DEF IInv, OneHolder
    <3>4. SnapshotHolds(txn[s])' /\ LockedHolds(txn[s])' /\ Resting(txn[s])'
      BY <1>4, <3>2, <3>3 DEF Sound, SnapshotHolds, LockedHolds, Resting, Txn
    <3>5. AskedFirst(txn[s])'
      BY <1>2, <1>4, <3>2 DEF Sound, AskedFirst, Txn
    <3> QED BY <3>4, <3>5 DEF Sound
  <2> QED BY <2>1, <2>2
<1> QED BY <1>5, <1>6, <1>7, <1>8 DEF IInv

-----------------------------------------------------------------------------
(***************************************************************************)
(* Steps of the others, on a row that no reaper holds.                     *)
(***************************************************************************)

LEMMA RowStep ==
  ASSUME IInv, NEW c \in Crawls, NEW x \in Row, row' = [row EXCEPT ![c] = x],
         \A r \in Reapers : txn[r].new[c] = "same",
         x.state = "queued" => x.attempts < MaxAttempts,
         row[c].cancel_requested => x.cancel_requested,
         \/ Renew(c)
         \/ /\ UNCHANGED txn /\ (row[c].stale => x.stale)
            /\ x.state = "running" => row[c].state = "running"
  PROVE  IInv'
<1>1. /\ row \in [Crawls -> Row] /\ txn \in [Reapers -> Txn]
  BY DEF IInv, TypeOK
<1>2. row'[c] = x /\ \A d \in Crawls : d # c => row'[d] = row[d]
  BY <1>1
<1>3. ASSUME NEW r \in Reapers
      PROVE  /\ txn'[r] \in Txn
             /\ txn'[r].step = txn[r].step /\ txn'[r].asked = txn[r].asked
             /\ txn'[r].todo = txn[r].todo /\ txn'[r].at = txn[r].at /\ txn'[r].new = txn[r].new
             /\ txn'[r].old \subseteq txn[r].old
             /\ c \notin txn'[r].old \/ ((row[c].stale => x.stale) /\ (x.state = "running" => row[c].state = "running"))
             /\ \A d \in txn[r].old : d # c => d \in txn'[r].old
  <2>1. PICK u : u = txn[r]
    OBVIOUS
  <2>2. u \in Txn
    BY <1>1, <2>1
  <2>3. CASE UNCHANGED txn /\ (row[c].stale => x.stale)
             /\ (x.state = "running" => row[c].state = "running")
    BY <2>1, <2>2, <2>3
  <2>4. CASE Renew(c)
    <3>1. txn'[r] = [u EXCEPT !.old = u.old \ {c}]
      BY <2>1, <2>4 DEF Renew
    <3> QED BY <2>1, <2>2, <3>1 DEF Txn
  <2> QED BY <2>3, <2>4
<1>4. TypeOK'
  <2>1. txn' \in [Reapers -> Txn]
    BY <1>1, <1>3 DEF Renew
  <2> QED BY <1>1, <2>1 DEF TypeOK
<1>5. AttemptLeft' /\ OneHolder'
  BY <1>2, <1>3 DEF IInv, AttemptLeft, OneHolder
<1>6. ASSUME NEW r \in Reapers
      PROVE  Sound(txn[r])'
  <2>1. Sound(txn[r]) /\ txn[r] \in Txn
    BY <1>1 DEF IInv
  <2>2. SnapshotHolds(txn[r])'
    BY <1>2, <1>3, <2>1 DEF Sound, SnapshotHolds, Txn
  <2>3. LockedHolds(txn[r])'
    BY <1>2, <1>3, <2>1 DEF Sound, LockedHolds
  <2>4. AskedFirst(txn[r])'
    BY <1>2, <1>3, <2>1 DEF Sound, AskedFirst, Txn
  <2>5. Resting(txn[r])'
    BY <1>3, <2>1 DEF Sound, Resting
  <2> QED BY <2>2, <2>3, <2>4, <2>5 DEF Sound
<1> QED BY <1>4, <1>5, <1>6 DEF IInv

LEMMA FreeRow ==
  ASSUME NEW c, Free(c)
  PROVE  \A r \in Reapers : txn[r].new[c] = "same"
BY DEF Free, Holders

LEMMA StepHeartbeat ==
  ASSUME IInv, NEW c \in Crawls, Heartbeat(c)
  PROVE  IInv'
<1> DEFINE x == [row[c] EXCEPT !.stale = FALSE]
<1>1. row' = [row EXCEPT ![c] = x] /\ row[c] \in Row
  BY DEF Heartbeat, IInv, TypeOK, Row
<1>2. x \in Row /\ x.state = "running" /\ x.cancel_requested = row[c].cancel_requested
  BY <1>1 DEF Heartbeat, Row
<1> HIDE DEF x
<1> QED BY <1>1, <1>2, FreeRow, RowStep DEF Heartbeat

LEMMA StepClaim ==
  ASSUME IInv, NEW c \in Crawls, Claim(c)
  PROVE  IInv'
<1> DEFINE n == row[c].attempts + 1
           x == [row[c] EXCEPT !.state = "running", !.stale = FALSE, !.attempts = n]
<1>0. row[c] \in Row /\ n \in Nat
  BY DEF IInv, TypeOK, Row
<1>1. row' = [row EXCEPT ![c] = x] /\ row[c] \in Row
  BY <1>0 DEF Claim, IInv, TypeOK, Row
<1> HIDE DEF n
<1>2. x \in Row /\ x.state = "running" /\ x.cancel_requested = row[c].cancel_requested
  BY <1>0 DEF Row
<1> HIDE DEF x
<1> QED BY <1>1, <1>2, FreeRow, RowStep DEF Claim

LEMMA StepFinish ==
  ASSUME IInv, NEW c \in Crawls, Finish(c)
  PROVE  IInv'
<1> DEFINE x == [row[c] EXCEPT !.state = "finished"]
<1>1. row' = [row EXCEPT ![c] = x] /\ row[c] \in Row
  BY DEF Finish, IInv, TypeOK, Row
<1>2. /\ x \in Row /\ x.state = "finished" /\ x.cancel_requested = row[c].cancel_requested
      /\ x.stale = row[c].stale
  BY <1>1 DEF Row
<1>3. /\ \A r \in Reapers : txn[r].new[c] = "same"
      /\ UNCHANGED txn /\ (row[c].stale => x.stale)
      /\ row[c].cancel_requested => x.cancel_requested
  BY <1>2, FreeRow DEF Finish
<1>4. x.state # "queued" /\ x.state # "running"
  BY <1>2
<1> HIDE DEF x
<1> QED BY <1>1, <1>2, <1>3, <1>4, RowStep

LEMMA StepRequestCancel ==
  ASSUME IInv, NEW c \in Crawls, RequestCancel(c)
  PROVE  IInv'
<1>0. row[c] \in Row
  BY DEF IInv, TypeOK
<1>1. CASE row[c].state = "queued" /\ row' = [row EXCEPT ![c].state = "aborted"]
  <2> DEFINE x == [row[c] EXCEPT !.state = "aborted"]
  <2>1. row' = [row EXCEPT ![c] = x]
    BY <1>1 DEF IInv, TypeOK, Row
  <2>2. /\ x \in Row /\ x.state = "aborted" /\ x.cancel_requested = row[c].cancel_requested
        /\ x.stale = row[c].stale
    BY <1>0 DEF Row
  <2> QED BY <2>1, <2>2, FreeRow, RowStep DEF RequestCancel
<1>2. CASE row[c].state = "running" /\ row' = [row EXCEPT ![c].cancel_requested = TRUE]
  <2> DEFINE x == [row[c] EXCEPT !.cancel_requested = TRUE]
  <2>1. row' = [row EXCEPT ![c] = x]
    BY <1>2 DEF IInv, TypeOK, Row
  <2>2. /\ x \in Row /\ x.state = "running" /\ x.cancel_requested = TRUE
        /\ x.stale = row[c].stale
    BY <1>0, <1>2 DEF Row
  <2> QED BY <1>2, <2>1, <2>2, FreeRow, RowStep DEF RequestCancel
<1> QED BY <1>1, <1>2 DEF RequestCancel

\* A run that was live is in no snapshot, so nobody holds its row.
LEMMA StepExpire ==
  ASSUME IInv, NEW c \in Crawls, Expire(c)
  PROVE  IInv'
<1> DEFINE x == [row[c] EXCEPT !.stale = TRUE]
<1>1. row' = [row EXCEPT ![c] = x] /\ row[c] \in Row
  BY DEF Expire, IInv, TypeOK, Row
<1>2. /\ x \in Row /\ x.state = "running" /\ x.cancel_requested = row[c].cancel_requested
      /\ x.stale = TRUE
  BY <1>1 DEF Expire, Row
<1>3. \A r \in Reapers : txn[r].new[c] = "same"
  BY DEF Expire, IInv, Sound, LockedHolds, SnapshotHolds
<1> QED BY <1>1, <1>2, <1>3, RowStep DEF Expire

-----------------------------------------------------------------------------

LEMMA InitIInv ==
  ASSUME Init
  PROVE  IInv
<1>1. /\ row \in [Crawls -> [state : {"running"}, attempts : {1},
                             cancel_requested : {FALSE}, stale : {FALSE}]]
      /\ txn = [r \in Reapers |-> NoReap]
  BY DEF Init
<1>2. \A c \in Crawls : row[c] \in Row /\ row[c].state = "running"
  <2> TAKE c \in Crawls
  <2>1. row[c] \in [state : {"running"}, attempts : {1}, cancel_requested : {FALSE},
                    stale : {FALSE}]
    BY <1>1
  <2>2. row[c] = [state |-> "running", attempts |-> 1, cancel_requested |-> FALSE, stale |-> FALSE]
    BY <2>1
  <2> QED BY <2>2 DEF Row
<1>3. TypeOK /\ AttemptLeft
  BY <1>1, <1>2, NoReapSound DEF TypeOK, AttemptLeft
<1>4. OneHolder
  <2>1. \A c \in Crawls : NoReap.new[c] = "same"
    BY DEF NoReap
  <2> QED BY <1>1, <2>1 DEF OneHolder
<1> QED BY <1>1, <1>3, <1>4, NoReapSound DEF IInv

LEMMA Inductive ==
  ASSUME IInv, [Next]_vars
  PROVE  IInv'
<1>1. ASSUME NEW r \in Reapers, Reap(r)
      PROVE  IInv'
  BY <1>1, StepBegin, StepReach, StepUpdate, StepNextStatement, StepCommit, StepDeadlock
     DEF Reap
<1>2. ASSUME NEW c \in Crawls,
             Heartbeat(c) \/ Claim(c) \/ Finish(c) \/ RequestCancel(c) \/ Expire(c)
      PROVE  IInv'
  BY <1>2, StepHeartbeat, StepClaim, StepFinish, StepRequestCancel, StepExpire
<1>3. CASE UNCHANGED vars
  BY <1>3 DEF vars, IInv, TypeOK, AttemptLeft, OneHolder, Sound, SnapshotHolds, LockedHolds,
              AskedFirst, Resting
<1> QED BY <1>1, <1>2, <1>3 DEF Next

LEMMA Invariance == Spec => []IInv
<1>1. Init => IInv
  BY InitIInv
<1>2. IInv /\ [Next]_vars => IInv'
  BY Inductive
<1> QED BY <1>1, <1>2, PTL DEF Spec

-----------------------------------------------------------------------------
(***************************************************************************)
(* What a reap commits.                                                    *)
(***************************************************************************)

\* A held row changes only with its reaper's commit.
LEMMA ChangedByItsReaper ==
  ASSUME IInv, [Next]_vars, NEW r \in Reapers, NEW c \in Crawls, Reaps(r, c)
  PROVE  row'[c].state = txn[r].new[c]
<1>0. /\ txn[r].new[c] # "same" /\ row'[c] # row[c]
      /\ row[c].stale /\ row \in [Crawls -> Row] /\ txn \in [Reapers -> Txn]
  BY DEF Reaps, IInv, TypeOK, Sound, LockedHolds, SnapshotHolds
<1>1. PICK s \in Reapers : Commit(s)
  <2>1. ~Free(c)
    BY <1>0, FreeRow
  <2>2. ASSUME NEW d \in Crawls,
               Heartbeat(d) \/ Claim(d) \/ Finish(d) \/ RequestCancel(d) \/ Expire(d)
        PROVE  FALSE
    BY <1>0, <2>1, <2>2 DEF Heartbeat, Claim, Finish, RequestCancel, Expire
  <2>3. row' # row
    BY <1>0
  <2> QED BY <2>2, <2>3 DEF Next, vars, Reap, Begin, Reach, Update, NextStatement, Deadlock
<1>2. txn[s].new[c] # "same" /\ row'[c] = [row[c] EXCEPT !.state = txn[s].new[c]]
  BY <1>0, <1>1 DEF Commit
<1>3. s = r
  BY <1>0, <1>2 DEF IInv, OneHolder
<1> QED BY <1>0, <1>2, <1>3 DEF Row

\* Any step on a row is one of its lifecycle.
LEMMA RowInItsLife ==
  ASSUME IInv, [Next]_vars, NEW c \in Crawls
  PROVE  [Life(c)!Next]_(row[c].state)
<1> SUFFICES ASSUME row'[c].state # row[c].state
             PROVE  Life(c)!Next
  OBVIOUS
<1>0. row \in [Crawls -> Row] /\ txn \in [Reapers -> Txn] /\ row[c] \in Row
  BY DEF IInv, TypeOK
<1>1. row' # row
  OBVIOUS
<1>2. CASE \E r \in Reapers : Commit(r)
  <2>1. PICK r \in Reapers : Commit(r)
    BY <1>2
  <2>2. /\ txn[r].new[c] \in {"aborted", "queued", "failed"}
        /\ row'[c] = [row[c] EXCEPT !.state = txn[r].new[c]]
    BY <1>0, <2>1 DEF Commit, Txn
  <2>3. row'[c].state = txn[r].new[c] /\ row'[c].attempts = row[c].attempts
    BY <1>0, <2>2 DEF Row
  <2>4. /\ row[c].state = "running"
        /\ txn[r].new[c] = "queued" => row[c].attempts < MaxAttempts
    BY <2>2 DEF IInv, Sound, LockedHolds
  <2> QED BY <2>2, <2>3, <2>4 DEF Life!Next, Life!Settle, Life!Lose
<1>3. ASSUME NEW d \in Crawls,
             Heartbeat(d) \/ Claim(d) \/ Finish(d) \/ RequestCancel(d) \/ Expire(d)
      PROVE  Life(c)!Next
  <2>1. d = c
    BY <1>0, <1>3 DEF Heartbeat, Claim, Finish, RequestCancel, Expire
  <2>2. CASE Claim(c)
    <3>1. /\ row[c].state = "queued" /\ row'[c].state = "running"
          /\ row'[c].attempts = row[c].attempts + 1
      BY <1>0, <2>2 DEF Claim, Row
    <3>2. row[c].attempts < MaxAttempts
      BY <3>1 DEF IInv, AttemptLeft
    <3> QED BY <3>1, <3>2 DEF Life!Next, Life!Start
  <2>3. CASE Finish(c)
    <3>1. /\ row[c].state = "running" /\ row'[c].state = "finished"
          /\ row'[c].attempts = row[c].attempts
      BY <1>0, <2>3 DEF Finish, Row
    <3> QED BY <3>1 DEF Life!Next, Life!Settle
  <2>4. CASE RequestCancel(c)
    <3>1. /\ row[c].state = "queued" /\ row'[c].state = "aborted"
          /\ row'[c].attempts = row[c].attempts
      BY <1>0, <2>4 DEF RequestCancel, Row
    <3> QED BY <3>1 DEF Life!Next, Life!CancelQueued
  <2>5. CASE Heartbeat(c) \/ Expire(c)
    BY <1>0, <2>5 DEF Heartbeat, Expire, Row
  <2> QED BY <1>3, <2>1, <2>2, <2>3, <2>4, <2>5
<1> QED
  BY <1>1, <1>2, <1>3 DEF Next, vars, Reap, Begin, Reach, Update, NextStatement, Deadlock

\* Whatever the reapers and everybody else do between a snapshot, a lock and a commit, a
\* reap ends runs that have been silent all along and nothing else, requeues none whose
\* cancel it knew of, and moves each crawl along its lifecycle.
THEOREM ReapsAreSound == Spec => ReapIsSound
<1> DEFINE Silent == \A r \in Reapers, c \in Crawls :
             Reaps(r, c) => row[c].state = "running" /\ row[c].stale /\ c \in txn[r].old
           Kept == \A r \in Reapers, c \in Crawls :
             Reaps(r, c) /\ c \in txn[r].asked => row'[c].state # "queued"
           InLife == \A c \in Crawls : [Life(c)!Next]_(row[c].state)
<1>1. IInv /\ [Next]_vars => [Silent]_vars
  BY DEF Reaps, IInv, Sound, LockedHolds, SnapshotHolds
<1>2. IInv /\ [Next]_vars => [Kept]_vars
  <2> SUFFICES ASSUME IInv, [Next]_vars, NEW r \in Reapers, NEW c \in Crawls,
                      Reaps(r, c), c \in txn[r].asked
               PROVE  row'[c].state # "queued"
    OBVIOUS
  <2>1. row'[c].state = txn[r].new[c] /\ txn[r].new[c] # "same"
    BY ChangedByItsReaper DEF Reaps
  <2> QED BY <2>1 DEF IInv, Sound, LockedHolds
<1>3. IInv /\ [Next]_vars => [InLife]_vars
  BY RowInItsLife
<1>4. ReapIsSound <=> [][Silent]_vars /\ [][Kept]_vars /\ [][InLife]_vars
  BY DEF ReapIsSound, ReapsOnlyTheSilent, CancelledIsNotRequeued, EachRowFollowsLifecycle
<1> HIDE DEF Silent, Kept, InLife
<1> QED BY <1>1, <1>2, <1>3, <1>4, Invariance, PTL DEF Spec
=============================================================================
