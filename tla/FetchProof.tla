------------------------------ MODULE FetchProof -------------------------------
(***************************************************************************)
(* Proofs about Fetch, for every cap, number of attempts and server: what  *)
(* the bounded reader returns and keeps, and what the retry policy bounds. *)
(***************************************************************************)
EXTENDS Fetch, TLAPS

-----------------------------------------------------------------------------
(***************************************************************************)
(* The inductive invariant.                                                *)
(***************************************************************************)

\* A body that is still being read is within the cap and was kept whole so far; one that
\* is not encoded is as long as what was received of it.
Reading ==
  pc = "read" =>
    /\ body = decoded /\ raw <= MaxBytes /\ body <= MaxBytes
    /\ ~encoded => body = raw

\* Only the last step sets the result.
Pending == pc # "done" => result = "none"

\* A request counts when it is answered or fails, an attempt when it is made.
Counted ==
  /\ pc = "request" => requests = attempt - 1
  /\ pc # "request" => requests = attempt
  /\ pc = "sleep" => attempt < MaxAttempts

\* Each attempt but the first was waited for once.
Waited == waited <= MaxRetryAfter * (attempt - 1) /\ delay <= MaxRetryAfter

IInv ==
  /\ TypeOK
  /\ Reading /\ CapIsExact /\ MemoryIsBounded
  /\ Pending /\ Counted /\ Waited

-----------------------------------------------------------------------------
(***************************************************************************)
(* What the operators return.                                              *)
(***************************************************************************)

\* Every delay is one of half seconds up to the clamp.
LEMMA DelayBounds ==
  /\ \A seconds \in Int : RetryAfter(seconds) \in 0..MaxRetryAfter
  /\ Backoffs \subseteq 0..MaxRetryAfter
BY DEF RetryAfter, Smaller, MaxRetryAfter, MaxBackoff, Backoffs

\* Within the cap there is room for a byte more than the cap, and what is inflated is no
\* more than the room nor than there is, and less than there is only if the room is used up.
LEMMA InflatedBounds ==
  ASSUME MaxBytes \in Nat, body \in Nat, body <= MaxBytes,
         NEW size \in Nat, NEW cut \in BOOLEAN, NEW kept \in Inflated(size, cut)
  PROVE  /\ kept \in Nat /\ kept <= size /\ body + kept <= MaxBytes + 1
         /\ ~cut => kept = size \/ body + kept = MaxBytes + 1
<1>1. Room \in Nat /\ Room # 0 /\ Room = MaxBytes + 1 - body
  BY DEF Room
<1>2. kept \in IF cut THEN 0..Smaller(size, Room) ELSE {Smaller(size, Room)}
  BY <1>1 DEF Inflated
<1>3. Smaller(size, Room) \in Nat /\ Smaller(size, Room) <= size /\ Smaller(size, Room) <= Room
  BY <1>1 DEF Smaller
<1>4. Smaller(size, Room) = size \/ Smaller(size, Room) = Room
  BY DEF Smaller
<1> HIDE DEF Smaller
<1>5. kept \in Nat /\ kept <= Smaller(size, Room)
  BY <1>2, <1>3
<1>6. ~cut => kept = Smaller(size, Room)
  BY <1>2
<1> QED
  BY <1>1, <1>3, <1>4, <1>5, <1>6

-----------------------------------------------------------------------------

LEMMA InitIInv == Init => IInv
<1> SUFFICES ASSUME Init PROVE IInv
  OBVIOUS
<1>1. TypeOK
  <2>1. encoded \in BOOLEAN /\ declared \in Lengths \cup {NoHeader}
    BY DEF Init
  <2>2. attempt \in 1..MaxAttempts
    BY BoundsAssumption DEF Init
  <2>3. /\ pc \in {"request", "read", "sleep", "done"} /\ result \in Results \cup {"none"}
        /\ raw \in Nat /\ body \in Nat /\ decoded \in Nat
        /\ delay \in Nat /\ requests \in Nat /\ waited \in Nat
    BY DEF Init
  <2> QED
    BY <2>1, <2>2, <2>3 DEF TypeOK
<1>2. Reading /\ CapIsExact /\ MemoryIsBounded /\ Pending
  BY BoundsAssumption
     DEF Init, Reading, CapIsExact, PageIsWhole, TooLargeIsTooLarge, MemoryIsBounded, Pending
<1>3. Counted
  BY DEF Init, Counted
<1>4. Waited
  BY DEF Init, Waited, MaxRetryAfter
<1> QED
  BY <1>1, <1>2, <1>3, <1>4 DEF IInv

\* fetch() may return or retry from any step that is not the last.
LEMMA Ending ==
  ASSUME IInv, pc \in {"request", "read"}, NEW kind \in Results,
         requests' = attempt, UNCHANGED <<bodyVars, waited>>,
         Return(kind), kind # "page", kind # "too_large"
  PROVE  IInv'
BY BoundsAssumption
   DEF IInv, TypeOK, Reading, CapIsExact, PageIsWhole, TooLargeIsTooLarge, MemoryIsBounded,
       Pending, Counted, Waited, Return, bodyVars, DeclaresMore

LEMMA Retrying ==
  ASSUME IInv, pc \in {"request", "read"}, NEW delays \in SUBSET (0..MaxRetryAfter),
         requests' = attempt, UNCHANGED <<bodyVars, waited>>, Retry(delays)
  PROVE  IInv'
<1>1. attempt < MaxAttempts /\ delay' \in 0..MaxRetryAfter
  BY BoundsAssumption DEF Retry, GiveUp, IInv, TypeOK
<1>2. pc' = "sleep" /\ result' = "none" /\ attempt' = attempt
  BY DEF Retry, IInv, Pending
<1> QED
  BY <1>1, <1>2, BoundsAssumption
     DEF IInv, TypeOK, Reading, CapIsExact, PageIsWhole, TooLargeIsTooLarge, MemoryIsBounded,
         Pending, Counted, Waited, bodyVars, DeclaresMore, MaxRetryAfter

LEMMA StepRespond ==
  ASSUME IInv, NEW status \in Statuses, Respond(status)
  PROVE  IInv'
<1>1. pc = "request" /\ requests' = attempt /\ UNCHANGED <<bodyVars, waited>>
  BY DEF Respond, IInv, Counted, TypeOK
<1>2. CASE \E kind \in Results \ {"page", "too_large"} : Return(kind)
  BY <1>1, <1>2, Ending
<1>3. ASSUME NEW delays \in SUBSET (0..MaxRetryAfter), Retry(delays) PROVE IInv'
  BY <1>1, <1>3, Retrying
<1>4. CASE \E seconds \in RetryAfters : 
             IF status \in RetryAfterStatuses /\ seconds # NoHeader
               THEN Retry({RetryAfter(seconds)}) ELSE Retry(Backoffs)
  <2>1. PICK seconds \in RetryAfters :
             IF status \in RetryAfterStatuses /\ seconds # NoHeader
               THEN Retry({RetryAfter(seconds)}) ELSE Retry(Backoffs)
    BY <1>4
  <2>2. CASE seconds # NoHeader /\ Retry({RetryAfter(seconds)})
    <3>1. {RetryAfter(seconds)} \in SUBSET (0..MaxRetryAfter)
      BY <2>2, DelayBounds, RetryAftersAssumption
    <3> QED
      BY <1>3, <2>2, <3>1
  <2>3. CASE Retry(Backoffs)
    BY <1>3, <2>3, DelayBounds
  <2> QED
    BY <2>1, <2>2, <2>3
<1> QED
  BY <1>2, <1>4 DEF Respond, Results

LEMMA StepOpenBody ==
  ASSUME IInv, NEW status \in Statuses, NEW length \in Lengths, OpenBody(status, length)
  PROVE  IInv'
<1>1. /\ pc = "request" /\ requests' = attempt /\ waited' = waited
      /\ declared' = length /\ encoded' \in BOOLEAN
      /\ raw' = 0 /\ body' = 0 /\ decoded' = 0
      /\ attempt' = attempt /\ delay' = delay
      /\ \/ DeclaresMore(length) /\ pc' = "done" /\ result' = "too_large"
         \/ pc' = "read" /\ result' = result
  BY DEF OpenBody, Return, IInv, Counted, TypeOK
<1> QED
  BY <1>1, BoundsAssumption
     DEF IInv, TypeOK, Reading, CapIsExact, PageIsWhole, TooLargeIsTooLarge, MemoryIsBounded,
         Pending, Counted, Waited, DeclaresMore, Results

LEMMA StepChunk ==
  ASSUME IInv, NEW length \in 0..MaxChunk, NEW size \in 0..MaxChunk, Chunk(length, size)
  PROVE  IInv'
<1> DEFINE capped == Smaller(length, MaxBytes - raw)
<1>0. /\ MaxBytes \in Nat /\ raw \in Nat /\ body \in Nat /\ decoded \in Nat
      /\ length \in Nat /\ size \in Nat
      /\ pc = "read" /\ body = decoded /\ raw <= MaxBytes /\ body <= MaxBytes
      /\ ~encoded => body = raw
  BY BoundsAssumption DEF IInv, TypeOK, Reading, Chunk
<1>1. PICK kept \in IF encoded THEN Inflated(size, capped < length) ELSE {capped} :
        body' = body + kept
  BY DEF Chunk
<1>2. /\ capped \in Nat /\ capped <= length /\ capped <= MaxBytes - raw
      /\ capped < length => raw + length > MaxBytes
  BY <1>0 DEF Smaller
<1>3. raw' = raw + length /\ decoded' = decoded + size /\ (encoded \/ size = length)
  BY DEF Chunk
<1>4. /\ kept \in Nat /\ kept <= size
      /\ body + kept <= MaxBytes + 1
      /\ kept = size \/ body + kept = MaxBytes + 1 \/ raw + length > MaxBytes
  <2>1. CASE encoded
    <3> HIDE DEF capped
    <3>1. (capped < length) \in BOOLEAN /\ kept \in Inflated(size, capped < length)
      BY <1>1, <2>1
    <3> QED
      BY <1>0, <1>2, <3>1, InflatedBounds
  <2>2. CASE ~encoded
    BY <1>0, <1>1, <1>2, <1>3, <2>2
  <2> QED
    BY <2>1, <2>2
<1>5. /\ raw' \in Nat /\ body' \in Nat /\ decoded' \in Nat
      /\ body' <= MaxBytes + 1 /\ body' <= decoded'
  BY <1>0, <1>1, <1>3, <1>4
<1>6. /\ encoded' = encoded /\ declared' = declared
      /\ requests' = requests /\ waited' = waited
  BY DEF Chunk
<1> HIDE DEF capped
<1>7. CASE OverCap(raw', body')
  <2>1. pc' = "done" /\ result' = "too_large" /\ attempt' = attempt /\ delay' = delay
    BY <1>7 DEF Chunk, Return
  <2>2. raw' > MaxBytes \/ decoded' > MaxBytes
    BY <1>0, <1>5, <1>7 DEF OverCap
  <2> QED
    BY <1>0, <1>5, <1>6, <2>1, <2>2, BoundsAssumption
       DEF IInv, TypeOK, Reading, CapIsExact, PageIsWhole, TooLargeIsTooLarge, MemoryIsBounded,
           Pending, Counted, Waited, Results
<1>8. CASE ~OverCap(raw', body')
  <2>1. pc' = pc /\ result' = result /\ attempt' = attempt /\ delay' = delay
    BY <1>8 DEF Chunk
  <2>2. /\ raw' <= MaxBytes /\ body' <= MaxBytes /\ body' = decoded'
        /\ ~encoded => body' = raw'
    BY <1>0, <1>1, <1>3, <1>4, <1>5, <1>8 DEF OverCap
  <2> QED
    BY <1>0, <1>5, <1>6, <2>1, <2>2, BoundsAssumption
       DEF IInv, TypeOK, Reading, CapIsExact, PageIsWhole, TooLargeIsTooLarge, MemoryIsBounded,
           Pending, Counted, Waited
<1> QED
  BY <1>7, <1>8

LEMMA StepEndOfBody ==
  ASSUME IInv, EndOfBody
  PROVE  IInv'
BY BoundsAssumption
   DEF EndOfBody, Return, bodyVars, IInv, TypeOK, Reading, CapIsExact, PageIsWhole,
       TooLargeIsTooLarge, MemoryIsBounded, Pending, Counted, Waited, Results

LEMMA StepFail ==
  ASSUME IInv, NEW exc \in Exceptions, Fail(exc)
  PROVE  IInv'
<1>1. pc \in {"request", "read"} /\ requests' = attempt /\ UNCHANGED <<bodyVars, waited>>
  BY DEF Fail, IInv, Counted, TypeOK
<1>2. CASE exc = "other" /\ Return("raised")
  BY <1>1, <1>2, Ending DEF Results
<1>3. CASE Retry(Backoffs)
  BY <1>1, <1>3, DelayBounds, Retrying
<1>4. CASE exc # "other" /\ Return(ErrorKind(exc))
  <2>1. ErrorKind(exc) \in {"timeout", "connection", "protocol", "invalid_url"}
    BY <1>4 DEF ErrorKind, Exceptions
  <2> HIDE DEF ErrorKind
  <2> DEFINE kind == ErrorKind(exc)
  <2>2. kind \in Results /\ kind # "page" /\ kind # "too_large"
    BY <2>1 DEF Results
  <2>3. Return(kind)
    BY <1>4
  <2> HIDE DEF kind
  <2> QED
    BY <1>1, <2>2, <2>3, Ending
<1> QED
  BY <1>2, <1>3, <1>4 DEF Fail

LEMMA StepWake ==
  ASSUME IInv, Wake
  PROVE  IInv'
BY BoundsAssumption
   DEF Wake, bodyVars, IInv, TypeOK, Reading, CapIsExact, PageIsWhole, TooLargeIsTooLarge,
       MemoryIsBounded, Pending, Counted, Waited, MaxRetryAfter, DeclaresMore

LEMMA StepStutter ==
  ASSUME IInv, UNCHANGED vars
  PROVE  IInv'
BY DEF vars, IInv, TypeOK, Reading, CapIsExact, PageIsWhole, TooLargeIsTooLarge,
       MemoryIsBounded, Pending, Counted, Waited, DeclaresMore

LEMMA Inductive == IInv /\ [Next]_vars => IInv'
<1> SUFFICES ASSUME IInv, [Next]_vars PROVE IInv'
  OBVIOUS
<1>1. ASSUME NEW status \in Statuses, Respond(status) PROVE IInv'
  BY <1>1, StepRespond
<1>2. ASSUME NEW status \in Statuses, NEW length \in Lengths, OpenBody(status, length)
      PROVE IInv'
  BY <1>2, StepOpenBody
<1>3. ASSUME NEW length \in 0..MaxChunk, NEW size \in 0..MaxChunk, Chunk(length, size)
      PROVE IInv'
  BY <1>3, StepChunk
<1>4. CASE EndOfBody
  BY <1>4, StepEndOfBody
<1>5. ASSUME NEW exc \in Exceptions, Fail(exc) PROVE IInv'
  BY <1>5, StepFail
<1>6. CASE Budget
  BY <1>6, StepFail DEF Budget, Exceptions
<1>7. CASE Wake
  BY <1>7, StepWake
<1>8. CASE Stutter \/ UNCHANGED vars
  BY <1>8, StepStutter DEF Stutter
<1> QED
  BY <1>1, <1>2, <1>3, <1>4, <1>5, <1>6, <1>7, <1>8 DEF Next

LEMMA Invariance == Spec => []IInv
BY InitIInv, Inductive, PTL DEF Spec

-----------------------------------------------------------------------------
(***************************************************************************)
(* The theorems.                                                           *)
(***************************************************************************)

\* Every state of a fetch has its types.
THEOREM TypeCorrect == Spec => []TypeOK
<1>1. IInv => TypeOK
  BY DEF IInv
<1> QED
  BY <1>1, Invariance, PTL

\* A page is returned whole and within the cap, and one is refused as too large only if it
\* is: of any length, cut into chunks and compressed in any way.
THEOREM CapKept == Spec => []CapIsExact
<1>1. IInv => CapIsExact
  BY DEF IInv
<1> QED
  BY <1>1, Invariance, PTL

\* However much a chunk of the body expands to, one byte more than the cap is kept at most.
THEOREM MemoryKept == Spec => []MemoryIsBounded
<1>1. IInv => MemoryIsBounded
  BY DEF IInv
<1> QED
  BY <1>1, Invariance, PTL

\* Whatever a server answers, the requests of a fetch are the attempts it counts,
\* max_attempts at most, and each is waited for half a minute at most.
THEOREM RetriesBounded == Spec => []RetriesAreBounded
<1>1. IInv => RetriesAreBounded
  BY BoundsAssumption
     DEF IInv, TypeOK, Counted, Waited, RetriesAreBounded, AttemptsAreRequests,
         WaitIsBounded, MaxRetryAfter
<1> QED
  BY <1>1, Invariance, PTL
=============================================================================
