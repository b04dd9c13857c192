--------------------------------- MODULE Fetch --------------------------------
(***************************************************************************)
(* One call of Fetcher.fetch: attempts, gates, the bounded reading of the  *)
(* body and the retry policy.  The server is the environment: it answers   *)
(* anything, at any pace, in chunks of any size that expand to any size.   *)
(* A delay is counted in half seconds.                                     *)
(***************************************************************************)
EXTENDS Integers

CONSTANTS
  Statuses,     \* the statuses the server answers with
  RetryAfters,  \* seconds a Retry-After header asks for; NoHeader if none, or unreadable
  Lengths,      \* what a Content-Length header says, or NoHeader
  NoHeader,
  MaxAttempts,  \* Fetcher's max_attempts
  MaxBytes,     \* config.max_bytes
  MaxChunk      \* bound: bytes of a chunk, and of what it decodes to

ASSUME StatusesAssumption == Statuses \subseteq 100..599
ASSUME RetryAftersAssumption == RetryAfters \subseteq Int \cup {NoHeader} /\ NoHeader \notin Int
ASSUME LengthsAssumption == Lengths \subseteq Nat \cup {NoHeader}
ASSUME BoundsAssumption ==
  MaxAttempts \in Nat \ {0} /\ MaxBytes \in Nat \ {0} /\ MaxChunk \in Nat

VARIABLES
  pc,       \* "request", "read", "sleep" or "done"
  attempt,
  encoded,  \* the body being read has a content-encoding
  declared, \* its Content-Length
  raw,      \* raw_bytes, the bytes received of this body
  body,     \* len(body), the bytes kept of it
  decoded,  \* history: how long the body really is so far, once it is decoded
  delay,    \* what to sleep before the next attempt
  result,   \* what fetch() returned, or "none"
  requests, \* history: requests sent
  waited    \* history: the delays so far

vars == <<pc, attempt, encoded, declared, raw, body, decoded, delay, result, requests, waited>>
bodyVars == <<encoded, declared, raw, body, decoded>>

-----------------------------------------------------------------------------

RedirectStatuses == {301, 302, 303, 307, 308}
RetryableStatuses == {408, 425, 429, 500, 502, 503, 504}
RetryAfterStatuses == {429, 503}

\* The exceptions a request can raise, "other" being none that fetch() handles.
Exceptions == {"timeout", "network", "remote protocol", "local protocol", "decoding",
               "invalid url", "other"}
RetryableExceptions == {"timeout", "network", "remote protocol"}

ErrorKind(exc) ==
  CASE exc = "timeout" -> "timeout"
    [] exc = "network" -> "connection"
    [] exc \in {"remote protocol", "local protocol", "decoding"} -> "protocol"
    [] exc = "invalid url" -> "invalid_url"

Results == {"page", "redirect", "http_status", "unsupported_content", "too_large",
            "timeout", "connection", "protocol", "invalid_url", "raised"}

MaxBackoff == 16
MaxRetryAfter == 60

TypeOK ==
  /\ pc \in {"request", "read", "sleep", "done"}
  /\ attempt \in 1..MaxAttempts
  /\ encoded \in BOOLEAN /\ declared \in Lengths \cup {NoHeader}
  /\ raw \in Nat /\ body \in Nat /\ decoded \in Nat
  /\ delay \in Nat
  /\ result \in Results \cup {"none"}
  /\ requests \in Nat /\ waited \in Nat

Init ==
  /\ pc = "request" /\ attempt = 1 /\ requests = 0
  /\ encoded = FALSE /\ declared = NoHeader /\ raw = 0 /\ body = 0 /\ decoded = 0
  /\ delay = 0 /\ waited = 0 /\ result = "none"

Smaller(a, b) == IF a <= b THEN a ELSE b

\* parse_retry_after
RetryAfter(seconds) == IF seconds <= 0 THEN 0 ELSE Smaller(2 * seconds, MaxRetryAfter)

\* backoff_delay, whose jitter may be anything.
Backoffs == {d \in 0..MaxBackoff : d <= 2^attempt}

GiveUp == attempt >= MaxAttempts

Return(kind) ==
  /\ pc' = "done" /\ result' = kind
  /\ UNCHANGED <<attempt, delay>>

Retry(delays) ==
  /\ ~GiveUp
  /\ pc' = "sleep" /\ delay' \in delays
  /\ UNCHANGED <<attempt, result>>

-----------------------------------------------------------------------------
(***************************************************************************)
(* The head of a response.  A request is counted when it is answered or    *)
(* fails.                                                                  *)
(***************************************************************************)

\* _declares_more_than
DeclaresMore(length) == length # NoHeader /\ length > MaxBytes

Respond(status) ==
  /\ pc = "request"
  /\ requests' = requests + 1
  /\ \/ /\ status \in RedirectStatuses
        /\ Return("redirect")
     \/ /\ status >= 400 /\ (GiveUp \/ status \notin RetryableStatuses)
        /\ Return("http_status")
     \/ /\ status \in RetryableStatuses
        /\ \E seconds \in RetryAfters :
             IF status \in RetryAfterStatuses /\ seconds # NoHeader
               THEN Retry({RetryAfter(seconds)})
               ELSE Retry(Backoffs)
     \/ /\ status < 400 /\ status \notin RedirectStatuses
        /\ Return("unsupported_content")
  /\ UNCHANGED <<bodyVars, waited>>

\* An HTML response; the length it declares may be missing or wrong.  One that is over
\* the cap is not read.
OpenBody(status, length) ==
  /\ pc = "request" /\ status < 400 /\ status \notin RedirectStatuses
  /\ requests' = requests + 1
  /\ declared' = length
  /\ encoded' \in BOOLEAN
  /\ raw' = 0 /\ body' = 0 /\ decoded' = 0
  /\ IF DeclaresMore(length)
       THEN Return("too_large")
       ELSE pc' = "read" /\ UNCHANGED <<attempt, delay, result>>
  /\ UNCHANGED waited

-----------------------------------------------------------------------------
(***************************************************************************)
(* read_bounded.                                                           *)
(***************************************************************************)

\* Mutant of Room: no byte to spare.
RoomWithoutSpare == MaxBytes - body

\* The max_length of an inflate call: one byte more than the cap, to see it exceeded.
Room == MaxBytes + 1 - body

\* What zlib returns of a chunk that decodes to `size` bytes: all of it, or as much as
\* max_length allows, where 0 means no limit.  Of a chunk that was cut only a part is
\* there to be decoded.
Inflated(size, cut) ==
  LET all == IF Room = 0 THEN size ELSE Smaller(size, Room)
  IN IF cut THEN 0..all ELSE {all}

\* Mutant of OverCap: only the decoded stream is capped.
OverCapDecoded(received, kept) == kept > MaxBytes

OverCap(received, kept) == received > MaxBytes \/ kept > MaxBytes

Chunk(length, size) ==
  LET capped == Smaller(length, MaxBytes - raw)
  IN /\ pc = "read"
     /\ encoded \/ size = length
     /\ length = 0 => size = 0
     /\ raw' = raw + length
     /\ decoded' = decoded + size
     /\ \E kept \in IF encoded THEN Inflated(size, capped < length) ELSE {capped} :
          body' = body + kept
     /\ IF OverCap(raw', body')
          THEN Return("too_large")
          ELSE UNCHANGED <<pc, attempt, delay, result>>
     /\ UNCHANGED <<encoded, declared, requests, waited>>

EndOfBody ==
  /\ pc = "read"
  /\ Return("page")
  /\ UNCHANGED <<bodyVars, requests, waited>>

-----------------------------------------------------------------------------

\* The request fails: an exception of httpx before or in the body, the budget included,
\* which is reported as a timeout.
Fail(exc) ==
  /\ pc \in {"request", "read"}
  /\ requests' = IF pc = "request" THEN requests + 1 ELSE requests
  /\ \/ exc = "other" /\ Return("raised")
     \/ exc \in RetryableExceptions /\ Retry(Backoffs)
     \/ exc # "other" /\ (GiveUp \/ exc \notin RetryableExceptions) /\ Return(ErrorKind(exc))
  /\ UNCHANGED <<bodyVars, waited>>

\* Mutant of Budget: it ends with the head of the response.
BudgetOfTheHead == pc = "request" /\ Fail("timeout")

\* asyncio.timeout around the whole request.
Budget == Fail("timeout")

\* Mutant of Wake: the attempt is not counted.
WakeUncounted ==
  /\ pc = "sleep"
  /\ pc' = "request"
  /\ requests < 2 * MaxAttempts
  /\ UNCHANGED <<bodyVars, attempt, delay, result, requests, waited>>

Wake ==
  /\ pc = "sleep"
  /\ pc' = "request" /\ attempt' = attempt + 1
  /\ waited' = waited + delay
  /\ UNCHANGED <<bodyVars, delay, result, requests>>

Stutter == pc = "done" /\ UNCHANGED vars

Next ==
  \/ \E status \in Statuses : Respond(status) \/ \E length \in Lengths : OpenBody(status, length)
  \/ \E length, size \in 0..MaxChunk : Chunk(length, size)
  \/ EndOfBody
  \/ \E exc \in Exceptions : Fail(exc)
  \/ Budget \/ Wake \/ Stutter

Spec == Init /\ [][Next]_vars

\* Clocks run: the budget of a request that does not end runs out, and a sleep is over.
\* Nothing is assumed of the server.
FairSpec == Spec /\ WF_vars(Budget) /\ WF_vars(Wake)

-----------------------------------------------------------------------------

\* A page is returned whole: everything that the decoder makes of the bytes received is in
\* it, and it is within the cap.
PageIsWhole ==
  result = "page" => body = decoded /\ raw <= MaxBytes /\ decoded <= MaxBytes

\* A page is refused as too large only if it is, as declared, as sent or as decoded.
TooLargeIsTooLarge ==
  result = "too_large" => DeclaresMore(declared) \/ raw > MaxBytes \/ decoded > MaxBytes

\* The cap is exact: what fits is returned whole, and only what does not fit is refused.
CapIsExact == PageIsWhole /\ TooLargeIsTooLarge

\* However much a chunk expands to, one byte more than the cap is kept at most.
MemoryIsBounded == body <= MaxBytes + 1

\* The attempts of the result are the requests that were sent, max_attempts at most:
\* stats.retries adds them up.
AttemptsAreRequests ==
  pc = "done" => requests = attempt /\ attempt <= MaxAttempts

\* No server holds a task with Retry-After for longer than the clamp, per retry.
WaitIsBounded == waited + delay <= MaxRetryAfter * attempt

\* A server can make the fetcher neither send more requests than it may and counts, nor
\* wait for longer than the clamp allows it to.
RetriesAreBounded == AttemptsAreRequests /\ WaitIsBounded

\* A fetch returns although the server may send a body without end, or nothing at all.
FetchReturns == <>(pc = "done")
=============================================================================
