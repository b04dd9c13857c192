------------------------------ MODULE Submission -------------------------------
(***************************************************************************)
(* What a crawl has to pass before it starts, at either door: the flags of *)
(* the command line, or a body posted to the API, the row it becomes, the  *)
(* worker that builds a configuration from the row again, and the guard    *)
(* that asks for the seed's addresses at both ends while they may change.  *)
(***************************************************************************)
EXTENDS Integers, FiniteSets

CONSTANTS
  MaxConcurrency,  \* MAX_CONCURRENCY
  RequestBudget,   \* the default request_budget, and so MAX_TIMEOUT_SECONDS
  MaxBytes,        \* MAX_BYTES
  NaN,             \* float("nan"): every comparison with it is false
  NoLimit          \* None, of max_pages

VARIABLES
  door,    \* "cli" or "api"
  input,   \* the flags, or the body
  dns,     \* what the seed's host resolves to at this moment
  stage,
  status,  \* of the response, or the exit code of a usage error
  row,     \* the stored configuration
  seen     \* the reason the guard gave last, and who asked it

vars == <<door, input, dns, stage, status, row, seen>>

-----------------------------------------------------------------------------
(***************************************************************************)
(* Inputs: each number at and around its limits.                           *)
(***************************************************************************)

Around(max) == {0, 1, max, max + 1}

Hosts == {"local", "public_literal", "private_literal", "name", "bad_name"}

\* Extra: the body has a field the schema does not know.
Bodies ==
  [seed : {"url", "unsupported", "not_url"}, host : Hosts, extra : BOOLEAN,
   concurrency : Around(MaxConcurrency), timeout : Around(RequestBudget),
   max_pages : {NoLimit, 0, 1}, max_bytes : Around(MaxBytes)]

Flags ==
  [seed : {"url", "unsupported"}, concurrency : {0, MaxConcurrency + 1},
   timeout : Around(RequestBudget) \cup {NaN}, max_pages : {NoLimit, 0, 1},
   max_bytes : {0, 1}, request_budget : Around(RequestBudget) \cup {NaN}]

Addresses == {"public", "private"}

\* getaddrinfo fails, or has answers.
Error == {"error"}
Answers == {Error} \cup SUBSET Addresses

NoRow == [stored |-> FALSE]

Init ==
  /\ \/ door = "api" /\ input \in Bodies /\ dns \in Answers
     \/ door = "cli" /\ input \in Flags /\ dns = Error
  /\ stage = "received"
  /\ status = 0
  /\ row = NoRow
  /\ seen = [by |-> "nobody", reason |-> "none"]

-----------------------------------------------------------------------------
(***************************************************************************)
(* CrawlConfig                                                             *)
(***************************************************************************)

Less(x, y) == NaN \notin {x, y} /\ x < y

AtMost(x, y) == NaN \notin {x, y} /\ x <= y

\* __post_init__ raises nothing: each check refuses what compares as too small.
Builds(config) ==
  /\ ~(config.concurrency < 1)
  /\ ~AtMost(config.timeout, 0)
  /\ ~(config.max_pages # NoLimit /\ config.max_pages < 1)
  /\ ~(config.max_bytes < 1)
  /\ ~AtMost(config.request_budget, 0)
  /\ ~Less(config.request_budget, config.timeout)

\* CrawlConfig(**row.config): the row has no budget, so it is the default one.
ConfigOf(stored) ==
  [concurrency |-> stored.concurrency, timeout |-> stored.timeout, max_pages |-> stored.max_pages,
   max_bytes |-> stored.max_bytes, request_budget |-> RequestBudget]

-----------------------------------------------------------------------------
(***************************************************************************)
(* The command line                                                        *)
(***************************************************************************)

\* prepare_seed and CrawlConfig raise ValueError; parser.error exits with 2.
ParseFlags ==
  /\ door = "cli" /\ stage = "received"
  /\ IF input.seed = "url" /\ Builds(input)
       THEN stage' = "started" /\ UNCHANGED status
       ELSE stage' = "refused" /\ status' = 2
  /\ UNCHANGED <<door, input, dns, row, seen>>

-----------------------------------------------------------------------------
(***************************************************************************)
(* POST /crawls                                                            *)
(***************************************************************************)

\* Mutant of Fields: a timeout has no upper limit.
FieldsOfAnyTimeout(body) ==
  /\ ~body.extra
  /\ body.concurrency \in 1..MaxConcurrency
  /\ body.timeout > 0
  /\ body.max_pages = NoLimit \/ body.max_pages >= 1
  /\ body.max_bytes \in 1..MaxBytes

Fields(body) ==
  /\ ~body.extra
  /\ body.concurrency \in 1..MaxConcurrency
  /\ body.timeout > 0 /\ body.timeout <= RequestBudget
  /\ body.max_pages = NoLimit \/ body.max_pages >= 1
  /\ body.max_bytes \in 1..MaxBytes

Respond(code) == stage' = "refused" /\ status' = code

\* Fields first, then prepare_seed and normalize.
Validate ==
  /\ door = "api" /\ stage = "received"
  /\ IF Fields(input) /\ input.seed = "url" THEN stage' = "valid" /\ UNCHANGED status
                                            ELSE Respond(422)
  /\ UNCHANGED <<door, input, dns, row, seen>>

Resolved(answer) ==
  IF answer \in {Error, {}} THEN "unresolvable"
  ELSE IF "private" \in answer THEN "private" ELSE "none"

\* Only OSError of the lookup is caught: a label that is empty or too long raises
\* UnicodeError.
PrivateHostReason(host) ==
  CASE host = "local" -> "local"
    [] host = "private_literal" -> "private"
    [] host = "public_literal" -> "none"
    [] host = "bad_name" -> "UnicodeError"
    [] host = "name" -> Resolved(dns)

Ask(who) == seen' = [by |-> who, reason |-> PrivateHostReason(input.host)]

\* A reason is a 422, an exception a 500.
Guard ==
  /\ stage = "valid"
  /\ Ask("api")
  /\ CASE seen'.reason = "none" -> stage' = "vetted" /\ UNCHANGED status
       [] seen'.reason = "UnicodeError" -> Respond(500)
       [] OTHER -> Respond(422)
  /\ UNCHANGED <<door, input, dns, row>>

Stored ==
  [stored |-> TRUE, concurrency |-> input.concurrency, timeout |-> input.timeout,
   max_pages |-> input.max_pages, max_bytes |-> input.max_bytes]

Create ==
  /\ stage = "vetted"
  /\ row' = Stored
  /\ stage' = "queued"
  /\ status' = 202
  /\ UNCHANGED <<door, input, dns, seen>>

\* The commit fails, or its acknowledgement is lost and the row is there.
CreateFails ==
  /\ stage = "vetted"
  /\ \/ row' = Stored /\ stage' = "queued"
     \/ UNCHANGED row /\ stage' = "refused"
  /\ status' = 500
  /\ UNCHANGED <<door, input, dns, seen>>

-----------------------------------------------------------------------------
(***************************************************************************)
(* The worker, any time later                                              *)
(***************************************************************************)

Rebind ==
  /\ stage = "queued"
  /\ dns' \in Answers
  /\ UNCHANGED <<door, input, stage, status, row, seen>>

\* A configuration that no longer builds fails the crawl.
Claim ==
  /\ stage = "queued"
  /\ stage' = IF Builds(ConfigOf(row)) THEN "claimed" ELSE "unusable"
  /\ UNCHANGED <<door, input, dns, status, row, seen>>

\* Mutant of FetchSeed: what the API has vetted is not asked for again.
FetchSeedOnce ==
  /\ stage = "claimed"
  /\ stage' = "fetched"
  /\ UNCHANGED <<door, input, dns, status, row, seen>>

\* The guard is asked again; a reason, or an exception, fails the crawl.
FetchSeed ==
  /\ stage = "claimed"
  /\ Ask("worker")
  /\ stage' = IF seen'.reason = "none" THEN "fetched" ELSE "failed"
  /\ UNCHANGED <<door, input, dns, status, row>>

Over ==
  /\ stage \in {"started", "refused", "unusable", "fetched", "failed"}
  /\ UNCHANGED vars

Next ==
  \/ ParseFlags
  \/ Validate \/ Guard \/ Create \/ CreateFails
  \/ Rebind \/ Claim \/ FetchSeed
  \/ Over

Spec == Init /\ [][Next]_vars

-----------------------------------------------------------------------------

\* What the API accepts, the worker can run: a bad setting is refused at submission and
\* never found by a worker, although each of the two has its own checks.
AcceptedIsRunnable == stage # "unusable"

\* A refused body leaves no row behind, an accepted one does; only after a 500 it may be either.
StatusTellsRow == (status = 422 => row = NoRow) /\ (status = 202 => row # NoRow)

\* What the API answers binds what happens to the crawl.
AcceptanceIsKept == AcceptedIsRunnable /\ StatusTellsRow

\* A seed is fetched only from a host all of whose addresses are public when the worker
\* asks, also when they changed since the crawl was queued.
FetchedIsPublic ==
  stage = "fetched" =>
    /\ input.host \in {"public_literal", "name"}
    /\ input.host = "name" => dns = {"public"}

=============================================================================
