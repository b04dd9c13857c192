------------------------------- MODULE PartsProof ------------------------------
(***************************************************************************)
(* The invariants of the parts that work alone.  For each part, one that   *)
(* its steps keep; no step of MCParts changes which part it is.  What the  *)
(* two parts without a state of their own, RobotsRules and Urls, answer is *)
(* proved for every file and path and for every two texts, by what the     *)
(* loops of the code do step by step.                                      *)
(***************************************************************************)
EXTENDS MCParts, SequenceTheorems, WellFoundedInduction, FiniteSetTheorems, TLAPS

-----------------------------------------------------------------------------
(***************************************************************************)
(* Startup: what a process runs with, it has checked.                      *)
(***************************************************************************)

\* The environments that the process may find.
EnvOK ==
  /\ \A name \in {"WORKER_POLL_SECONDS", "PAGE_FLUSH_SECONDS"} :
       env[name] \in {Unset, NaN, -1}
  /\ \A name \in {"HEARTBEAT_SECONDS", "LEASE_SECONDS"} :
       env[name] \in {Unset, Text, NaN, Inf, 0, 20, 400}
  /\ \A name \in {"MAX_ATTEMPTS", "PAGE_BATCH_SIZE"} : env[name] \in {Unset, 0}

StartupInv == EnvOK /\ (process = "running" => Process!RunningCanLease)

LEMMA StartupInit ==
  ASSUME Process!Init
  PROVE  StartupInv
<1>1. PICK url \in BOOLEAN, poll, flush \in Process!SecondsValues,
          heartbeat, lease \in Process!LeaseValues,
          attempts, batch \in Process!CountValues, port \in Process!PortValues :
        env = [DATABASE_URL |-> url, WORKER_POLL_SECONDS |-> poll,
               HEARTBEAT_SECONDS |-> heartbeat, LEASE_SECONDS |-> lease,
               PAGE_FLUSH_SECONDS |-> flush, MAX_ATTEMPTS |-> attempts,
               PAGE_BATCH_SIZE |-> batch, API_PORT |-> port]
  BY DEF Process!Init
<1>2. EnvOK
  BY <1>1
     DEF EnvOK, Process!SecondsValues, Process!LeaseValues, Process!CountValues
<1>3. process = "start"
  BY DEF Process!Init
<1> QED BY <1>2, <1>3 DEF StartupInv

LEMMA StartupNext ==
  ASSUME StartupInv, Process!Next \/ UNCHANGED startupVars
  PROVE  StartupInv'
<1>1. CASE Process!Run
  <2>1. PICK s : s = Process!FromEnv
    OBVIOUS
  <2>2. /\ settings' = s /\ UNCHANGED env /\ process' = "running"
        /\ Process!Parses /\ Process!Accepted(s)
    BY <1>1, <2>1 DEF Process!Run
  <2>3. \A name \in Process!Names :
          s[name] = IF env[name] = Unset THEN Process!Defaults[name] ELSE env[name]
    BY <2>1 DEF Process!FromEnv
  <2>4. /\ s["WORKER_POLL_SECONDS"] \in {10, NaN, -1}
        /\ s["PAGE_FLUSH_SECONDS"] \in {2, NaN, -1}
        /\ s["HEARTBEAT_SECONDS"] \in {50, NaN, Inf, 0, 20, 400}
        /\ s["LEASE_SECONDS"] \in {300, NaN, Inf, 0, 20, 400}
    BY <2>2, <2>3
       DEF StartupInv, EnvOK, Process!Parses, Process!Names, Process!Seconds, Process!Defaults
  <2>5. /\ \A name \in Process!Seconds : s[name] \notin {NaN, Inf} /\ s[name] > 0
        /\ s["MAX_ATTEMPTS"] >= 1 /\ s["PAGE_BATCH_SIZE"] >= 1
        /\ ~Process!Less(s["LEASE_SECONDS"], s["HEARTBEAT_SECONDS"])
    BY <2>2 DEF Process!Accepted, Process!Positive, Process!Counts
  <2>6. \A name \in Process!Seconds : s[name] \in Nat \ {0}
    BY <2>4, <2>5, NoNumbers DEF Process!Seconds
  <2>7. s["HEARTBEAT_SECONDS"] <= s["LEASE_SECONDS"]
    BY <2>5, <2>6, NoNumbers DEF Process!Seconds, Process!Less
  <2>8. Process!RunningCanLease'
    BY <2>2, <2>5, <2>6, <2>7 DEF Process!RunningCanLease, Process!Seconds
  <2> QED BY <2>2, <2>8 DEF StartupInv, EnvOK
<1>2. CASE Process!Refuse
  BY <1>2 DEF Process!Refuse, StartupInv, EnvOK
<1>3. CASE Process!Over \/ UNCHANGED startupVars
  BY <1>3
     DEF Process!Over, Process!vars, startupVars, StartupInv, EnvOK, Process!RunningCanLease,
         Process!Seconds
<1> QED BY <1>1, <1>2, <1>3 DEF Process!Next

-----------------------------------------------------------------------------
(***************************************************************************)
(* RobotsLoad: the guard, the last answer and the cap.                     *)
(***************************************************************************)

\* What arrived, up to the cap, is whole characters.
Whole == Load!Decodes(SubSeq(file, 1, IF raw > MaxBytes THEN MaxBytes ELSE raw))

LoadInv ==
  /\ guard \in BOOLEAN /\ vetted \in BOOLEAN
  /\ raw \in Nat
  /\ pc = "done" \/ policy = "none"
  /\ pc \in {"request", "read"} => (guard => vetted)
  /\ pc = "read" => raw <= MaxBytes /\ said = 200
  /\ policy = "rules" => said = 200 /\ (raw = Len(file) \/ raw > MaxBytes) /\ Whole
  /\ policy = "allow_all" => said \notin {0, 200} \cup Load!RedirectStatuses /\ said < 500

LEMMA LoadInvIsSafe ==
  ASSUME LoadInv
  PROVE  Load!LoadIsSafe
BY DEF LoadInv, Whole, Load!LoadIsSafe, Load!EveryHopIsVetted, Load!UnreadableAllowsNothing,
       Load!BodyIsBounded

LEMMA LoadInit ==
  ASSUME Load!Init
  PROVE  LoadInv
BY DEF Load!Init, LoadInv

\* What is decoded is what arrived, up to the cap.
LEMMA DecodeStep ==
  ASSUME LoadInv, NEW n, Load!Decode(n), raw' \in Nat, UNCHANGED <<guard, file, vetted, said>>,
         n = IF raw' > MaxBytes THEN MaxBytes ELSE raw', raw' = Len(file) \/ raw' > MaxBytes,
         said = 200
  PROVE  LoadInv'
<1>1. CASE Load!Decodes(SubSeq(file, 1, n))
  <2>1. pc' = "done" /\ policy' = "rules"
    BY <1>1 DEF Load!Decode, Load!Return
  <2>2. Whole'
    BY <1>1 DEF Whole, Load!Decodes
  <2> QED BY <2>1, <2>2 DEF LoadInv
<1>2. CASE ~Load!Decodes(SubSeq(file, 1, n))
  <2>1. pc' = "done" /\ policy' = "deny_all"
    BY <1>2 DEF Load!Decode, Load!Unreachable, Load!Return
  <2> QED BY <2>1 DEF LoadInv
<1> QED BY <1>1, <1>2

LEMMA LoadNext ==
  ASSUME LoadInv, Load!Next \/ UNCHANGED loadVars
  PROVE  LoadInv'
<1> USE DEF LoadInv, Load!Unreachable, Load!Return
<1>0. MaxBytes \in Nat
  BY LimitsAssumption
<1>1. CASE Load!Vet
  <2>1. CASE policy' = policy
    BY <1>1, <2>1 DEF Load!Vet
  <2>2. CASE policy' # policy
    BY <1>1, <2>2 DEF Load!Vet
  <2> QED BY <2>1, <2>2
<1>2. CASE Load!Request
  <2>1. pc = "request" /\ policy = "none" /\ UNCHANGED guard /\ said' \in Statuses
    BY <1>2 DEF Load!Request
  <2>2. CASE said' \in Load!RedirectStatuses
    <3>1. Load!Redirect
      BY <1>2, <2>2 DEF Load!Request
    <3> QED BY <2>1, <3>1 DEF Load!Redirect, Load!Go
  <2>3. CASE said' \notin Load!RedirectStatuses
    <3>1. Load!Answer(said')
      BY <1>2, <2>3 DEF Load!Request
    <3>2. said' # 0
      BY <2>1 DEF Statuses
    <3> QED BY <1>0, <2>1, <2>3, <3>1, <3>2 DEF Load!Answer
  <2> QED BY <2>2, <2>3
<1>3. CASE Load!Fail
  BY <1>3 DEF Load!Fail
<1>4. CASE Load!Chunk
  <2>1. /\ pc = "read" /\ said = 200 /\ policy = "none" /\ UNCHANGED <<guard, file, vetted, said>>
        /\ raw' \in raw + 1..Len(file) /\ raw \in Nat
    BY <1>4 DEF Load!Chunk
  <2>2. raw' \in Nat
    BY <2>1
  <2>3. CASE raw' > MaxBytes
    <3>1. Load!Decode(MaxBytes)
      BY <1>4, <2>3 DEF Load!Chunk
    <3> QED BY <2>1, <2>2, <2>3, <3>1, DecodeStep
  <2>4. CASE ~(raw' > MaxBytes)
    <3>1. UNCHANGED <<pc, policy>>
      BY <1>4, <2>4 DEF Load!Chunk
    <3> QED BY <1>0, <2>1, <2>2, <2>4, <3>1
  <2> QED BY <2>3, <2>4
<1>5. CASE Load!EndOfFile
  <2>1. /\ Load!Decode(raw) /\ said = 200 /\ UNCHANGED <<guard, file, raw, vetted, said>>
        /\ raw \in Nat /\ raw <= MaxBytes /\ raw' = raw /\ raw = Len(file)
    BY <1>5 DEF Load!EndOfFile
  <2>2. raw = IF raw' > MaxBytes THEN MaxBytes ELSE raw'
    BY <1>0, <2>1
  <2> QED BY <2>1, <2>2, DecodeStep
<1>6. CASE Load!Stutter \/ UNCHANGED loadVars
  <2>1. UNCHANGED loadVars
    BY <1>6 DEF Load!Stutter, Load!vars, loadVars
  <2>2. Whole' = Whole
    BY <2>1 DEF loadVars, Whole, Load!Decodes
  <2> QED BY <2>1, <2>2 DEF loadVars
<1> QED
  BY <1>1, <1>2, <1>3, <1>4, <1>5, <1>6 DEF Load!Next, Load!Step

-----------------------------------------------------------------------------
(***************************************************************************)
(* Submission: what was checked at the door is still so at the worker.     *)
(***************************************************************************)

Runnable == door = "api" /\ input \in Service!Bodies /\ Service!Fields(input)

SubmissionInv ==
  /\ door = "api" => input \in Service!Bodies
  /\ dns \in Service!Answers
  /\ stage \in {"received", "valid", "vetted", "queued", "claimed", "fetched", "failed",
                "refused", "started"}
  /\ stage \in {"received", "valid", "vetted"} => row = Service!NoRow /\ status = 0
  /\ stage \in {"valid", "vetted", "queued", "claimed", "fetched", "failed"} => Runnable
  /\ stage \in {"queued", "claimed", "fetched", "failed"} =>
       row = Service!Stored /\ status \in {202, 500}
  /\ stage \in {"refused", "started"} => row = Service!NoRow /\ status # 202
  /\ Service!FetchedIsPublic

LEMMA RowIsThere == Service!Stored # Service!NoRow
<1>1. Service!Stored.stored = TRUE /\ Service!NoRow.stored = FALSE
  BY DEF Service!Stored, Service!NoRow
<1> QED BY <1>1

LEMMA SubmissionInvIsKept ==
  ASSUME SubmissionInv
  PROVE  Service!AcceptanceIsKept /\ Service!FetchedIsPublic
BY RowIsThere
   DEF SubmissionInv, Service!AcceptanceIsKept, Service!AcceptedIsRunnable,
       Service!StatusTellsRow

\* A row that was accepted builds, although the two ends have checks of their own.
LEMMA StoredBuilds ==
  ASSUME Runnable
  PROVE  Service!Builds(Service!ConfigOf(Service!Stored))
<1> DEFINE config == Service!ConfigOf(Service!Stored)
<1>1. /\ config.concurrency = input.concurrency /\ config.timeout = input.timeout
      /\ config.max_pages = input.max_pages /\ config.max_bytes = input.max_bytes
      /\ config.request_budget = RequestBudget
  BY DEF Service!ConfigOf, Service!Stored
<1> HIDE DEF config
<1>2. /\ input.concurrency \in Nat /\ input.concurrency >= 1
      /\ input.timeout \in Nat /\ input.timeout > 0 /\ input.timeout <= RequestBudget
      /\ input.max_bytes \in Nat /\ input.max_bytes >= 1
      /\ input.max_pages = NoLimit \/ input.max_pages >= 1
      /\ input.max_pages \in {NoLimit, 0, 1}
  BY LimitsAssumption DEF Runnable, Service!Bodies, Service!Fields, Service!Around
<1>3. NaN \notin Int /\ NoLimit \notin Int /\ RequestBudget \in Nat /\ RequestBudget > 0
  BY LimitsAssumption, NoNumbers
<1>4. ~(config.max_pages # NoLimit /\ config.max_pages < 1)
  <2>1. CASE input.max_pages = NoLimit
    BY <1>1, <2>1
  <2>2. CASE input.max_pages \in {0, 1}
    BY <1>1, <1>2, <1>3, <2>2
  <2> QED BY <1>2, <2>1, <2>2
<1>5. ~(config.concurrency < 1) /\ ~(config.max_bytes < 1)
  BY <1>1, <1>2
<1>6. ~Service!AtMost(config.timeout, 0) /\ ~Service!AtMost(config.request_budget, 0)
  BY <1>1, <1>2, <1>3 DEF Service!AtMost
<1>7. ~Service!Less(config.request_budget, config.timeout)
  BY <1>1, <1>2, <1>3 DEF Service!Less
<1> QED BY <1>4, <1>5, <1>6, <1>7 DEF Service!Builds, config

LEMMA SubmissionInit ==
  ASSUME Service!Init
  PROVE  SubmissionInv
BY DEF Service!Init, SubmissionInv, Service!Answers, Service!FetchedIsPublic

LEMMA SubmissionNext ==
  ASSUME SubmissionInv, Service!Next \/ UNCHANGED submissionVars
  PROVE  SubmissionInv'
<1>1. CASE Service!ParseFlags
  BY <1>1 DEF Service!ParseFlags, SubmissionInv, Runnable, Service!FetchedIsPublic
<1>2. CASE Service!Validate
  BY <1>2
     DEF Service!Validate, Service!Respond, SubmissionInv, Runnable, Service!Fields,
         Service!Bodies, Service!FetchedIsPublic
<1>3. CASE Service!Guard
  <2>1. /\ stage = "valid" /\ UNCHANGED <<door, input, dns, row>>
        /\ \/ stage' = "vetted" /\ UNCHANGED status
           \/ stage' = "refused" /\ status' \in {422, 500}
    BY <1>3 DEF Service!Guard, Service!Respond
  <2> QED
    BY <2>1
       DEF SubmissionInv, Runnable, Service!Fields, Service!Bodies, Service!FetchedIsPublic
<1>4. CASE Service!Create \/ Service!CreateFails
  <2>1. /\ stage = "vetted" /\ UNCHANGED <<door, input, dns>>
        /\ \/ row' = Service!Stored /\ stage' = "queued" /\ status' \in {202, 500}
           \/ UNCHANGED row /\ stage' = "refused" /\ status' = 500
    BY <1>4 DEF Service!Create, Service!CreateFails
  <2>2. UNCHANGED Service!Stored
    BY <2>1 DEF Service!Stored
  <2> QED
    BY <2>1, <2>2
       DEF SubmissionInv, Runnable, Service!Fields, Service!Bodies, Service!FetchedIsPublic
<1>5. CASE Service!Rebind
  <2>1. UNCHANGED Service!Stored
    BY <1>5 DEF Service!Rebind, Service!Stored
  <2> QED
    BY <1>5, <2>1
       DEF Service!Rebind, Service!Answers, SubmissionInv, Runnable, Service!Fields,
           Service!Bodies, Service!FetchedIsPublic
<1>6. CASE Service!Claim
  <2>1. Service!Builds(Service!ConfigOf(row))
    BY <1>6, StoredBuilds DEF Service!Claim, SubmissionInv
  <2>2. stage = "queued" /\ stage' = "claimed" /\ UNCHANGED <<door, input, dns, status, row>>
    BY <1>6, <2>1 DEF Service!Claim
  <2>3. UNCHANGED Service!Stored
    BY <2>2 DEF Service!Stored
  <2> QED
    BY <2>2, <2>3
       DEF SubmissionInv, Runnable, Service!Fields, Service!Bodies, Service!FetchedIsPublic
<1>7. CASE Service!FetchSeed
  <2>1. /\ stage = "claimed" /\ UNCHANGED <<door, input, dns, status, row>>
        /\ \/ stage' = "failed"
           \/ stage' = "fetched" /\ Service!PrivateHostReason(input.host) = "none"
    <3>1. seen' = [by |-> "worker", reason |-> Service!PrivateHostReason(input.host)]
      BY <1>7 DEF Service!FetchSeed, Service!Ask
    <3>2. seen'.reason = Service!PrivateHostReason(input.host)
      BY <3>1
    <3> QED BY <1>7, <3>2 DEF Service!FetchSeed
  <2>2. UNCHANGED Service!Stored
    BY <2>1 DEF Service!Stored
  <2>3. input.host \in Service!Hosts /\ dns \in Service!Answers
    BY <2>1 DEF SubmissionInv, Runnable, Service!Bodies
  <2>4. Service!PrivateHostReason(input.host) = "none" =>
          /\ input.host \in {"public_literal", "name"}
          /\ input.host = "name" => Service!Resolved(dns) = "none"
    BY <2>3 DEF Service!PrivateHostReason, Service!Hosts
  <2>5. Service!Resolved(dns) = "none" => dns = {"public"}
    BY <2>3 DEF Service!Resolved, Service!Answers, Service!Addresses
  <2>6. Service!FetchedIsPublic'
    BY <2>1, <2>4, <2>5 DEF Service!FetchedIsPublic
  <2> QED
    BY <2>1, <2>2, <2>6 DEF SubmissionInv, Runnable, Service!Fields, Service!Bodies
<1>8. CASE Service!Over \/ UNCHANGED submissionVars
  <2>1. UNCHANGED submissionVars
    BY <1>8 DEF Service!Over, Service!vars, submissionVars
  <2>2. UNCHANGED Service!Stored
    BY <2>1 DEF Service!Stored, submissionVars
  <2> QED
    BY <2>1, <2>2
       DEF submissionVars, SubmissionInv, Runnable, Service!Fields, Service!Bodies,
           Service!FetchedIsPublic
<1> QED
  BY <1>1, <1>2, <1>3, <1>4, <1>5, <1>6, <1>7, <1>8 DEF Service!Next

-----------------------------------------------------------------------------
(***************************************************************************)
(* Cli: what a run has printed and what it is about to exit with.          *)
(***************************************************************************)

Outcomes == {"none", "finished", "aborted", "seed_invalid", "seed_refused", "error",
             "broken_pipe", "cancelled"}

\* The crawl has ended or is about to, and main() gets to know.
After == {"progress", "close", "finish", "summary"}

CliTypeOK ==
  /\ args \in CommandLine!Args
  /\ main \in [stage : After \cup {"start", "await", "exited"}, code : Nat]
  /\ crawl \in [pages : Nat, outcome : Outcomes, done : BOOLEAN]
  /\ progress \in {"off", "running", "dead", "over"}
  /\ stdout \in {"open", "closed", "full", "null"}
  /\ stderr \in {"open", "gone"}
  /\ printed \in BOOLEAN
  /\ signals \in Nat

\* A signal, the end of the tasks and every later stage of main() come with an outcome.
Ended ==
  /\ crawl.done \/ signals > 0 \/ main.stage \in After => crawl.outcome # "none"
  /\ main.stage = "start" => crawl.outcome = "none"
  /\ progress = "dead" => stderr = "gone"

Summed ==
  /\ args.format = "jsonl"
  /\ main.stage = "summary" \/ (main.stage = "exited" /\ crawl.outcome # "none")

\* A stdout that is still open has got everything, in order.
Printed ==
  stdout = "open" =>
    out = IF Summed THEN Append(CommandLine!PagesOf(crawl.pages), "summary")
                    ELSE CommandLine!PagesOf(crawl.pages)

\* Something is wrong with the streams that the exit code reports instead.
Broken == stderr = "gone" \/ (main.stage = "exited" /\ stdout = "full")

Told ==
  crawl.outcome # "none" /\ ~Broken =>
    /\ main.stage = "exited" => printed
    /\ main.stage \in After \cup {"exited"} =>
         \/ main.code = CommandLine!Documented[crawl.outcome]
         \/ main.code = 130 /\ ~args.handlers /\ signals > 0

CliInv == CliTypeOK /\ Ended /\ Printed /\ Told

LEMMA PagesGrow ==
  ASSUME NEW n \in Nat
  PROVE  /\ CommandLine!PagesOf(0) = <<>>
         /\ Append(CommandLine!PagesOf(n), "page") = CommandLine!PagesOf(n + 1)
         /\ CommandLine!PagesOf(n) \o <<>> = CommandLine!PagesOf(n)
         /\ CommandLine!PagesOf(n) \o <<"summary">> = Append(CommandLine!PagesOf(n), "summary")
<1> DEFINE p == CommandLine!PagesOf(n)
<1>1. p \in Seq({"page", "summary"}) /\ Len(p) = n
  BY DEF CommandLine!PagesOf
<1>2. CommandLine!PagesOf(0) = <<>>
  BY DEF CommandLine!PagesOf
<1>3. Append(p, "page") = CommandLine!PagesOf(n + 1)
  BY DEF CommandLine!PagesOf
<1> HIDE DEF p
<1>4. p \o <<>> = p
  BY <1>1
<1>5. p \o <<"summary">> = Append(p, "summary")
  BY <1>1
<1> QED BY <1>2, <1>3, <1>4, <1>5 DEF p

LEMMA CliInvReports ==
  ASSUME CliInv
  PROVE  CommandLine!RunIsReported
<1>1. CommandLine!OutputIsWhole
  <2> SUFFICES ASSUME CommandLine!Ran, stdout = "open"
               PROVE  out = CommandLine!PagesOf(crawl.pages)
                              \o (IF args.format = "jsonl" THEN <<"summary">> ELSE <<>>)
    BY DEF CommandLine!OutputIsWhole
  <2>1. crawl.pages \in Nat
    BY DEF CliInv, CliTypeOK
  <2> QED BY <2>1, PagesGrow DEF CliInv, Printed, Summed, CommandLine!Ran
<1>2. CommandLine!SummaryIsPrinted /\ CommandLine!CodeTellsOutcome
  BY DEF CliInv, CliTypeOK, Told, Broken, CommandLine!SummaryIsPrinted,
         CommandLine!CodeTellsOutcome, CommandLine!Ran
<1> QED BY <1>1, <1>2 DEF CommandLine!RunIsReported

LEMMA CliInit ==
  ASSUME CommandLine!Init
  PROVE  CliInv
<1>1. /\ main = [stage |-> "start", code |-> 0]
      /\ crawl = [pages |-> 0, outcome |-> "none", done |-> FALSE]
      /\ out = <<>> /\ signals = 0 /\ progress = "off"
  BY DEF CommandLine!Init, CommandLine!EXIT_OK
<1>2. /\ main.stage = "start" /\ crawl.outcome = "none" /\ crawl.pages = 0
      /\ crawl.done = FALSE
  BY <1>1
<1>3. CliTypeOK
  <2>1. main \in [stage : After \cup {"start", "await", "exited"}, code : Nat]
    BY <1>1
  <2>2. crawl \in [pages : Nat, outcome : Outcomes, done : BOOLEAN]
    BY <1>1 DEF Outcomes
  <2> QED BY <2>1, <2>2 DEF CommandLine!Init, CliTypeOK
<1>4. Ended /\ Printed /\ Told
  BY <1>1, <1>2, PagesGrow DEF Ended, After, Printed, Summed, Told
<1> QED BY <1>3, <1>4 DEF CliInv

LEMMA CliFields ==
  ASSUME CliTypeOK
  PROVE  /\ main.stage \in After \cup {"start", "await", "exited"} /\ main.code \in Nat
         /\ crawl.pages \in Nat /\ crawl.outcome \in Outcomes /\ crawl.done \in BOOLEAN
         /\ args.format \in {"text", "jsonl"} /\ args.handlers \in BOOLEAN
BY DEF CliTypeOK, CommandLine!Args

\* The streams fail.
LEMMA StreamsStep ==
  ASSUME CliInv, CommandLine!StdoutFails \/ CommandLine!StderrFails
  PROVE  CliInv'
<1>1. /\ UNCHANGED <<args, main, crawl, progress, out, printed, signals>>
      /\ main.stage # "exited"
      /\ stdout' \in {"open", "closed", "full", "null"}
      /\ stdout' = "open" => stdout = "open"
      /\ stderr' \in {"open", "gone"} /\ (stderr = "gone" => stderr' = "gone")
  BY DEF CliInv, CliTypeOK, CommandLine!StdoutFails, CommandLine!StderrFails
<1> QED
  BY <1>1 DEF CliInv, CliTypeOK, Ended, Printed, Summed, CommandLine!PagesOf, Told, Broken

\* What a step makes of the crawl, while main() waits for it or for less.
LEMMA CrawlStep ==
  ASSUME CliInv, CommandLine!Looping,
         crawl' \in [pages : Nat, outcome : Outcomes, done : BOOLEAN],
         crawl'.pages = crawl.pages, crawl'.outcome # "none",
         crawl.outcome \in {"none", crawl'.outcome},
         signals' \in Nat, signals <= signals',
         UNCHANGED <<args, main, progress, stdout, stderr, out, printed>>
  PROVE  CliInv'
<1>1. main.stage \in {"await", "progress", "close"}
  BY DEF CommandLine!Looping
<1>3. CliTypeOK'
  BY DEF CliInv, CliTypeOK
<1>4. Ended'
  BY <1>1 DEF CliInv, Ended
<1>5. Printed'
  BY <1>1 DEF CliInv, Printed, Summed, CommandLine!PagesOf
<1>6. Told'
  <2>1. CASE main.stage = "await"
    BY <2>1 DEF Told, After
  <2>2. CASE main.stage \in {"progress", "close"}
    <3>1. crawl'.outcome = crawl.outcome
      BY <2>2 DEF CliInv, Ended, After
    <3>2. signals > 0 => signals' > 0
      BY DEF CliInv, CliTypeOK
    <3> QED BY <2>2, <3>1, <3>2
            DEF CliInv, Told, Broken, CommandLine!Documented
  <2> QED BY <1>1, <2>1, <2>2
<1> QED BY <1>3, <1>4, <1>5, <1>6 DEF CliInv

LEMMA PageStep ==
  ASSUME CliInv, CommandLine!Page
  PROVE  CliInv'
<1>1. PICK outcome : outcome = CommandLine!Written
  OBVIOUS
<1>2. PICK n : n = crawl.pages + 1
  OBVIOUS
<1>3. /\ crawl' = [crawl EXCEPT !.pages = n, !.outcome = outcome]
      /\ out' = IF stdout = "open" THEN Append(out, "page") ELSE out
      /\ UNCHANGED <<args, main, progress, stdout, stderr, printed, signals>>
      /\ main.stage \in {"await", "progress", "close"} /\ crawl.outcome = "none"
  BY <1>1, <1>2 DEF CliInv, CliTypeOK, CommandLine!Page, CommandLine!Crawling,
                    CommandLine!Looping
<1>4. outcome \in {"none", "broken_pipe", "error"}
  BY <1>1 DEF CommandLine!Written
<1>5. n \in Nat /\ crawl.pages \in Nat
  BY <1>2, CliFields DEF CliInv
<1>6. crawl'.pages = n /\ crawl'.outcome = outcome /\ crawl'.done = crawl.done
  BY <1>3 DEF CliInv, CliTypeOK
<1>7. main.stage = "await" /\ signals = 0 /\ ~crawl.done
  BY <1>3 DEF CliInv, CliTypeOK, Ended, After
<1>8. CliTypeOK'
  BY <1>3, <1>4, <1>5 DEF CliInv, CliTypeOK, Outcomes
<1>9. Ended' /\ Told'
  BY <1>3, <1>6, <1>7 DEF CliInv, Ended, Told, After
<1>10. Printed'
  <2>1. stdout = "open" => out = CommandLine!PagesOf(crawl.pages)
    BY <1>7 DEF CliInv, Printed, Summed
  <2>2. Append(CommandLine!PagesOf(crawl.pages), "page") = CommandLine!PagesOf(n)
    BY <1>2, <1>5, PagesGrow
  <2>3. stdout' = "open" => out' = CommandLine!PagesOf(n)
    BY <1>3, <2>1, <2>2
  <2>4. CommandLine!PagesOf(crawl.pages)' = CommandLine!PagesOf(n)
    BY <1>6 DEF CommandLine!PagesOf
  <2> QED BY <1>3, <1>7, <2>3, <2>4 DEF Printed, Summed
<1> QED BY <1>8, <1>9, <1>10 DEF CliInv

\* main() goes on to its next stage, with the crawl as it is.
LEMMA StageStep ==
  ASSUME CliInv, NEW next, NEW value \in Nat,
         next \in {"progress", "close", "finish"},
         main.stage \notin {"summary", "exited"}, crawl.outcome # "none",
         main' = [stage |-> next, code |-> value],
         stderr = "open" =>
           \/ value = CommandLine!Documented[crawl.outcome]
           \/ value = 130 /\ ~args.handlers /\ signals' > 0,
         progress' \in {progress, "over"}, stdout' \in {stdout, "null"},
         signals' \in Nat,
         UNCHANGED <<args, crawl, stderr, out, printed>>
  PROVE  CliInv'
<1>1. main'.stage = next /\ main'.code = value
  OBVIOUS
<1>2. CliTypeOK'
  BY DEF CliInv, CliTypeOK, After
<1>3. Ended'
  BY <1>1 DEF CliInv, CliTypeOK, Ended, After
<1>4. Printed'
  <2>1. stdout' = "open" => out = CommandLine!PagesOf(crawl.pages)
    BY DEF CliInv, Printed, Summed
  <2>2. UNCHANGED CommandLine!PagesOf(crawl.pages)
    BY DEF CommandLine!PagesOf
  <2> QED BY <1>1, <2>1, <2>2 DEF Printed, Summed
<1>5. Told'
  <2>1. PICK d : d = CommandLine!Documented[crawl.outcome]
    OBVIOUS
  <2>2. CommandLine!Documented[crawl.outcome]' = d
    BY <2>1 DEF CommandLine!Documented
  <2> QED BY <1>1, <2>1, <2>2 DEF CliInv, CliTypeOK, Told, Broken
<1> QED BY <1>2, <1>3, <1>4, <1>5 DEF CliInv

LEMMA InterruptedCodes ==
  /\ CommandLine!InterruptedCode \in Nat
  /\ stderr = "open" => CommandLine!InterruptedCode = 130
BY DEF CommandLine!InterruptedCode, CommandLine!EXIT_INTERNAL, CommandLine!EXIT_INTERRUPTED

LEMMA StartStep ==
  ASSUME CliInv, CommandLine!Start
  PROVE  CliInv'
<1>1. /\ UNCHANGED <<args, crawl, stdout, stderr, out, printed, signals>>
      /\ main.stage = "start" /\ progress' \in {progress, "running", "off"}
      /\ \E next \in {"await", "exited"}, value \in Nat : main' = [stage |-> next, code |-> value]
  <2>1. main.code \in Nat /\ main = [stage |-> main.stage, code |-> main.code]
    BY DEF CliInv, CliTypeOK
  <2> QED
    BY <2>1 DEF CommandLine!Start, CommandLine!Exit, CommandLine!EXIT_USAGE,
                CommandLine!EXIT_INTERNAL
<1>2. PICK next \in {"await", "exited"}, value \in Nat : main' = [stage |-> next, code |-> value]
  BY <1>1
<1>3. main'.stage = next /\ main'.code = value
  BY <1>2
<1>4. CliTypeOK' /\ Ended'
  BY <1>1, <1>2, <1>3 DEF CliInv, CliTypeOK, Ended, After
<1>5. crawl.outcome = "none"
  BY <1>1 DEF CliInv, Ended
<1>6. Printed' /\ Told'
  BY <1>1, <1>3, <1>5
     DEF CliInv, Printed, Summed, CommandLine!PagesOf, Told, After
<1> QED BY <1>4, <1>6 DEF CliInv

LEMMA AwaitCrawlStep ==
  ASSUME CliInv, CommandLine!AwaitCrawl
  PROVE  CliInv'
<1>1. PICK value : value = CommandLine!CodeOf(crawl.outcome)
  OBVIOUS
<1>2. /\ main.stage = "await" /\ crawl.outcome # "none" /\ crawl.outcome \in Outcomes
      /\ main' = [stage |-> CommandLine!AfterCrawl, code |-> value]
      /\ UNCHANGED <<args, crawl, progress, stdout, stderr, out, printed, signals>>
      /\ signals \in Nat
  BY <1>1, CliFields DEF CommandLine!AwaitCrawl, CliInv, CliTypeOK, Ended
<1>3. CommandLine!AfterCrawl \in {"progress", "close", "finish"}
  BY DEF CommandLine!AfterCrawl
<1>4. value \in Nat /\ (stderr = "open" => value = CommandLine!Documented[crawl.outcome])
  BY <1>1, <1>2, InterruptedCodes
     DEF CommandLine!CodeOf, CommandLine!Documented, Outcomes, CommandLine!EXIT_OK,
         CommandLine!EXIT_INTERNAL, CommandLine!EXIT_USAGE, CommandLine!EXIT_SEED,
         CommandLine!EXIT_ABORTED
<1> QED BY <1>2, <1>3, <1>4, StageStep

LEMMA AwaitProgressStep ==
  ASSUME CliInv, CommandLine!AwaitProgress
  PROVE  CliInv'
<1>1. PICK value : value = CommandLine!ProgressCode
  OBVIOUS
<1>2. /\ main.stage = "progress" /\ crawl.outcome # "none" /\ main.code \in Nat
      /\ main' = [stage |-> "close", code |-> value]
      /\ progress' = "over"
      /\ UNCHANGED <<args, crawl, stdout, stderr, out, printed, signals>>
      /\ signals \in Nat
  BY <1>1, CliFields DEF CommandLine!AwaitProgress, CliInv, CliTypeOK, Ended, After
<1>3. value \in Nat /\ (stderr = "open" => value = main.code)
  BY <1>1, <1>2 DEF CommandLine!ProgressCode, CommandLine!EXIT_INTERNAL, CliInv, Ended
<1>4. stderr = "open" =>
        \/ main.code = CommandLine!Documented[crawl.outcome]
        \/ main.code = 130 /\ ~args.handlers /\ signals > 0
  BY <1>2 DEF CliInv, Told, Broken, After
<1> QED BY <1>2, <1>3, <1>4, StageStep

LEMMA CloseStep ==
  ASSUME CliInv, CommandLine!Close
  PROVE  CliInv'
<1>1. PICK value : value = main.code
  OBVIOUS
<1>2. /\ main.stage = "close" /\ crawl.outcome # "none" /\ value \in Nat
      /\ main' = [stage |-> "finish", code |-> value]
      /\ stdout' \in {stdout, "null"}
      /\ UNCHANGED <<args, crawl, progress, stderr, out, printed, signals>>
      /\ signals \in Nat
  BY <1>1 DEF CommandLine!Close, CommandLine!Discarded, CliInv, CliTypeOK, Ended, After
<1>3. stderr = "open" =>
        \/ main.code = CommandLine!Documented[crawl.outcome]
        \/ main.code = 130 /\ ~args.handlers /\ signals > 0
  BY <1>2 DEF CliInv, Told, Broken, After
<1> QED BY <1>1, <1>2, <1>3, StageStep

LEMMA FinishStep ==
  ASSUME CliInv, CommandLine!Finish
  PROVE  CliInv'
<1>1. PICK value : value = main.code
  OBVIOUS
<1>2. /\ main.stage = "finish" /\ crawl.outcome # "none" /\ value \in Nat
      /\ UNCHANGED <<args, crawl, progress, stderr, printed, signals>>
      /\ \/ /\ args.format = "jsonl" /\ stdout = "full" /\ UNCHANGED <<stdout, out>>
            /\ main' = [stage |-> "exited", code |-> 1]
         \/ /\ main' = [stage |-> "summary", code |-> value]
            /\ stdout' \in {stdout, "null"}
            /\ out' = IF args.format = "jsonl" /\ stdout = "open" THEN Append(out, "summary")
                                                                  ELSE out
  BY <1>1
     DEF CommandLine!Finish, CommandLine!AfterFinish, CommandLine!WritesSummary,
         CommandLine!EXIT_INTERNAL, CliInv, CliTypeOK, Ended, After
<1>3. /\ main'.stage = "exited" => stdout' = "full"
      /\ main'.stage = "summary" => main'.code = main.code
      /\ main'.stage \in {"summary", "exited"}
  BY <1>1, <1>2
<1>4. CliTypeOK' /\ Ended'
  BY <1>2, <1>3 DEF CliInv, CliTypeOK, Ended, After
<1>5. Printed'
  <2>1. stdout = "open" => out = CommandLine!PagesOf(crawl.pages)
    BY <1>2 DEF CliInv, Printed, Summed
  <2>2. UNCHANGED CommandLine!PagesOf(crawl.pages)
    BY <1>2 DEF CommandLine!PagesOf
  <2>3. CASE main'.stage = "exited"
    BY <1>3, <2>3 DEF Printed
  <2>4. CASE main'.stage = "summary"
    <3>1. Summed' <=> args.format = "jsonl"
      BY <1>2, <2>4 DEF Summed
    <3> QED BY <1>2, <2>1, <2>2, <2>4, <3>1 DEF Printed
  <2> QED BY <1>3, <2>3, <2>4
<1>6. Told'
  BY <1>2, <1>3 DEF CliInv, Told, Broken, After, CommandLine!Documented
<1> QED BY <1>4, <1>5, <1>6 DEF CliInv

LEMMA PrintSummaryStep ==
  ASSUME CliInv, CommandLine!PrintSummary
  PROVE  CliInv'
<1>1. PICK value : value = IF stderr = "gone" THEN 1 ELSE main.code
  OBVIOUS
<1>2. /\ main.stage = "summary" /\ crawl.outcome # "none"
      /\ main' = [stage |-> "exited", code |-> value] /\ printed' = (stderr = "open")
      /\ UNCHANGED <<args, crawl, progress, stdout, stderr, out, signals>>
      /\ main.code \in Nat
  BY <1>1 DEF CommandLine!PrintSummary, CommandLine!Exit, CommandLine!EXIT_INTERNAL, CliInv,
              CliTypeOK, Ended, After
<1>3. main'.stage = "exited" /\ main'.code = value /\ value \in Nat
  BY <1>1, <1>2
<1>4. CliTypeOK' /\ Ended'
  BY <1>2, <1>3 DEF CliInv, CliTypeOK, Ended, After
<1>5. Printed'
  <2>1. UNCHANGED CommandLine!PagesOf(crawl.pages)
    BY <1>2 DEF CommandLine!PagesOf
  <2> QED BY <1>2, <1>3, <2>1 DEF CliInv, Printed, Summed
<1>6. Told'
  <2>1. stderr = "open" => value = main.code
    BY <1>1
  <2>2. PICK d : d = CommandLine!Documented[crawl.outcome]
    OBVIOUS
  <2>3. CommandLine!Documented[crawl.outcome]' = d
    BY <1>2, <2>2 DEF CommandLine!Documented
  <2>4. stderr = "open" => value = d \/ (value = 130 /\ ~args.handlers /\ signals > 0)
    BY <1>2, <2>1, <2>2 DEF CliInv, Told, Broken, After
  <2>5. stderr = "open" => printed'
    BY <1>2
  <2> QED BY <1>2, <1>3, <2>3, <2>4, <2>5 DEF CliInv, CliTypeOK, Told, Broken
<1> QED BY <1>4, <1>5, <1>6 DEF CliInv

LEMMA CancelledCrawl ==
  /\ CommandLine!Cancelled = [crawl EXCEPT !.outcome =
       IF crawl.outcome = "none" THEN "cancelled" ELSE crawl.outcome]
BY DEF CommandLine!Cancelled

\* A signal cancels the crawl, whoever takes it.
LEMMA CancelStep ==
  ASSUME CliInv, CommandLine!Looping, crawl' = CommandLine!Cancelled, signals' = signals + 1,
         UNCHANGED <<args, main, progress, stdout, stderr, out, printed>>
  PROVE  CliInv'
<1>1. PICK outcome : outcome = IF crawl.outcome = "none" THEN "cancelled" ELSE crawl.outcome
  OBVIOUS
<1>2. crawl \in [pages : Nat, outcome : Outcomes, done : BOOLEAN] /\ signals \in Nat
  BY DEF CliInv, CliTypeOK
<1>3. outcome \in Outcomes \ {"none"} /\ crawl.outcome \in {"none", outcome}
  BY <1>1, <1>2 DEF Outcomes
<1>4. crawl' = [crawl EXCEPT !.outcome = outcome]
  BY <1>1, CancelledCrawl
<1>5. /\ crawl' \in [pages : Nat, outcome : Outcomes, done : BOOLEAN]
      /\ crawl'.pages = crawl.pages /\ crawl'.outcome = outcome
  BY <1>2, <1>3, <1>4
<1>6. signals' \in Nat /\ signals <= signals'
  BY <1>2
<1> QED BY <1>3, <1>5, <1>6, CrawlStep

LEMMA KeyboardInterruptStep ==
  ASSUME CliInv, CommandLine!KeyboardInterrupt
  PROVE  CliInv'
<1>0. /\ ~args.handlers /\ CommandLine!Looping /\ signals' = signals + 1 /\ signals \in Nat
      /\ UNCHANGED <<args, progress, stdout, stderr, out, printed>>
      /\ main.stage \in {"await", "progress", "close"}
      /\ crawl.outcome \in Outcomes
  BY CliFields DEF CommandLine!KeyboardInterrupt, CommandLine!Looping, CliInv, CliTypeOK
<1>1. CASE crawl' = CommandLine!Cancelled /\ UNCHANGED main
  BY <1>0, <1>1, CancelStep
<1>2. CASE /\ main.stage = "await" /\ crawl.done /\ UNCHANGED crawl
           /\ main' = [stage |-> CommandLine!AfterCrawl, code |-> CommandLine!InterruptedCode]
  <2>1. CommandLine!AfterCrawl \in {"progress", "close", "finish"}
    BY DEF CommandLine!AfterCrawl
  <2>2. PICK value : value = CommandLine!InterruptedCode
    OBVIOUS
  <2>3. crawl.outcome # "none" /\ signals' > 0 /\ signals' \in Nat
    BY <1>0, <1>2 DEF CliInv, Ended
  <2> QED BY <1>0, <1>2, <2>1, <2>2, <2>3, InterruptedCodes, StageStep
<1>3. CASE main.stage = "progress" /\ UNCHANGED <<main, crawl>>
  <2>1. crawl.outcome # "none"
    BY <1>3 DEF CliInv, Ended, After
  <2>2. crawl' = CommandLine!Cancelled
    BY <1>3, <2>1, CancelledCrawl DEF CliInv, CliTypeOK
  <2> QED BY <1>0, <1>3, <2>2, CancelStep
<1>4. CASE /\ signals > 0 \/ main.stage = "close"
           /\ main' = [stage |-> "finish", code |-> CommandLine!EXIT_INTERRUPTED]
           /\ UNCHANGED crawl
  <2>1. crawl.outcome # "none" /\ signals' > 0 /\ signals' \in Nat
    BY <1>0, <1>4 DEF CliInv, Ended, After
  <2>2. CommandLine!EXIT_INTERRUPTED = 130
    BY DEF CommandLine!EXIT_INTERRUPTED
  <2> QED BY <1>0, <1>4, <2>1, <2>2, StageStep
<1> QED BY <1>1, <1>2, <1>3, <1>4 DEF CommandLine!KeyboardInterrupt

LEMMA CliNext ==
  ASSUME CliInv, CommandLine!Next \/ UNCHANGED cliVars
  PROVE  CliInv'
<1>1. CASE CommandLine!CrawlEnds
  <2>1. PICK outcome \in {"finished", "aborted", "seed_invalid", "seed_refused", "error"} :
          crawl' = [crawl EXCEPT !.outcome = outcome, !.done = TRUE]
    BY <1>1 DEF CommandLine!CrawlEnds
  <2>2. outcome \in Outcomes \ {"none"}
    BY DEF Outcomes
  <2>3. /\ CommandLine!Looping /\ crawl.outcome = "none" /\ signals \in Nat
        /\ UNCHANGED <<args, main, progress, stdout, stderr, out, printed, signals>>
    BY <1>1 DEF CommandLine!CrawlEnds, CommandLine!Crawling, CliInv, CliTypeOK
  <2>4. /\ crawl' \in [pages : Nat, outcome : Outcomes, done : BOOLEAN]
        /\ crawl'.pages = crawl.pages /\ crawl'.outcome = outcome
    BY <2>1, <2>2 DEF CliInv, CliTypeOK
  <2> QED BY <2>2, <2>3, <2>4, CrawlStep
<1>2. CASE CommandLine!Settle
  <2>1. /\ CommandLine!Looping /\ crawl.outcome # "none" /\ signals \in Nat
        /\ crawl.outcome \in Outcomes
        /\ crawl' = [crawl EXCEPT !.done = TRUE]
        /\ UNCHANGED <<args, main, progress, stdout, stderr, out, printed, signals>>
    BY <1>2, CliFields DEF CommandLine!Settle, CliInv, CliTypeOK
  <2>2. /\ crawl' \in [pages : Nat, outcome : Outcomes, done : BOOLEAN]
        /\ crawl'.pages = crawl.pages /\ crawl'.outcome = crawl.outcome
    BY <2>1 DEF CliInv, CliTypeOK
  <2> QED BY <2>1, <2>2, CrawlStep
<1>3. CASE CommandLine!Render
  BY <1>3 DEF CommandLine!Render, CliInv, CliTypeOK, Ended, Printed, Summed,
              CommandLine!PagesOf, Told, Broken
<1>4. CASE CommandLine!Signal
  BY <1>4, CancelStep DEF CommandLine!Signal
<1>5. CASE CommandLine!Exited \/ UNCHANGED cliVars
  BY <1>5 DEF CommandLine!Exited, CommandLine!vars, cliVars, CliInv, CliTypeOK, Ended, Printed,
              Summed, CommandLine!PagesOf, Told, Broken
<1> QED
  BY <1>1, <1>2, <1>3, <1>4, <1>5, StreamsStep, PageStep, StartStep, AwaitCrawlStep,
     AwaitProgressStep, CloseStep, FinishStep, PrintSummaryStep, KeyboardInterruptStep
     DEF CommandLine!Next, CommandLine!MainStep

-----------------------------------------------------------------------------
(***************************************************************************)
(* Folds, one element at a time.  The loops of the code are folds in the   *)
(* model, and a fold is a function chosen to satisfy an equation over the  *)
(* subsets of the positions.  The equation has a solution, so the fold has *)
(* values, and they form a run: the state of the loop after each element.  *)
(* What a loop does is then proved by induction along its run, from the    *)
(* least number that a set leaves out.                                     *)
(***************************************************************************)

\* A set of numbers has a least one.
LEMMA NatMin == ASSUME NEW T, T \subseteq Nat, T # {} PROVE \E x \in T : \A y \in T : x <= y
<1>. DEFINE R == OpToRel(<, Nat)
<1>1. IsWellFoundedOn(R, Nat) BY NatLessThanWellFounded
<1>. HIDE DEF R
<1>2. PICK x \in T : \A y \in T : ~ (<<y, x>> \in R) BY <1>1, WFMin
<1>3. \A y \in T : ~(y < x)
  <2>. TAKE y \in T
  <2>1. <<y, x>> \in Nat \X Nat BY <1>2
  <2>2. y < x => <<y, x>> \in R BY <2>1 DEF R, OpToRel
  <2>. QED BY <2>2, <1>2
<1>. QED BY <1>2, <1>3

\* Induction, for a set in place of a formula.
LEMMA NatSetInduction ==
  ASSUME NEW S, 0 \in S, \A n \in Nat : n \in S => n + 1 \in S PROVE Nat \subseteq S
<1>. SUFFICES ASSUME ~(Nat \subseteq S) PROVE FALSE OBVIOUS
<1>. DEFINE T == {n \in Nat : n \notin S}
<1>1. T \subseteq Nat /\ T # {} OBVIOUS
<1>. HIDE DEF T
<1>2. PICK x \in T : \A y \in T : x <= y BY <1>1, NatMin
<1>3. x \in Nat /\ x \notin S BY <1>2 DEF T
<1>4. x # 0 BY <1>3
<1>5. x - 1 \in Nat BY <1>3, <1>4
<1>6. x - 1 \notin S
  <2>1. x - 1 \in S => x - 1 + 1 \in S BY <1>5
  <2>2. x - 1 + 1 = x BY <1>3
  <2>. QED BY <2>1, <2>2, <1>3
<1>7. x - 1 \in T BY <1>5, <1>6 DEF T
<1>. QED BY <1>2, <1>7, <1>3

\* The recursive function behind FoldLeft, for an operator given as a function F.
IsFold(iter, S, base, F, s) ==
  /\ iter \in [SUBSET DOMAIN s -> S]
  /\ \A d \in SUBSET DOMAIN s :
       iter[d] = IF d = {} THEN base ELSE F[<<iter[d \ {Max(d)}], s[Max(d)]>>]

\* What is known of it at first: its values are those of F as far as they are in S.
Descends(iter, S, base, F, s) ==
  /\ iter[{}] = base
  /\ \A d \in SUBSET DOMAIN s : d # {} /\ iter[d \ {Max(d)}] \in S
       => iter[d] = F[<<iter[d \ {Max(d)}], s[Max(d)]>>]

\* Its values, one element of the sequence at a time.
IsRun(run, iter, S, base, F, s) ==
  /\ run \in [0..Len(s) -> S]
  /\ run[0] = base /\ run[Len(s)] = iter[DOMAIN s]
  /\ \A k \in 1..Len(s) : run[k] = F[<<run[k - 1], s[k]>>]

\* The recursive equation behind a fold has a solution.
LEMMA FoldExists ==
  ASSUME NEW S, NEW T, NEW base \in S, NEW F \in [S \X T -> S], NEW s \in Seq(T)
  PROVE  \E iter : IsFold(iter, S, base, F, s)
<1>. DEFINE Eq(m, iter) ==
              /\ iter \in [SUBSET (1..m) -> S]
              /\ \A d \in SUBSET (1..m) :
                   iter[d] = IF d = {} THEN base ELSE F[<<iter[d \ {Max(d)}], s[Max(d)]>>]
            P == {m \in Nat : m <= Len(s) => \E iter : Eq(m, iter)}
<1>. HIDE DEF Eq
<1>1. 0 \in P
  <2>1. SUBSET (1..0) = {{}} OBVIOUS
  <2>2. Eq(0, [d \in SUBSET (1..0) |-> base]) BY <2>1 DEF Eq
  <2>. QED BY <2>2
<1>2. ASSUME NEW m \in Nat, m \in P PROVE m + 1 \in P
  <2>. SUFFICES ASSUME m + 1 <= Len(s) PROVE \E iter : Eq(m + 1, iter) OBVIOUS
  <2>1. PICK g : Eq(m, g)
    <3>1. m <= Len(s) OBVIOUS
    <3>2. \E g : Eq(m, g) BY <1>2, <3>1
    <3>. QED BY <3>2 DEF Eq
  <2>. USE DEF Eq
  <2>. DEFINE h == [d \in SUBSET (1..m + 1) |->
                     IF m + 1 \in d THEN F[<<g[d \ {m + 1}], s[m + 1]>>] ELSE g[d]]
  <2>2. \A d \in SUBSET (1..m + 1) : d \ {m + 1} \in SUBSET (1..m) OBVIOUS
  <2>3. s[m + 1] \in T OBVIOUS
  <2>4. ASSUME NEW d \in SUBSET (1..m + 1), m + 1 \in d PROVE Max(d) = m + 1
    <3>1. \A x \in d : (\A y \in d : x >= y) => x = m + 1 BY <2>4
    <3>2. \A y \in d : m + 1 >= y OBVIOUS
    <3>. QED BY <3>1, <3>2, <2>4 DEF Max
  <2>5. h \in [SUBSET (1..m + 1) -> S]
    <3>1. ASSUME NEW d \in SUBSET (1..m + 1) PROVE h[d] \in S
      <4>1. CASE m + 1 \in d BY <4>1, <2>2, <2>3, <2>1
      <4>2. CASE m + 1 \notin d
        <5>1. d \in SUBSET (1..m) BY <4>2, <2>2
        <5>. QED BY <5>1, <4>2, <2>1
      <4>. QED BY <4>1, <4>2
    <3>. QED BY <3>1
  <2>6. ASSUME NEW d \in SUBSET (1..m + 1)
        PROVE h[d] = IF d = {} THEN base ELSE F[<<h[d \ {Max(d)}], s[Max(d)]>>]
    <3>1. CASE m + 1 \in d
      <4>1. Max(d) = m + 1 BY <3>1, <2>4
      <4>2. d \ {m + 1} \in SUBSET (1..m + 1) /\ m + 1 \notin d \ {m + 1} OBVIOUS
      <4>3. h[d \ {m + 1}] = g[d \ {m + 1}] BY <4>2
      <4>. QED BY <3>1, <4>1, <4>3
    <3>2. CASE m + 1 \notin d
      <4>1. d \in SUBSET (1..m) BY <3>2, <2>2
      <4>2. d \ {Max(d)} \in SUBSET (1..m + 1) /\ m + 1 \notin d \ {Max(d)} BY <3>2
      <4>3. h[d \ {Max(d)}] = g[d \ {Max(d)}] BY <4>2
      <4>4. h[d] = g[d] BY <3>2
      <4>. QED BY <2>1, <4>1, <4>3, <4>4
    <3>. QED BY <3>1, <3>2
  <2>. HIDE DEF h
  <2>7. Eq(m + 1, h) BY <2>5, <2>6
  <2>. HIDE DEF Eq
  <2>. QED BY <2>7
<1>3. Nat \subseteq P BY <1>1, <1>2, NatSetInduction
<1>4. PICK iter : Eq(Len(s), iter)
  <2>1. Len(s) \in P
    <3>. HIDE DEF P
    <3>. QED BY <1>3
  <2>. QED BY <2>1
<1>5. DOMAIN s = 1..Len(s) OBVIOUS
<1>6. IsFold(iter, S, base, F, s) BY <1>4, <1>5 DEF Eq, IsFold
<1>. QED BY <1>6

\* Induction up to a bound, for a set.
LEMMA UpTo ==
  ASSUME NEW n \in Nat, NEW P, 0 \in P, \A k \in 1..n : k - 1 \in P => k \in P
  PROVE  \A k \in 0..n : k \in P
<1>. DEFINE Q == {k \in Nat : k <= n => k \in P}
<1>1. 0 \in Q OBVIOUS
<1>2. ASSUME NEW k \in Nat, k \in Q PROVE k + 1 \in Q
  <2>. SUFFICES ASSUME k + 1 <= n PROVE k + 1 \in P OBVIOUS
  <2>1. k + 1 \in 1..n /\ (k + 1) - 1 = k OBVIOUS
  <2>2. k \in P BY <1>2
  <2>. QED BY <2>1, <2>2
<1>. HIDE DEF Q
<1>3. Nat \subseteq Q BY <1>1, <1>2, NatSetInduction
<1>. QED BY <1>3 DEF Q

\* A sequence of values that starts in a set and never leaves it.
LEMMA ChainIn ==
  ASSUME NEW S, NEW n \in Nat, NEW f, f[0] \in S,
         \A k \in 1..n : f[k - 1] \in S => f[k] \in S
  PROVE  \A k \in 0..n : f[k] \in S
<1>. DEFINE P == {k \in 0..n : f[k] \in S}
<1>1. 0 \in P OBVIOUS
<1>2. \A k \in 1..n : k - 1 \in P => k \in P OBVIOUS
<1>. HIDE DEF P
<1>3. \A k \in 0..n : k \in P BY <1>1, <1>2, UpTo
<1>. QED BY <1>3 DEF P


\* A set of positions has a greatest one.
LEMMA MaxIn ==
  ASSUME NEW n \in Nat, NEW d, d \subseteq 1..n, d # {}
  PROVE  Max(d) \in d /\ \A y \in d : Max(d) >= y
<1>. DEFINE T == {n - x : x \in d}
<1>1. T \subseteq Nat /\ T # {}
  <2>1. \A x \in d : n - x \in Nat OBVIOUS
  <2>. QED BY <2>1
<1>2. PICK t \in T : \A y \in T : t <= y
  <2>. HIDE DEF T
  <2>. QED BY <1>1, NatMin
<1>3. PICK x \in d : t = n - x OBVIOUS
<1>4. \A y \in d : x >= y
  <2>. TAKE y \in d
  <2>1. t <= n - y BY <1>2
  <2>. QED BY <2>1, <1>3
<1>. QED BY <1>4 DEF Max

LEMMA MaxInDomain ==
  ASSUME NEW T, NEW s \in Seq(T) PROVE \A d \in SUBSET DOMAIN s : d # {} => s[Max(d)] \in T
<1>. TAKE d \in SUBSET DOMAIN s
<1>1. Len(s) \in Nat /\ DOMAIN s = 1..Len(s) OBVIOUS
<1>2. d # {} => Max(d) \in 1..Len(s) BY <1>1, MaxIn
<1>. QED BY <1>2

\* A function that descends as the one behind a fold does holds its values one by one.
LEMMA FoldRun ==
  ASSUME NEW S, NEW T, NEW base \in S, NEW F \in [S \X T -> S], NEW s \in Seq(T), NEW iter,
         Descends(iter, S, base, F, s)
  PROVE  \E run : IsRun(run, iter, S, base, F, s)
<1>. DEFINE run == [k \in 0..Len(s) |-> iter[1..k]]
<1>. USE DEF Descends
<1>1. run[0] = base
  <2>1. 1..0 = {} OBVIOUS
  <2>. QED BY <2>1
<1>2. ASSUME NEW k \in 1..Len(s), run[k - 1] \in S PROVE run[k] = F[<<run[k - 1], s[k]>>]
  <2>1. 1..k \in SUBSET DOMAIN s /\ 1..k # {}
    <3>1. DOMAIN s = 1..Len(s) /\ Len(s) \in Nat OBVIOUS
    <3>2. k \in 1..k BY <3>1
    <3>3. 1..k \subseteq 1..Len(s) BY <3>1
    <3>. QED BY <3>1, <3>2, <3>3
  <2>2. Max(1..k) = k
    <3>1. k \in Nat /\ 1..k \subseteq 1..k /\ k \in 1..k OBVIOUS
    <3>2. Max(1..k) \in 1..k /\ Max(1..k) >= k BY <3>1, <2>1, MaxIn
    <3>. QED BY <3>2
  <2>3. (1..k) \ {k} = 1..k - 1 OBVIOUS
  <2>4. run[k] = iter[1..k] /\ run[k - 1] = iter[1..k - 1] OBVIOUS
  <2>. QED BY <1>2, <2>1, <2>2, <2>3, <2>4
<1>3. ASSUME NEW k \in 1..Len(s), run[k - 1] \in S PROVE run[k] \in S
  <2>1. s[k] \in T OBVIOUS
  <2>. QED BY <1>2, <1>3, <2>1
<1>4. Len(s) \in Nat /\ DOMAIN s = 1..Len(s) OBVIOUS
<1>5. run[Len(s)] = iter[DOMAIN s] BY <1>4
<1>6. DOMAIN run = 0..Len(s) /\ run = [k \in 0..Len(s) |-> run[k]] OBVIOUS
<1>. HIDE DEF run
<1>7. \A k \in 0..Len(s) : run[k] \in S BY <1>1, <1>3, <1>4, ChainIn
<1>8. run \in [0..Len(s) -> S] BY <1>6, <1>7
<1>9. \A k \in 1..Len(s) : run[k] = F[<<run[k - 1], s[k]>>]
  <2>. TAKE k \in 1..Len(s)
  <2>1. k - 1 \in 0..Len(s) BY <1>4
  <2>. QED BY <2>1, <1>7, <1>2
<1>10. IsRun(run, iter, S, base, F, s) BY <1>1, <1>5, <1>8, <1>9 DEF IsRun
<1>. QED BY <1>10

\* What is known of the beginning of a sequence, and of one whose last element is replaced.
LEMMA PrefixTyped ==
  ASSUME NEW S, NEW s \in Seq(S), NEW n \in Nat, n <= Len(s)
  PROVE  /\ SubSeq(s, 1, n) \in Seq(S)
         /\ Len(SubSeq(s, 1, n)) = n
         /\ \A i \in 1..n : SubSeq(s, 1, n)[i] = s[i]
<1>1. SubSeq(s, 1, n) \in Seq(S) OBVIOUS
<1>2. Len(SubSeq(s, 1, n)) = n OBVIOUS
<1>3. \A i \in 1..n : SubSeq(s, 1, n)[i] = s[i] OBVIOUS
<1>. QED BY <1>1, <1>2, <1>3

LEMMA LastReplaced ==
  ASSUME NEW S, NEW s \in Seq(S), s # <<>>, NEW e \in S
  PROVE  /\ Append(Rules!Front(s), e) \in Seq(S)
         /\ Len(Append(Rules!Front(s), e)) = Len(s)
         /\ Append(Rules!Front(s), e)[Len(s)] = e
         /\ \A i \in 1..Len(s) - 1 : Append(Rules!Front(s), e)[i] = s[i]
         /\ Rules!Last(s) \in S
<1>1. Len(s) \in Nat /\ Len(s) >= 1 OBVIOUS
<1>2. Rules!Front(s) \in Seq(S) /\ Len(Rules!Front(s)) = Len(s) - 1
  <2>1. Len(s) - 1 \in Nat /\ Len(s) - 1 <= Len(s) BY <1>1
  <2>. QED BY <2>1, PrefixTyped DEF Rules!Front
<1>3. \A i \in 1..Len(s) - 1 : Rules!Front(s)[i] = s[i] BY <1>1 DEF Rules!Front
<1>4. Rules!Last(s) \in S BY <1>1 DEF Rules!Last
<1>. HIDE DEF Rules!Front, Rules!Last
<1>. QED BY <1>1, <1>2, <1>3, <1>4

-----------------------------------------------------------------------------
(***************************************************************************)
(* RobotsRules: the groups that _parse_groups makes of a file.             *)
(***************************************************************************)

\* The characters of names, patterns and paths: any strings.
Chars ==
  STRING \cup {"a", "b", "c", "o", "u", ".", "/", "*", "$", "space", "%61", "%2A", "%24",
                 "%0A", "newline", "%62", "%2f", "%2F", "e-acute", "%c3%a9", "%C3%A9"}

\* The lines of a file as _parse_groups reads them, and what it makes of them.
Line ==
  [field : {"user-agent"}, agent : Seq(Chars)]
    \cup [field : {"allow", "disallow"}, path : Seq(Chars)]
    \cup [field : {"crawl-delay"}, delay : Int]
    \cup [field : {"other", "none"}]

RuleSet == [pattern : Seq(Chars), length : Nat, allowance : BOOLEAN]

GroupSet == [agents : Seq(Seq(Chars)), rules : Seq(RuleSet), delay : Int]

ParseSet == {p \in [groups : Seq(GroupSet), naming : BOOLEAN] : p.naming => p.groups # <<>>}

NothingParsed == [groups |-> <<>>, naming |-> FALSE]

LEMMA DecodedTyped == ASSUME NEW c \in Chars PROVE Rules!Decoded(c) \in Chars
<1>1. Rules!Decoded(c) \in {"a", "*", "$", "newline", c} BY Zenon DEF Rules!Decoded
<1>2. {"a", "*", "$", "newline"} \subseteq Chars BY DEF Chars
<1>. QED BY <1>1, <1>2

LEMMA UnquoteTyped == ASSUME NEW p \in Seq(Chars) PROVE Rules!Unquote(p) \in Seq(Chars)
<1>1. \A c \in Chars : Rules!Decoded(c) \in Chars BY DecodedTyped
<1>2. \A i \in 1..Len(p) : Rules!Decoded(p[i]) \in Chars
  <2>1. \A i \in 1..Len(p) : p[i] \in Chars OBVIOUS
  <2>. QED BY <2>1, <1>1
<1>3. DOMAIN p = 1..Len(p) /\ Len(p) \in Nat OBVIOUS
<1>4. Rules!Unquote(p) = [i \in 1..Len(p) |-> Rules!Decoded(p[i])] BY <1>3 DEF Rules!Unquote
<1>5. [i \in 1..Len(p) |-> Rules!Decoded(p[i])] \in [1..Len(p) -> Chars] BY <1>2, Zenon
<1>. QED BY <1>3, <1>4, <1>5

LEMMA RuleTyped ==
  ASSUME NEW l \in Line, l.field \in {"allow", "disallow"}
  PROVE  /\ Rules!Rule(l) \in RuleSet
         /\ l.path \in Seq(Chars)
         /\ Rules!Rule(l).pattern = Rules!Unquote(l.path)
         /\ Rules!Rule(l).length = Len(l.path)
         /\ Rules!Rule(l).allowance <=> l.field = "allow" \/ l.path = <<>>
<1>1. l.path \in Seq(Chars) BY DEF Line
<1>2. Rules!Unquote(l.path) \in Seq(Chars) BY <1>1, UnquoteTyped
<1>. DEFINE allowance == l.field = "allow" \/ l.path = <<>>
<1>3. allowance \in BOOLEAN BY Zenon
<1>4. Len(l.path) \in Nat BY <1>1
<1>5. Rules!Rule(l) = [pattern |-> Rules!Unquote(l.path), length |-> Len(l.path),
                       allowance |-> allowance]
  BY Zenon DEF Rules!Rule
<1>. HIDE DEF allowance
<1>6. Rules!Rule(l) \in RuleSet BY <1>2, <1>3, <1>4, <1>5 DEF RuleSet
<1>7. Rules!Rule(l).allowance <=> allowance BY <1>3, <1>5
<1>8. /\ Rules!Rule(l).pattern = Rules!Unquote(l.path)
      /\ Rules!Rule(l).length = Len(l.path)
  BY <1>5
<1>. QED BY <1>1, <1>6, <1>7, <1>8 DEF allowance

\* The groups when a user-agent line is read: one more, unless it follows another such line.
Opened(p) == IF p.naming THEN p.groups ELSE Append(p.groups, Rules!NoGroup)

\* A user-agent line adds its name to the last group, an unreadable line does nothing and
\* any other extends the last group.
LEMMA AgentNamed ==
  ASSUME NEW p \in ParseSet, NEW agent \in Seq(Chars)
  PROVE  /\ Rules!NameAgent(p, agent) \in ParseSet
         /\ Rules!NameAgent(p, agent).naming
         /\ Len(Rules!NameAgent(p, agent).groups) = Len(Opened(p))
         /\ Len(Opened(p)) >= 1
         /\ \A i \in 1..Len(Opened(p)) - 1 :
              Rules!NameAgent(p, agent).groups[i] = Opened(p)[i]
         /\ Rules!NameAgent(p, agent).groups[Len(Opened(p))].agents
              = Append(Opened(p)[Len(Opened(p))].agents, agent)
         /\ Rules!NameAgent(p, agent).groups[Len(Opened(p))].rules
              = Opened(p)[Len(Opened(p))].rules
         /\ Rules!NameAgent(p, agent).groups[Len(Opened(p))].delay
              = Opened(p)[Len(Opened(p))].delay
<1>. DEFINE groups == Opened(p)
            last == [Rules!Last(groups) EXCEPT !.agents = Append(@, agent)]
            next == Append(Rules!Front(groups), last)
<1>1. groups \in Seq(GroupSet) /\ groups # <<>>
  <2>1. Rules!NoGroup \in GroupSet BY DEF GroupSet, Rules!NoGroup, Rules!NoDelay
  <2>2. p.groups \in Seq(GroupSet) /\ (p.naming => p.groups # <<>>) BY DEF ParseSet
  <2>. QED BY <2>1, <2>2 DEF Opened
<1>2. Rules!NameAgent(p, agent) = [groups |-> next, naming |-> TRUE]
  BY DEF Rules!NameAgent, Opened
<1>. HIDE DEF groups
<1>3. Rules!Last(groups) = groups[Len(groups)] BY DEF Rules!Last
<1>4. Rules!Last(groups) \in GroupSet BY <1>1, <1>3
<1>5. /\ last \in GroupSet
      /\ last.agents = Append(Rules!Last(groups).agents, agent)
      /\ last.rules = Rules!Last(groups).rules
      /\ last.delay = Rules!Last(groups).delay
  <2>1. Rules!Last(groups).agents \in Seq(Seq(Chars)) BY <1>4 DEF GroupSet
  <2>2. Append(Rules!Last(groups).agents, agent) \in Seq(Seq(Chars)) BY <2>1
  <2>. QED BY <1>4, <2>2 DEF GroupSet
<1>. HIDE DEF last
<1>6. /\ next \in Seq(GroupSet) /\ Len(next) = Len(groups) /\ next[Len(groups)] = last
      /\ \A i \in 1..Len(groups) - 1 : next[i] = groups[i]
  <2>1. last \in GroupSet BY <1>5
  <2>. QED BY <1>1, <2>1, LastReplaced
<1>7. Len(groups) >= 1 BY <1>1
<1>8. next # <<>> BY <1>6, <1>7
<1>. HIDE DEF next
<1>9. Rules!NameAgent(p, agent) \in ParseSet BY <1>2, <1>6, <1>8 DEF ParseSet
<1>10. Rules!NameAgent(p, agent).groups = next /\ Rules!NameAgent(p, agent).naming BY <1>2
<1>. QED BY <1>3, <1>5, <1>6, <1>7, <1>9, <1>10 DEF groups

LEMMA GroupExtended ==
  ASSUME NEW g \in GroupSet, NEW l \in Line, l.field \notin {"none", "user-agent"}
  PROVE  /\ Rules!Extended(g, l) \in GroupSet
         /\ Rules!Extended(g, l).agents = g.agents
         /\ Rules!Extended(g, l).rules =
              IF l.field \in {"allow", "disallow"} THEN Append(g.rules, Rules!Rule(l)) ELSE g.rules
         /\ Rules!Extended(g, l).delay =
              IF l.field = "crawl-delay" /\ l.delay > 0 THEN l.delay ELSE g.delay
<1>1. CASE l.field \in {"allow", "disallow"}
  <2>1. Rules!Rule(l) \in RuleSet BY <1>1, RuleTyped
  <2>2. g.rules \in Seq(RuleSet) BY DEF GroupSet
  <2>3. Append(g.rules, Rules!Rule(l)) \in Seq(RuleSet) BY <2>1, <2>2
  <2>4. Rules!Extended(g, l) = [g EXCEPT !.rules = Append(g.rules, Rules!Rule(l))]
    BY <1>1 DEF Rules!Extended
  <2>5. l.field # "crawl-delay" BY <1>1
  <2>. QED BY <1>1, <2>3, <2>4, <2>5 DEF GroupSet
<1>2. CASE l.field = "crawl-delay" /\ l.delay > 0
  <2>1. l.delay \in Int BY <1>2 DEF Line
  <2>2. Rules!Extended(g, l) = [g EXCEPT !.delay = l.delay] BY <1>2 DEF Rules!Extended
  <2>. QED BY <1>2, <2>1, <2>2 DEF GroupSet
<1>3. CASE ~(l.field \in {"allow", "disallow"}) /\ ~(l.field = "crawl-delay" /\ l.delay > 0)
  <2>1. Rules!Extended(g, l) = g BY <1>3 DEF Rules!Extended
  <2>. QED BY <1>3, <2>1
<1>. QED BY <1>1, <1>2, <1>3

LEMMA OtherParsed ==
  ASSUME NEW p \in ParseSet, NEW l \in Line, l.field \notin {"none", "user-agent"}
  PROVE  LET next == Rules!ParseLine(p, l)
         IN /\ next \in ParseSet
            /\ ~next.naming
            /\ Len(next.groups) = Len(p.groups)
            /\ \A i \in 1..Len(p.groups) :
                 next.groups[i] = IF i = Len(p.groups) THEN Rules!Extended(p.groups[i], l)
                                                       ELSE p.groups[i]
<1>. DEFINE next == Rules!ParseLine(p, l)
            groups == IF p.groups = <<>> THEN <<>>
                      ELSE Append(Rules!Front(p.groups), Rules!Extended(Rules!Last(p.groups), l))
<1>1. p.groups \in Seq(GroupSet) BY DEF ParseSet
<1>2. next = [groups |-> groups, naming |-> FALSE] BY DEF Rules!ParseLine
<1>3. /\ groups \in Seq(GroupSet) /\ Len(groups) = Len(p.groups)
      /\ \A i \in 1..Len(p.groups) :
           groups[i] = IF i = Len(p.groups) THEN Rules!Extended(p.groups[i], l) ELSE p.groups[i]
  <2>1. CASE p.groups = <<>> BY <2>1
  <2>2. CASE p.groups # <<>>
    <3>. DEFINE s == p.groups
                e == Rules!Extended(Rules!Last(s), l)
    <3>1. Rules!Last(p.groups) = p.groups[Len(p.groups)] BY DEF Rules!Last
    <3>2. Rules!Last(p.groups) \in GroupSet BY <1>1, <2>2, <3>1
    <3>3. e \in GroupSet BY <3>2, GroupExtended
    <3>4. groups = Append(Rules!Front(s), e) /\ s \in Seq(GroupSet) /\ s # <<>> BY <1>1, <2>2
    <3>. HIDE DEF groups, s, e
    <3>5. /\ groups \in Seq(GroupSet) /\ Len(groups) = Len(s)
          /\ groups[Len(s)] = e
          /\ \A i \in 1..Len(s) - 1 : groups[i] = s[i]
      BY <3>3, <3>4, LastReplaced
    <3>6. \A i \in 1..Len(p.groups) : i = Len(p.groups) \/ i \in 1..Len(p.groups) - 1
      BY <1>1
    <3>. QED BY <3>1, <3>5, <3>6 DEF s, e
  <2>. QED BY <2>1, <2>2
<1>. HIDE DEF next, groups
<1>4. next \in ParseSet BY <1>2, <1>3 DEF ParseSet
<1>5. next.groups = groups /\ ~next.naming BY <1>2
<1>. QED BY <1>3, <1>4, <1>5 DEF next

LEMMA AgentParsed ==
  ASSUME NEW p, NEW l, l.field = "user-agent"
  PROVE  Rules!ParseLine(p, l) = Rules!NameAgent(p, l.agent)
BY DEF Rules!ParseLine

LEMMA NoneParsed == ASSUME NEW p, NEW l, l.field = "none" PROVE Rules!ParseLine(p, l) = p
BY DEF Rules!ParseLine

LEMMA ParseTyped ==
  ASSUME NEW p \in ParseSet, NEW l \in Line PROVE Rules!ParseLine(p, l) \in ParseSet
<1>1. CASE l.field = "none" BY <1>1, NoneParsed
<1>2. CASE l.field = "user-agent"
  <2>1. l.agent \in Seq(Chars) BY <1>2 DEF Line
  <2>. QED BY <1>2, <2>1, AgentParsed, AgentNamed
<1>3. CASE l.field \notin {"none", "user-agent"} BY <1>3, OtherParsed
<1>. QED BY <1>1, <1>2, <1>3

\* The states of _parse_groups after each line of a file.
LEMMA ParseRun ==
  ASSUME NEW s \in Seq(Line)
  PROVE  \E run \in [0..Len(s) -> ParseSet] :
           /\ run[0] = NothingParsed
           /\ \A k \in 1..Len(s) : run[k] = Rules!ParseLine(run[k - 1], s[k])
           /\ Rules!ParseGroups(s) = run[Len(s)].groups
<1>. DEFINE F == [x \in ParseSet \X Line |-> Rules!ParseLine(x[1], x[2])]
            Steps(iter) ==
              iter = [d \in SUBSET DOMAIN s |->
                        IF d = {} THEN NothingParsed
                        ELSE Rules!ParseLine(iter[d \ {Max(d)}], s[Max(d)])]
            iter == CHOOSE it : Steps(it)
<1>1. Rules!ParseGroups(s) = iter[DOMAIN s].groups
  BY DEF Rules!ParseGroups, Rules!FoldLeft, Rules!MapThenFoldSet, Rules!Max, Max, NothingParsed
<1>2. F \in [ParseSet \X Line -> ParseSet] BY ParseTyped
<1>3. NothingParsed \in ParseSet BY DEF ParseSet, NothingParsed
<1>4. \A d \in SUBSET DOMAIN s : d # {} => s[Max(d)] \in Line
  BY MaxInDomain
<1>5. \A x \in ParseSet, l \in Line : F[<<x, l>>] = Rules!ParseLine(x, l) OBVIOUS
<1>. HIDE DEF F
<1>6. Steps(iter)
  <2>1. PICK it : IsFold(it, ParseSet, NothingParsed, F, s)
    BY <1>2, <1>3, FoldExists
  <2>2. /\ it \in [SUBSET DOMAIN s -> ParseSet]
        /\ \A d \in SUBSET DOMAIN s : it[d \ {Max(d)}] \in ParseSet
    BY <2>1 DEF IsFold
  <2>3. \A d \in SUBSET DOMAIN s : it[d] =
          IF d = {} THEN NothingParsed ELSE Rules!ParseLine(it[d \ {Max(d)}], s[Max(d)])
    <3>. TAKE d \in SUBSET DOMAIN s
    <3>1. it[d] = IF d = {} THEN NothingParsed ELSE F[<<it[d \ {Max(d)}], s[Max(d)]>>]
      BY <2>1 DEF IsFold
    <3>. QED BY <3>1, <2>2, <1>4, <1>5
  <2>4. Steps(it) BY <2>2, <2>3
  <2>. HIDE DEF Steps
  <2>. QED BY <2>4
<1>7. Descends(iter, ParseSet, NothingParsed, F, s)
  <2>. HIDE DEF iter
  <2>1. {} \in SUBSET DOMAIN s OBVIOUS
  <2>2. iter[{}] = NothingParsed BY <1>6, <2>1
  <2>3. \A d \in SUBSET DOMAIN s : d # {} =>
          iter[d] = Rules!ParseLine(iter[d \ {Max(d)}], s[Max(d)])
    BY <1>6
  <2>. HIDE DEF Steps
  <2>. QED BY <1>4, <1>5, <2>2, <2>3 DEF Descends
<1>. HIDE DEF iter
<1>8. PICK run : IsRun(run, iter, ParseSet, NothingParsed, F, s)
  BY <1>2, <1>3, <1>7, FoldRun
<1>9. ASSUME NEW k \in 1..Len(s) PROVE run[k] = Rules!ParseLine(run[k - 1], s[k])
  <2>1. run[k - 1] \in ParseSet /\ s[k] \in Line BY <1>8 DEF IsRun
  <2>. QED BY <2>1, <1>5, <1>8 DEF IsRun
<1>10. /\ run \in [0..Len(s) -> ParseSet] /\ run[0] = NothingParsed
       /\ run[Len(s)] = iter[DOMAIN s]
  BY <1>8 DEF IsRun
<1>. QED BY <1>1, <1>9, <1>10

-----------------------------------------------------------------------------
(***************************************************************************)
(* RobotsRules: _select_group, name by name and group by group.            *)
(***************************************************************************)

\* What _select_group has found, its longest name and the first "*", after one more name.
FoundSet == [best : Nat, length : Nat, wildcard : Nat]

\* The three things that Consider does with a name.
LEMMA ConsiderStar ==
  ASSUME NEW found \in FoundSet, NEW agent, NEW i \in Nat, agent = <<"*">>
  PROVE  /\ Rules!Consider(found, agent, i) \in FoundSet
         /\ Rules!Consider(found, agent, i).best = found.best
         /\ Rules!Consider(found, agent, i).length = found.length
         /\ Rules!Consider(found, agent, i).wildcard =
              IF found.wildcard = 0 THEN i ELSE found.wildcard
<1>. DEFINE wild == IF found.wildcard = 0 THEN i ELSE found.wildcard
<1>1. agent = Rules!Star BY DEF Rules!Star
<1>2. Rules!Consider(found, agent, i) = [found EXCEPT !.wildcard = wild]
  BY <1>1 DEF Rules!Consider
<1>3. wild \in Nat BY DEF FoundSet
<1>. HIDE DEF wild
<1>4. /\ Rules!Consider(found, agent, i) \in FoundSet
      /\ Rules!Consider(found, agent, i).best = found.best
      /\ Rules!Consider(found, agent, i).length = found.length
      /\ Rules!Consider(found, agent, i).wildcard = wild
  BY <1>2, <1>3 DEF FoundSet
<1>. QED BY <1>4 DEF wild

LEMMA ConsiderLonger ==
  ASSUME NEW found \in FoundSet, NEW agent \in Seq(Chars), NEW i \in Nat,
         agent # <<"*">>, Rules!IsPrefix(agent, Token), Len(agent) > found.length
  PROVE  /\ Rules!Consider(found, agent, i) \in FoundSet
         /\ Rules!Consider(found, agent, i).best = i
         /\ Rules!Consider(found, agent, i).length = Len(agent)
         /\ Rules!Consider(found, agent, i).wildcard = found.wildcard
<1>1. agent # Rules!Star BY DEF Rules!Star
<1>2. Rules!Consider(found, agent, i) = [found EXCEPT !.best = i, !.length = Len(agent)]
  BY <1>1 DEF Rules!Consider
<1>3. Len(agent) \in Nat OBVIOUS
<1>. QED BY <1>2, <1>3 DEF FoundSet

LEMMA ConsiderOther ==
  ASSUME NEW found, NEW agent, NEW i,
         agent # <<"*">>, ~(Rules!IsPrefix(agent, Token) /\ Len(agent) > found.length)
  PROVE  Rules!Consider(found, agent, i) = found
<1>1. agent # Rules!Star BY DEF Rules!Star
<1>. QED BY <1>1 DEF Rules!Consider

LEMMA ConsiderTyped ==
  ASSUME NEW found \in FoundSet, NEW agent \in Seq(Chars), NEW i \in Nat
  PROVE  Rules!Consider(found, agent, i) \in FoundSet
<1>1. CASE agent = <<"*">> BY <1>1, ConsiderStar
<1>2. CASE agent # <<"*">> /\ Rules!IsPrefix(agent, Token) /\ Len(agent) > found.length
  BY <1>2, ConsiderLonger
<1>3. CASE agent # <<"*">> /\ ~(Rules!IsPrefix(agent, Token) /\ Len(agent) > found.length)
  BY <1>3, ConsiderOther
<1>. QED BY <1>1, <1>2, <1>3

\* The inner loop of _select_group over the names of group i.
Look(found, agents, i) ==
  Rules!FoldLeft(LAMBDA sofar, agent : Rules!Consider(sofar, agent, i), found, agents)

\* The inner loop name by name, and what it finds in a group without names or with one more.
LookSteps(run, found, agents, i) ==
  /\ run \in [0..Len(agents) -> FoundSet]
  /\ run[0] = found /\ run[Len(agents)] = Look(found, agents, i)
  /\ \A k \in 1..Len(agents) : run[k] = Rules!Consider(run[k - 1], agents[k], i)

LEMMA LookRun ==
  ASSUME NEW found \in FoundSet, NEW agents \in Seq(Seq(Chars)), NEW i \in Nat
  PROVE  \E run : LookSteps(run, found, agents, i)
<1>. DEFINE F == [x \in FoundSet \X Seq(Chars) |-> Rules!Consider(x[1], x[2], i)]
            Steps(iter) ==
              iter = [d \in SUBSET DOMAIN agents |->
                        IF d = {} THEN found
                        ELSE Rules!Consider(iter[d \ {Max(d)}], agents[Max(d)], i)]
            iter == CHOOSE it : Steps(it)
<1>1. Look(found, agents, i) = iter[DOMAIN agents]
  BY DEF Look, Rules!FoldLeft, Rules!MapThenFoldSet, Rules!Max, Max
<1>2. F \in [FoundSet \X Seq(Chars) -> FoundSet] BY ConsiderTyped
<1>4. \A d \in SUBSET DOMAIN agents : d # {} => agents[Max(d)] \in Seq(Chars)
  BY MaxInDomain
<1>5. \A x \in FoundSet, agent \in Seq(Chars) : F[<<x, agent>>] = Rules!Consider(x, agent, i)
  OBVIOUS
<1>. HIDE DEF F
<1>6. Steps(iter)
  <2>1. PICK it : IsFold(it, FoundSet, found, F, agents)
    BY <1>2, FoldExists
  <2>2. /\ it \in [SUBSET DOMAIN agents -> FoundSet]
        /\ \A d \in SUBSET DOMAIN agents : it[d \ {Max(d)}] \in FoundSet
    BY <2>1 DEF IsFold
  <2>3. \A d \in SUBSET DOMAIN agents : it[d] =
          IF d = {} THEN found ELSE Rules!Consider(it[d \ {Max(d)}], agents[Max(d)], i)
    <3>. TAKE d \in SUBSET DOMAIN agents
    <3>1. it[d] = IF d = {} THEN found ELSE F[<<it[d \ {Max(d)}], agents[Max(d)]>>]
      BY <2>1 DEF IsFold
    <3>. QED BY <3>1, <2>2, <1>4, <1>5
  <2>4. Steps(it) BY <2>2, <2>3
  <2>. HIDE DEF Steps
  <2>. QED BY <2>4
<1>7. Descends(iter, FoundSet, found, F, agents)
  <2>. HIDE DEF iter
  <2>1. {} \in SUBSET DOMAIN agents OBVIOUS
  <2>2. iter[{}] = found BY <1>6, <2>1
  <2>3. \A d \in SUBSET DOMAIN agents : d # {} =>
          iter[d] = Rules!Consider(iter[d \ {Max(d)}], agents[Max(d)], i)
    BY <1>6
  <2>. HIDE DEF Steps
  <2>. QED BY <1>4, <1>5, <2>2, <2>3 DEF Descends
<1>. HIDE DEF iter
<1>8. PICK run : IsRun(run, iter, FoundSet, found, F, agents)
  BY <1>2, <1>7, FoldRun
<1>9. ASSUME NEW k \in 1..Len(agents) PROVE run[k] = Rules!Consider(run[k - 1], agents[k], i)
  <2>1. agents[k] \in Seq(Chars) OBVIOUS
  <2>2. k - 1 \in 0..Len(agents) OBVIOUS
  <2>3. run[k - 1] \in FoundSet BY <2>2, <1>8 DEF IsRun
  <2>. QED BY <2>1, <2>3, <1>5, <1>8 DEF IsRun
<1>10. /\ run \in [0..Len(agents) -> FoundSet] /\ run[0] = found
       /\ run[Len(agents)] = iter[DOMAIN agents]
  BY <1>8 DEF IsRun
<1>11. LookSteps(run, found, agents, i) BY <1>1, <1>9, <1>10 DEF LookSteps
<1>. QED BY <1>11

\* Two loops that agree at the start and step by step agree at the end.
InStep(f, g, n) == f[0] = g[0] /\ \A k \in 1..n : f[k - 1] = g[k - 1] => f[k] = g[k]

LEMMA SameRuns == ASSUME NEW n \in Nat, NEW f, NEW g, InStep(f, g, n) PROVE f[n] = g[n]
<1>. DEFINE P == {k \in 0..n : f[k] = g[k]}
<1>1. 0 \in P BY DEF InStep
<1>2. \A k \in 1..n : k - 1 \in P => k \in P BY DEF InStep
<1>. HIDE DEF P
<1>3. \A k \in 0..n : k \in P BY <1>1, <1>2, UpTo
<1>. QED BY <1>3 DEF P

LEMMA LookTyped ==
  ASSUME NEW found \in FoundSet, NEW agents \in Seq(Seq(Chars)), NEW i \in Nat
  PROVE  Look(found, agents, i) \in FoundSet
<1>1. PICK run : LookSteps(run, found, agents, i) BY LookRun
<1>2. Len(agents) \in 0..Len(agents) OBVIOUS
<1>. QED BY <1>1, <1>2 DEF LookSteps

LEMMA LookNone ==
  ASSUME NEW found \in FoundSet, NEW i \in Nat PROVE Look(found, <<>>, i) = found
<1>. DEFINE agents == <<>>
<1>1. agents \in Seq(Seq(Chars)) /\ Len(agents) = 0 OBVIOUS
<1>. HIDE DEF agents
<1>2. PICK run : LookSteps(run, found, agents, i) BY <1>1, LookRun
<1>3. Look(found, agents, i) = found BY <1>1, <1>2 DEF LookSteps
<1>. QED BY <1>3 DEF agents

LEMMA LookAppend ==
  ASSUME NEW found \in FoundSet, NEW agents \in Seq(Seq(Chars)), NEW i \in Nat,
         NEW agent \in Seq(Chars)
  PROVE  Look(found, Append(agents, agent), i) = Rules!Consider(Look(found, agents, i), agent, i)
<1>. DEFINE all == Append(agents, agent)
            n == Len(agents)
<1>1. /\ all \in Seq(Seq(Chars)) /\ n \in Nat /\ Len(all) = n + 1 /\ all[n + 1] = agent
      /\ \A k \in 1..n : all[k] = agents[k]
  OBVIOUS
<1>. HIDE DEF all
<1>2. PICK f : LookSteps(f, found, agents, i) BY LookRun
<1>3. PICK g : LookSteps(g, found, all, i) BY <1>1, LookRun
<1>. USE DEF LookSteps
<1>4. InStep(f, g, n)
  <2>1. \A k \in 1..n : f[k - 1] = g[k - 1] => f[k] = g[k]
    <3>. TAKE k \in 1..n
    <3>1. k \in 1..Len(all) /\ all[k] = agents[k] BY <1>1
    <3>2. f[k] = Rules!Consider(f[k - 1], agents[k], i) BY <1>2
    <3>3. g[k] = Rules!Consider(g[k - 1], all[k], i) BY <1>3, <3>1
    <3>. QED BY <3>1, <3>2, <3>3
  <2>. QED BY <2>1, <1>2, <1>3 DEF InStep
<1>6. f[n] = g[n] BY <1>1, <1>4, SameRuns
<1>7. g[n + 1] = Rules!Consider(g[n], agent, i)
  <2>1. n + 1 \in 1..Len(all) /\ (n + 1) - 1 = n BY <1>1
  <2>. QED BY <2>1, <1>1, <1>3
<1>. QED BY <1>1, <1>2, <1>3, <1>6, <1>7 DEF all

\* The outer loop group by group.
FindSteps(run, groups) ==
  /\ run \in [0..Len(groups) -> FoundSet]
  /\ run[0] = Rules!NothingFound /\ run[Len(groups)] = Rules!Find(groups)
  /\ \A k \in 1..Len(groups) : run[k] = Look(run[k - 1], groups[k].agents, k)

LEMMA FindRun ==
  ASSUME NEW groups \in Seq(GroupSet) PROVE \E run : FindSteps(run, groups)
<1>. DEFINE n == Len(groups)
            ids == [i \in DOMAIN groups |-> i]
            base == Rules!NothingFound
            F == [x \in FoundSet \X (1..n) |-> Look(x[1], groups[x[2]].agents, x[2])]
            Steps(iter) ==
              iter = [d \in SUBSET DOMAIN ids |->
                        IF d = {} THEN base
                        ELSE Look(iter[d \ {Max(d)}], groups[ids[Max(d)]].agents, ids[Max(d)])]
            iter == CHOOSE it : Steps(it)
<1>1. Rules!Find(groups) = iter[DOMAIN ids]
  BY DEF Rules!Find, Look, Rules!FoldLeftDomain, Rules!FoldLeft, Rules!MapThenFoldSet,
         Rules!Max, Max
<1>2. /\ n \in Nat /\ ids \in Seq(1..n) /\ Len(ids) = n /\ DOMAIN ids = 1..n
      /\ \A k \in 1..n : ids[k] = k
  OBVIOUS
<1>3. base \in FoundSet BY DEF FoundSet, Rules!NothingFound
<1>4. \A k \in 1..n : groups[k].agents \in Seq(Seq(Chars)) /\ k \in Nat
  <2>1. \A k \in 1..n : groups[k] \in GroupSet OBVIOUS
  <2>. QED BY <2>1 DEF GroupSet
<1>. HIDE DEF n, ids, base
<1>5. F \in [FoundSet \X (1..n) -> FoundSet] BY <1>4, LookTyped
<1>6. \A d \in SUBSET DOMAIN ids : d # {} => ids[Max(d)] \in 1..n BY <1>2, MaxInDomain
<1>7. \A x \in FoundSet, k \in 1..n : F[<<x, k>>] = Look(x, groups[k].agents, k)
  OBVIOUS
<1>. HIDE DEF F
<1>8. Steps(iter)
  <2>1. PICK it : IsFold(it, FoundSet, base, F, ids)
    BY <1>2, <1>3, <1>5, FoldExists
  <2>2. /\ it \in [SUBSET DOMAIN ids -> FoundSet]
        /\ \A d \in SUBSET DOMAIN ids : it[d \ {Max(d)}] \in FoundSet
    BY <2>1 DEF IsFold
  <2>3. \A d \in SUBSET DOMAIN ids : it[d] =
          IF d = {} THEN base
          ELSE Look(it[d \ {Max(d)}], groups[ids[Max(d)]].agents, ids[Max(d)])
    <3>. TAKE d \in SUBSET DOMAIN ids
    <3>1. it[d] = IF d = {} THEN base ELSE F[<<it[d \ {Max(d)}], ids[Max(d)]>>]
      BY <2>1 DEF IsFold
    <3>. QED BY <3>1, <2>2, <1>6, <1>7
  <2>4. Steps(it) BY <2>2, <2>3
  <2>. HIDE DEF Steps
  <2>. QED BY <2>4
<1>9. Descends(iter, FoundSet, base, F, ids)
  <2>. HIDE DEF iter
  <2>1. {} \in SUBSET DOMAIN ids OBVIOUS
  <2>2. iter[{}] = base BY <1>8, <2>1
  <2>3. \A d \in SUBSET DOMAIN ids : d # {} =>
          iter[d] = Look(iter[d \ {Max(d)}], groups[ids[Max(d)]].agents, ids[Max(d)])
    BY <1>8
  <2>. HIDE DEF Steps
  <2>. QED BY <1>6, <1>7, <2>2, <2>3 DEF Descends
<1>. HIDE DEF iter
<1>10. PICK run : IsRun(run, iter, FoundSet, base, F, ids)
  BY <1>2, <1>3, <1>5, <1>9, FoldRun
<1>11. ASSUME NEW k \in 1..n PROVE run[k] = Look(run[k - 1], groups[k].agents, k)
  <2>1. k - 1 \in 0..n BY <1>2
  <2>2. run[k - 1] \in FoundSet BY <2>1, <1>2, <1>10 DEF IsRun
  <2>3. run[k] = F[<<run[k - 1], k>>] BY <1>2, <1>10 DEF IsRun
  <2>. QED BY <2>2, <2>3, <1>7
<1>12. /\ run \in [0..n -> FoundSet] /\ run[0] = base
       /\ run[n] = iter[DOMAIN ids]
  BY <1>2, <1>10 DEF IsRun
<1>13. FindSteps(run, groups) BY <1>1, <1>11, <1>12 DEF n, base, FindSteps
<1>. QED BY <1>13

LEMMA FindTyped == ASSUME NEW groups \in Seq(GroupSet) PROVE Rules!Find(groups) \in FoundSet
<1>1. PICK run : FindSteps(run, groups) BY FindRun
<1>2. Len(groups) \in 0..Len(groups) OBVIOUS
<1>. QED BY <1>1, <1>2 DEF FindSteps

\* The choice depends on the names alone.
LEMMA FindAgents ==
  ASSUME NEW groups \in Seq(GroupSet), NEW others \in Seq(GroupSet), Len(groups) = Len(others),
         \A i \in 1..Len(groups) : groups[i].agents = others[i].agents
  PROVE  Rules!Find(groups) = Rules!Find(others)
<1>. DEFINE n == Len(groups)
<1>1. n \in Nat OBVIOUS
<1>2. PICK f \in [0..n -> FoundSet] :
        /\ f[0] = Rules!NothingFound /\ f[n] = Rules!Find(groups)
        /\ \A k \in 1..n : f[k] = Look(f[k - 1], groups[k].agents, k)
  <2>1. PICK run : FindSteps(run, groups) BY FindRun
  <2>. QED BY <2>1 DEF FindSteps
<1>3. PICK g \in [0..n -> FoundSet] :
        /\ g[0] = Rules!NothingFound /\ g[n] = Rules!Find(others)
        /\ \A k \in 1..n : g[k] = Look(g[k - 1], others[k].agents, k)
  <2>1. PICK run : FindSteps(run, others) BY FindRun
  <2>. QED BY <2>1 DEF FindSteps
<1>. HIDE DEF n
<1>4. InStep(f, g, n)
  <2>1. \A k \in 1..n : groups[k].agents = others[k].agents BY DEF n
  <2>2. \A k \in 1..n : f[k - 1] = g[k - 1] => f[k] = g[k] BY <1>2, <1>3, <2>1
  <2>. QED BY <2>2, <1>2, <1>3 DEF InStep
<1>5. f[n] = g[n] BY <1>1, <1>4, SameRuns
<1>. QED BY <1>2, <1>3, <1>5

\* A group is added that has no names yet.
LEMMA FindAdded ==
  ASSUME NEW groups \in Seq(GroupSet), NEW group \in GroupSet, group.agents = <<>>
  PROVE  Rules!Find(Append(groups, group)) = Rules!Find(groups)
<1>. DEFINE all == Append(groups, group)
            n == Len(groups)
<1>1. /\ all \in Seq(GroupSet) /\ n \in Nat /\ Len(all) = n + 1 /\ all[n + 1] = group
      /\ \A k \in 1..n : all[k] = groups[k]
  OBVIOUS
<1>. HIDE DEF all
<1>2. PICK f \in [0..n -> FoundSet] :
        /\ f[0] = Rules!NothingFound /\ f[n] = Rules!Find(groups)
        /\ \A k \in 1..n : f[k] = Look(f[k - 1], groups[k].agents, k)
  <2>1. PICK run : FindSteps(run, groups) BY FindRun
  <2>. QED BY <2>1 DEF FindSteps
<1>3. PICK g \in [0..Len(all) -> FoundSet] :
        /\ g[0] = Rules!NothingFound /\ g[Len(all)] = Rules!Find(all)
        /\ \A k \in 1..Len(all) : g[k] = Look(g[k - 1], all[k].agents, k)
  <2>1. PICK run : FindSteps(run, all) BY <1>1, FindRun
  <2>. QED BY <1>1, <2>1 DEF FindSteps
<1>. HIDE DEF n
<1>4. InStep(f, g, n)
  <2>1. \A k \in 1..n : f[k - 1] = g[k - 1] => f[k] = g[k]
    <3>. TAKE k \in 1..n
    <3>1. k \in 1..Len(all) /\ all[k] = groups[k] BY <1>1
    <3>2. f[k] = Look(f[k - 1], groups[k].agents, k) BY <1>2
    <3>3. g[k] = Look(g[k - 1], all[k].agents, k) BY <1>3, <3>1
    <3>. QED BY <3>1, <3>2, <3>3
  <2>. QED BY <2>1, <1>2, <1>3 DEF InStep
<1>5. f[n] = g[n] BY <1>1, <1>4, SameRuns
<1>6. g[n + 1] = Look(g[n], <<>>, n + 1)
  <2>1. n + 1 \in 1..Len(all) /\ (n + 1) - 1 = n BY <1>1
  <2>. QED BY <2>1, <1>1, <1>3
<1>7. g[n] \in FoundSet /\ n + 1 \in Nat BY <1>1, <1>3
<1>. QED BY <1>1, <1>2, <1>3, <1>5, <1>6, <1>7, LookNone DEF all

\* The last group gets one more name.
LEMMA FindNamed ==
  ASSUME NEW groups \in Seq(GroupSet), NEW others \in Seq(GroupSet), NEW n \in Nat \ {0},
         Len(groups) = n, Len(others) = n, NEW agent \in Seq(Chars),
         \A i \in 1..n - 1 : groups[i].agents = others[i].agents,
         others[n].agents = Append(groups[n].agents, agent)
  PROVE  Rules!Find(others) = Rules!Consider(Rules!Find(groups), agent, n)
<1>1. PICK f \in [0..n -> FoundSet] :
        /\ f[0] = Rules!NothingFound /\ f[n] = Rules!Find(groups)
        /\ \A k \in 1..n : f[k] = Look(f[k - 1], groups[k].agents, k)
  <2>1. PICK run : FindSteps(run, groups) BY FindRun
  <2>. QED BY <2>1 DEF FindSteps
<1>2. PICK g \in [0..n -> FoundSet] :
        /\ g[0] = Rules!NothingFound /\ g[n] = Rules!Find(others)
        /\ \A k \in 1..n : g[k] = Look(g[k - 1], others[k].agents, k)
  <2>1. PICK run : FindSteps(run, others) BY FindRun
  <2>. QED BY <2>1 DEF FindSteps
<1>3. InStep(f, g, n - 1)
  <2>1. \A k \in 1..n - 1 : f[k - 1] = g[k - 1] => f[k] = g[k] BY <1>1, <1>2
  <2>. QED BY <2>1, <1>1, <1>2 DEF InStep
<1>4. n - 1 \in Nat /\ n - 1 \in 0..n /\ n \in 1..n /\ n \in Nat OBVIOUS
<1>5. f[n - 1] = g[n - 1] BY <1>3, <1>4, SameRuns
<1>6. f[n - 1] \in FoundSet BY <1>1, <1>4
<1>7. f[n] = Look(f[n - 1], groups[n].agents, n) /\ g[n] = Look(g[n - 1], others[n].agents, n)
  BY <1>1, <1>2, <1>4
<1>8. groups[n].agents \in Seq(Seq(Chars))
  <2>1. groups[n] \in GroupSet BY <1>4
  <2>. QED BY <2>1 DEF GroupSet
<1>9. Look(f[n - 1], Append(groups[n].agents, agent), n)
        = Rules!Consider(Look(f[n - 1], groups[n].agents, n), agent, n)
  BY <1>4, <1>6, <1>8, LookAppend
<1>. QED BY <1>1, <1>2, <1>5, <1>7, <1>9

-----------------------------------------------------------------------------
(***************************************************************************)
(* RobotsRules: which group each line goes to.                             *)
(***************************************************************************)

\* The states of _parse_groups after each line, and the group that each line goes to.
IsParse(run) ==
  /\ run \in [0..Len(lines) -> ParseSet]
  /\ run[0] = NothingParsed
  /\ \A k \in 1..Len(lines) : run[k] = Rules!ParseLine(run[k - 1], lines[k])
  /\ Rules!ParseGroups(lines) = run[Len(lines)].groups

GroupOf(run, k) == Len(run[k].groups)

Found(run, k) == Rules!Find(run[k].groups)

\* What a user-agent line, an unreadable one and any other make of the groups.
LEMMA AgentLine ==
  ASSUME lines \in Seq(Line), NEW run, IsParse(run), NEW k \in 1..Len(lines), Rules!IsAgent(k)
  PROVE  /\ run[k].naming
         /\ GroupOf(run, k) = IF run[k - 1].naming THEN GroupOf(run, k - 1)
                                                   ELSE GroupOf(run, k - 1) + 1
         /\ GroupOf(run, k) >= 1
         /\ lines[k].agent \in Seq(Chars)
         /\ Found(run, k) = Rules!Consider(Found(run, k - 1), lines[k].agent, GroupOf(run, k))
         /\ \A i \in 1..GroupOf(run, k) :
              /\ run[k].groups[i].rules =
                   IF i <= GroupOf(run, k - 1) THEN run[k - 1].groups[i].rules ELSE <<>>
              /\ run[k].groups[i].delay =
                   IF i <= GroupOf(run, k - 1) THEN run[k - 1].groups[i].delay ELSE 0
<1>. DEFINE p == run[k - 1]
            agent == lines[k].agent
            groups == Opened(p)
            next == run[k].groups
            n == Len(groups)
<1>1. p \in ParseSet /\ run[k] \in ParseSet /\ run[k] = Rules!ParseLine(p, lines[k])
  <2>1. k - 1 \in 0..Len(lines) /\ k \in 0..Len(lines) OBVIOUS
  <2>. QED BY <2>1 DEF IsParse
<1>2. lines[k].field = "user-agent" /\ agent \in Seq(Chars)
  <2>1. lines[k] \in Line OBVIOUS
  <2>2. lines[k].field = "user-agent" BY DEF Rules!IsAgent
  <2>. QED BY <2>1, <2>2 DEF Line
<1>3. run[k] = Rules!NameAgent(p, agent) BY <1>1, <1>2, AgentParsed
<1>4. Rules!NoGroup \in GroupSet BY DEF GroupSet, Rules!NoGroup, Rules!NoDelay
<1>5. p.groups \in Seq(GroupSet) /\ next \in Seq(GroupSet) /\ p.naming \in BOOLEAN
  BY <1>1 DEF ParseSet
<1>6. /\ run[k].naming /\ Len(next) = n /\ n >= 1
      /\ \A i \in 1..n - 1 : next[i] = groups[i]
      /\ next[n].agents = Append(groups[n].agents, agent)
      /\ next[n].rules = groups[n].rules
      /\ next[n].delay = groups[n].delay
  <2>1. p \in ParseSet /\ agent \in Seq(Chars) BY <1>1, <1>2
  <2>2. next = Rules!NameAgent(p, agent).groups /\ run[k].naming = Rules!NameAgent(p, agent).naming
    BY <1>3
  <2>. HIDE DEF p, agent, next
  <2>3. /\ Rules!NameAgent(p, agent).naming /\ Len(Rules!NameAgent(p, agent).groups) = n /\ n >= 1
        /\ \A i \in 1..n - 1 : Rules!NameAgent(p, agent).groups[i] = groups[i]
    BY <2>1, AgentNamed
  <2>4. /\ Rules!NameAgent(p, agent).groups[n].agents = Append(groups[n].agents, agent)
        /\ Rules!NameAgent(p, agent).groups[n].rules = groups[n].rules
        /\ Rules!NameAgent(p, agent).groups[n].delay = groups[n].delay
    BY <2>1, AgentNamed
  <2>. QED BY <2>2, <2>3, <2>4
<1>7. /\ groups \in Seq(GroupSet)
      /\ n = IF p.naming THEN Len(p.groups) ELSE Len(p.groups) + 1
      /\ \A i \in 1..Len(p.groups) : groups[i] = p.groups[i]
      /\ n > Len(p.groups) => groups[n] = Rules!NoGroup
  BY <1>4, <1>5 DEF Opened
<1>8. Rules!Find(groups) = Rules!Find(p.groups)
  <2>1. Rules!NoGroup.agents = <<>> BY DEF Rules!NoGroup
  <2>2. CASE p.naming BY <2>2 DEF Opened
  <2>3. CASE ~p.naming BY <1>4, <1>5, <2>1, <2>3, FindAdded DEF Opened
  <2>. QED BY <2>2, <2>3
<1>. HIDE DEF p, agent, groups, next, n
<1>9. n \in Nat \ {0} /\ Len(p.groups) \in Nat BY <1>5, <1>6, <1>7 DEF n
<1>10. Rules!Find(next) = Rules!Consider(Rules!Find(groups), agent, n)
  <2>1. Len(groups) = n /\ Len(next) = n BY <1>6 DEF n
  <2>2. \A i \in 1..n - 1 : groups[i].agents = next[i].agents BY <1>6
  <2>. QED BY <1>2, <1>5, <1>6, <1>7, <1>9, <2>1, <2>2, FindNamed
<1>11. ASSUME NEW i \in 1..n
       PROVE  /\ next[i].rules = IF i <= Len(p.groups) THEN p.groups[i].rules ELSE <<>>
              /\ next[i].delay = IF i <= Len(p.groups) THEN p.groups[i].delay ELSE 0
  <2>1. next[i].rules = groups[i].rules /\ next[i].delay = groups[i].delay
    <3>1. CASE i = n BY <3>1, <1>6
    <3>2. CASE i # n
      <4>1. i \in 1..n - 1 BY <3>2, <1>9
      <4>. QED BY <4>1, <1>6
    <3>. QED BY <3>1, <3>2
  <2>2. CASE i <= Len(p.groups)
    <3>1. i \in 1..Len(p.groups) BY <2>2, <1>9
    <3>. QED BY <2>1, <2>2, <3>1, <1>7
  <2>3. CASE ~(i <= Len(p.groups))
    <3>1. i = n /\ n > Len(p.groups) BY <2>3, <1>7, <1>9
    <3>2. groups[i] = Rules!NoGroup BY <3>1, <1>7
    <3>3. Rules!NoGroup.rules = <<>> /\ Rules!NoGroup.delay = 0
      BY DEF Rules!NoGroup, Rules!NoDelay
    <3>. QED BY <2>1, <2>3, <3>2, <3>3
  <2>. QED BY <2>2, <2>3
<1>12. GroupOf(run, k) = n /\ GroupOf(run, k - 1) = Len(p.groups)
  BY <1>6 DEF GroupOf, p, next
<1>13. Found(run, k) = Rules!Find(next) /\ Found(run, k - 1) = Rules!Find(p.groups)
  BY DEF Found, p, next
<1>14. run[k].groups = next /\ run[k - 1].groups = p.groups /\ run[k - 1].naming = p.naming
  BY DEF p, next
<1>15. /\ run[k].naming /\ n >= 1 /\ lines[k].agent \in Seq(Chars)
       /\ n = IF run[k - 1].naming THEN GroupOf(run, k - 1) ELSE GroupOf(run, k - 1) + 1
  BY <1>2, <1>6, <1>7, <1>12, <1>14 DEF agent
<1>16. Found(run, k) = Rules!Consider(Found(run, k - 1), lines[k].agent, n)
  BY <1>8, <1>10, <1>13 DEF agent
<1>. QED BY <1>11, <1>12, <1>14, <1>15, <1>16

LEMMA NoneLine ==
  ASSUME NEW run, IsParse(run), NEW k \in 1..Len(lines), lines[k].field = "none"
  PROVE  run[k] = run[k - 1]
BY NoneParsed DEF IsParse

LEMMA RuleLine ==
  ASSUME lines \in Seq(Line), NEW run, IsParse(run), NEW k \in 1..Len(lines),
         ~Rules!IsAgent(k), lines[k].field # "none"
  PROVE  /\ ~run[k].naming
         /\ GroupOf(run, k) = GroupOf(run, k - 1)
         /\ Found(run, k) = Found(run, k - 1)
         /\ \A i \in 1..GroupOf(run, k) :
              /\ run[k].groups[i].rules =
                   IF i = GroupOf(run, k) /\ lines[k].field \in {"allow", "disallow"}
                     THEN Append(run[k - 1].groups[i].rules, Rules!Rule(lines[k]))
                     ELSE run[k - 1].groups[i].rules
              /\ run[k].groups[i].delay =
                   IF i = GroupOf(run, k) /\ lines[k].field = "crawl-delay" /\ lines[k].delay > 0
                     THEN lines[k].delay
                     ELSE run[k - 1].groups[i].delay
<1>. DEFINE p == run[k - 1]
            line == lines[k]
            groups == p.groups
            next == run[k].groups
            n == Len(groups)
<1>1. p \in ParseSet /\ run[k] \in ParseSet /\ run[k] = Rules!ParseLine(p, line)
  <2>1. k - 1 \in 0..Len(lines) /\ k \in 0..Len(lines) OBVIOUS
  <2>. QED BY <2>1 DEF IsParse
<1>2. line \in Line /\ line.field \notin {"none", "user-agent"}
  <2>1. lines[k] \in Line OBVIOUS
  <2>. QED BY <2>1 DEF Rules!IsAgent
<1>3. groups \in Seq(GroupSet) /\ next \in Seq(GroupSet) BY <1>1 DEF ParseSet
<1>4. /\ ~run[k].naming /\ Len(next) = n
      /\ \A i \in 1..n : next[i] = IF i = n THEN Rules!Extended(groups[i], line) ELSE groups[i]
  BY <1>1, <1>2, OtherParsed
<1>5. n \in Nat /\ \A i \in 1..n : groups[i] \in GroupSet BY <1>3
<1>. HIDE DEF p, line, groups, next, n
<1>6. ASSUME NEW i \in 1..n
      PROVE  /\ next[i].agents = groups[i].agents
             /\ next[i].rules = IF i = n /\ line.field \in {"allow", "disallow"}
                                  THEN Append(groups[i].rules, Rules!Rule(line))
                                  ELSE groups[i].rules
             /\ next[i].delay = IF i = n /\ line.field = "crawl-delay" /\ line.delay > 0
                                  THEN line.delay ELSE groups[i].delay
  <2>1. CASE i = n
    <3>1. next[i] = Rules!Extended(groups[i], line) /\ groups[i] \in GroupSet BY <2>1, <1>4, <1>5
    <3>. QED BY <2>1, <3>1, <1>2, GroupExtended
  <2>2. CASE i # n BY <2>2, <1>4
  <2>. QED BY <2>1, <2>2
<1>7. Rules!Find(next) = Rules!Find(groups)
  <2>1. Len(next) = Len(groups) BY <1>4 DEF n
  <2>2. \A i \in 1..Len(next) : next[i].agents = groups[i].agents BY <1>4, <1>6
  <2>. QED BY <2>1, <2>2, <1>3, FindAgents
<1>8. GroupOf(run, k) = n /\ GroupOf(run, k - 1) = n
  BY <1>4 DEF GroupOf, p, groups, next, n
<1>9. Found(run, k) = Rules!Find(next) /\ Found(run, k - 1) = Rules!Find(groups)
  BY DEF Found, p, next, groups
<1>10. run[k].groups = next /\ run[k - 1].groups = groups /\ lines[k] = line
  BY DEF p, next, groups, line
<1>. QED BY <1>4, <1>6, <1>7, <1>8, <1>9, <1>10

-----------------------------------------------------------------------------
(***************************************************************************)
(* RobotsRules: the line that picks the group, found by the two loops.     *)
(***************************************************************************)

\* A user-agent line for everyone.
IsStar(j) == Rules!IsAgent(j) /\ lines[j].agent = <<"*">>

\* _select_group has found the first of the longest names up to line k, and the first "*".
Picked(run, k) ==
  /\ Found(run, k) \in FoundSet
  /\ Found(run, k).best = 0 =>
       Found(run, k).length = 0 /\ \A j \in 1..k : ~Rules!Fits(j)
  /\ Found(run, k).best # 0 =>
       \E h \in 1..k :
         /\ Rules!Fits(h) /\ Found(run, k).best = GroupOf(run, h)
         /\ Found(run, k).length = Len(lines[h].agent)
         /\ \A j \in 1..k : Rules!Fits(j) =>
              \/ Len(lines[j].agent) < Len(lines[h].agent)
              \/ Len(lines[j].agent) = Len(lines[h].agent) /\ h <= j
  /\ Found(run, k).wildcard = 0 => \A j \in 1..k : ~IsStar(j)
  /\ Found(run, k).wildcard # 0 =>
       \E h \in 1..k :
         /\ IsStar(h) /\ Found(run, k).wildcard = GroupOf(run, h)
         /\ \A j \in 1..k : IsStar(j) => h <= j

\* Picked holds at the start, and after a line that is no user-agent line or is one.
LEMMA PickedFirst == ASSUME NEW run, IsParse(run) PROVE Picked(run, 0)
<1>1. run[0].groups = <<>> BY DEF IsParse, NothingParsed
<1>2. <<>> \in Seq(GroupSet) /\ Len(<<>>) = 0 OBVIOUS
<1>3. PICK f : FindSteps(f, <<>>) BY <1>2, FindRun
<1>4. Found(run, 0) = Rules!NothingFound BY <1>1, <1>2, <1>3 DEF Found, FindSteps
<1>. QED BY <1>4 DEF Picked, Rules!NothingFound, FoundSet

LEMMA PickedAgain ==
  ASSUME NEW run, NEW k \in Nat \ {0}, Picked(run, k - 1), ~Rules!IsAgent(k),
         Found(run, k) = Found(run, k - 1)
  PROVE  Picked(run, k)
<1>1. ~Rules!Fits(k) /\ ~IsStar(k) BY DEF Rules!Fits, IsStar
<1>2. \A j \in 1..k : j = k \/ j \in 1..k - 1 OBVIOUS
<1>3. \A j \in 1..k - 1 : j \in 1..k OBVIOUS
<1>. QED BY <1>1, <1>2, <1>3 DEF Picked

LEMMA PickedAgent ==
  ASSUME NEW run, NEW k \in Nat \ {0}, Picked(run, k - 1), Rules!IsAgent(k),
         lines[k].agent \in Seq(Chars), GroupOf(run, k) \in Nat \ {0},
         \A j \in 1..k : Rules!Fits(j) => Len(lines[j].agent) \in Nat,
         Found(run, k) = Rules!Consider(Found(run, k - 1), lines[k].agent, GroupOf(run, k))
  PROVE  Picked(run, k)
<1>. DEFINE old == Found(run, k - 1)
            new == Found(run, k)
            agent == lines[k].agent
            i == GroupOf(run, k)
<1>1. old \in FoundSet /\ agent \in Seq(Chars) /\ i \in Nat BY DEF Picked
<1>2. \A j \in 1..k : j = k \/ j \in 1..k - 1 OBVIOUS
<1>3. (\A j \in 1..k - 1 : j \in 1..k /\ j <= k) /\ k \in 1..k OBVIOUS
<1>4. CASE agent = <<"*">>
  <2>1. /\ new \in FoundSet /\ new.best = old.best /\ new.length = old.length
        /\ new.wildcard = IF old.wildcard = 0 THEN i ELSE old.wildcard
    <3>1. new = Rules!Consider(old, agent, i) OBVIOUS
    <3>. HIDE DEF new, old, agent, i
    <3>2. /\ Rules!Consider(old, agent, i) \in FoundSet
          /\ Rules!Consider(old, agent, i).best = old.best
          /\ Rules!Consider(old, agent, i).length = old.length
          /\ Rules!Consider(old, agent, i).wildcard =
               IF old.wildcard = 0 THEN i ELSE old.wildcard
      BY <1>1, <1>4, ConsiderStar
    <3>. QED BY <3>1, <3>2
  <2>2. ~Rules!Fits(k) /\ IsStar(k) BY <1>4 DEF Rules!Fits, IsStar, Rules!Star
  <2>. QED BY <1>2, <1>3, <2>1, <2>2 DEF Picked
<1>5. CASE agent # <<"*">> /\ Rules!IsPrefix(agent, Token) /\ Len(agent) > old.length
  <2>1. /\ new \in FoundSet /\ new.best = i /\ new.length = Len(agent)
        /\ new.wildcard = old.wildcard
    BY <1>1, <1>5, ConsiderLonger
  <2>2. agent # <<>> BY <1>1, <1>5 DEF FoundSet
  <2>3. Rules!Fits(k) /\ ~IsStar(k) BY <1>5, <2>2 DEF Rules!Fits, IsStar, Rules!Star
  <2>4. \A j \in 1..k - 1 : Rules!Fits(j) => Len(lines[j].agent) < Len(agent)
    <3>. SUFFICES ASSUME NEW j \in 1..k - 1, Rules!Fits(j) PROVE Len(lines[j].agent) < Len(agent)
      OBVIOUS
    <3>1. Len(lines[j].agent) <= old.length
      <4>1. old.best # 0 BY DEF Picked
      <4>2. PICK h \in 1..k - 1 :
              /\ Rules!Fits(h) /\ old.length = Len(lines[h].agent)
              /\ \/ Len(lines[j].agent) < Len(lines[h].agent)
                 \/ Len(lines[j].agent) = Len(lines[h].agent) /\ h <= j
        BY <4>1, Zenon DEF Picked
      <4>3. Len(lines[j].agent) \in Nat /\ Len(lines[h].agent) \in Nat BY <1>3, <4>2
      <4>. QED
        <5>. HIDE DEF old
        <5>. QED BY ONLY <4>2, <4>3
    <3>2. Len(lines[j].agent) \in Nat /\ old.length \in Nat /\ Len(agent) \in Nat
      BY <1>1, <1>3 DEF FoundSet
    <3>. QED BY <1>5, <3>1, <3>2
  <2>5. \A j \in 1..k : Rules!Fits(j) =>
          \/ Len(lines[j].agent) < Len(agent)
          \/ Len(lines[j].agent) = Len(agent) /\ k <= j
    BY <1>2, <2>4
  <2>6. /\ new.wildcard = 0 => \A j \in 1..k : ~IsStar(j)
        /\ new.wildcard # 0 =>
             \E h \in 1..k : /\ IsStar(h) /\ new.wildcard = GroupOf(run, h)
                             /\ \A j \in 1..k : IsStar(j) => h <= j
    BY <1>2, <1>3, <2>1, <2>3 DEF Picked
  <2>. QED BY <1>3, <2>1, <2>3, <2>5, <2>6 DEF Picked
<1>6. CASE agent # <<"*">> /\ ~(Rules!IsPrefix(agent, Token) /\ Len(agent) > old.length)
  <2>1. new = old BY <1>6, ConsiderOther
  <2>2. ~IsStar(k) BY <1>6 DEF IsStar
  <2>3. Rules!Fits(k) => /\ old.best # 0
                         /\ Len(agent) <= old.length
    <3>. SUFFICES ASSUME Rules!Fits(k) PROVE old.best # 0 /\ Len(agent) <= old.length OBVIOUS
    <3>1. Rules!IsPrefix(agent, Token) /\ agent # <<>> BY DEF Rules!Fits
    <3>2. Len(agent) \in Nat \ {0} /\ old.length \in Nat BY <1>1, <3>1 DEF FoundSet
    <3>3. Len(agent) <= old.length BY <1>6, <3>1, <3>2
    <3>4. old.length # 0 BY <3>2, <3>3
    <3>. QED BY <3>3, <3>4 DEF Picked
  <2>4. /\ new.best = 0 => new.length = 0 /\ \A j \in 1..k : ~Rules!Fits(j)
        /\ new.wildcard = 0 => \A j \in 1..k : ~IsStar(j)
        /\ new.wildcard # 0 =>
             \E h \in 1..k : /\ IsStar(h) /\ new.wildcard = GroupOf(run, h)
                             /\ \A j \in 1..k : IsStar(j) => h <= j
    BY <1>2, <1>3, <2>1, <2>2, <2>3 DEF Picked
  <2>5. ASSUME new.best # 0
        PROVE  \E h \in 1..k :
                 /\ Rules!Fits(h) /\ new.best = GroupOf(run, h)
                 /\ new.length = Len(lines[h].agent)
                 /\ \A j \in 1..k : Rules!Fits(j) =>
                      \/ Len(lines[j].agent) < Len(lines[h].agent)
                      \/ Len(lines[j].agent) = Len(lines[h].agent) /\ h <= j
    <3>1. PICK h \in 1..k - 1 :
            /\ Rules!Fits(h) /\ old.best = GroupOf(run, h)
            /\ old.length = Len(lines[h].agent)
            /\ \A j \in 1..k - 1 : Rules!Fits(j) =>
                 \/ Len(lines[j].agent) < Len(lines[h].agent)
                 \/ Len(lines[j].agent) = Len(lines[h].agent) /\ h <= j
      BY <2>1, <2>5 DEF Picked
    <3>2. h \in 1..k /\ h <= k BY <1>3
    <3>3. Rules!Fits(k) => \/ Len(agent) < Len(lines[h].agent)
                           \/ Len(agent) = Len(lines[h].agent) /\ h <= k
      <4>1. Len(agent) \in Nat /\ Len(lines[h].agent) \in Nat BY <1>1, <3>1, <3>2
      <4>. QED BY <2>3, <3>1, <3>2, <4>1
    <3>. QED BY <1>2, <2>1, <3>1, <3>2, <3>3
  <2>. QED BY <1>1, <2>1, <2>4, <2>5 DEF Picked
<1>. QED BY <1>4, <1>5, <1>6

-----------------------------------------------------------------------------
(***************************************************************************)
(* RobotsRules: what each group holds are its lines.                       *)
(***************************************************************************)

\* The groups of the lines before k have numbers up to that of k.
Numbered(run, k) ==
  /\ GroupOf(run, k) \in Nat
  /\ \A j \in 0..k : GroupOf(run, j) \in Nat /\ GroupOf(run, j) <= GroupOf(run, k)

\* _parse_groups is naming agents: a user-agent line with nothing readable behind it.
Naming(run, k) ==
  run[k].naming <=> \E e \in 1..k :
                      Rules!IsAgent(e) /\ \A m \in e + 1..k : lines[m].field = "none"

\* A line with a pattern, and one with a delay that counts.
IsRule(l) == lines[l].field \in {"allow", "disallow"}

IsDelay(l) == lines[l].field = "crawl-delay" /\ lines[l].delay > 0

\* Each group holds the rules of its lines and the last of their delays.
Kept(run, k) ==
  \A i \in 1..GroupOf(run, k) :
    /\ \A r : (\E a \in DOMAIN run[k].groups[i].rules : r = run[k].groups[i].rules[a])
                <=> \E l \in 1..k :
                      IsRule(l) /\ GroupOf(run, l) = i /\ r = Rules!Rule(lines[l])
    /\ \/ /\ run[k].groups[i].delay = 0
          /\ \A l \in 1..k : IsDelay(l) => GroupOf(run, l) # i
       \/ \E l \in 1..k :
            /\ IsDelay(l) /\ GroupOf(run, l) = i /\ run[k].groups[i].delay = lines[l].delay
            /\ \A j \in 1..k : IsDelay(j) /\ GroupOf(run, j) = i => j <= l

LEMMA GroupsTyped ==
  ASSUME NEW run, IsParse(run), NEW k \in 0..Len(lines)
  PROVE  /\ GroupOf(run, k) \in Nat /\ run[k].naming \in BOOLEAN
         /\ \A i \in 1..GroupOf(run, k) : run[k].groups[i] \in GroupSet
<1>1. run[k] \in ParseSet BY DEF IsParse
<1>2. run[k].groups \in Seq(GroupSet) /\ run[k].naming \in BOOLEAN BY <1>1 DEF ParseSet
<1>. QED BY <1>2 DEF GroupOf

LEMMA NumberedNext ==
  ASSUME NEW run, NEW k \in Nat \ {0}, Numbered(run, k - 1), GroupOf(run, k) \in Nat,
         GroupOf(run, k) >= GroupOf(run, k - 1)
  PROVE  Numbered(run, k)
<1>1. \A j \in 0..k : j = k \/ j \in 0..k - 1 OBVIOUS
<1>. QED BY <1>1 DEF Numbered

\* Line k is no user-agent line, and its number is that of the line before.
LEMMA NamingNext ==
  ASSUME NEW run, NEW k \in Nat \ {0}, Naming(run, k - 1), run[k].naming \in BOOLEAN,
         \/ Rules!IsAgent(k) /\ run[k].naming
         \/ ~Rules!IsAgent(k) /\ lines[k].field # "none" /\ ~run[k].naming
         \/ lines[k].field = "none" /\ run[k].naming = run[k - 1].naming
  PROVE  Naming(run, k)
<1>1. CASE Rules!IsAgent(k) /\ run[k].naming
  <2>1. k \in 1..k /\ \A m \in k + 1..k : lines[m].field = "none" OBVIOUS
  <2>. QED BY <1>1, <2>1 DEF Naming
<1>2. CASE ~Rules!IsAgent(k) /\ lines[k].field # "none" /\ ~run[k].naming
  <2>1. ASSUME NEW e \in 1..k, Rules!IsAgent(e), \A m \in e + 1..k : lines[m].field = "none"
        PROVE  FALSE
    <3>1. k \in e + 1..k BY <1>2, <2>1
    <3>. QED BY <1>2, <2>1, <3>1
  <2>. QED BY <1>2, <2>1 DEF Naming
<1>3. CASE lines[k].field = "none" /\ run[k].naming = run[k - 1].naming
  <2>1. ~Rules!IsAgent(k) BY <1>3 DEF Rules!IsAgent
  <2>2. ASSUME NEW e \in 1..k - 1
        PROVE  (\A m \in e + 1..k - 1 : lines[m].field = "none")
                 <=> \A m \in e + 1..k : lines[m].field = "none"
    <3>1. \A m \in e + 1..k : m = k \/ m \in e + 1..k - 1 OBVIOUS
    <3>2. \A m \in e + 1..k - 1 : m \in e + 1..k OBVIOUS
    <3>. QED BY <1>3, <3>1, <3>2
  <2>3. \A e \in 1..k : e = k \/ e \in 1..k - 1 OBVIOUS
  <2>4. \A e \in 1..k - 1 : e \in 1..k OBVIOUS
  <2>. QED BY <1>3, <2>1, <2>2, <2>3, <2>4 DEF Naming
<1>. QED BY <1>1, <1>2, <1>3

\* Line k is a user-agent line or an unreadable one: no group gets a rule or a delay.
LEMMA KeptNames ==
  ASSUME NEW run, NEW k \in Nat \ {0}, Numbered(run, k - 1), Kept(run, k - 1),
         ~IsRule(k), ~IsDelay(k), GroupOf(run, k) \in Nat,
         \A i \in 1..GroupOf(run, k) :
           /\ run[k].groups[i].rules =
                IF i <= GroupOf(run, k - 1) THEN run[k - 1].groups[i].rules ELSE <<>>
           /\ run[k].groups[i].delay =
                IF i <= GroupOf(run, k - 1) THEN run[k - 1].groups[i].delay ELSE 0
  PROVE  Kept(run, k)
<1>. SUFFICES ASSUME NEW i \in 1..GroupOf(run, k)
              PROVE
    /\ \A r : (\E a \in DOMAIN run[k].groups[i].rules : r = run[k].groups[i].rules[a])
                <=> \E l \in 1..k :
                      IsRule(l) /\ GroupOf(run, l) = i /\ r = Rules!Rule(lines[l])
    /\ \/ /\ run[k].groups[i].delay = 0
          /\ \A l \in 1..k : IsDelay(l) => GroupOf(run, l) # i
       \/ \E l \in 1..k :
            /\ IsDelay(l) /\ GroupOf(run, l) = i /\ run[k].groups[i].delay = lines[l].delay
            /\ \A j \in 1..k : IsDelay(j) /\ GroupOf(run, j) = i => j <= l
  BY DEF Kept
<1>1. (\A j \in 1..k : j = k \/ j \in 1..k - 1) /\ (\A j \in 1..k - 1 : j \in 1..k) OBVIOUS
<1>2. CASE i <= GroupOf(run, k - 1)
  <2>1. i \in 1..GroupOf(run, k - 1) BY <1>2 DEF Numbered
  <2>2. /\ run[k].groups[i].rules = run[k - 1].groups[i].rules
        /\ run[k].groups[i].delay = run[k - 1].groups[i].delay
    BY <1>2
  <2>3. \A r : (\E l \in 1..k : IsRule(l) /\ GroupOf(run, l) = i /\ r = Rules!Rule(lines[l]))
           <=> (\E l \in 1..k - 1 : IsRule(l) /\ GroupOf(run, l) = i /\ r = Rules!Rule(lines[l]))
    BY <1>1
  <2>4. \A r : (\E a \in DOMAIN run[k - 1].groups[i].rules : r = run[k - 1].groups[i].rules[a])
           <=> (\E l \in 1..k - 1 : IsRule(l) /\ GroupOf(run, l) = i /\ r = Rules!Rule(lines[l]))
    BY <2>1 DEF Kept
  <2>5. \/ /\ run[k - 1].groups[i].delay = 0
           /\ \A l \in 1..k : IsDelay(l) => GroupOf(run, l) # i
        \/ \E l \in 1..k :
             /\ IsDelay(l) /\ GroupOf(run, l) = i /\ run[k - 1].groups[i].delay = lines[l].delay
             /\ \A j \in 1..k : IsDelay(j) /\ GroupOf(run, j) = i => j <= l
    BY <1>1, <2>1 DEF Kept
  <2>6. \A r : (\E a \in DOMAIN run[k].groups[i].rules : r = run[k].groups[i].rules[a])
           <=> (\E l \in 1..k : IsRule(l) /\ GroupOf(run, l) = i /\ r = Rules!Rule(lines[l]))
    <3>1. \A r : (\E a \in DOMAIN run[k].groups[i].rules : r = run[k].groups[i].rules[a])
             <=> (\E a \in DOMAIN run[k - 1].groups[i].rules : r = run[k - 1].groups[i].rules[a])
      BY <2>2
    <3>. QED BY <2>3, <2>4, <3>1, Zenon
  <2>7. \/ /\ run[k].groups[i].delay = 0
           /\ \A l \in 1..k : IsDelay(l) => GroupOf(run, l) # i
        \/ \E l \in 1..k :
             /\ IsDelay(l) /\ GroupOf(run, l) = i /\ run[k].groups[i].delay = lines[l].delay
             /\ \A j \in 1..k : IsDelay(j) /\ GroupOf(run, j) = i => j <= l
    BY <2>2, <2>5
  <2>. QED BY <2>6, <2>7, Zenon
<1>3. CASE ~(i <= GroupOf(run, k - 1))
  <2>1. run[k].groups[i].rules = <<>> /\ run[k].groups[i].delay = 0 BY <1>3
  <2>2. \A l \in 1..k - 1 : GroupOf(run, l) # i
    <3>. TAKE l \in 1..k - 1
    <3>1. l \in 0..k - 1 OBVIOUS
    <3>2. GroupOf(run, l) <= GroupOf(run, k - 1) /\ GroupOf(run, l) \in Nat
      BY <3>1 DEF Numbered
    <3>. QED BY <1>3, <3>2 DEF Numbered
  <2>3. DOMAIN <<>> = {} OBVIOUS
  <2>. QED BY <1>1, <2>1, <2>2, <2>3
<1>. QED BY <1>2, <1>3

\* Line k is a rule, a delay or a field that means nothing, and goes to the last group.
LEMMA KeptRules ==
  ASSUME lines \in Seq(Line), NEW run, NEW k \in Nat \ {0}, Numbered(run, k - 1),
         Kept(run, k - 1), GroupOf(run, k) = GroupOf(run, k - 1),
         \A i \in 1..GroupOf(run, k - 1) : run[k - 1].groups[i] \in GroupSet,
         IsRule(k) => Rules!Rule(lines[k]) \in RuleSet,
         \A i \in 1..GroupOf(run, k) :
              /\ run[k].groups[i].rules =
                   IF i = GroupOf(run, k) /\ lines[k].field \in {"allow", "disallow"}
                     THEN Append(run[k - 1].groups[i].rules, Rules!Rule(lines[k]))
                     ELSE run[k - 1].groups[i].rules
              /\ run[k].groups[i].delay =
                   IF i = GroupOf(run, k) /\ lines[k].field = "crawl-delay" /\ lines[k].delay > 0
                     THEN lines[k].delay
                     ELSE run[k - 1].groups[i].delay
  PROVE  Kept(run, k)
<1>. SUFFICES ASSUME NEW i \in 1..GroupOf(run, k)
              PROVE
    /\ \A r : (\E a \in DOMAIN run[k].groups[i].rules : r = run[k].groups[i].rules[a])
                <=> \E l \in 1..k :
                      IsRule(l) /\ GroupOf(run, l) = i /\ r = Rules!Rule(lines[l])
    /\ \/ /\ run[k].groups[i].delay = 0
          /\ \A l \in 1..k : IsDelay(l) => GroupOf(run, l) # i
       \/ \E l \in 1..k :
            /\ IsDelay(l) /\ GroupOf(run, l) = i /\ run[k].groups[i].delay = lines[l].delay
            /\ \A j \in 1..k : IsDelay(j) /\ GroupOf(run, j) = i => j <= l
  BY DEF Kept
<1>. DEFINE old == run[k - 1].groups[i].rules
            new == run[k].groups[i].rules
<1>1. (\A j \in 1..k : j = k \/ j \in 1..k - 1) /\ (\A j \in 1..k - 1 : j \in 1..k /\ j <= k)
      /\ k \in 1..k
  OBVIOUS
<1>2. i \in 1..GroupOf(run, k - 1) OBVIOUS
<1>3. \A r : (\E a \in DOMAIN old : r = old[a])
         <=> (\E l \in 1..k - 1 : IsRule(l) /\ GroupOf(run, l) = i /\ r = Rules!Rule(lines[l]))
  BY <1>2 DEF Kept
<1>4. old \in Seq(RuleSet)
  <2>1. run[k - 1].groups[i] \in GroupSet BY <1>2
  <2>. QED BY <2>1 DEF GroupSet
<1>5. new = IF IsRule(k) /\ GroupOf(run, k) = i THEN Append(old, Rules!Rule(lines[k])) ELSE old
  BY DEF IsRule
<1>6. \A r : (\E a \in DOMAIN new : r = new[a])
        <=> \/ \E a \in DOMAIN old : r = old[a]
            \/ IsRule(k) /\ GroupOf(run, k) = i /\ r = Rules!Rule(lines[k])
  <2>. HIDE DEF old, new
  <2>1. CASE IsRule(k) /\ GroupOf(run, k) = i
    <3>. DEFINE rule == Rules!Rule(lines[k])
    <3>1. rule \in RuleSet /\ new = Append(old, rule) BY <2>1, <1>5
    <3>. HIDE DEF rule
    <3>2. /\ DOMAIN old = 1..Len(old) /\ DOMAIN new = 1..Len(old) + 1 /\ Len(old) \in Nat
          /\ new[Len(old) + 1] = rule
          /\ \A a \in 1..Len(old) : new[a] = old[a]
      BY <1>4, <3>1
    <3>3. \A r : (\E a \in DOMAIN new : r = new[a])
                    <=> (\E a \in DOMAIN old : r = old[a]) \/ r = rule
      <4>. TAKE r
      <4>1. (\E a \in DOMAIN new : r = new[a]) => (\E a \in DOMAIN old : r = old[a]) \/ r = rule
        <5>1. \A a \in 1..Len(old) + 1 : a = Len(old) + 1 \/ a \in 1..Len(old) BY <3>2
        <5>. QED BY <5>1, <3>2
      <4>2. (\E a \in DOMAIN old : r = old[a]) \/ r = rule => (\E a \in DOMAIN new : r = new[a])
        <5>1. \A a \in 1..Len(old) : a \in 1..Len(old) + 1 BY <3>2
        <5>2. Len(old) + 1 \in 1..Len(old) + 1 BY <3>2
        <5>. QED BY <5>1, <5>2, <3>2
      <4>. QED BY <4>1, <4>2
    <3>. QED BY <2>1, <3>3 DEF rule
  <2>2. CASE ~(IsRule(k) /\ GroupOf(run, k) = i) BY <2>2, <1>5
  <2>. QED BY <2>1, <2>2
<1>7. \A r : (\E l \in 1..k : IsRule(l) /\ GroupOf(run, l) = i /\ r = Rules!Rule(lines[l]))
        <=> \/ \E l \in 1..k - 1 : IsRule(l) /\ GroupOf(run, l) = i /\ r = Rules!Rule(lines[l])
            \/ IsRule(k) /\ GroupOf(run, k) = i /\ r = Rules!Rule(lines[k])
  BY <1>1
<1>8. \A r : (\E a \in DOMAIN new : r = new[a])
         <=> (\E l \in 1..k : IsRule(l) /\ GroupOf(run, l) = i /\ r = Rules!Rule(lines[l]))
  <2>. HIDE DEF old, new
  <2>. QED BY <1>3, <1>6, <1>7
<1>9. \/ /\ run[k].groups[i].delay = 0
         /\ \A l \in 1..k : IsDelay(l) => GroupOf(run, l) # i
      \/ \E l \in 1..k :
           /\ IsDelay(l) /\ GroupOf(run, l) = i /\ run[k].groups[i].delay = lines[l].delay
           /\ \A j \in 1..k : IsDelay(j) /\ GroupOf(run, j) = i => j <= l
  <2>1. CASE IsDelay(k) /\ GroupOf(run, k) = i
    <3>1. run[k].groups[i].delay = lines[k].delay BY <2>1 DEF IsDelay
    <3>2. \A j \in 1..k : j <= k OBVIOUS
    <3>. QED BY <1>1, <2>1, <3>1, <3>2
  <2>2. CASE ~(IsDelay(k) /\ GroupOf(run, k) = i)
    <3>1. run[k].groups[i].delay = run[k - 1].groups[i].delay BY <2>2 DEF IsDelay
    <3>. QED BY <1>1, <1>2, <2>2, <3>1 DEF Kept
  <2>. QED BY <2>1, <2>2
<1>. QED BY <1>8, <1>9

\* All that is known of the groups after k lines.
LinesRead(run, k) == Numbered(run, k) /\ Naming(run, k) /\ Picked(run, k) /\ Kept(run, k)

\* A line opens a group if it is a user-agent line and none is being named.
LEMMA GroupNext ==
  ASSUME lines \in Seq(Line), NEW run, IsParse(run), NEW k \in 1..Len(lines)
  PROVE  /\ GroupOf(run, k) = IF Rules!IsAgent(k) /\ ~run[k - 1].naming
                                THEN GroupOf(run, k - 1) + 1 ELSE GroupOf(run, k - 1)
         /\ Rules!IsAgent(k) => run[k].naming
         /\ lines[k].field = "none" => run[k].naming = run[k - 1].naming
<1>1. CASE Rules!IsAgent(k)
  <2>1. lines[k].field # "none" BY <1>1 DEF Rules!IsAgent
  <2>. QED BY <1>1, <2>1, AgentLine
<1>2. CASE lines[k].field = "none"
  <2>1. ~Rules!IsAgent(k) BY <1>2 DEF Rules!IsAgent
  <2>. QED BY <1>2, <2>1, NoneLine DEF GroupOf
<1>3. CASE ~Rules!IsAgent(k) /\ lines[k].field # "none" BY <1>3, RuleLine
<1>. QED BY <1>1, <1>2, <1>3

\* It holds after each line.
LEMMA ReadNext ==
  ASSUME lines \in Seq(Line), NEW run, IsParse(run), NEW k \in 1..Len(lines),
         LinesRead(run, k - 1)
  PROVE  LinesRead(run, k)
<1>. USE DEF LinesRead
<1>1. k \in Nat \ {0} /\ k - 1 \in 0..Len(lines) /\ k \in 0..Len(lines) OBVIOUS
<1>2. /\ GroupOf(run, k) \in Nat /\ run[k].naming \in BOOLEAN
      /\ GroupOf(run, k - 1) \in Nat /\ run[k - 1].naming \in BOOLEAN
      /\ \A i \in 1..GroupOf(run, k - 1) : run[k - 1].groups[i] \in GroupSet
  BY <1>1, GroupsTyped
<1>3. Numbered(run, k) BY <1>1, <1>2, GroupNext, NumberedNext
<1>4. lines[k] \in Line OBVIOUS
<1>5. CASE Rules!IsAgent(k)
  <2>1. ~IsRule(k) /\ ~IsDelay(k) /\ lines[k].field # "none"
    BY <1>5 DEF Rules!IsAgent, IsRule, IsDelay
  <2>2. Naming(run, k) BY <1>1, <1>2, <1>5, AgentLine, NamingNext
  <2>3. Picked(run, k)
    <3>1. GroupOf(run, k) \in Nat \ {0} BY <1>2, <1>5, AgentLine
    <3>2. \A j \in 1..k : Rules!Fits(j) => Len(lines[j].agent) \in Nat
      <4>. SUFFICES ASSUME NEW j \in 1..k, Rules!Fits(j) PROVE Len(lines[j].agent) \in Nat OBVIOUS
      <4>1. lines[j] \in Line /\ lines[j].field = "user-agent" BY DEF Rules!Fits, Rules!IsAgent
      <4>2. lines[j].agent \in Seq(Chars) BY <4>1 DEF Line
      <4>. QED BY <4>2
    <3>3. /\ lines[k].agent \in Seq(Chars)
          /\ Found(run, k) = Rules!Consider(Found(run, k - 1), lines[k].agent, GroupOf(run, k))
      BY <1>5, AgentLine
    <3>. QED BY <1>1, <1>5, <3>1, <3>2, <3>3, PickedAgent
  <2>4. Kept(run, k) BY <1>1, <1>2, <1>5, <2>1, AgentLine, KeptNames
  <2>. QED BY <1>3, <2>2, <2>3, <2>4
<1>6. CASE lines[k].field = "none"
  <2>1. ~IsRule(k) /\ ~IsDelay(k) /\ ~Rules!IsAgent(k) BY <1>6 DEF Rules!IsAgent, IsRule, IsDelay
  <2>2. run[k] = run[k - 1] BY <1>6, NoneLine
  <2>3. Naming(run, k) BY <1>1, <1>2, <1>6, <2>2, NamingNext
  <2>4. Picked(run, k) BY <1>1, <2>1, <2>2, PickedAgain DEF Found
  <2>5. Kept(run, k)
    <3>1. \A i \in 1..GroupOf(run, k) : i <= GroupOf(run, k - 1) BY <1>2, <2>2 DEF GroupOf
    <3>2. \A i \in 1..GroupOf(run, k) :
            /\ run[k].groups[i].rules =
                 IF i <= GroupOf(run, k - 1) THEN run[k - 1].groups[i].rules ELSE <<>>
            /\ run[k].groups[i].delay =
                 IF i <= GroupOf(run, k - 1) THEN run[k - 1].groups[i].delay ELSE 0
      BY <2>2, <3>1
    <3>. QED BY <1>1, <1>2, <2>1, <3>2, KeptNames
  <2>. QED BY <1>3, <2>3, <2>4, <2>5
<1>7. CASE ~Rules!IsAgent(k) /\ lines[k].field # "none"
  <2>1. Naming(run, k) BY <1>1, <1>2, <1>7, RuleLine, NamingNext
  <2>2. Picked(run, k) BY <1>1, <1>7, RuleLine, PickedAgain
  <2>3. IsRule(k) => Rules!Rule(lines[k]) \in RuleSet BY <1>4, RuleTyped DEF IsRule
  <2>4. Kept(run, k) BY <1>1, <1>2, <1>7, <2>3, RuleLine, KeptRules
  <2>. QED BY <1>3, <2>1, <2>2, <2>4
<1>. QED BY <1>5, <1>6, <1>7

LEMMA ReadAll ==
  ASSUME lines \in Seq(Line), NEW run, IsParse(run)
  PROVE  \A k \in 0..Len(lines) : LinesRead(run, k)
<1>. DEFINE P == {k \in 0..Len(lines) : LinesRead(run, k)}
            n == Len(lines)
<1>1. n \in Nat OBVIOUS
<1>2. LinesRead(run, 0)
  <2>1. run[0].groups = <<>> /\ ~run[0].naming BY DEF IsParse, NothingParsed
  <2>2. GroupOf(run, 0) = 0 BY <2>1 DEF GroupOf
  <2>3. Numbered(run, 0) /\ Kept(run, 0) BY <2>2 DEF Numbered, Kept
  <2>4. Naming(run, 0) BY <2>1 DEF Naming
  <2>. QED BY <2>3, <2>4, PickedFirst DEF LinesRead
<1>3. \A k \in 1..n : k - 1 \in P => k \in P BY ReadNext
<1>4. 0 \in P BY <1>2
<1>. HIDE DEF P
<1>5. \A k \in 0..n : k \in P BY <1>1, <1>3, <1>4, UpTo
<1>. QED BY <1>5 DEF P

\* A user-agent line behind a line that means something is of a later group.
LEMMA LaterGroup ==
  ASSUME lines \in Seq(Line), NEW run, IsParse(run), NEW l \in 1..Len(lines),
         ~Rules!IsAgent(l), lines[l].field # "none",
         NEW p \in 1..Len(lines), Rules!IsAgent(p), p > l
  PROVE  GroupOf(run, p) > GroupOf(run, l)
<1>. DEFINE T == {m \in l..p : Rules!IsAgent(m)}
<1>1. T \subseteq Nat /\ T # {} OBVIOUS
<1>2. PICK m \in T : \A y \in T : m <= y
  <2>. HIDE DEF T
  <2>. QED BY <1>1, NatMin
<1>3. m \in l + 1..p /\ Rules!IsAgent(m) /\ \A y \in l..m - 1 : ~Rules!IsAgent(y)
  <2>1. m # l /\ m \in l..p OBVIOUS
  <2>2. ASSUME NEW y \in l..m - 1, Rules!IsAgent(y) PROVE FALSE
    <3>1. y \in T /\ ~(m <= y) BY <2>1, <2>2
    <3>. QED BY <3>1, <1>2
  <2>. QED BY <2>1, <2>2
<1>. HIDE DEF T
<1>4. m \in 1..Len(lines) /\ m - 1 \in 0..Len(lines) /\ m - 1 \in l..m - 1 BY <1>3
<1>5. ~run[m - 1].naming
  <2>1. SUFFICES ASSUME run[m - 1].naming PROVE FALSE OBVIOUS
  <2>2. Naming(run, m - 1) BY <1>4, ReadAll DEF LinesRead
  <2>3. PICK e \in 1..m - 1 :
          Rules!IsAgent(e) /\ \A y \in e + 1..m - 1 : lines[y].field = "none"
    BY <2>1, <2>2 DEF Naming
  <2>4. ~(e \in l..m - 1) BY <1>3, <2>3
  <2>5. l \in e + 1..m - 1 BY <1>3, <2>4
  <2>. QED BY <2>3, <2>5
<1>6. GroupOf(run, m) = GroupOf(run, m - 1) + 1 BY <1>3, <1>4, <1>5, GroupNext
<1>7. Numbered(run, m - 1) /\ Numbered(run, p) BY <1>4, ReadAll DEF LinesRead
<1>8. l \in 0..m - 1 /\ m \in 0..p BY <1>3
<1>9. /\ GroupOf(run, l) \in Nat /\ GroupOf(run, l) <= GroupOf(run, m - 1)
      /\ GroupOf(run, m - 1) \in Nat
  BY <1>7, <1>8 DEF Numbered
<1>10. GroupOf(run, m) \in Nat /\ GroupOf(run, m) <= GroupOf(run, p) /\ GroupOf(run, p) \in Nat
  BY <1>7, <1>8 DEF Numbered
<1>. QED BY <1>6, <1>9, <1>10

\* The heads of a line are the user-agent lines of its group.
LEMMA HeadsAre ==
  ASSUME lines \in Seq(Line), NEW run, IsParse(run), NEW l \in 1..Len(lines),
         ~Rules!IsAgent(l), NEW h \in 1..l
  PROVE  h \in Rules!Heads(l) <=> Rules!IsAgent(h) /\ GroupOf(run, h) = GroupOf(run, l)
<1>1. ASSUME h \in Rules!Heads(l)
      PROVE  Rules!IsAgent(h) /\ GroupOf(run, h) = GroupOf(run, l)
  <2>1. Rules!IsAgent(h) BY <1>1 DEF Rules!Heads
  <2>2. PICK e \in h..l : /\ \A k \in e + 1..l : ~Rules!IsAgent(k)
                          /\ \A k \in h..e : Rules!IsAgent(k) \/ lines[k].field = "none"
    BY <1>1 DEF Rules!Heads
  <2>. DEFINE P == {d \in 0..l - h : /\ GroupOf(run, h + d) = GroupOf(run, h)
                                     /\ h + d <= e => run[h + d].naming}
              n == l - h
  <2>3. n \in Nat OBVIOUS
  <2>4. 0 \in P
    <3>1. run[h].naming BY <2>1, GroupNext
    <3>2. h + 0 = h OBVIOUS
    <3>. QED BY <2>3, <3>1, <3>2
  <2>5. ASSUME NEW d \in 1..n, d - 1 \in P PROVE d \in P
    <3>. DEFINE k == h + d
    <3>1. k \in 1..Len(lines) /\ k - 1 = h + (d - 1) /\ k \in h + 1..l OBVIOUS
    <3>2. GroupOf(run, k - 1) = GroupOf(run, h) /\ (k - 1 <= e => run[k - 1].naming)
      BY <2>5, <3>1
    <3>. HIDE DEF k
    <3>3. CASE k <= e
      <4>1. k \in h..e /\ k - 1 <= e BY <3>1, <3>3
      <4>. QED BY <2>2, <3>1, <3>2, <4>1, GroupNext DEF k
    <3>4. CASE ~(k <= e)
      <4>1. ~Rules!IsAgent(k)
        <5>1. k \in e + 1..l BY <3>1, <3>4
        <5>. QED BY <2>2, <5>1
      <4>. QED BY <3>1, <3>2, <3>4, <4>1, GroupNext DEF k
    <3>. QED BY <3>3, <3>4
  <2>. HIDE DEF P
  <2>6. \A d \in 0..n : d \in P BY <2>3, <2>4, <2>5, UpTo
  <2>7. n \in P /\ h + n = l BY <2>3, <2>6
  <2>. QED BY <2>1, <2>7 DEF P
<1>2. ASSUME Rules!IsAgent(h), GroupOf(run, h) = GroupOf(run, l)
      PROVE  h \in Rules!Heads(l)
  <2>. DEFINE T == {m \in h..l : Rules!IsAgent(m)}
  <2>1. T \subseteq 1..Len(lines) /\ T # {} BY <1>2
  <2>2. Max(T) \in T /\ \A y \in T : Max(T) >= y
    <3>1. Len(lines) \in Nat OBVIOUS
    <3>. HIDE DEF T
    <3>. QED BY <2>1, <3>1, MaxIn
  <2>3. PICK e \in T : \A y \in T : e >= y BY <2>2
  <2>4. e \in h..l /\ Rules!IsAgent(e) OBVIOUS
  <2>5. \A k \in e + 1..l : ~Rules!IsAgent(k) BY <2>3, <2>4
  <2>6. ASSUME NEW k \in h..e PROVE Rules!IsAgent(k) \/ lines[k].field = "none"
    <3>. SUFFICES ASSUME ~Rules!IsAgent(k), lines[k].field # "none" PROVE FALSE OBVIOUS
    <3>. HIDE DEF T
    <3>1. k \in 1..Len(lines) /\ e \in 1..Len(lines) /\ k # e BY <2>4
    <3>2. e > k BY <2>4, <3>1
    <3>3. GroupOf(run, e) > GroupOf(run, k) BY <2>4, <3>1, <3>2, LaterGroup
    <3>4. Numbered(run, k) /\ Numbered(run, l)
      <4>1. k \in 0..Len(lines) /\ l \in 0..Len(lines) BY <3>1
      <4>. QED BY <4>1, ReadAll DEF LinesRead
    <3>5. h \in 0..k /\ e \in 0..l /\ k \in 0..l BY <2>4
    <3>. QED BY <1>2, <3>3, <3>4, <3>5 DEF Numbered
  <2>. QED BY <1>2, <2>4, <2>5, <2>6 DEF Rules!Heads
<1>. QED BY <1>1, <1>2

-----------------------------------------------------------------------------
(***************************************************************************)
(* RobotsRules: the lines for us are those of the group chosen.            *)
(***************************************************************************)

\* The number of the group that _select_group chooses from the whole file, or 0.
Chosen(run) ==
  IF Found(run, Len(lines)).best # 0 THEN Found(run, Len(lines)).best
                                     ELSE Found(run, Len(lines)).wildcard

\* It is the group of the one line that picks it, if any does.
IsChoice(run) ==
  /\ Chosen(run) \in Nat
  /\ Chosen(run) = 0 => \A h \in 1..Len(lines) : ~Rules!IsPick(h)
  /\ Chosen(run) # 0 =>
       \E p \in 1..Len(lines) :
         /\ Rules!IsPick(p) /\ Rules!IsAgent(p) /\ Chosen(run) = GroupOf(run, p)
         /\ \A q \in 1..Len(lines) : Rules!IsPick(q) => q = p

LEMMA ChosenIsPicked ==
  ASSUME lines \in Seq(Line), NEW run, IsParse(run)
  PROVE  IsChoice(run)
<1>. DEFINE n == Len(lines)
            found == Found(run, n)
<1>1. n \in Nat /\ DOMAIN lines = 1..n OBVIOUS
<1>2. Picked(run, n)
  <2>1. n \in 0..n BY <1>1
  <2>. QED BY <2>1, ReadAll DEF LinesRead
<1>3. /\ found.best \in Nat /\ found.wildcard \in Nat
      /\ Chosen(run) = IF found.best # 0 THEN found.best ELSE found.wildcard
  BY <1>2 DEF Picked, FoundSet, Chosen
<1>4. \A j \in 1..n : Rules!Fits(j) => Len(lines[j].agent) \in Nat
  <2>. SUFFICES ASSUME NEW j \in 1..n, Rules!Fits(j) PROVE Len(lines[j].agent) \in Nat OBVIOUS
  <2>1. lines[j] \in Line /\ lines[j].field = "user-agent" BY DEF Rules!Fits, Rules!IsAgent
  <2>2. lines[j].agent \in Seq(Chars) BY <2>1 DEF Line
  <2>. QED BY <2>2
<1>5. CASE found.best # 0
  <2>1. PICK h \in 1..n :
          /\ Rules!Fits(h) /\ found.best = GroupOf(run, h)
          /\ \A j \in 1..n : Rules!Fits(j) =>
               \/ Len(lines[j].agent) < Len(lines[h].agent)
               \/ Len(lines[j].agent) = Len(lines[h].agent) /\ h <= j
    BY <1>2, <1>5 DEF Picked
  <2>2. Rules!IsPick(h) /\ Rules!IsAgent(h) BY <1>1, <2>1 DEF Rules!IsPick, Rules!Fits
  <2>3. ASSUME NEW q \in 1..n, Rules!IsPick(q) PROVE q = h
    <3>1. Rules!Fits(q) BY <1>1, <2>1, <2>3 DEF Rules!IsPick
    <3>2. \/ Len(lines[h].agent) < Len(lines[q].agent)
          \/ Len(lines[h].agent) = Len(lines[q].agent) /\ q <= h
      BY <1>1, <2>1, <2>3, <3>1 DEF Rules!IsPick, Rules!Fits
    <3>3. \/ Len(lines[q].agent) < Len(lines[h].agent)
          \/ Len(lines[q].agent) = Len(lines[h].agent) /\ h <= q
      BY <2>1, <3>1
    <3>4. Len(lines[h].agent) \in Nat /\ Len(lines[q].agent) \in Nat BY <1>4, <2>1, <3>1
    <3>. QED BY <3>2, <3>3, <3>4
  <2>. QED BY <1>3, <1>5, <2>1, <2>2, <2>3 DEF IsChoice
<1>6. CASE found.best = 0
  <2>1. \A j \in 1..n : ~Rules!Fits(j) BY <1>2, <1>6 DEF Picked
  <2>2. \A i \in 1..n : Rules!IsPick(i) <=> IsStar(i) /\ \A j \in 1..n : IsStar(j) => i <= j
    BY <1>1, <2>1 DEF Rules!IsPick, Rules!Star, IsStar
  <2>3. CASE found.wildcard = 0
    <3>1. \A j \in 1..n : ~IsStar(j) BY <1>2, <2>3 DEF Picked
    <3>. QED BY <1>3, <1>6, <2>2, <2>3, <3>1 DEF IsChoice
  <2>4. CASE found.wildcard # 0
    <3>1. PICK h \in 1..n : /\ IsStar(h) /\ found.wildcard = GroupOf(run, h)
                            /\ \A j \in 1..n : IsStar(j) => h <= j
      BY <1>2, <2>4 DEF Picked
    <3>2. Rules!IsPick(h) /\ Rules!IsAgent(h) BY <2>2, <3>1 DEF IsStar
    <3>3. \A q \in 1..n : Rules!IsPick(q) => q = h
      <4>. SUFFICES ASSUME NEW q \in 1..n, Rules!IsPick(q) PROVE q = h OBVIOUS
      <4>1. q <= h /\ h <= q BY <2>2, <3>1
      <4>. QED BY <4>1
    <3>. QED BY <1>3, <1>6, <2>4, <3>1, <3>2, <3>3 DEF IsChoice
  <2>. QED BY <2>3, <2>4
<1>. QED BY <1>5, <1>6

\* The lines for us that say something are those of the chosen group.
LEMMA OursAreChosen ==
  ASSUME lines \in Seq(Line), NEW run, IsParse(run), NEW l \in 1..Len(lines),
         ~Rules!IsAgent(l), lines[l].field # "none"
  PROVE  l \in Rules!OurLines <=> Chosen(run) # 0 /\ GroupOf(run, l) = Chosen(run)
<1>1. DOMAIN lines = 1..Len(lines) /\ Len(lines) \in Nat OBVIOUS
<1>2. IsChoice(run) BY ChosenIsPicked
<1>3. ASSUME l \in Rules!OurLines PROVE Chosen(run) # 0 /\ GroupOf(run, l) = Chosen(run)
  <2>1. PICK h \in Rules!Heads(l) : Rules!IsPick(h) BY <1>3 DEF Rules!OurLines
  <2>2. h \in 1..l /\ h \in 1..Len(lines) BY DEF Rules!Heads
  <2>3. GroupOf(run, h) = GroupOf(run, l) BY <2>2, HeadsAre
  <2>. QED BY <1>2, <2>1, <2>2, <2>3 DEF IsChoice
<1>4. ASSUME Chosen(run) # 0, GroupOf(run, l) = Chosen(run) PROVE l \in Rules!OurLines
  <2>1. PICK p \in 1..Len(lines) :
          Rules!IsPick(p) /\ Rules!IsAgent(p) /\ Chosen(run) = GroupOf(run, p)
    BY <1>2, <1>4 DEF IsChoice
  <2>2. ~(p > l)
    <3>. SUFFICES ASSUME p > l PROVE FALSE OBVIOUS
    <3>1. GroupOf(run, p) > GroupOf(run, l) BY <2>1, LaterGroup
    <3>. QED BY <1>2, <1>4, <2>1, <3>1 DEF IsChoice
  <2>3. p \in 1..l BY <2>2
  <2>4. p \in Rules!Heads(l) BY <1>4, <2>1, <2>3, HeadsAre
  <2>. QED BY <1>1, <2>1, <2>4 DEF Rules!OurLines
<1>. QED BY <1>3, <1>4

\* What the chosen group holds.
Ours == Rules!SelectGroup(Rules!ParseGroups(lines))

HoldsOurs ==
  /\ Ours \in GroupSet
  /\ \A r : (\E a \in DOMAIN Ours.rules : r = Ours.rules[a])
              <=> \E l \in Rules!OurLines : IsRule(l) /\ r = Rules!Rule(lines[l])
  /\ \/ Ours.delay = 0 /\ \A l \in Rules!OurLines : ~IsDelay(l)
     \/ \E l \in Rules!OurLines :
          /\ IsDelay(l) /\ Ours.delay = lines[l].delay
          /\ \A j \in Rules!OurLines : IsDelay(j) => j <= l

LEMMA OursAreHeld == ASSUME lines \in Seq(Line) PROVE HoldsOurs
<1>1. PICK run : IsParse(run) BY ParseRun DEF IsParse
<1>. DEFINE n == Len(lines)
            c == Chosen(run)
<1>2. n \in Nat /\ DOMAIN lines = 1..n /\ n \in 0..n OBVIOUS
<1>3. Numbered(run, n) /\ Kept(run, n) BY <1>1, <1>2, ReadAll DEF LinesRead
<1>4. IsChoice(run) BY <1>1, ChosenIsPicked
<1>5. Ours = IF c = 0 THEN Rules!NoGroup ELSE run[n].groups[c]
  <2>1. Rules!ParseGroups(lines) = run[n].groups BY <1>1 DEF IsParse
  <2>. QED BY <2>1 DEF Ours, Rules!SelectGroup, Chosen, Found
<1>6. \A l \in 1..n : IsRule(l) \/ IsDelay(l) =>
        (l \in Rules!OurLines <=> c # 0 /\ GroupOf(run, l) = c)
  <2>. SUFFICES ASSUME NEW l \in 1..n, IsRule(l) \/ IsDelay(l)
                PROVE  l \in Rules!OurLines <=> c # 0 /\ GroupOf(run, l) = c
    OBVIOUS
  <2>1. ~Rules!IsAgent(l) /\ lines[l].field # "none" BY DEF IsRule, IsDelay, Rules!IsAgent
  <2>. QED BY <1>1, <2>1, OursAreChosen
<1>7. \A l \in Rules!OurLines : l \in 1..n BY <1>2 DEF Rules!OurLines
<1>. HIDE DEF n
<1>8. CASE c = 0
  <2>1. Ours = Rules!NoGroup BY <1>5, <1>8
  <2>2. Ours \in GroupSet /\ Ours.rules = <<>> /\ Ours.delay = 0
    BY <2>1 DEF Rules!NoGroup, Rules!NoDelay, GroupSet
  <2>3. DOMAIN Ours.rules = {} BY <2>2
  <2>4. \A l \in Rules!OurLines : ~IsRule(l) /\ ~IsDelay(l) BY <1>6, <1>7, <1>8
  <2>. QED BY <2>2, <2>3, <2>4 DEF HoldsOurs
<1>9. CASE c # 0
  <2>1. Ours = run[n].groups[c] BY <1>5, <1>9
  <2>2. c \in 1..GroupOf(run, n)
    <3>1. PICK p \in 1..n : c = GroupOf(run, p) BY <1>4, <1>9 DEF IsChoice, n
    <3>2. p \in 0..n BY <1>2
    <3>3. c <= GroupOf(run, n) BY <1>3, <3>1, <3>2 DEF Numbered
    <3>. QED BY <1>3, <1>4, <1>9, <3>3 DEF IsChoice, Numbered
  <2>3. Ours \in GroupSet BY <1>1, <1>2, <2>1, <2>2, GroupsTyped DEF n
  <2>. HIDE DEF c
  <2>4. \A r : (\E a \in DOMAIN Ours.rules : r = Ours.rules[a])
                 <=> \E l \in 1..n : IsRule(l) /\ GroupOf(run, l) = c /\ r = Rules!Rule(lines[l])
    <3>1. \A r : (\E a \in DOMAIN run[n].groups[c].rules : r = run[n].groups[c].rules[a])
                   <=> \E l \in 1..n :
                         IsRule(l) /\ GroupOf(run, l) = c /\ r = Rules!Rule(lines[l])
      BY <1>3, <2>2, Zenon DEF Kept
    <3>. QED BY <2>1, <3>1, Zenon
  <2>5. \/ Ours.delay = 0 /\ \A l \in 1..n : IsDelay(l) => GroupOf(run, l) # c
        \/ \E l \in 1..n :
             /\ IsDelay(l) /\ GroupOf(run, l) = c /\ Ours.delay = lines[l].delay
             /\ \A j \in 1..n : IsDelay(j) /\ GroupOf(run, j) = c => j <= l
    BY <1>3, <2>1, <2>2 DEF Kept
  <2>6. \A r : (\E l \in 1..n : IsRule(l) /\ GroupOf(run, l) = c /\ r = Rules!Rule(lines[l]))
                 <=> \E l \in Rules!OurLines : IsRule(l) /\ r = Rules!Rule(lines[l])
    <3>1. \A l \in 1..n : IsRule(l) => (l \in Rules!OurLines <=> GroupOf(run, l) = c)
      BY <1>6, <1>9
    <3>. TAKE r
    <3>2. ASSUME NEW l \in 1..n, IsRule(l), GroupOf(run, l) = c, r = Rules!Rule(lines[l])
          PROVE  \E m \in Rules!OurLines : IsRule(m) /\ r = Rules!Rule(lines[m])
      <4>1. l \in Rules!OurLines BY <3>1, <3>2
      <4>. QED BY <3>2, <4>1
    <3>3. ASSUME NEW l \in Rules!OurLines, IsRule(l), r = Rules!Rule(lines[l])
          PROVE  \E m \in 1..n : IsRule(m) /\ GroupOf(run, m) = c /\ r = Rules!Rule(lines[m])
      <4>1. l \in 1..n BY <1>7
      <4>2. GroupOf(run, l) = c BY <3>1, <3>3, <4>1
      <4>. QED BY <3>3, <4>1, <4>2
    <3>. QED BY <3>2, <3>3
  <2>7. \A r : (\E a \in DOMAIN Ours.rules : r = Ours.rules[a])
                 <=> \E l \in Rules!OurLines : IsRule(l) /\ r = Rules!Rule(lines[l])
    BY <2>4, <2>6
  <2>8. \/ Ours.delay = 0 /\ \A l \in Rules!OurLines : ~IsDelay(l)
        \/ \E l \in Rules!OurLines :
             /\ IsDelay(l) /\ Ours.delay = lines[l].delay
             /\ \A j \in Rules!OurLines : IsDelay(j) => j <= l
    BY <1>6, <1>7, <1>9, <2>5
  <2>. QED BY <2>3, <2>7, <2>8 DEF HoldsOurs
<1>. QED BY <1>8, <1>9

-----------------------------------------------------------------------------
(***************************************************************************)
(* RobotsRules: a pattern matches where it covers the path.                *)
(***************************************************************************)

\* One element of a pattern: the positions of the text behind it.
Onward(text, positions, c) ==
  IF c = "*" THEN UNION {Rules!ReachStar(text, q) : q \in positions}
             ELSE {q + 1 : q \in {r \in positions : r < Len(text) /\ text[r + 1] = c}}

LEMMA OnwardTyped ==
  ASSUME NEW text \in Seq(Chars), NEW positions \in SUBSET (0..Len(text)), NEW c
  PROVE  Onward(text, positions, c) \in SUBSET (0..Len(text))
<1>1. Len(text) \in Nat OBVIOUS
<1>2. CASE c = "*"
  <2>1. \A q \in positions : Rules!ReachStar(text, q) \subseteq 0..Len(text)
    BY <1>1 DEF Rules!ReachStar
  <2>. QED BY <1>2, <2>1 DEF Onward
<1>3. CASE c # "*" BY <1>1, <1>3 DEF Onward
<1>. QED BY <1>2, <1>3

\* The positions reached, element by element.
LEMMA ReachRun ==
  ASSUME NEW text \in Seq(Chars), NEW pattern \in Seq(Chars)
  PROVE  \E run \in [0..Len(pattern) -> SUBSET (0..Len(text))] :
           /\ run[0] = {0} /\ run[Len(pattern)] = Rules!Reach(text, pattern)
           /\ \A k \in 1..Len(pattern) : run[k] = Onward(text, run[k - 1], pattern[k])
<1>. DEFINE S == SUBSET (0..Len(text))
            F == [x \in S \X Chars |-> Onward(text, x[1], x[2])]
            Steps(iter) ==
              iter = [d \in SUBSET DOMAIN pattern |->
                        IF d = {} THEN {0}
                        ELSE Onward(text, iter[d \ {Max(d)}], pattern[Max(d)])]
            iter == CHOOSE it : Steps(it)
<1>1. Rules!Reach(text, pattern) = iter[DOMAIN pattern]
  BY DEF Rules!Reach, Onward, Rules!FoldLeft, Rules!MapThenFoldSet, Rules!Max, Max
<1>2. F \in [S \X Chars -> S] BY OnwardTyped
<1>3. {0} \in S
  <2>1. Len(text) \in Nat OBVIOUS
  <2>. QED BY <2>1
<1>4. \A d \in SUBSET DOMAIN pattern : d # {} => pattern[Max(d)] \in Chars
  BY MaxInDomain
<1>5. \A x \in S, c \in Chars : F[<<x, c>>] = Onward(text, x, c) OBVIOUS
<1>. HIDE DEF F, S
<1>6. Steps(iter)
  <2>1. PICK it : IsFold(it, S, {0}, F, pattern)
    BY <1>2, <1>3, FoldExists
  <2>2. /\ it \in [SUBSET DOMAIN pattern -> S]
        /\ \A d \in SUBSET DOMAIN pattern : it[d \ {Max(d)}] \in S
    BY <2>1 DEF IsFold
  <2>3. \A d \in SUBSET DOMAIN pattern : it[d] =
          IF d = {} THEN {0} ELSE Onward(text, it[d \ {Max(d)}], pattern[Max(d)])
    <3>. TAKE d \in SUBSET DOMAIN pattern
    <3>1. it[d] = IF d = {} THEN {0} ELSE F[<<it[d \ {Max(d)}], pattern[Max(d)]>>]
      BY <2>1 DEF IsFold
    <3>. QED BY <3>1, <2>2, <1>4, <1>5
  <2>4. Steps(it) BY <2>2, <2>3
  <2>. HIDE DEF Steps
  <2>. QED BY <2>4
<1>7. Descends(iter, S, {0}, F, pattern)
  <2>. HIDE DEF iter
  <2>1. {} \in SUBSET DOMAIN pattern OBVIOUS
  <2>2. iter[{}] = {0} BY <1>6, <2>1
  <2>3. \A d \in SUBSET DOMAIN pattern : d # {} =>
          iter[d] = Onward(text, iter[d \ {Max(d)}], pattern[Max(d)])
    BY <1>6
  <2>. HIDE DEF Steps
  <2>. QED BY <1>4, <1>5, <2>2, <2>3 DEF Descends
<1>. HIDE DEF iter
<1>8. PICK run : IsRun(run, iter, S, {0}, F, pattern)
  BY <1>2, <1>3, <1>7, FoldRun
<1>9. ASSUME NEW k \in 1..Len(pattern)
      PROVE  run[k] = Onward(text, run[k - 1], pattern[k])
  <2>1. pattern[k] \in Chars OBVIOUS
  <2>2. k - 1 \in 0..Len(pattern) OBVIOUS
  <2>3. run[k - 1] \in S BY <2>2, <1>8 DEF IsRun
  <2>. QED BY <2>1, <2>3, <1>5, <1>8 DEF IsRun
<1>10. /\ run \in [0..Len(pattern) -> S] /\ run[0] = {0}
       /\ run[Len(pattern)] = iter[DOMAIN pattern]
  BY <1>8 DEF IsRun
<1>. QED BY <1>1, <1>9, <1>10 DEF S

\* The first k elements of a pattern lie along the text up to q.
LiesTo(pattern, text, k, q, cut) ==
  /\ cut \in [0..k -> 0..Len(text)]
  /\ cut[0] = 0 /\ cut[k] = q
  /\ \A i \in 1..k :
       IF pattern[i] = "*" THEN cut[i] >= cut[i - 1]
       ELSE cut[i] = cut[i - 1] + 1 /\ text[cut[i]] = pattern[i]

\* A text without a line break, where "." matches every character.
OneLineText(text) == text \in Seq(Chars) /\ \A i \in 1..Len(text) : text[i] # "newline"

\* An element more, and a run of the text more.
LEMMA LiesNext ==
  ASSUME NEW pattern, NEW text, OneLineText(text), NEW k \in Nat \ {0},
         NEW positions \in SUBSET (0..Len(text)), NEW q \in 0..Len(text),
         \A p \in 0..Len(text) : p \in positions <=> \E cut : LiesTo(pattern, text, k - 1, p, cut)
  PROVE  q \in Onward(text, positions, pattern[k]) <=> \E cut : LiesTo(pattern, text, k, q, cut)
<1>. DEFINE Fits(p) == IF pattern[k] = "*" THEN q >= p ELSE q = p + 1 /\ text[q] = pattern[k]
<1>1. Len(text) \in Nat /\ \A i \in 1..Len(text) : text[i] # "newline" BY DEF OneLineText
<1>2. q \in Onward(text, positions, pattern[k]) <=> \E p \in positions : Fits(p)
  <2>1. CASE pattern[k] = "*"
    <3>1. \A p \in positions : Rules!ReachStar(text, p) = p..Len(text)
      <4>. TAKE p \in positions
      <4>1. \A x \in p..Len(text) : \A i \in p + 1..x : i \in 1..Len(text) BY <1>1
      <4>. QED BY <1>1, <4>1 DEF Rules!ReachStar
    <3>2. q \in Onward(text, positions, pattern[k])
            <=> \E p \in positions : q \in Rules!ReachStar(text, p)
      BY <2>1 DEF Onward
    <3>3. \A p \in positions : q \in Rules!ReachStar(text, p) <=> q >= p BY <1>1, <3>1
    <3>. QED BY <2>1, <3>2, <3>3
  <2>2. CASE pattern[k] # "*"
    <3>1. q \in Onward(text, positions, pattern[k])
            <=> \E p \in positions : p < Len(text) /\ text[p + 1] = pattern[k] /\ q = p + 1
      BY <2>2 DEF Onward
    <3>2. \A p \in positions : q = p + 1 => p < Len(text) BY <1>1
    <3>. QED BY <2>2, <3>1, <3>2
  <2>. QED BY <2>1, <2>2
<1>3. ASSUME NEW p \in positions, Fits(p) PROVE \E cut : LiesTo(pattern, text, k, q, cut)
  <2>0. p \in 0..Len(text) OBVIOUS
  <2>1. PICK old : LiesTo(pattern, text, k - 1, p, old) BY <1>3, <2>0
  <2>. DEFINE cut == [j \in 0..k |-> IF j = k THEN q ELSE old[j]]
  <2>2. old \in [0..k - 1 -> 0..Len(text)] /\ old[0] = 0 /\ old[k - 1] = p BY <2>1 DEF LiesTo
  <2>3. cut \in [0..k -> 0..Len(text)] BY <2>2
  <2>4. cut[k] = q /\ \A j \in 0..k - 1 : cut[j] = old[j] OBVIOUS
  <2>. HIDE DEF cut
  <2>5. cut[0] = 0 /\ cut[k - 1] = p BY <2>2, <2>4
  <2>6. ASSUME NEW i \in 1..k
        PROVE IF pattern[i] = "*" THEN cut[i] >= cut[i - 1]
              ELSE cut[i] = cut[i - 1] + 1 /\ text[cut[i]] = pattern[i]
    <3>1. CASE i = k BY <1>3, <2>4, <2>5, <3>1
    <3>2. CASE i # k
      <4>1. i \in 1..k - 1 /\ i \in 0..k - 1 /\ i - 1 \in 0..k - 1 BY <3>2
      <4>2. cut[i] = old[i] /\ cut[i - 1] = old[i - 1] BY <2>4, <4>1
      <4>. QED BY <2>1, <4>1, <4>2 DEF LiesTo
    <3>. QED BY <3>1, <3>2
  <2>7. LiesTo(pattern, text, k, q, cut) BY <2>3, <2>4, <2>5, <2>6 DEF LiesTo
  <2>. QED BY <2>7
<1>4. ASSUME NEW cut, LiesTo(pattern, text, k, q, cut) PROVE \E p \in positions : Fits(p)
  <2>. DEFINE p == cut[k - 1]
              old == [j \in 0..k - 1 |-> cut[j]]
  <2>1. cut \in [0..k -> 0..Len(text)] /\ cut[0] = 0 /\ cut[k] = q BY <1>4 DEF LiesTo
  <2>2. k - 1 \in 0..k /\ \A j \in 0..k - 1 : j \in 0..k OBVIOUS
  <2>3. p \in 0..Len(text) /\ old \in [0..k - 1 -> 0..Len(text)] BY <2>1, <2>2
  <2>4. \A j \in 0..k - 1 : old[j] = cut[j] OBVIOUS
  <2>5. old[0] = 0 /\ old[k - 1] = p BY <2>1, <2>4
  <2>6. k \in 1..k OBVIOUS
  <2>7. Fits(p)  BY <1>4, <2>1, <2>6 DEF LiesTo
  <2>. HIDE DEF old, p
  <2>8. ASSUME NEW i \in 1..k - 1
        PROVE IF pattern[i] = "*" THEN old[i] >= old[i - 1]
              ELSE old[i] = old[i - 1] + 1 /\ text[old[i]] = pattern[i]
    <3>1. i \in 1..k /\ i \in 0..k - 1 /\ i - 1 \in 0..k - 1 OBVIOUS
    <3>2. old[i] = cut[i] /\ old[i - 1] = cut[i - 1] BY <2>4, <3>1
    <3>. QED BY <1>4, <3>1, <3>2 DEF LiesTo
  <2>9. LiesTo(pattern, text, k - 1, p, old) BY <2>3, <2>5, <2>8 DEF LiesTo
  <2>10. p \in positions BY <2>3, <2>9
  <2>. QED BY <2>7, <2>10
<1>. QED BY <1>2, <1>3, <1>4

\* What is reached after k elements is where the first k lie along.
LEMMA ReachLies ==
  ASSUME NEW pattern \in Seq(Chars), NEW text, OneLineText(text), NEW q \in 0..Len(text)
  PROVE  /\ Rules!Reach(text, pattern) \in SUBSET (0..Len(text))
         /\ q \in Rules!Reach(text, pattern)
              <=> \E cut : LiesTo(pattern, text, Len(pattern), q, cut)
<1>. DEFINE n == Len(pattern)
<1>1. n \in Nat /\ n \in 0..n /\ Len(text) \in Nat BY DEF OneLineText
<1>2. PICK run \in [0..n -> SUBSET (0..Len(text))] :
        /\ run[0] = {0} /\ run[n] = Rules!Reach(text, pattern)
        /\ \A k \in 1..n : run[k] = Onward(text, run[k - 1], pattern[k])
  BY ReachRun DEF OneLineText
<1>. DEFINE P == {k \in 0..n : \A p \in 0..Len(text) :
                    p \in run[k] <=> \E cut : LiesTo(pattern, text, k, p, cut)}
<1>3. 0 \in P
  <2>1. ASSUME NEW p \in 0..Len(text), p = 0 PROVE \E cut : LiesTo(pattern, text, 0, p, cut)
    <3>. DEFINE cut == [j \in 0..0 |-> 0]
    <3>1. cut \in [0..0 -> 0..Len(text)] /\ cut[0] = 0 BY <1>1
    <3>2. 1..0 = {} OBVIOUS
    <3>. HIDE DEF cut
    <3>3. LiesTo(pattern, text, 0, p, cut) BY <2>1, <3>1, <3>2 DEF LiesTo
    <3>. QED BY <3>3
  <2>2. ASSUME NEW p \in 0..Len(text), NEW cut, LiesTo(pattern, text, 0, p, cut) PROVE p = 0
    BY <2>2 DEF LiesTo
  <2>3. \A p \in 0..Len(text) : p \in run[0] <=> p = 0 BY <1>2
  <2>. QED BY <1>1, <2>1, <2>2, <2>3
<1>4. ASSUME NEW k \in 1..n, k - 1 \in P PROVE k \in P
  <2>1. k \in Nat \ {0} /\ k - 1 \in 0..n OBVIOUS
  <2>2. run[k - 1] \in SUBSET (0..Len(text)) /\ run[k] = Onward(text, run[k - 1], pattern[k])
    BY <1>2, <2>1
  <2>3. \A p \in 0..Len(text) :
          p \in run[k - 1] <=> \E cut : LiesTo(pattern, text, k - 1, p, cut)
    BY <1>4
  <2>4. \A p \in 0..Len(text) : p \in run[k] <=> \E cut : LiesTo(pattern, text, k, p, cut)
    <3>. TAKE p \in 0..Len(text)
    <3>1. p \in Onward(text, run[k - 1], pattern[k])
            <=> \E cut : LiesTo(pattern, text, k, p, cut)
      BY <2>1, <2>2, <2>3, LiesNext
    <3>. QED BY <2>2, <3>1
  <2>. QED BY <2>4
<1>. HIDE DEF P
<1>5. \A k \in 0..n : k \in P BY <1>1, <1>3, <1>4, UpTo
<1>6. \A p \in 0..Len(text) : p \in run[n] <=> \E cut : LiesTo(pattern, text, n, p, cut)
  BY <1>1, <1>5 DEF P
<1>7. run[n] \in SUBSET (0..Len(text)) BY <1>1, <1>2
<1>. QED BY <1>2, <1>6, <1>7

\* Of a text of one line, the regular expression matches what the pattern covers.
LEMMA MatchesAreCovers ==
  ASSUME NEW pattern \in Seq(Chars), NEW text, OneLineText(text)
  PROVE  Rules!PatternMatches(pattern, text) <=> Rules!Covers(pattern, text)
<1>. DEFINE anchored == pattern # <<>> /\ Rules!Last(pattern) = "$"
            literal == IF anchored THEN Rules!Front(pattern) ELSE pattern
            n == Len(literal)
            m == Len(text)
<1>1. text \in Seq(Chars) /\ m \in Nat BY DEF OneLineText
<1>2. literal \in Seq(Chars)
  <2>1. pattern # <<>> => Rules!Front(pattern) \in Seq(Chars)
    <3>1. pattern # <<>> => Len(pattern) - 1 \in Nat /\ Len(pattern) - 1 <= Len(pattern) OBVIOUS
    <3>. QED BY <3>1, PrefixTyped DEF Rules!Front
  <2>. QED BY <2>1
<1>3. Rules!AtEnd(text) = {m}
  <2>1. m > 0 => text[m] # "newline" BY <1>1 DEF OneLineText
  <2>. QED BY <1>1, <2>1 DEF Rules!AtEnd
<1>4. Rules!PatternMatches(pattern, text)
        <=> \E q \in Rules!Reach(text, literal) : anchored => q = m
  BY <1>3 DEF Rules!PatternMatches
<1>5. Rules!Covers(pattern, text)
        <=> \E cut \in [0..n -> 0..m] :
              Rules!LiesAlong(literal, text, cut) /\ (anchored => cut[n] = m)
  BY DEF Rules!Covers
<1>. HIDE DEF anchored, literal
<1>6. n \in Nat /\ n \in 0..n /\ DOMAIN literal = 1..n BY <1>2
<1>7. Rules!Reach(text, literal) \in SUBSET (0..m)
  <2>1. 0 \in 0..m BY <1>1
  <2>. QED BY <1>2, <2>1, ReachLies
<1>8. \A q \in 0..m : q \in Rules!Reach(text, literal) <=> \E cut : LiesTo(literal, text, n, q, cut)
  BY <1>2, ReachLies
<1>9. \A cut : (\E q \in 0..m : LiesTo(literal, text, n, q, cut) /\ (anchored => q = m))
         <=> cut \in [0..n -> 0..m] /\ Rules!LiesAlong(literal, text, cut)
               /\ (anchored => cut[n] = m)
  <2>. TAKE cut
  <2>1. ASSUME NEW q \in 0..m, LiesTo(literal, text, n, q, cut), anchored => q = m
        PROVE  cut \in [0..n -> 0..m] /\ Rules!LiesAlong(literal, text, cut)
               /\ (anchored => cut[n] = m)
    BY <1>6, <2>1 DEF LiesTo, Rules!LiesAlong
  <2>2. ASSUME cut \in [0..n -> 0..m], Rules!LiesAlong(literal, text, cut), anchored => cut[n] = m
        PROVE  \E q \in 0..m : LiesTo(literal, text, n, q, cut) /\ (anchored => q = m)
    <3>1. cut[n] \in 0..m BY <1>6, <2>2
    <3>2. LiesTo(literal, text, n, cut[n], cut) BY <1>6, <2>2 DEF LiesTo, Rules!LiesAlong
    <3>. QED BY <2>2, <3>1, <3>2
  <2>. QED BY <2>1, <2>2
<1>10. (\E q \in Rules!Reach(text, literal) : anchored => q = m)
         <=> \E q \in 0..m : \E cut : LiesTo(literal, text, n, q, cut) /\ (anchored => q = m)
  BY <1>7, <1>8
<1>. QED BY <1>4, <1>5, <1>9, <1>10

-----------------------------------------------------------------------------
(***************************************************************************)
(* RobotsRules: the rules that match decide as the lines for us say.       *)
(***************************************************************************)

\* A set of rules that is not empty has a longest one.
LEMMA Longest ==
  ASSUME NEW n \in Nat, NEW f, \A a \in 1..n : f[a] \in Nat, NEW D \in SUBSET (1..n), D # {}
  PROVE  \E a \in D : \A b \in D : f[b] <= f[a]
<1>. DEFINE P == {k \in 0..n : \A E \in SUBSET (1..k) :
                    E # {} => \E a \in E : \A b \in E : f[b] <= f[a]}
<1>1. 0 \in P
  <2>1. \A E \in SUBSET (1..0) : E = {} OBVIOUS
  <2>2. \A E \in SUBSET (1..0) : E # {} => \E a \in E : \A b \in E : f[b] <= f[a]
    BY <2>1, Zenon
  <2>3. 0 \in 0..n OBVIOUS
  <2>. QED BY <2>2, <2>3, Zenon
<1>2. ASSUME NEW k \in 1..n, k - 1 \in P PROVE k \in P
  <2>. SUFFICES ASSUME NEW E \in SUBSET (1..k), E # {}
                PROVE  \E a \in E : \A b \in E : f[b] <= f[a]
    OBVIOUS
  <2>1. E \ {k} \in SUBSET (1..k - 1) OBVIOUS
  <2>2. \A a \in E : f[a] \in Nat
    <3>1. \A a \in E : a \in 1..n OBVIOUS
    <3>. QED BY <3>1
  <2>3. CASE E \ {k} = {}
    <3>1. k \in E /\ \A b \in E : b = k BY <2>3
    <3>. QED BY <2>2, <3>1
  <2>4. CASE E \ {k} # {}
    <3>1. PICK a \in E \ {k} : \A b \in E \ {k} : f[b] <= f[a] BY <1>2, <2>1, <2>4
    <3>. QED BY <2>2, <3>1
  <2>. QED BY <2>3, <2>4
<1>. HIDE DEF P
<1>3. \A k \in 0..n : k \in P BY <1>1, <1>2, UpTo
<1>. QED BY <1>3 DEF P

\* The rule of line l is for us and its pattern covers the path.
Covered(l) ==
  /\ l \in Rules!OurLines /\ IsRule(l)
  /\ Rules!Covers(Rules!Unquote(lines[l].path), Rules!TargetPath)

\* The rules of the group applied that match the path.
Matching == {r \in Rules!ToSet(Ours.rules) : Rules!PatternMatches(r.pattern, Rules!TargetPath)}

LEMMA TargetTyped ==
  ASSUME path \in Seq(Chars)
  PROVE  /\ Rules!TargetPath \in Seq(Chars)
         /\ Rules!OneLine => OneLineText(Rules!TargetPath)
<1>1. Rules!TargetPath \in Seq(Chars)
  <2>1. "/" \in Chars BY DEF Chars
  <2>2. <<"/">> \in Seq(Chars) BY <2>1
  <2>. QED BY <2>2, UnquoteTyped DEF Rules!TargetPath
<1>2. ASSUME NEW text \in Seq(Chars), "newline" \notin Rules!ToSet(text) PROVE OneLineText(text)
  BY <1>2 DEF Rules!ToSet, OneLineText
<1>. QED BY <1>1, <1>2 DEF Rules!OneLine

\* A rule of the group applied is one of the lines for us, and the other way round.
LEMMA OurRules ==
  ASSUME lines \in Seq(Line), NEW l \in Rules!OurLines, IsRule(l)
  PROVE  /\ Rules!Rule(lines[l]) \in RuleSet
         /\ lines[l].path \in Seq(Chars)
         /\ Rules!Rule(lines[l]).pattern = Rules!Unquote(lines[l].path)
         /\ Rules!Rule(lines[l]).length = Len(lines[l].path)
         /\ Rules!Rule(lines[l]).allowance
              <=> lines[l].field = "allow" \/ lines[l].path = <<>>
<1>1. l \in DOMAIN lines BY DEF Rules!OurLines
<1>2. lines[l] \in Line BY <1>1
<1>. QED BY <1>2, RuleTyped DEF IsRule

LEMMA MatchingIsCovered ==
  ASSUME lines \in Seq(Line), path \in Seq(Chars), Rules!OneLine
  PROVE  \A r : r \in Matching <=> \E l \in Rules!OurLines : Covered(l) /\ r = Rules!Rule(lines[l])
<1>1. HoldsOurs BY OursAreHeld
<1>2. OneLineText(Rules!TargetPath) BY TargetTyped
<1>3. \A l \in Rules!OurLines : IsRule(l) =>
        (Rules!PatternMatches(Rules!Rule(lines[l]).pattern, Rules!TargetPath) <=> Covered(l))
  <2>. SUFFICES ASSUME NEW l \in Rules!OurLines, IsRule(l)
                PROVE  Rules!PatternMatches(Rules!Rule(lines[l]).pattern, Rules!TargetPath)
                         <=> Covered(l)
    OBVIOUS
  <2>1. Rules!Rule(lines[l]).pattern = Rules!Unquote(lines[l].path)
        /\ lines[l].path \in Seq(Chars)
    BY OurRules
  <2>2. Rules!Unquote(lines[l].path) \in Seq(Chars) BY <2>1, UnquoteTyped
  <2>3. Rules!PatternMatches(Rules!Unquote(lines[l].path), Rules!TargetPath)
          <=> Rules!Covers(Rules!Unquote(lines[l].path), Rules!TargetPath)
    BY <1>2, <2>2, MatchesAreCovers
  <2>. QED BY <2>1, <2>3 DEF Covered
<1>4. \A r : r \in Rules!ToSet(Ours.rules) <=> \E a \in DOMAIN Ours.rules : r = Ours.rules[a]
  BY DEF Rules!ToSet
<1>5. \A r : (\E a \in DOMAIN Ours.rules : r = Ours.rules[a])
               <=> \E l \in Rules!OurLines : IsRule(l) /\ r = Rules!Rule(lines[l])
  BY <1>1, Zenon DEF HoldsOurs
<1>. TAKE r
<1>6. ASSUME r \in Matching
      PROVE  \E l \in Rules!OurLines : Covered(l) /\ r = Rules!Rule(lines[l])
  <2>1. r \in Rules!ToSet(Ours.rules) /\ Rules!PatternMatches(r.pattern, Rules!TargetPath)
    BY <1>6 DEF Matching
  <2>2. PICK l \in Rules!OurLines : IsRule(l) /\ r = Rules!Rule(lines[l]) BY <1>4, <1>5, <2>1
  <2>. QED BY <1>3, <2>1, <2>2
<1>7. ASSUME NEW l \in Rules!OurLines, Covered(l), r = Rules!Rule(lines[l]) PROVE r \in Matching
  <2>1. IsRule(l) BY <1>7 DEF Covered
  <2>2. r \in Rules!ToSet(Ours.rules) BY <1>4, <1>5, <1>7, <2>1
  <2>3. Rules!PatternMatches(r.pattern, Rules!TargetPath) BY <1>3, <1>7, <2>1
  <2>. QED BY <2>2, <2>3 DEF Matching
<1>. QED BY <1>6, <1>7

\* Any of the rules that match is at most as long as one of them.
LEMMA LongestMatching ==
  ASSUME lines \in Seq(Line), Matching # {}
  PROVE  \E r \in Matching : \A s \in Matching : s.length <= r.length
<1>1. Ours \in GroupSet BY OursAreHeld DEF HoldsOurs
<1>2. Ours.rules \in Seq(RuleSet) BY <1>1 DEF GroupSet
<1>. DEFINE rules == Ours.rules
            n == Len(rules)
            D == {a \in 1..n : rules[a] \in Matching}
            f == [a \in 1..n |-> rules[a].length]
<1>3. n \in Nat /\ DOMAIN rules = 1..n /\ \A a \in 1..n : rules[a] \in RuleSet BY <1>2
<1>4. \A r \in Matching : \E a \in 1..n : r = rules[a] BY <1>3 DEF Matching, Rules!ToSet
<1>. HIDE DEF rules, n
<1>5. \A a \in 1..n : f[a] \in Nat BY <1>3 DEF RuleSet
<1>6. D \in SUBSET (1..n) /\ D # {} BY <1>4
<1>7. \A a \in D : f[a] = rules[a].length OBVIOUS
<1>. HIDE DEF f
<1>8. PICK a \in D : \A b \in D : f[b] <= f[a]
  <2>. HIDE DEF D
  <2>. QED BY <1>3, <1>5, <1>6, Longest
<1>9. \A s \in Matching : s.length <= rules[a].length
  <2>. TAKE s \in Matching
  <2>1. PICK b \in 1..n : s = rules[b] BY <1>4
  <2>2. b \in D BY <2>1
  <2>. QED BY <2>1, <2>2, <1>7, <1>8
<1>. QED BY <1>9

\* The longest match decides, for Allow in a tie: the same of the rules and of the lines.
LEMMA AllowsAsItShould ==
  ASSUME lines \in Seq(Line), path \in Seq(Chars), Rules!OneLine
  PROVE  Rules!Allows <=> Rules!ShouldAllow
<1>1. Rules!Allows <=> Matching = {} \/ \E r \in Matching :
                         r.allowance /\ \A s \in Matching : s.length <= r.length
  BY DEF Rules!Allows, Rules!Decides, Matching, Ours
<1>2. \A l : l \in Rules!Covering("disallow") <=> Covered(l) /\ lines[l].field = "disallow"
  BY DEF Rules!Covering, Covered, IsRule
<1>3. \A l : l \in Rules!Covering("allow") <=> Covered(l) /\ lines[l].field = "allow"
  BY DEF Rules!Covering, Covered, IsRule
<1>4. \A l : Covered(l) => /\ l \in Rules!OurLines /\ IsRule(l)
                           /\ Rules!Rule(lines[l]) \in Matching
  <2>1. \A l : Covered(l) => l \in Rules!OurLines /\ IsRule(l) BY DEF Covered
  <2>. QED BY <2>1, MatchingIsCovered
<1>5. ASSUME NEW d, d \in Rules!Covering("disallow"), lines[d].path # <<>>, Rules!Allows
      PROVE  \E a \in Rules!Covering("allow") : Len(lines[a].path) >= Len(lines[d].path)
  <2>1. Covered(d) /\ Rules!Rule(lines[d]) \in Matching BY <1>2, <1>4, <1>5
  <2>2. PICK r \in Matching : r.allowance /\ \A s \in Matching : s.length <= r.length
    BY <1>1, <1>5, <2>1
  <2>3. PICK l \in Rules!OurLines : Covered(l) /\ r = Rules!Rule(lines[l])
    BY MatchingIsCovered
  <2>4. IsRule(l) /\ IsRule(d) /\ d \in Rules!OurLines BY <1>4, <2>1, <2>3
  <2>5. /\ r.length = Len(lines[l].path) /\ lines[l].path \in Seq(Chars)
        /\ lines[l].field = "allow" \/ lines[l].path = <<>>
    BY <2>2, <2>3, <2>4, OurRules
  <2>6. Rules!Rule(lines[d]).length = Len(lines[d].path) /\ lines[d].path \in Seq(Chars)
    BY <2>4, OurRules
  <2>7. Len(lines[d].path) <= Len(lines[l].path) BY <2>1, <2>2, <2>5, <2>6
  <2>8. Len(lines[d].path) \in Nat \ {0} BY <1>5, <2>6
  <2>9. Len(lines[l].path) \in Nat BY <2>5
  <2>10. lines[l].path # <<>> BY <2>7, <2>8
  <2>11. l \in Rules!Covering("allow") BY <1>3, <2>3, <2>5, <2>10
  <2>. QED BY <2>7, <2>8, <2>9, <2>11
<1>6. ASSUME Rules!ShouldAllow, Matching # {} PROVE Rules!Allows
  <2>1. PICK r \in Matching : \A s \in Matching : s.length <= r.length
    BY <1>6, LongestMatching
  <2>2. CASE r.allowance BY <1>1, <2>1, <2>2
  <2>3. CASE ~r.allowance
    <3>1. PICK d \in Rules!OurLines : Covered(d) /\ r = Rules!Rule(lines[d])
      BY MatchingIsCovered
    <3>2. IsRule(d) BY <1>4, <3>1
    <3>3. /\ r.length = Len(lines[d].path) /\ lines[d].path \in Seq(Chars)
          /\ lines[d].field # "allow" /\ lines[d].path # <<>>
      BY <2>3, <3>1, <3>2, OurRules
    <3>4. d \in Rules!Covering("disallow") BY <1>2, <3>1, <3>2, <3>3 DEF IsRule
    <3>5. PICK a \in Rules!Covering("allow") : Len(lines[a].path) >= Len(lines[d].path)
      BY <1>6, <3>3, <3>4 DEF Rules!ShouldAllow
    <3>6. Covered(a) /\ lines[a].field = "allow" BY <1>3
    <3>7. /\ a \in Rules!OurLines /\ IsRule(a) /\ Rules!Rule(lines[a]) \in Matching BY <1>4, <3>6
    <3>8. /\ Rules!Rule(lines[a]).length = Len(lines[a].path) /\ lines[a].path \in Seq(Chars)
          /\ Rules!Rule(lines[a]).allowance
      BY <3>6, <3>7, OurRules
    <3>9. \A s \in Matching : s.length <= Rules!Rule(lines[a]).length
      <4>. TAKE s \in Matching
      <4>1. PICK l \in Rules!OurLines : Covered(l) /\ s = Rules!Rule(lines[l])
        BY MatchingIsCovered
      <4>2. IsRule(l) BY <1>4, <4>1
      <4>3. s.length \in Nat BY <4>1, <4>2, OurRules DEF RuleSet
      <4>4. s.length <= r.length BY <2>1
      <4>5. Len(lines[a].path) \in Nat /\ Len(lines[d].path) \in Nat BY <3>3, <3>8
      <4>. QED BY <3>3, <3>5, <3>8, <4>3, <4>4, <4>5
    <3>. QED BY <1>1, <3>7, <3>8, <3>9
  <2>. QED BY <2>2, <2>3
<1>7. Matching = {} => Rules!Allows BY <1>1
<1>. QED BY <1>5, <1>6, <1>7 DEF Rules!ShouldAllow

-----------------------------------------------------------------------------
(***************************************************************************)
(* RobotsRules: the questions, and the invariant.                          *)
(***************************************************************************)

\* The files, paths and patterns that are asked about are files, paths and patterns.
LEMMA BoundedIn ==
  ASSUME NEW S, NEW T, S \subseteq T, NEW n \in Nat PROVE BoundedSeq(S, n) \subseteq Seq(T)
BY DEF BoundedSeq, SeqOf

LEMMA ShortTyped ==
  ASSUME NEW S, NEW a \in S, NEW b \in S, NEW c \in S, NEW d \in S, NEW e \in S
  PROVE  /\ <<>> \in Seq(S) /\ <<a>> \in Seq(S) /\ <<a, b>> \in Seq(S)
         /\ <<a, b, c>> \in Seq(S) /\ <<a, b, c, d>> \in Seq(S) /\ <<a, b, c, d, e>> \in Seq(S)
OBVIOUS

LEMMA AgentTyped == ASSUME NEW a \in Seq(Chars) PROVE Agent(a) \in Line
BY DEF Agent, Line

LEMMA PatternTyped ==
  ASSUME NEW f \in {"allow", "disallow"}, NEW p \in Seq(Chars) PROVE Pattern(f, p) \in Line
BY DEF Pattern, Line

LEMMA DelayTyped == ASSUME NEW d \in Int PROVE Delay(d) \in Line
BY DEF Delay, Line

\* The names, patterns and paths of the questions.
LEMMA WordsTyped ==
  /\ Star \in Seq(Chars) /\ Token \in Seq(Chars) /\ <<>> \in Seq(Chars)
  /\ <<"u">> \in Seq(Chars) /\ <<"o">> \in Seq(Chars) /\ <<"a">> \in Seq(Chars)
  /\ <<"*">> \in Seq(Chars) /\ <<"a", "b">> \in Seq(Chars) /\ <<"*", "$">> \in Seq(Chars)
<1>1. /\ "a" \in Chars /\ "b" \in Chars /\ "c" \in Chars /\ "o" \in Chars /\ "u" \in Chars
      /\ "*" \in Chars /\ "$" \in Chars
  BY DEF Chars
<1>. QED BY <1>1, ShortTyped DEF Star, Token

LEMMA PatternsTyped == Patterns \subseteq Seq(Chars)
<1>1. /\ {"a", "%61", "*", "$"} \subseteq Chars /\ "a" \in Chars /\ "b" \in Chars
      /\ "*" \in Chars /\ "$" \in Chars /\ "%2A" \in Chars /\ "%24" \in Chars
  BY DEF Chars
<1>2. BoundedSeq({"a", "%61", "*", "$"}, 3) \subseteq Seq(Chars) BY <1>1, BoundedIn
<1>3. /\ <<"a", "*", "b", "$">> \in Seq(Chars) /\ <<"*", "a", "*", "b">> \in Seq(Chars)
      /\ <<"%2A", "b", "%24">> \in Seq(Chars)
  BY <1>1, ShortTyped
<1>. QED BY <1>2, <1>3 DEF Patterns

LEMMA GroupLinesTyped == GroupLines \subseteq Line
<1>1. /\ Agent(Star) \in Line /\ Agent(Token) \in Line /\ Agent(<<"u">>) \in Line
      /\ Agent(<<"o">>) \in Line /\ Agent(<<>>) \in Line
  BY WordsTyped, AgentTyped
<1>2. Pattern("disallow", <<"a">>) \in Line BY WordsTyped, PatternTyped
<1>3. Delay(1) \in Line /\ Delay(2) \in Line /\ Delay(-1) \in Line BY DelayTyped
<1>4. [field |-> "other"] \in Line /\ [field |-> "none"] \in Line BY DEF Line
<1>. QED BY <1>1, <1>2, <1>3, <1>4, Zenon DEF GroupLines

Asked == Seq(Line) \X Seq(Chars)

LEMMA AskedOf ==
  ASSUME NEW A, NEW B, A \subseteq Seq(Line), B \subseteq Seq(Chars) PROVE A \X B \subseteq Asked
BY DEF Asked

LEMMA GroupsAsked == GroupQuestions \subseteq Asked
<1>1. BoundedSeq(GroupLines, 4) \subseteq Seq(Line) BY GroupLinesTyped, BoundedIn
<1>. QED BY <1>1, WordsTyped DEF GroupQuestions, Asked

LEMMA TwoGroupsAsked == TwoGroups \subseteq Asked
<1>. DEFINE File(n1, n2, n3, f1, f2) ==
       <<Agent(n1), Pattern(f1, <<"a">>), Agent(n2), Pattern(f2, <<"a", "b">>), Agent(n3)>>
            Known == {Star, Token, <<"u">>}
            Fields == {"allow", "disallow"}
            All == {File(n1, n2, n3, f1, f2) :
                      n1 \in Known, n2 \in Known, n3 \in {Star, Token},
                      f1 \in Fields, f2 \in Fields}
<1>1. ASSUME NEW x \in All PROVE x \in Seq(Line)
  <2>1. PICK n1 \in Known, n2 \in Known, n3 \in {Star, Token}, f1 \in Fields, f2 \in Fields :
          x = File(n1, n2, n3, f1, f2)
    OBVIOUS
  <2>. HIDE DEF All, File
  <2>2. n1 \in Seq(Chars) /\ n2 \in Seq(Chars) /\ n3 \in Seq(Chars)
    BY WordsTyped
  <2>3. Agent(n1) \in Line /\ Agent(n2) \in Line /\ Agent(n3) \in Line BY <2>2, AgentTyped
  <2>4. Pattern(f1, <<"a">>) \in Line /\ Pattern(f2, <<"a", "b">>) \in Line
    BY WordsTyped, PatternTyped
  <2>5. File(n1, n2, n3, f1, f2) \in Seq(Line) BY <2>3, <2>4, ShortTyped DEF File
  <2>. QED BY <2>1, <2>5
<1>2. {<<"a">>, <<"a", "b">>} \subseteq Seq(Chars) BY WordsTyped
<1>3. TwoGroups = All \X {<<"a">>, <<"a", "b">>} BY DEF TwoGroups
<1>. HIDE DEF All
<1>. QED BY <1>1, <1>2, <1>3, AskedOf

LEMMA PatternsAsked == PatternQuestions \subseteq Asked
<1>. DEFINE File(f, p) == <<Agent(Star), Pattern(f, p)>>
            Fields == {"allow", "disallow"}
            All == {File(f, p) : f \in Fields, p \in Patterns}
            Texts == BoundedSeq({"a", "b", "%61", "%0A"}, 3)
<1>1. ASSUME NEW f \in Fields, NEW p \in Patterns PROVE File(f, p) \in Seq(Line)
  <2>1. p \in Seq(Chars) BY PatternsTyped
  <2>2. Agent(Star) \in Line /\ Pattern(f, p) \in Line
    BY <2>1, WordsTyped, AgentTyped, PatternTyped
  <2>. QED BY <2>2, ShortTyped
<1>2. Texts \subseteq Seq(Chars)
  <2>1. {"a", "b", "%61", "%0A"} \subseteq Chars BY DEF Chars
  <2>. QED BY <2>1, BoundedIn
<1>3. PatternQuestions = All \X Texts BY DEF PatternQuestions
<1>. HIDE DEF File, Fields, Texts
<1>4. All \subseteq Seq(Line) BY <1>1
<1>. HIDE DEF All
<1>. QED BY <1>2, <1>3, <1>4, AskedOf

LEMMA SeveralAsked == Several \subseteq Asked
<1>1. RuleLines \subseteq Line
  <2>1. ASSUME NEW f \in {"allow", "disallow"},
               NEW p \in {<<>>, <<"a">>, <<"*">>, <<"a", "b">>, <<"*", "$">>}
        PROVE  Pattern(f, p) \in Line
    <3>1. p \in Seq(Chars) BY WordsTyped
    <3>. QED BY <3>1, PatternTyped
  <2>. QED BY <2>1 DEF RuleLines
<1>2. BoundedSeq(RuleLines, 3) \subseteq Seq(Line) BY <1>1, BoundedIn
<1>3. \A rules \in BoundedSeq(RuleLines, 3) : <<Agent(Star)>> \o rules \in Seq(Line)
  <2>1. Agent(Star) \in Line BY WordsTyped, AgentTyped
  <2>2. <<Agent(Star)>> \in Seq(Line) BY <2>1, ShortTyped
  <2>. QED BY <1>2, <2>2
<1>4. {<<>>, <<"a">>, <<"a", "b">>} \subseteq Seq(Chars) BY WordsTyped
<1>. QED BY <1>3, <1>4, Zenon DEF Several, Asked

-----------------------------------------------------------------------------
(***************************************************************************)
(* RobotsRules: RFC 9309, where the code does not depart from it.          *)
(***************************************************************************)

\* Without a line in between that ends them for the code only, the user-agent lines of a
\* group are the same.
LEMMA GroupHeadsAre ==
  ASSUME lines \in Seq(Line), Rules!IsUndisputed, NEW l \in DOMAIN lines
  PROVE  Rules!GroupHeads(l) = Rules!Heads(l)
<1>1. DOMAIN lines = 1..Len(lines) /\ Len(lines) \in Nat OBVIOUS
<1>2. \A k : Rules!IsAgent(k) => ~Rules!IsRule(k) BY DEF Rules!IsAgent, Rules!IsRule
<1>3. \A k : lines[k].field = "none" => ~Rules!IsRule(k) BY DEF Rules!IsRule
<1>4. \A i, j \in 1..Len(lines) :
        i < j /\ Rules!IsAgent(i) /\ Rules!IsAgent(j) /\ (\A k \in i..j : ~Rules!IsRule(k)) =>
          \A k \in i..j : Rules!IsAgent(k) \/ lines[k].field = "none"
  BY <1>1 DEF Rules!IsUndisputed
<1>5. ASSUME NEW j \in 1..l, NEW e \in j..l, Rules!IsAgent(j), Rules!IsAgent(e)
      PROVE  (\A k \in j..e : ~Rules!IsRule(k))
               <=> \A k \in j..e : Rules!IsAgent(k) \/ lines[k].field = "none"
  <2>1. j \in 1..Len(lines) /\ e \in 1..Len(lines) BY <1>1
  <2>2. CASE j = e BY <1>2, <1>5, <2>2
  <2>3. CASE j # e
    <3>1. j < e BY <2>3
    <3>. QED BY <1>2, <1>3, <1>4, <1>5, <2>1, <3>1
  <2>. QED BY <2>2, <2>3
<1>6. ASSUME NEW j \in 1..l PROVE j \in Rules!GroupHeads(l) <=> j \in Rules!Heads(l)
  BY <1>5 DEF Rules!GroupHeads, Rules!Heads
<1>7. Rules!GroupHeads(l) \subseteq 1..l /\ Rules!Heads(l) \subseteq 1..l
  BY DEF Rules!GroupHeads, Rules!Heads
<1>. QED BY <1>6, <1>7

\* Of a file with one line for each agent, the line that the code picks is the one that
\* names the agent of the RFC.
LEMMA PickIsNamed ==
  ASSUME lines \in Seq(Line), Rules!IsUndisputed, NEW h \in DOMAIN lines
  PROVE  Rules!IsPick(h) <=>
           Rules!Names(h, IF \E j \in DOMAIN lines : Rules!Names(j, Token) THEN Token
                          ELSE Rules!Star)
<1>. DEFINE n == DOMAIN lines
<1>1. \A i, j \in n : Rules!IsAgent(i) /\ Rules!IsAgent(j) /\ lines[i].agent = lines[j].agent
                        => i = j
  BY DEF Rules!IsUndisputed
<1>2. \A i \in n : Rules!Fits(i) => Rules!IsAgent(i) /\ lines[i].agent = Token
  BY DEF Rules!IsUndisputed, Rules!Fits
<1>3. Token # <<>> /\ Token # Rules!Star /\ Rules!IsPrefix(Token, Token) /\ Len(Token) \in Nat
  <2>1. Token # <<>> BY DEF Token
  <2>2. Token # Rules!Star BY DEF Token, Rules!Star
  <2>3. Len(Token) \in Nat /\ Len(Token) <= Len(Token) BY DEF Token
  <2>4. Rules!IsPrefix(Token, Token) BY <2>3, Zenon DEF Rules!IsPrefix
  <2>. QED BY <2>1, <2>2, <2>3, <2>4
<1>4. \A i \in n : Rules!Fits(i) <=> Rules!Names(i, Token)
  BY <1>2, <1>3 DEF Rules!Fits, Rules!Names
<1>5. \A i \in n : i \in Int OBVIOUS
<1>. HIDE DEF n
<1>6. CASE \E j \in n : Rules!Names(j, Token)
  <2>1. PICK j \in n : Rules!Names(j, Token) BY <1>6
  <2>2. \A i \in n : Rules!Names(i, Token) => i = j BY <1>1, <2>1 DEF Rules!Names
  <2>3. ASSUME Rules!Names(h, Token) PROVE Rules!IsPick(h)
    <3>1. Rules!Fits(h) /\ h = j BY <1>4, <2>2, <2>3 DEF n
    <3>2. \A i \in n : Rules!Fits(i) => i = h BY <1>4, <2>2, <3>1
    <3>3. \A i \in n : Rules!Fits(i) => Len(lines[i].agent) = Len(lines[h].agent) /\ h <= i
      BY <1>5, <3>2 DEF n
    <3>. QED BY <3>1, <3>3, Zenon DEF Rules!IsPick, n
  <2>4. ASSUME Rules!IsPick(h) PROVE Rules!Names(h, Token)
    <3>1. Rules!Fits(j) BY <1>4, <2>1
    <3>2. Rules!Fits(h) BY <2>4, <3>1, Zenon DEF Rules!IsPick, n
    <3>. QED BY <1>4, <3>2 DEF n
  <2>. QED BY <1>6, <2>3, <2>4 DEF n
<1>7. CASE ~\E j \in n : Rules!Names(j, Token)
  <2>1. \A i \in n : ~Rules!Fits(i) BY <1>4, <1>7
  <2>2. ASSUME Rules!Names(h, Rules!Star) PROVE Rules!IsPick(h)
    <3>1. \A i \in n : Rules!IsAgent(i) /\ lines[i].agent = Rules!Star => i = h
      BY <1>1, <2>2 DEF Rules!Names, n
    <3>2. \A i \in n : ~Rules!Fits(i) /\ (Rules!IsAgent(i) /\ lines[i].agent = Rules!Star => h <= i)
      BY <1>5, <2>1, <3>1
    <3>. QED BY <2>2, <3>2, Zenon DEF Rules!IsPick, Rules!Names, n
  <2>3. ASSUME Rules!IsPick(h) PROVE Rules!Names(h, Rules!Star)
    BY <2>1, <2>3, Zenon DEF Rules!IsPick, Rules!Names, n
  <2>. QED BY <1>7, <2>2, <2>3 DEF n
<1>. QED BY <1>6, <1>7

\* The lines of the groups that the RFC combines are those of the group that the code picks.
LEMMA CombinedAreOurs ==
  ASSUME lines \in Seq(Line), Rules!IsUndisputed PROVE Rules!CombinedLines = Rules!OurLines
<1>. DEFINE agent == IF \E j \in DOMAIN lines : Rules!Names(j, Token) THEN Token ELSE Rules!Star
<1>1. \A h \in DOMAIN lines : Rules!IsPick(h) <=> Rules!Names(h, agent) BY PickIsNamed
<1>. HIDE DEF agent
<1>2. \A l \in DOMAIN lines : Rules!GroupHeads(l) = Rules!Heads(l) BY GroupHeadsAre
<1>3. \A l \in DOMAIN lines : \A h \in Rules!Heads(l) : h \in DOMAIN lines BY DEF Rules!Heads
<1>4. \A l \in DOMAIN lines :
        (\E h \in Rules!GroupHeads(l) : Rules!Names(h, agent))
          <=> \E h \in Rules!Heads(l) : Rules!IsPick(h)
  BY <1>1, <1>2, <1>3, Zenon
<1>5. Rules!CombinedLines =
        {l \in DOMAIN lines :
           ~Rules!IsAgent(l) /\ \E h \in Rules!GroupHeads(l) : Rules!Names(h, agent)}
  BY Zenon DEF Rules!CombinedLines, agent
<1>6. Rules!OurLines =
        {l \in DOMAIN lines : ~Rules!IsAgent(l) /\ \E h \in Rules!Heads(l) : Rules!IsPick(h)}
  BY DEF Rules!OurLines
<1>. QED BY <1>4, <1>5, <1>6

\* A pattern lies along a text as it is written as it does folded, unless it escapes a
\* special character.
LEMMA LiteralsLie ==
  ASSUME NEW p \in Seq(Chars), NEW q, DOMAIN q = DOMAIN p, NEW text, NEW cut,
         \A i \in DOMAIN p : /\ q[i] = Rules!Decoded(p[i])
                             /\ p[i] = "*" <=> q[i] = "*"
  PROVE  Rules!LiesAlong(q, text, cut) <=>
           /\ cut[0] = 0
           /\ \A i \in DOMAIN p :
                IF p[i] = "*" THEN cut[i] >= cut[i - 1]
                ELSE cut[i] = cut[i - 1] + 1 /\ text[cut[i]] = Rules!Decoded(p[i])
BY DEF Rules!LiesAlong

LEMMA EscapesAreNotSpecial ==
  ASSUME NEW p \in Seq(Chars), {"%2A", "%24"} \cap Rules!ToSet(p) = {}, NEW i \in DOMAIN p
  PROVE  /\ p[i] = "*" <=> Rules!Decoded(p[i]) = "*"
         /\ p[i] = "$" <=> Rules!Decoded(p[i]) = "$"
<1>1. p[i] \in Rules!ToSet(p) BY DEF Rules!ToSet
<1>2. p[i] # "%2A" /\ p[i] # "%24" BY <1>1
<1>3. CASE p[i] = "%61" BY <1>3 DEF Rules!Decoded
<1>4. CASE p[i] = "%0A" BY <1>4 DEF Rules!Decoded
<1>5. CASE p[i] \notin {"%61", "%0A", "%2A", "%24"}
  <2>1. Rules!Decoded(p[i]) = p[i] BY <1>5 DEF Rules!Decoded
  <2>. QED BY <2>1
<1>. QED BY <1>2, <1>3, <1>4, <1>5

LEMMA MatchesAsItCovers ==
  ASSUME NEW p \in Seq(Chars), {"%2A", "%24"} \cap Rules!ToSet(p) = {}, NEW text
  PROVE  Rules!Matches(p, text) <=> Rules!Covers(Rules!Unquote(p), text)
<1>. DEFINE q == Rules!Unquote(p)
            anchored == p # <<>> /\ Rules!Last(p) = "$"
            bound == q # <<>> /\ Rules!Last(q) = "$"
            literal == IF anchored THEN Rules!Front(p) ELSE p
            folded == IF bound THEN Rules!Front(q) ELSE q
<1>1. /\ q \in Seq(Chars) /\ Len(q) = Len(p) /\ DOMAIN q = DOMAIN p /\ DOMAIN p = 1..Len(p)
      /\ Len(p) \in Nat /\ \A i \in DOMAIN p : q[i] = Rules!Decoded(p[i])
  <2>1. q \in Seq(Chars) BY UnquoteTyped
  <2>2. q = [i \in DOMAIN p |-> Rules!Decoded(p[i])] BY DEF Rules!Unquote
  <2>. HIDE DEF q
  <2>3. DOMAIN q = DOMAIN p /\ \A i \in DOMAIN p : q[i] = Rules!Decoded(p[i]) BY <2>2
  <2>. QED BY <2>1, <2>3
<1>2. \A i \in DOMAIN p : (p[i] = "*" <=> q[i] = "*") /\ (p[i] = "$" <=> q[i] = "$")
  BY <1>1, EscapesAreNotSpecial
<1>. HIDE DEF q
<1>3. anchored <=> bound
  <2>1. CASE p = <<>> BY <1>1, <2>1
  <2>2. CASE p # <<>>
    <3>1. Len(p) \in DOMAIN p /\ q # <<>> BY <1>1, <2>2
    <3>. QED BY <1>1, <1>2, <2>2, <3>1 DEF Rules!Last
  <2>. QED BY <2>1, <2>2
<1>4. /\ literal \in Seq(Chars) /\ DOMAIN folded = DOMAIN literal /\ Len(folded) = Len(literal)
      /\ \A i \in DOMAIN literal : /\ folded[i] = Rules!Decoded(literal[i])
                                   /\ literal[i] = "*" <=> folded[i] = "*"
  <2>1. CASE anchored
    <3>1. Len(p) - 1 \in Nat /\ Len(p) - 1 <= Len(p) BY <1>1, <2>1
    <3>2. literal = SubSeq(p, 1, Len(p) - 1) /\ folded = SubSeq(q, 1, Len(p) - 1)
      BY <1>1, <1>3, <2>1 DEF Rules!Front
    <3>. HIDE DEF literal, folded
    <3>3. /\ literal \in Seq(Chars) /\ Len(literal) = Len(p) - 1
          /\ \A i \in 1..Len(p) - 1 : literal[i] = p[i]
      BY <3>1, <3>2, PrefixTyped
    <3>4. /\ folded \in Seq(Chars) /\ Len(folded) = Len(p) - 1
          /\ \A i \in 1..Len(p) - 1 : folded[i] = q[i]
      BY <1>1, <3>1, <3>2, PrefixTyped
    <3>5. DOMAIN literal = 1..Len(p) - 1 /\ DOMAIN folded = 1..Len(p) - 1 BY <3>3, <3>4
    <3>6. \A i \in 1..Len(p) - 1 : i \in DOMAIN p BY <1>1
    <3>. QED BY <1>1, <1>2, <3>3, <3>4, <3>5, <3>6
  <2>2. CASE ~anchored
    <3>1. literal = p /\ folded = q BY <1>3, <2>2
    <3>. HIDE DEF literal, folded
    <3>. QED BY <1>1, <1>2, <3>1
  <2>. QED BY <2>1, <2>2
<1>5. Rules!Matches(p, text) <=>
        \E cut \in [0..Len(literal) -> 0..Len(text)] :
          /\ cut[0] = 0
          /\ \A i \in DOMAIN literal :
               IF literal[i] = "*" THEN cut[i] >= cut[i - 1]
               ELSE cut[i] = cut[i - 1] + 1 /\ text[cut[i]] = Rules!Decoded(literal[i])
          /\ anchored => cut[Len(literal)] = Len(text)
  BY Zenon DEF Rules!Matches
<1>6. Rules!Covers(q, text) <=>
        \E cut \in [0..Len(folded) -> 0..Len(text)] :
          Rules!LiesAlong(folded, text, cut) /\ (bound => cut[Len(folded)] = Len(text))
  BY Zenon DEF Rules!Covers
<1>. HIDE DEF anchored, bound, literal, folded
<1>7. \A cut : Rules!LiesAlong(folded, text, cut) <=>
                 /\ cut[0] = 0
                 /\ \A i \in DOMAIN literal :
                      IF literal[i] = "*" THEN cut[i] >= cut[i - 1]
                      ELSE cut[i] = cut[i - 1] + 1 /\ text[cut[i]] = Rules!Decoded(literal[i])
  BY <1>4, LiteralsLie
<1>8. Rules!Matches(p, text) <=> Rules!Covers(q, text)
  BY <1>3, <1>4, <1>5, <1>6, <1>7, Zenon
<1>. QED BY <1>8 DEF q

\* The RFC answers as the code does where there is no dispute.
LEMMA RfcAllowsAsWell ==
  ASSUME lines \in Seq(Line), Rules!IsUndisputed
  PROVE  Rules!RfcAllows <=> Rules!ShouldAllow
<1>1. Rules!CombinedLines = Rules!OurLines BY CombinedAreOurs
<1>2. ASSUME NEW f \in {"allow", "disallow"} PROVE Rules!MatchingLines(f) = Rules!Covering(f)
  <2>1. ASSUME NEW l \in Rules!OurLines, lines[l].field = f
        PROVE  Rules!Matches(lines[l].path, Rules!TargetPath)
                 <=> Rules!Covers(Rules!Unquote(lines[l].path), Rules!TargetPath)
    <3>1. l \in DOMAIN lines BY DEF Rules!OurLines
    <3>2. IsRule(l) /\ Rules!IsRule(l) BY <2>1 DEF IsRule, Rules!IsRule
    <3>3. lines[l].path \in Seq(Chars) BY <3>2, OurRules
    <3>4. {"%2A", "%24"} \cap Rules!ToSet(lines[l].path) = {}
      BY <3>1, <3>2, Zenon DEF Rules!IsUndisputed
    <3>. QED BY <3>3, <3>4, MatchesAsItCovers
  <2>. QED BY <1>1, <2>1 DEF Rules!MatchingLines, Rules!Covering
<1>3. /\ Rules!MatchingLines("allow") = Rules!Covering("allow")
      /\ Rules!MatchingLines("disallow") = Rules!Covering("disallow")
  BY <1>2
<1>. QED BY <1>3 DEF Rules!RfcAllows, Rules!ShouldAllow

-----------------------------------------------------------------------------
\* The inductive invariant: what was asked is a file and a path, and the verdict that of the code.
RulesInv ==
  /\ lines \in Seq(Line) /\ path \in Seq(Chars)
  /\ verdict = {} \/ verdict = {Rules!Answer}

\* What RobotsTxt answers is what the lines for us say, whatever the file and the path.
THEOREM EveryFileIsObeyed ==
  ASSUME lines \in Seq(Line), path \in Seq(Chars), verdict = {} \/ verdict = {Rules!Answer}
  PROVE  Rules!PolicyIsOurs
<1>1. HoldsOurs BY OursAreHeld
<1>2. ASSUME NEW v \in verdict PROVE v.allows = Rules!Allows /\ v.delay = Ours.delay
  <2>1. v = Rules!Answer OBVIOUS
  <2>. QED BY <2>1 DEF Rules!Answer, Ours
<1>3. Rules!RulesDecide
  <2>. SUFFICES ASSUME Rules!OneLine, NEW v \in verdict PROVE v.allows = Rules!ShouldAllow
    BY DEF Rules!RulesDecide
  <2>1. Rules!Allows <=> Rules!ShouldAllow BY AllowsAsItShould
  <2>2. Rules!Allows \in BOOLEAN BY Zenon DEF Rules!Allows, Rules!Decides
  <2>3. Rules!ShouldAllow \in BOOLEAN BY Zenon DEF Rules!ShouldAllow
  <2>4. Rules!Allows = Rules!ShouldAllow BY <2>1, <2>2, <2>3, Zenon
  <2>. QED BY <1>2, <2>4, Zenon
<1>4. Rules!DelayIsOurs
  <2>. DEFINE delays == {i \in Rules!OurLines :
                           lines[i].field = "crawl-delay" /\ lines[i].delay > 0}
  <2>1. \A i : i \in delays <=> i \in Rules!OurLines /\ IsDelay(i) BY DEF IsDelay
  <2>. SUFFICES ASSUME NEW v \in verdict
                PROVE  IF delays = {} THEN v.delay = Rules!NoDelay
                       ELSE \E i \in delays : v.delay = lines[i].delay /\ \A j \in delays : j <= i
    BY Zenon DEF Rules!DelayIsOurs
  <2>. HIDE DEF delays
  <2>2. v.delay = Ours.delay BY <1>2
  <2>3. CASE Ours.delay = 0 /\ \A l \in Rules!OurLines : ~IsDelay(l)
    BY <2>1, <2>2, <2>3 DEF Rules!NoDelay
  <2>4. CASE \E l \in Rules!OurLines :
               /\ IsDelay(l) /\ Ours.delay = lines[l].delay
               /\ \A j \in Rules!OurLines : IsDelay(j) => j <= l
    BY <2>1, <2>2, <2>4
  <2>. QED BY <1>1, <2>3, <2>4 DEF HoldsOurs
<1>5. Rules!FollowsRfc
  <2>. SUFFICES ASSUME verdict # {}, Rules!IsUndisputed, NEW v \in verdict
                PROVE  v.allows = Rules!RfcAllows
    BY DEF Rules!FollowsRfc
  <2>1. Rules!OneLine BY DEF Rules!IsUndisputed
  <2>2. v.allows = Rules!ShouldAllow BY <1>3, <2>1, Zenon DEF Rules!RulesDecide
  <2>3. Rules!RfcAllows <=> Rules!ShouldAllow BY RfcAllowsAsWell
  <2>4. Rules!RfcAllows \in BOOLEAN BY Zenon DEF Rules!RfcAllows
  <2>5. Rules!ShouldAllow \in BOOLEAN BY Zenon DEF Rules!ShouldAllow
  <2>6. Rules!RfcAllows = Rules!ShouldAllow BY <2>3, <2>4, <2>5, Zenon
  <2>. QED BY <2>2, <2>6
<1>. QED BY <1>3, <1>4, <1>5 DEF Rules!PolicyIsOurs

LEMMA RulesInit == ASSUME Rules!Init PROVE RulesInv
<1>1. PICK q \in RulesQuestions : lines = q[1] /\ path = q[2] BY DEF Rules!Init
<1>2. q \in Asked BY GroupsAsked, TwoGroupsAsked, PatternsAsked, SeveralAsked DEF RulesQuestions
<1>3. verdict = {} BY DEF Rules!Init
<1>. QED BY <1>1, <1>2, <1>3 DEF Asked, RulesInv

LEMMA RulesNext == ASSUME RulesInv, Rules!Next \/ UNCHANGED rulesVars PROVE RulesInv'
<1>. USE DEF RulesInv
<1>1. UNCHANGED <<lines, path>> BY DEF Rules!Next, Rules!Ask, Rules!Stutter, Rules!vars, rulesVars
<1>2. Rules!Answer' = Rules!Answer BY <1>1 DEF Rules!Answer, Rules!Allows, Rules!TargetPath
<1>3. verdict' = verdict \/ verdict' = {Rules!Answer}
  BY DEF Rules!Next, Rules!Ask, Rules!Stutter, Rules!vars, rulesVars
<1>. QED BY <1>1, <1>2, <1>3

-----------------------------------------------------------------------------
(***************************************************************************)
(* Urls: dot segments.  The segments kept so far are a stack; those on it  *)
(* are the names that no stretch of segments behind them has popped.       *)
(***************************************************************************)

\* Urls counts with the definition of FiniteSets.
LEMMA SameCount == ASSUME NEW S PROVE Urls!Cardinality(S) = Cardinality(S)
BY DEF Urls!Cardinality, Cardinality

\* Paths.
Segments == Seq(Seq(Chars))

\* The round of _remove_dot_segments for segment i, without the slash of the last one.
Cut(p, output, i) ==
  IF p[i] \notin {Urls!Dot, Urls!DotDot} THEN Append(output, p[i])
  ELSE IF p[i] = Urls!DotDot /\ Len(output) > 1 THEN Urls!Front(output) ELSE output

\* A round with that slash.
Resolve(p, output, i) ==
  LET popped == IF p[i] = Urls!DotDot /\ Len(output) > 1 THEN Urls!Front(output) ELSE output
  IN IF p[i] \notin {Urls!Dot, Urls!DotDot} THEN Append(output, p[i])
     ELSE IF i = Len(p) THEN Append(popped, <<>>) ELSE popped

LEMMA ResolveCuts ==
  ASSUME NEW p, NEW output, NEW i
  PROVE  Resolve(p, output, i) =
           IF p[i] \in {Urls!Dot, Urls!DotDot} /\ i = Len(p)
             THEN Append(Cut(p, output, i), <<>>) ELSE Cut(p, output, i)
<1>1. CASE p[i] \notin {Urls!Dot, Urls!DotDot} BY <1>1 DEF Resolve, Cut
<1>2. CASE p[i] \in {Urls!Dot, Urls!DotDot} BY <1>2 DEF Resolve, Cut
<1>. QED BY <1>1, <1>2

LEMMA CutTyped ==
  ASSUME NEW p \in Segments, NEW output \in Segments, NEW i \in 1..Len(p)
  PROVE  Cut(p, output, i) \in Segments /\ Resolve(p, output, i) \in Segments
<1>1. p[i] \in Seq(Chars) BY DEF Segments
<1>2. Append(output, p[i]) \in Segments BY <1>1 DEF Segments
<1>3. Len(output) > 1 => Urls!Front(output) \in Segments
  <2>1. Len(output) > 1 => Len(output) - 1 \in Nat /\ Len(output) - 1 <= Len(output)
    BY DEF Segments
  <2>. QED BY <2>1, PrefixTyped DEF Urls!Front, Segments
<1>4. Cut(p, output, i) \in Segments BY <1>2, <1>3 DEF Cut
<1>5. Append(Cut(p, output, i), <<>>) \in Segments BY <1>4 DEF Segments
<1>. QED BY <1>4, <1>5, ResolveCuts

\* _remove_dot_segments, segment by segment.
LEMMA DotsRun ==
  ASSUME NEW p \in Segments
  PROVE  \E run \in [0..Len(p) -> Segments] :
           /\ run[0] = <<>> /\ run[Len(p)] = Urls!RemoveDotSegments(p)
           /\ \A k \in 1..Len(p) : run[k] = Resolve(p, run[k - 1], k)
<1>. DEFINE n == Len(p)
            ids == [i \in DOMAIN p |-> i]
            F == [x \in Segments \X (1..n) |-> Resolve(p, x[1], x[2])]
            Steps(iter) ==
              iter = [d \in SUBSET DOMAIN ids |->
                        IF d = {} THEN <<>>
                        ELSE Resolve(p, iter[d \ {Max(d)}], ids[Max(d)])]
            iter == CHOOSE it : Steps(it)
<1>1. Urls!RemoveDotSegments(p) = iter[DOMAIN ids]
  BY DEF Urls!RemoveDotSegments, Resolve, Urls!FoldLeftDomain, Urls!FoldLeft,
         Urls!MapThenFoldSet, Urls!Max, Max
<1>2. /\ n \in Nat /\ ids \in Seq(1..n) /\ Len(ids) = n /\ DOMAIN ids = 1..n
      /\ \A k \in 1..n : ids[k] = k
  BY DEF Segments
<1>3. <<>> \in Segments BY DEF Segments
<1>. HIDE DEF ids
<1>4. F \in [Segments \X (1..n) -> Segments] BY CutTyped
<1>. HIDE DEF n
<1>5. \A d \in SUBSET DOMAIN ids : d # {} => ids[Max(d)] \in 1..n BY <1>2, MaxInDomain
<1>6. \A x \in Segments, k \in 1..n : F[<<x, k>>] = Resolve(p, x, k) OBVIOUS
<1>. HIDE DEF F
<1>7. Steps(iter)
  <2>1. PICK it : IsFold(it, Segments, <<>>, F, ids) BY <1>2, <1>3, <1>4, FoldExists
  <2>2. /\ it \in [SUBSET DOMAIN ids -> Segments]
        /\ \A d \in SUBSET DOMAIN ids : it[d \ {Max(d)}] \in Segments
    BY <2>1 DEF IsFold
  <2>3. \A d \in SUBSET DOMAIN ids : it[d] =
          IF d = {} THEN <<>> ELSE Resolve(p, it[d \ {Max(d)}], ids[Max(d)])
    <3>. TAKE d \in SUBSET DOMAIN ids
    <3>1. it[d] = IF d = {} THEN <<>> ELSE F[<<it[d \ {Max(d)}], ids[Max(d)]>>]
      BY <2>1 DEF IsFold
    <3>. QED BY <3>1, <2>2, <1>5, <1>6
  <2>4. Steps(it) BY <2>2, <2>3
  <2>. HIDE DEF Steps
  <2>. QED BY <2>4
<1>8. Descends(iter, Segments, <<>>, F, ids)
  <2>. HIDE DEF iter
  <2>1. {} \in SUBSET DOMAIN ids OBVIOUS
  <2>2. iter[{}] = <<>> BY <1>7, <2>1
  <2>3. \A d \in SUBSET DOMAIN ids : d # {} =>
          iter[d] = Resolve(p, iter[d \ {Max(d)}], ids[Max(d)])
    BY <1>7
  <2>. HIDE DEF Steps
  <2>. QED BY <1>5, <1>6, <2>2, <2>3 DEF Descends
<1>. HIDE DEF iter
<1>9. PICK run : IsRun(run, iter, Segments, <<>>, F, ids) BY <1>2, <1>3, <1>4, <1>8, FoldRun
<1>10. ASSUME NEW k \in 1..n PROVE run[k] = Resolve(p, run[k - 1], k)
  <2>1. k - 1 \in 0..n BY <1>2
  <2>2. run[k - 1] \in Segments BY <2>1, <1>2, <1>9 DEF IsRun
  <2>3. run[k] = F[<<run[k - 1], k>>] BY <1>2, <1>9 DEF IsRun
  <2>. QED BY <2>2, <2>3, <1>6
<1>11. /\ run \in [0..n -> Segments] /\ run[0] = <<>> /\ run[n] = iter[DOMAIN ids]
  BY <1>2, <1>9 DEF IsRun
<1>. QED BY <1>1, <1>10, <1>11 DEF n

\* A segment that is neither "." nor ".."; how many ".." and names there are from a to b.
IsName(p, k) == p[k] \notin {Urls!Dot, Urls!DotDot}

Ups(p, a, b) == Cardinality({k \in a..b : p[k] = Urls!DotDot})

Names(p, a, b) == Cardinality({k \in a..b : IsName(p, k)})

\* Segment k outlives the dot segments up to i.
SurvivesTo(p, k, i) ==
  IsName(p, k) /\ (k > 1 => \A j \in k..i : Ups(p, k + 1, j) <= Names(p, k + 1, j))

\* A part of an interval, and the same part of one that is longer by one.
LEMMA CountNext ==
  ASSUME NEW P, NEW a \in Nat, NEW b \in Nat, a <= b + 1
  PROVE  /\ Cardinality({k \in a..b : k \in P}) \in Nat
         /\ Cardinality({k \in a..b + 1 : k \in P})
              = Cardinality({k \in a..b : k \in P}) + IF b + 1 \in P THEN 1 ELSE 0
<1>. DEFINE S == {k \in a..b : k \in P}
            T == {k \in a..b + 1 : k \in P}
<1>1. IsFiniteSet(S) /\ Cardinality(S) \in Nat
  <2>1. IsFiniteSet(a..b) BY FS_Interval
  <2>2. S \in SUBSET (a..b) OBVIOUS
  <2>. HIDE DEF S
  <2>3. IsFiniteSet(S) BY <2>1, <2>2, FS_Subset
  <2>. QED BY <2>3, FS_CardinalityType
<1>2. CASE b + 1 \in P
  <2>1. T = S \cup {b + 1} /\ b + 1 \notin S BY <1>2
  <2>. HIDE DEF S, T
  <2>2. Cardinality(T) = Cardinality(S) + 1 BY <1>1, <2>1, FS_AddElement
  <2>. QED BY <1>1, <1>2, <2>2 DEF S, T
<1>3. CASE b + 1 \notin P
  <2>1. T = S BY <1>3
  <2>. HIDE DEF S, T
  <2>2. Cardinality(T) = Cardinality(S) + 0 BY <1>1, <2>1
  <2>. QED BY <1>1, <1>3, <2>2 DEF S, T
<1>. QED BY <1>2, <1>3

\* How the two counts grow by a segment.
Counted(p, a, b) ==
  /\ Ups(p, a, b) \in Nat /\ Names(p, a, b) \in Nat
  /\ Ups(p, a, b + 1) = Ups(p, a, b) + IF p[b + 1] = Urls!DotDot THEN 1 ELSE 0
  /\ Names(p, a, b + 1) = Names(p, a, b) + IF IsName(p, b + 1) THEN 1 ELSE 0

LEMMA CountsNext ==
  ASSUME NEW p, NEW a \in Nat, NEW b \in Nat, a <= b + 1 PROVE Counted(p, a, b)
<1>. DEFINE P == {k \in a..b + 1 : p[k] = Urls!DotDot}
            Q == {k \in a..b + 1 : IsName(p, k)}
<1>1. /\ Ups(p, a, b) = Cardinality({k \in a..b : k \in P})
      /\ Ups(p, a, b + 1) = Cardinality({k \in a..b + 1 : k \in P})
      /\ Names(p, a, b) = Cardinality({k \in a..b : k \in Q})
      /\ Names(p, a, b + 1) = Cardinality({k \in a..b + 1 : k \in Q})
  <2>1. /\ {k \in a..b : k \in P} = {k \in a..b : p[k] = Urls!DotDot}
        /\ {k \in a..b + 1 : k \in P} = {k \in a..b + 1 : p[k] = Urls!DotDot}
        /\ {k \in a..b : k \in Q} = {k \in a..b : IsName(p, k)}
        /\ {k \in a..b + 1 : k \in Q} = {k \in a..b + 1 : IsName(p, k)}
    OBVIOUS
  <2>. QED BY <2>1 DEF Ups, Names
<1>2. /\ b + 1 \in P <=> p[b + 1] = Urls!DotDot
      /\ b + 1 \in Q <=> IsName(p, b + 1)
  OBVIOUS
<1>. HIDE DEF P, Q
<1>3. /\ Cardinality({k \in a..b : k \in P}) \in Nat /\ Cardinality({k \in a..b : k \in Q}) \in Nat
      /\ Cardinality({k \in a..b + 1 : k \in P})
           = Cardinality({k \in a..b : k \in P}) + IF b + 1 \in P THEN 1 ELSE 0
      /\ Cardinality({k \in a..b + 1 : k \in Q})
           = Cardinality({k \in a..b : k \in Q}) + IF b + 1 \in Q THEN 1 ELSE 0
  BY CountNext
<1>. QED BY <1>1, <1>2, <1>3 DEF Counted

LEMMA CountsEmpty ==
  ASSUME NEW p, NEW a \in Nat
  PROVE  Ups(p, a + 1, a) = 0 /\ Names(p, a + 1, a) = 0
<1>1. a + 1..a = {} OBVIOUS
<1>2. Cardinality({}) = 0 BY FS_EmptySet
<1>3. {k \in {} : p[k] = Urls!DotDot} = {} /\ {k \in {} : IsName(p, k)} = {} OBVIOUS
<1>. QED BY <1>1, <1>2, <1>3 DEF Ups, Names

\* The segments kept of the first i: the survivors, in their order, and behind each one as
\* many names more than ".." as there are survivors.
Stack(p, i, output, kept) ==
  /\ output \in Segments /\ Len(output) >= 1
  /\ kept \in [1..Len(output) -> 1..i]
  /\ kept[1] = 1
  /\ \A a, b \in 1..Len(output) : a < b => kept[a] < kept[b]
  /\ \A a \in 1..Len(output) : output[a] = p[kept[a]]
  /\ \A k \in 1..i : SurvivesTo(p, k, i) <=> \E a \in 1..Len(output) : kept[a] = k
  /\ \A a \in 2..Len(output) :
       Ups(p, kept[a] + 1, i) + (Len(output) - a) = Names(p, kept[a] + 1, i)

LEMMA SurvivesNext ==
  ASSUME NEW p, NEW i \in Nat, NEW k \in 1..i
  PROVE  SurvivesTo(p, k, i + 1)
           <=> SurvivesTo(p, k, i) /\ (k > 1 => Ups(p, k + 1, i + 1) <= Names(p, k + 1, i + 1))
<1>1. \A j \in k..i + 1 : j = i + 1 \/ j \in k..i OBVIOUS
<1>2. (\A j \in k..i : j \in k..i + 1) /\ i + 1 \in k..i + 1 OBVIOUS
<1>. QED BY <1>1, <1>2 DEF SurvivesTo

\* The stack after the first segment, and after a name, a "." and a ".." more.
LEMMA StackFirst ==
  ASSUME NEW p \in Segments, NEW n \in Nat \ {0}, Len(p) = n, p[1] = <<>>
  PROVE  /\ Cut(p, <<>>, 1) = <<p[1]>>
         /\ \E kept : Stack(p, 1, Cut(p, <<>>, 1), kept)
<1>1. IsName(p, 1) BY DEF IsName, Urls!Dot, Urls!DotDot
<1>2. Cut(p, <<>>, 1) = <<p[1]>> BY <1>1 DEF Cut, IsName
<1>. DEFINE output == <<p[1]>>
            kept == [a \in 1..1 |-> 1]
<1>3. /\ output \in Segments /\ Len(output) = 1 /\ output[1] = p[1]
  BY DEF Segments
<1>4. /\ kept \in [1..1 -> 1..1] /\ kept[1] = 1 OBVIOUS
<1>5. SurvivesTo(p, 1, 1) BY <1>1 DEF SurvivesTo
<1>. HIDE DEF output, kept
<1>6. Stack(p, 1, output, kept) BY <1>3, <1>4, <1>5 DEF Stack
<1>. QED BY <1>2, <1>6 DEF output

LEMMA StackName ==
  ASSUME NEW p \in Segments, NEW i \in Nat \ {0}, i + 1 <= Len(p), NEW output, NEW kept,
         Stack(p, i, output, kept), IsName(p, i + 1)
  PROVE  \E more : Stack(p, i + 1, Cut(p, output, i + 1), more)
<1>. DEFINE m == Len(output)
            next == Append(output, p[i + 1])
            more == [a \in 1..m + 1 |-> IF a = m + 1 THEN i + 1 ELSE kept[a]]
<1>1. Cut(p, output, i + 1) = next BY DEF Cut, IsName
<1>2. output \in Segments /\ m \in Nat /\ m >= 1 BY DEF Stack, Segments
<1>3. p[i + 1] \in Seq(Chars) BY DEF Segments
<1>4. /\ next \in Segments /\ Len(next) = m + 1 /\ next[m + 1] = p[i + 1]
      /\ \A a \in 1..m : next[a] = output[a]
  BY <1>2, <1>3 DEF Segments
<1>5. /\ kept \in [1..m -> 1..i] /\ kept[1] = 1
      /\ \A a, b \in 1..m : a < b => kept[a] < kept[b]
      /\ \A a \in 1..m : output[a] = p[kept[a]]
      /\ \A k \in 1..i : SurvivesTo(p, k, i) <=> \E a \in 1..m : kept[a] = k
      /\ \A a \in 2..m : Ups(p, kept[a] + 1, i) + (m - a) = Names(p, kept[a] + 1, i)
  BY DEF Stack
<1>6. more \in [1..m + 1 -> 1..i + 1] /\ more[m + 1] = i + 1 /\ \A a \in 1..m : more[a] = kept[a]
  <2>1. \A a \in 1..m : kept[a] \in 1..i + 1 BY <1>5
  <2>2. \A a \in 1..m + 1 : a = m + 1 \/ a \in 1..m BY <1>2
  <2>3. \A a \in 1..m : a # m + 1 BY <1>2
  <2>. QED BY <1>2, <2>1, <2>2, <2>3
<1>. HIDE DEF m, next, more
<1>7. \A a \in 1..m + 1 : a = m + 1 \/ a \in 1..m BY <1>2
<1>8. /\ 1 \in 1..m /\ m + 1 \in 1..m + 1 /\ \A a \in 1..m : a \in 1..m + 1 BY <1>2
<1>9. \A a \in 1..m : kept[a] \in Nat /\ kept[a] < i + 1 BY <1>5
<1>10. \A a, b \in 1..m + 1 : a < b => more[a] < more[b]
  <2>. SUFFICES ASSUME NEW a \in 1..m + 1, NEW b \in 1..m + 1, a < b PROVE more[a] < more[b]
    OBVIOUS
  <2>1. a \in 1..m BY <1>2
  <2>2. CASE b = m + 1 BY <1>6, <1>9, <2>1, <2>2
  <2>3. CASE b \in 1..m BY <1>5, <1>6, <2>1, <2>3
  <2>. QED BY <1>7, <2>2, <2>3
<1>11. \A a \in 1..m + 1 : next[a] = p[more[a]] BY <1>4, <1>5, <1>6, <1>7
<1>12. \A k \in 1..i : SurvivesTo(p, k, i + 1) <=> SurvivesTo(p, k, i)
  <2>. TAKE k \in 1..i
  <2>1. k + 1 \in Nat /\ k + 1 <= i + 1 OBVIOUS
  <2>2. /\ Ups(p, k + 1, i) \in Nat /\ Names(p, k + 1, i) \in Nat
        /\ Ups(p, k + 1, i + 1) = Ups(p, k + 1, i)
        /\ Names(p, k + 1, i + 1) = Names(p, k + 1, i) + 1
    <3>1. p[i + 1] # Urls!DotDot BY DEF IsName
    <3>2. i \in Nat OBVIOUS
    <3>3. Counted(p, k + 1, i) BY <2>1, <3>2, CountsNext
    <3>. QED BY <3>1, <3>3 DEF Counted
  <2>3. SurvivesTo(p, k, i) => (k > 1 => Ups(p, k + 1, i) <= Names(p, k + 1, i))
    BY DEF SurvivesTo
  <2>. QED BY <2>2, <2>3, SurvivesNext
<1>13. SurvivesTo(p, i + 1, i + 1)
  <2>1. \A j \in i + 1..i + 1 : j = i + 1 OBVIOUS
  <2>2. i + 1 \in Nat OBVIOUS
  <2>3. Ups(p, i + 1 + 1, i + 1) = 0 /\ Names(p, i + 1 + 1, i + 1) = 0 BY <2>2, CountsEmpty
  <2>. QED BY <2>1, <2>3 DEF SurvivesTo
<1>14. \A k \in 1..i + 1 : SurvivesTo(p, k, i + 1) <=> \E a \in 1..m + 1 : more[a] = k
  <2>. TAKE k \in 1..i + 1
  <2>1. CASE k = i + 1 BY <1>6, <1>8, <1>13, <2>1
  <2>2. CASE k \in 1..i
    <3>1. k # i + 1 BY <2>2
    <3>. QED BY <1>5, <1>6, <1>7, <1>8, <1>12, <2>2, <3>1
  <2>. QED BY <2>1, <2>2
<1>15. ASSUME NEW a \in 2..m + 1
       PROVE  Ups(p, more[a] + 1, i + 1) + (m + 1 - a) = Names(p, more[a] + 1, i + 1)
  <2>1. CASE a = m + 1
    <3>1. i + 1 \in Nat OBVIOUS
    <3>2. Ups(p, i + 1 + 1, i + 1) = 0 /\ Names(p, i + 1 + 1, i + 1) = 0 BY <3>1, CountsEmpty
    <3>. QED BY <1>2, <1>6, <2>1, <3>2
  <2>2. CASE a \in 2..m
    <3>1. a \in 1..m BY <2>2
    <3>2. kept[a] + 1 \in Nat /\ kept[a] + 1 <= i + 1 BY <1>9, <3>1
    <3>3. /\ Ups(p, kept[a] + 1, i) \in Nat /\ Names(p, kept[a] + 1, i) \in Nat
          /\ Ups(p, kept[a] + 1, i + 1) = Ups(p, kept[a] + 1, i)
          /\ Names(p, kept[a] + 1, i + 1) = Names(p, kept[a] + 1, i) + 1
      <4>1. p[i + 1] # Urls!DotDot BY DEF IsName
      <4>2. i \in Nat OBVIOUS
      <4>3. Counted(p, kept[a] + 1, i) BY <3>2, <4>2, CountsNext
      <4>. QED BY <4>1, <4>3 DEF Counted
    <3>4. Ups(p, kept[a] + 1, i) + (m - a) = Names(p, kept[a] + 1, i) BY <1>5, <2>2
    <3>5. more[a] = kept[a] BY <1>6, <3>1
    <3>. QED BY <1>2, <3>3, <3>4, <3>5
  <2>. QED BY <1>2, <2>1, <2>2
<1>16. more[1] = 1 BY <1>5, <1>6, <1>8
<1>17. Stack(p, i + 1, next, more)
  BY <1>2, <1>4, <1>6, <1>10, <1>11, <1>14, <1>15, <1>16 DEF Stack
<1>. QED BY <1>1, <1>17

LEMMA StackDot ==
  ASSUME NEW p \in Segments, NEW i \in Nat \ {0}, NEW output, NEW kept,
         Stack(p, i, output, kept), p[i + 1] = Urls!Dot
  PROVE  Stack(p, i + 1, Cut(p, output, i + 1), kept)
<1>. DEFINE m == Len(output)
<1>0. Urls!Dot # Urls!DotDot BY DEF Urls!Dot, Urls!DotDot
<1>1. Cut(p, output, i + 1) = output BY <1>0 DEF Cut
<1>2. output \in Segments /\ m \in Nat /\ m >= 1 BY DEF Stack, Segments
<1>3. ~IsName(p, i + 1) /\ p[i + 1] # Urls!DotDot BY <1>0 DEF IsName
<1>5. /\ kept \in [1..m -> 1..i] /\ kept[1] = 1
      /\ \A a, b \in 1..m : a < b => kept[a] < kept[b]
      /\ \A a \in 1..m : output[a] = p[kept[a]]
      /\ \A k \in 1..i : SurvivesTo(p, k, i) <=> \E a \in 1..m : kept[a] = k
      /\ \A a \in 2..m : Ups(p, kept[a] + 1, i) + (m - a) = Names(p, kept[a] + 1, i)
  BY DEF Stack
<1>. HIDE DEF m
<1>6. \A a \in 1..m : kept[a] \in 1..i BY <1>5
<1>7. kept \in [1..m -> 1..i + 1]
  <2>1. \A a \in 1..m : kept[a] \in 1..i + 1 BY <1>6
  <2>. QED BY <1>5, <2>1
<1>8. ASSUME NEW k \in 1..i
      PROVE  /\ Ups(p, k + 1, i + 1) = Ups(p, k + 1, i)
             /\ Names(p, k + 1, i + 1) = Names(p, k + 1, i)
             /\ Ups(p, k + 1, i) \in Nat /\ Names(p, k + 1, i) \in Nat
  <2>1. k + 1 \in Nat /\ k + 1 <= i + 1 /\ i \in Nat OBVIOUS
  <2>2. Counted(p, k + 1, i) BY <2>1, CountsNext
  <2>. QED BY <1>3, <2>2 DEF Counted
<1>9. \A k \in 1..i : SurvivesTo(p, k, i + 1) <=> SurvivesTo(p, k, i)
  <2>. TAKE k \in 1..i
  <2>1. SurvivesTo(p, k, i) => (k > 1 => Ups(p, k + 1, i) <= Names(p, k + 1, i))
    BY DEF SurvivesTo
  <2>. QED BY <1>8, <2>1, SurvivesNext
<1>10. \A k \in 1..i + 1 : SurvivesTo(p, k, i + 1) <=> \E a \in 1..m : kept[a] = k
  <2>. TAKE k \in 1..i + 1
  <2>1. CASE k = i + 1
    <3>1. ~SurvivesTo(p, k, i + 1) BY <1>3, <2>1 DEF SurvivesTo
    <3>. QED BY <1>6, <2>1, <3>1
  <2>2. CASE k \in 1..i BY <1>5, <1>9, <2>2
  <2>. QED BY <2>1, <2>2
<1>11. \A a \in 2..m : Ups(p, kept[a] + 1, i + 1) + (m - a) = Names(p, kept[a] + 1, i + 1)
  <2>. TAKE a \in 2..m
  <2>1. kept[a] \in 1..i BY <1>6
  <2>. QED BY <1>5, <1>8, <2>1
<1>. QED BY <1>1, <1>2, <1>5, <1>7, <1>10, <1>11 DEF Stack, m

LEMMA StackUp ==
  ASSUME NEW p \in Segments, NEW i \in Nat \ {0}, NEW output, NEW kept,
         Stack(p, i, output, kept), p[i + 1] = Urls!DotDot
  PROVE  \E fewer : Stack(p, i + 1, Cut(p, output, i + 1), fewer)
<1>. DEFINE m == Len(output)
            n == IF m > 1 THEN m - 1 ELSE m
            next == Cut(p, output, i + 1)
            fewer == [a \in 1..n |-> kept[a]]
<1>2. output \in Segments /\ m \in Nat /\ m >= 1 BY DEF Stack, Segments
<1>3. ~IsName(p, i + 1) BY DEF IsName
<1>4. /\ next \in Segments /\ Len(next) = n /\ \A a \in 1..n : next[a] = output[a]
  <2>1. next = IF m > 1 THEN Urls!Front(output) ELSE output BY DEF Cut
  <2>2. CASE m > 1
    <3>1. m - 1 \in Nat /\ m - 1 <= m BY <1>2
    <3>2. /\ SubSeq(output, 1, m - 1) \in Seq(Seq(Chars)) /\ Len(SubSeq(output, 1, m - 1)) = m - 1
          /\ \A a \in 1..m - 1 : SubSeq(output, 1, m - 1)[a] = output[a]
      BY <1>2, <3>1, PrefixTyped DEF Segments
    <3>. QED BY <2>1, <2>2, <3>2 DEF Urls!Front, Segments
  <2>3. CASE ~(m > 1) BY <1>2, <2>1, <2>3
  <2>. QED BY <2>2, <2>3
<1>5. /\ kept \in [1..m -> 1..i] /\ kept[1] = 1
      /\ \A a, b \in 1..m : a < b => kept[a] < kept[b]
      /\ \A a \in 1..m : output[a] = p[kept[a]]
      /\ \A k \in 1..i : SurvivesTo(p, k, i) <=> \E a \in 1..m : kept[a] = k
      /\ \A a \in 2..m : Ups(p, kept[a] + 1, i) + (m - a) = Names(p, kept[a] + 1, i)
  BY DEF Stack
<1>6. /\ n \in Nat /\ n >= 1 /\ n <= m /\ (m > 1 => n = m - 1) /\ (m <= 1 => n = m)
      /\ \A a \in 1..n : a \in 1..m
  BY <1>2
<1>7. \A a \in 1..m : kept[a] \in 1..i BY <1>5
<1>8. fewer \in [1..n -> 1..i + 1] /\ \A a \in 1..n : fewer[a] = kept[a]
  <2>1. \A a \in 1..n : kept[a] \in 1..i + 1 BY <1>6, <1>7
  <2>. QED BY <2>1
<1>. HIDE DEF m, n, next, fewer
<1>9. ASSUME NEW k \in 1..i
      PROVE  /\ Ups(p, k + 1, i + 1) = Ups(p, k + 1, i) + 1
             /\ Names(p, k + 1, i + 1) = Names(p, k + 1, i)
             /\ Ups(p, k + 1, i) \in Nat /\ Names(p, k + 1, i) \in Nat
  <2>1. k + 1 \in Nat /\ k + 1 <= i + 1 /\ i \in Nat OBVIOUS
  <2>2. Counted(p, k + 1, i) BY <2>1, CountsNext
  <2>. QED BY <1>3, <2>2 DEF Counted
<1>10. \A k \in 1..i : SurvivesTo(p, k, i + 1) <=> \E a \in 1..n : kept[a] = k
  <2>. TAKE k \in 1..i
  <2>1. SurvivesTo(p, k, i + 1)
          <=> SurvivesTo(p, k, i) /\ (k > 1 => Ups(p, k + 1, i) + 1 <= Names(p, k + 1, i))
    BY <1>9, SurvivesNext
  <2>2. ASSUME NEW a \in 1..n, kept[a] = k PROVE SurvivesTo(p, k, i + 1)
    <3>1. SurvivesTo(p, k, i) BY <1>5, <1>6, <2>2
    <3>2. CASE a = 1 BY <1>5, <2>1, <2>2, <3>1, <3>2
    <3>3. CASE a # 1
      <4>1. a \in 2..m /\ m - a \in Nat /\ m - a >= 1 BY <1>2, <1>6, <3>3
      <4>2. Ups(p, k + 1, i) + (m - a) = Names(p, k + 1, i) BY <1>5, <2>2, <4>1
      <4>. QED BY <1>9, <2>1, <3>1, <4>1, <4>2
    <3>. QED BY <3>2, <3>3
  <2>3. ASSUME SurvivesTo(p, k, i + 1) PROVE \E a \in 1..n : kept[a] = k
    <3>1. PICK a \in 1..m : kept[a] = k BY <1>5, <2>1, <2>3
    <3>2. a \in 1..n
      <4>. SUFFICES ASSUME a \notin 1..n PROVE FALSE OBVIOUS
      <4>1. a = m /\ m > 1 BY <1>2, <1>6
      <4>2. a \in 2..m BY <1>2, <4>1
      <4>3. Ups(p, k + 1, i) + (m - a) = Names(p, k + 1, i) BY <1>5, <3>1, <4>2
      <4>4. k > 1
        <5>1. 1 \in 1..m /\ 1 < a BY <1>2, <4>1
        <5>2. kept[1] < kept[a] BY <1>5, <5>1
        <5>. QED BY <1>5, <3>1, <5>2
      <4>. QED BY <1>2, <1>9, <2>1, <2>3, <4>1, <4>3, <4>4
    <3>. QED BY <3>1, <3>2
  <2>. QED BY <2>2, <2>3
<1>11. \A k \in 1..i + 1 : SurvivesTo(p, k, i + 1) <=> \E a \in 1..n : fewer[a] = k
  <2>. TAKE k \in 1..i + 1
  <2>1. CASE k = i + 1
    <3>1. ~SurvivesTo(p, k, i + 1) BY <1>3, <2>1 DEF SurvivesTo
    <3>2. \A a \in 1..n : fewer[a] \in 1..i BY <1>6, <1>7, <1>8
    <3>. QED BY <2>1, <3>1, <3>2
  <2>2. CASE k \in 1..i BY <1>8, <1>10, <2>2
  <2>. QED BY <2>1, <2>2
<1>12. ASSUME NEW a \in 2..n
       PROVE  Ups(p, fewer[a] + 1, i + 1) + (n - a) = Names(p, fewer[a] + 1, i + 1)
  <2>1. a \in 1..n /\ a \in 2..m /\ n = m - 1 /\ a \in 1..m BY <1>2, <1>6
  <2>2. fewer[a] = kept[a] /\ kept[a] \in 1..i BY <1>7, <1>8, <2>1
  <2>3. Ups(p, kept[a] + 1, i) + (m - a) = Names(p, kept[a] + 1, i) BY <1>5, <2>1
  <2>. QED BY <1>2, <1>9, <2>1, <2>2, <2>3
<1>13. /\ \A a, b \in 1..n : a < b => fewer[a] < fewer[b]
       /\ \A a \in 1..n : next[a] = p[fewer[a]]
       /\ fewer[1] = 1
  <2>1. 1 \in 1..n BY <1>6
  <2>. QED BY <1>4, <1>5, <1>6, <1>8, <2>1
<1>14. Stack(p, i + 1, next, fewer) BY <1>4, <1>6, <1>8, <1>11, <1>12, <1>13 DEF Stack
<1>. QED BY <1>14 DEF next

LEMMA StackNext ==
  ASSUME NEW p \in Segments, NEW i \in Nat \ {0}, i + 1 <= Len(p), NEW output,
         \E kept : Stack(p, i, output, kept)
  PROVE  \E kept : Stack(p, i + 1, Cut(p, output, i + 1), kept)
<1>1. PICK kept : Stack(p, i, output, kept) OBVIOUS
<1>2. CASE IsName(p, i + 1) BY <1>1, <1>2, StackName
<1>3. CASE p[i + 1] = Urls!Dot BY <1>1, <1>3, StackDot
<1>4. CASE p[i + 1] = Urls!DotDot BY <1>1, <1>4, StackUp
<1>. QED BY <1>2, <1>3, <1>4 DEF IsName

\* The segments after the dot segments up to k of a path, without the slash.
StackRun(p, run, k) == \E kept : Stack(p, k, Cut(p, run[k - 1], k), kept)

LEMMA StacksRun ==
  ASSUME NEW p \in Segments, p # <<>>, p[1] = <<>>, NEW run \in [0..Len(p) -> Segments],
         run[0] = <<>>, \A k \in 1..Len(p) : run[k] = Resolve(p, run[k - 1], k)
  PROVE  StackRun(p, run, Len(p))
<1>. DEFINE n == Len(p)
            P == {k \in 0..n : k = 0 \/ StackRun(p, run, k)}
<1>1. n \in Nat \ {0} BY DEF Segments
<1>. HIDE DEF n
<1>2. 0 \in P BY <1>1
<1>3. ASSUME NEW k \in 1..n, k - 1 \in P PROVE k \in P
  <2>1. CASE k = 1
    <3>1. \E kept : Stack(p, 1, Cut(p, <<>>, 1), kept) BY <1>1, StackFirst DEF n
    <3>2. 1 - 1 = 0 OBVIOUS
    <3>3. StackRun(p, run, 1) BY <3>1, <3>2 DEF StackRun
    <3>. QED BY <1>1, <2>1, <3>3
  <2>2. CASE k # 1
    <3>. DEFINE i == k - 1
    <3>1. /\ i \in Nat \ {0} /\ i + 1 = k /\ i + 1 <= n /\ i \in 1..n /\ i # n BY <1>1, <2>2
    <3>. HIDE DEF i
    <3>2. StackRun(p, run, i) BY <1>3, <3>1 DEF i
    <3>3. \E kept : Stack(p, i, Cut(p, run[i - 1], i), kept) BY <3>2 DEF StackRun
    <3>4. run[i] = Cut(p, run[i - 1], i)
      <4>1. run[i] = Resolve(p, run[i - 1], i) BY <3>1 DEF n
      <4>. QED BY <3>1, <4>1, ResolveCuts DEF n
    <3>5. \E kept : Stack(p, i, run[i], kept) BY <3>3, <3>4
    <3>6. i + 1 <= Len(p) BY <3>1 DEF n
    <3>7. \E kept : Stack(p, i + 1, Cut(p, run[i], i + 1), kept) BY <3>1, <3>5, <3>6, StackNext
    <3>8. StackRun(p, run, k) BY <3>7, <3>1 DEF StackRun, i
    <3>. QED BY <1>1, <3>8
  <2>. QED BY <2>1, <2>2
<1>. HIDE DEF P
<1>4. \A k \in 0..n : k \in P
  <2>1. n \in Nat /\ \A k \in 1..n : k - 1 \in P => k \in P BY <1>1, <1>3
  <2>. QED BY <1>2, <2>1, UpTo
<1>5. n \in P BY <1>1, <1>4
<1>. QED BY <1>1, <1>5 DEF P, n

\* A sequence of growing numbers lists as many as it is long.
LEMMA Enumerated ==
  ASSUME NEW m \in Nat, NEW kept \in [1..m -> Nat],
         \A a, b \in 1..m : a < b => kept[a] < kept[b]
  PROVE  \A a \in 0..m : Cardinality({kept[b] : b \in 1..a}) = a
<1>. DEFINE T(a) == {kept[b] : b \in 1..a}
            P == {a \in 0..m : IsFiniteSet(T(a)) /\ Cardinality(T(a)) = a}
<1>1. 0 \in P
  <2>1. 1..0 = {} OBVIOUS
  <2>2. T(0) = {} BY <2>1
  <2>3. IsFiniteSet({}) /\ Cardinality({}) = 0 BY FS_EmptySet
  <2>. HIDE DEF T
  <2>. QED BY <2>2, <2>3
<1>2. ASSUME NEW a \in 1..m, a - 1 \in P PROVE a \in P
  <2>1. T(a) = T(a - 1) \cup {kept[a]}
    <3>1. \A b : b \in 1..a <=> b \in 1..a - 1 \/ b = a OBVIOUS
    <3>. QED BY <3>1
  <2>2. kept[a] \notin T(a - 1)
    <3>1. \A b \in 1..a - 1 : b \in 1..m /\ b < a OBVIOUS
    <3>2. \A b \in 1..a - 1 : kept[b] < kept[a] BY <3>1
    <3>3. \A b \in 1..m : kept[b] \in Nat OBVIOUS
    <3>. QED BY <3>1, <3>2, <3>3
  <2>. HIDE DEF T
  <2>3. IsFiniteSet(T(a - 1)) /\ Cardinality(T(a - 1)) = a - 1 BY <1>2
  <2>. DEFINE few == T(a - 1)
              x == kept[a]
  <2>4. T(a) = few \cup {x} /\ x \notin few BY <2>1, <2>2
  <2>5. IsFiniteSet(few) /\ Cardinality(few) = a - 1 BY <2>3
  <2>. HIDE DEF few, x
  <2>6. IsFiniteSet(few \cup {x}) /\ Cardinality(few \cup {x}) = Cardinality(few) + 1
    BY <2>4, <2>5, FS_AddElement
  <2>7. a \in 0..m /\ a - 1 + 1 = a OBVIOUS
  <2>. QED BY <2>4, <2>5, <2>6, <2>7
<1>3. \A a \in 0..m : a \in P
  <2>. HIDE DEF P
  <2>. QED BY <1>1, <1>2, UpTo
<1>. QED BY <1>3

LEMMA SurvivesAll ==
  ASSUME NEW p \in Segments, NEW k \in 1..Len(p)
  PROVE  Urls!Survives(p, k) <=> SurvivesTo(p, k, Len(p))
<1>. DEFINE U(j) == {q \in k + 1..j : p[q] = Urls!DotDot}
            V(j) == {q \in k + 1..j : p[q] \notin {Urls!Dot, Urls!DotDot}}
<1>1. Urls!Survives(p, k) <=>
        /\ p[k] \notin {Urls!Dot, Urls!DotDot}
        /\ k > 1 => \A j \in k..Len(p) : Urls!Cardinality(U(j)) <= Urls!Cardinality(V(j))
  BY Zenon DEF Urls!Survives
<1>2. SurvivesTo(p, k, Len(p)) <=>
        /\ p[k] \notin {Urls!Dot, Urls!DotDot}
        /\ k > 1 => \A j \in k..Len(p) : Cardinality(U(j)) <= Cardinality(V(j))
  BY Zenon DEF SurvivesTo, Ups, Names, IsName
<1>. HIDE DEF U, V
<1>3. \A j \in k..Len(p) : Urls!Cardinality(U(j)) = Cardinality(U(j))
                        /\ Urls!Cardinality(V(j)) = Cardinality(V(j))
  BY SameCount
<1>. QED BY <1>1, <1>2, <1>3

\* The stack at the end, with the slash that a dot segment leaves, is the resolved path.
LEMMA StackResolves ==
  ASSUME NEW p \in Segments, p # <<>>, NEW output, NEW kept, Stack(p, Len(p), output, kept),
         NEW resolved \in Segments,
         resolved = IF p[Len(p)] \in {Urls!Dot, Urls!DotDot} THEN Append(output, <<>>) ELSE output
  PROVE  Urls!IsResolved(p, resolved)
<1>. DEFINE n == Len(p)
            m == Len(output)
            survivors == {i \in DOMAIN p : Urls!Survives(p, i)}
            slash == Urls!Last(p) \in {Urls!Dot, Urls!DotDot}
<1>1. n \in Nat \ {0} /\ DOMAIN p = 1..n BY DEF Segments
<1>2. output \in Segments /\ m \in Nat /\ m >= 1 BY DEF Stack, Segments
<1>3. /\ kept \in [1..m -> 1..n]
      /\ \A a, b \in 1..m : a < b => kept[a] < kept[b]
      /\ \A a \in 1..m : output[a] = p[kept[a]]
      /\ \A k \in 1..n : SurvivesTo(p, k, n) <=> \E a \in 1..m : kept[a] = k
  BY DEF Stack
<1>4. \A k \in 1..n : Urls!Survives(p, k) <=> \E a \in 1..m : kept[a] = k
  BY <1>3, SurvivesAll
<1>5. survivors = {kept[b] : b \in 1..m}
  <2>1. survivors = {i \in 1..n : Urls!Survives(p, i)} BY <1>1
  <2>2. \A b \in 1..m : kept[b] \in 1..n BY <1>3
  <2>. HIDE DEF n, m, survivors
  <2>. QED BY <1>4, <2>1, <2>2
<1>6. slash <=> p[n] \in {Urls!Dot, Urls!DotDot} BY DEF Urls!Last
<1>7. /\ Len(resolved) = m + (IF slash THEN 1 ELSE 0)
      /\ \A a \in 1..m : resolved[a] = output[a]
      /\ slash => resolved[m + 1] = <<>>
  <2>. HIDE DEF slash, n
  <2>1. CASE slash
    <3>1. resolved = Append(output, <<>>) BY <1>6, <2>1 DEF n
    <3>2. output \in Seq(Seq(Chars)) /\ <<>> \in Seq(Chars) BY <1>2 DEF Segments
    <3>. QED BY <2>1, <3>1, <3>2
  <2>2. CASE ~slash
    <3>1. resolved = output BY <1>6, <2>2 DEF n
    <3>. QED BY <1>2, <2>2, <3>1
  <2>. QED BY <2>1, <2>2
<1>8. \A a \in 0..m : Cardinality({kept[b] : b \in 1..a}) = a
  <2>1. \A b \in 1..m : kept[b] \in Nat BY <1>3
  <2>2. kept \in [1..m -> Nat] BY <1>3, <2>1
  <2>. HIDE DEF m
  <2>. QED BY <1>2, <1>3, <2>2, Enumerated
<1>. HIDE DEF n, m, slash
<1>9. Cardinality(survivors) = m
  <2>1. m \in 0..m BY <1>2
  <2>. QED BY <1>5, <1>8, <2>1
<1>10. ASSUME NEW a \in 1..m
       PROVE  survivors \cap (1..kept[a]) = {kept[b] : b \in 1..a}
  <2>1. \A b \in 1..m : kept[b] \in 1..n BY <1>3
  <2>2. \A b \in 1..a : b \in 1..m /\ (b < a \/ b = a) BY <1>2
  <2>3. \A b \in 1..a : kept[b] \in survivors /\ kept[b] \in 1..kept[a]
    <3>. TAKE b \in 1..a
    <3>1. b \in 1..m /\ kept[b] \in 1..n /\ kept[a] \in Nat BY <2>1, <2>2
    <3>2. kept[b] \in survivors BY <1>5, <3>1
    <3>3. b < a => kept[b] < kept[a] BY <1>3, <3>1
    <3>. QED BY <2>2, <3>1, <3>2, <3>3
  <2>4. \A k \in survivors : k \in 1..kept[a] => \E b \in 1..a : k = kept[b]
    <3>. TAKE k \in survivors
    <3>1. PICK b \in 1..m : k = kept[b] BY <1>5
    <3>2. b > a => kept[a] < kept[b] BY <1>3
    <3>3. b \notin 1..a => b > a BY <1>2
    <3>. QED BY <2>1, <3>1, <3>2, <3>3
  <2>. HIDE DEF survivors
  <2>. QED BY <2>3, <2>4
<1>. HIDE DEF survivors
<1>11. \A i \in survivors : resolved[Urls!Cardinality(survivors \cap 1..i)] = p[i]
  <2>. TAKE i \in survivors
  <2>1. PICK a \in 1..m : i = kept[a] BY <1>5
  <2>2. a \in 0..m BY <2>1, <1>2
  <2>3. Cardinality(survivors \cap 1..i) = a BY <1>8, <1>10, <2>1, <2>2
  <2>. QED BY <1>3, <1>7, <2>1, <2>3, SameCount
<1>12. Len(resolved) = Urls!Cardinality(survivors) + (IF slash THEN 1 ELSE 0)
  BY <1>7, <1>9, SameCount
<1>13. slash => Urls!Last(resolved) = <<>> BY <1>7 DEF Urls!Last
<1>. QED BY <1>11, <1>12, <1>13 DEF Urls!IsResolved, survivors, slash

\* Whatever dot segments a path has, _remove_dot_segments leaves what RFC 3986 says.
LEMMA DotsResolved ==
  ASSUME NEW p \in Segments, p # <<>>, p[1] = <<>>
  PROVE  /\ Urls!RemoveDotSegments(p) \in Segments
         /\ Urls!IsResolved(p, Urls!RemoveDotSegments(p))
<1>. DEFINE n == Len(p)
            resolved == Urls!RemoveDotSegments(p)
<1>1. PICK run \in [0..n -> Segments] :
        /\ run[0] = <<>> /\ run[n] = resolved
        /\ \A k \in 1..n : run[k] = Resolve(p, run[k - 1], k)
  BY DotsRun
<1>2. n \in Nat \ {0} BY DEF Segments
<1>3. PICK kept : Stack(p, n, Cut(p, run[n - 1], n), kept)
  BY <1>1, StacksRun DEF StackRun
<1>4. resolved = Resolve(p, run[n - 1], n) /\ resolved \in Segments BY <1>1, <1>2
<1>5. resolved = IF p[n] \in {Urls!Dot, Urls!DotDot} THEN Append(Cut(p, run[n - 1], n), <<>>)
                                                   ELSE Cut(p, run[n - 1], n)
  BY <1>4, ResolveCuts
<1>. HIDE DEF resolved
<1>6. Urls!IsResolved(p, resolved) BY <1>3, <1>4, <1>5, StackResolves
<1>. QED BY <1>4, <1>6 DEF resolved

-----------------------------------------------------------------------------
(***************************************************************************)
(* Urls: the texts, what is stripped off them, and the URL they become.    *)
(***************************************************************************)

Hosts == {"h", "H", "o", ""}

\* The characters that keys are made of, and the keys.
Letters == {"%2F", "%2f", "%61", "%62", "%C3%A9", "%c3%a9", "a", "b", "e-acute"}

Keys == Seq(Letters)

Parameter == [key : Keys, value : Seq(Chars)]

\* The texts asked about: any path that is empty or starts with its slash, any query.
TextSet ==
  [scheme : {"http", "HTTP", "https", "ftp"}, host : Hosts, port : Int,
   path : {p \in Segments : p = <<>> \/ p[1] = <<>>}, query : Seq(Parameter),
   control : BOOLEAN, fragment : BOOLEAN]

LEMMA TrimmedTyped ==
  ASSUME NEW s \in Seq(Chars) PROVE Urls!Trimmed(s) \in Seq(Chars) /\ Urls!Trimmed(<<>>) = <<>>
<1>. DEFINE kept == {i \in DOMAIN s : s[i] # "space"}
            last == CHOOSE i \in kept : \A j \in kept : j <= i
            m == IF kept = {} THEN 0 ELSE last
<1>1. Urls!Trimmed(s) = SubSeq(s, 1, m) BY DEF Urls!Trimmed
<1>2. kept \subseteq 1..Len(s) /\ Len(s) \in Nat OBVIOUS
<1>3. m \in Nat /\ m <= Len(s)
  <2>1. CASE kept = {} BY <1>2, <2>1
  <2>2. CASE kept # {}
    <3>1. Max(kept) \in kept /\ \A j \in kept : Max(kept) >= j BY <1>2, <2>2, MaxIn
    <3>2. \E i \in kept : \A j \in kept : j <= i
      <4>1. \A j \in kept : j <= Max(kept)
        <5>1. \A j \in kept : j \in Nat BY <1>2
        <5>. QED BY <3>1, <5>1
      <4>. QED BY <3>1, <4>1
    <3>. HIDE DEF kept
    <3>3. last \in kept BY <3>2
    <3>. HIDE DEF last
    <3>. QED BY <1>2, <2>2, <3>3
  <2>. QED BY <2>1, <2>2
<1>. HIDE DEF m
<1>4. Urls!Trimmed(s) \in Seq(Chars) BY <1>1, <1>3, PrefixTyped
<1>5. Urls!Trimmed(<<>>) = <<>>
  <2>1. {i \in DOMAIN <<>> : <<>>[i] # "space"} = {} OBVIOUS
  <2>2. SubSeq(<<>>, 1, 0) = <<>> OBVIOUS
  <2>. QED BY <2>1, <2>2 DEF Urls!Trimmed
<1>. QED BY <1>4, <1>5

\* What Strip leaves as it was.
Stripped(text, s) ==
  /\ s \in TextSet
  /\ s.scheme = text.scheme /\ s.host = text.host /\ s.port = text.port
  /\ s.control = text.control /\ s.fragment = text.fragment
  /\ Len(s.path) = Len(text.path) /\ Len(s.query) = Len(text.query)

LEMMA StripTyped == ASSUME NEW text \in TextSet PROVE Stripped(text, Urls!Strip(text))
<1>. DEFINE s == Urls!Strip(text)
<1>1. CASE ~text.fragment /\ text.query # <<>>
  <2>1. s = [text EXCEPT !.query[Len(text.query)].value = Urls!Trimmed(@)]
    BY <1>1 DEF Urls!Strip
  <2>. DEFINE q == text.query
              n == Len(text.query)
              more == [q EXCEPT ![n] = [key |-> q[n].key, value |-> Urls!Trimmed(q[n].value)]]
  <2>2. q \in Seq(Parameter) /\ n \in Nat /\ n \in DOMAIN q BY <1>1 DEF TextSet
  <2>3. q[n] \in Parameter BY <2>2
  <2>4. Urls!Trimmed(q[n].value) \in Seq(Chars) BY <2>3, TrimmedTyped DEF Parameter
  <2>5. [key |-> q[n].key, value |-> Urls!Trimmed(q[n].value)] \in Parameter
    BY <2>3, <2>4 DEF Parameter
  <2>6. more \in Seq(Parameter) /\ Len(more) = n BY <2>2, <2>5
  <2>7. [q[n] EXCEPT !.value = Urls!Trimmed(@)]
          = [key |-> q[n].key, value |-> Urls!Trimmed(q[n].value)]
    BY <2>3 DEF Parameter
  <2>8. s = [text EXCEPT !.query = [q EXCEPT ![n] = [q[n] EXCEPT !.value = Urls!Trimmed(@)]]]
    BY <2>1
  <2>9. s = [text EXCEPT !.query = more] BY <2>7, <2>8, Zenon
  <2>. HIDE DEF s, more
  <2>10. Stripped(text, s) BY <2>6, <2>9 DEF Stripped, TextSet
  <2>. QED BY <2>10 DEF s
<1>2. CASE ~text.fragment /\ text.query = <<>> /\ text.path # <<>>
  <2>. DEFINE p == text.path
              n == Len(text.path)
              more == [p EXCEPT ![n] = Urls!Trimmed(p[n])]
  <2>1. s = [text EXCEPT !.path = more] BY <1>2 DEF Urls!Strip
  <2>2. p \in Seq(Seq(Chars)) /\ n \in Nat \ {0} /\ n \in DOMAIN p /\ p[1] = <<>>
    BY <1>2 DEF TextSet, Segments
  <2>3. Urls!Trimmed(p[n]) \in Seq(Chars) /\ Urls!Trimmed(<<>>) = <<>>
    <3>1. p[n] \in Seq(Chars) BY <2>2
    <3>. QED BY <3>1, TrimmedTyped
  <2>4. more \in Seq(Seq(Chars)) /\ Len(more) = n BY <2>2, <2>3
  <2>5. more[1] = <<>> BY <2>2, <2>3
  <2>. HIDE DEF s, more
  <2>6. Stripped(text, s) BY <2>1, <2>4, <2>5 DEF Stripped, TextSet, Segments
  <2>. QED BY <2>6 DEF s
<1>3. CASE text.fragment \/ (text.query = <<>> /\ text.path = <<>>)
  <2>1. s = text BY <1>3 DEF Urls!Strip
  <2>2. Stripped(text, text) BY Zenon DEF Stripped
  <2>. HIDE DEF s
  <2>3. Stripped(text, s) BY <2>1, <2>2, Zenon
  <2>. QED BY <2>3 DEF s
<1>. QED BY <1>1, <1>2, <1>3

\* A text that normalize turns into the URL u.
Normal(text, u) ==
  /\ text.scheme \in {"http", "HTTP", "https"} /\ text.host \in {"h", "H", "o"}
  /\ text.port # Urls!BadPort /\ ~text.control
  /\ u.scheme = Urls!LowerScheme[text.scheme]
  /\ u.host = Urls!LowerHost[text.host]
  /\ u.port = IF text.port = Urls!DefaultPort[u.scheme] THEN Urls!NoPort ELSE text.port
  /\ u.path = Urls!RemoveDotSegments(IF text.path = <<>> THEN <<<<>>, <<>>>>
                                                        ELSE Urls!Strip(text).path)
  /\ u.query = Urls!Strip(text).query

\* The URLs that normalize gives.
UrlSet ==
  [scheme : {"http", "https"}, host : {"h", "o"}, port : Int, path : Segments,
   query : Seq(Parameter), control : BOOLEAN, fragment : BOOLEAN]

\* The path of a text without one is "/".
LEMMA SlashTyped ==
  <<<<>>, <<>>>> \in Segments /\ Len(<<<<>>, <<>>>>) = 2
    /\ Urls!RemoveDotSegments(<<<<>>, <<>>>>) = <<<<>>, <<>>>>
<1>. DEFINE p == <<<<>>, <<>>>>
<1>1. /\ p \in Segments /\ Len(p) = 2 /\ p[1] = <<>> /\ p[2] = <<>>
      /\ p = Append(Append(<<>>, <<>>), <<>>)
  BY DEF Segments
<1>. HIDE DEF p
<1>2. PICK run \in [0..Len(p) -> Segments] :
        /\ run[0] = <<>> /\ run[Len(p)] = Urls!RemoveDotSegments(p)
        /\ \A k \in 1..Len(p) : run[k] = Resolve(p, run[k - 1], k)
  BY <1>1, DotsRun
<1>3. <<>> \notin {Urls!Dot, Urls!DotDot} BY DEF Urls!Dot, Urls!DotDot
<1>4. run[1] = Append(<<>>, <<>>) /\ run[2] = Append(run[1], <<>>)
  <2>1. 1 \in 1..2 /\ 2 \in 1..2 /\ 1 - 1 = 0 /\ 2 - 1 = 1 OBVIOUS
  <2>2. run[1] = Resolve(p, run[0], 1) /\ run[2] = Resolve(p, run[1], 2) BY <1>1, <1>2, <2>1
  <2>. QED BY <1>1, <1>2, <1>3, <2>2 DEF Resolve
<1>. QED BY <1>1, <1>2, <1>4 DEF p

LEMMA Normalized ==
  ASSUME NEW text \in TextSet, NEW u \in Urls!Normalize(text)
  PROVE  u \in UrlSet /\ Normal(text, u) /\ Urls!Normalize(text) = {u}
<1>. DEFINE s == Urls!Strip(text)
            scheme == Urls!LowerScheme[s.scheme]
            path2 == IF s.path = <<>> THEN <<<<>>, <<>>>> ELSE s.path
<1>1. u = Urls!Canonical(s) /\ Urls!IsCrawlable(text) /\ Urls!Normalize(text) = {u}
  BY DEF Urls!Normalize
<1>2. Stripped(text, s) BY StripTyped
<1>. HIDE DEF s
<1>3. s \in TextSet BY <1>2 DEF Stripped
<1>4. u = [s EXCEPT !.scheme = scheme, !.host = Urls!LowerHost[s.host],
             !.path = Urls!RemoveDotSegments(path2),
             !.port = IF s.port = Urls!DefaultPort[scheme] THEN Urls!NoPort ELSE s.port,
             !.fragment = FALSE]
  BY <1>1 DEF Urls!Canonical
<1>5. /\ text.scheme \in {"http", "HTTP", "https"} /\ text.host \in {"h", "H", "o"}
      /\ text.port # Urls!BadPort
  <2>1. /\ text.port # Urls!BadPort /\ text.host \in DOMAIN Urls!LowerHost
        /\ Urls!LowerScheme[text.scheme] \in DOMAIN Urls!DefaultPort
    BY <1>1, Zenon DEF Urls!IsCrawlable
  <2>2. text.scheme \in {"http", "HTTP", "https", "ftp"} BY DEF TextSet
  <2>3. DOMAIN Urls!LowerHost = {"h", "H", "o"} BY DEF Urls!LowerHost
  <2>4. DOMAIN Urls!DefaultPort = {"http", "https"} BY DEF Urls!DefaultPort
  <2>5. Urls!LowerScheme["ftp"] = "ftp" BY DEF Urls!LowerScheme
  <2>. QED BY <2>1, <2>2, <2>3, <2>4, <2>5
<1>6. ~text.control BY <1>1, Zenon DEF Urls!IsCrawlable
<1>7. scheme \in {"http", "https"} /\ Urls!LowerHost[s.host] \in {"h", "o"}
  BY <1>2, <1>5 DEF Stripped, Urls!LowerScheme, Urls!LowerHost
<1>8. path2 \in Segments /\ path2 # <<>> /\ path2[1] = <<>>
  <2>1. CASE s.path = <<>> BY <2>1, SlashTyped
  <2>2. CASE s.path # <<>> BY <1>3, <2>2 DEF TextSet
  <2>. QED BY <2>1, <2>2
<1>9. text.path = <<>> <=> s.path = <<>>
  <2>1. text.path \in Segments /\ s.path \in Segments /\ Len(s.path) = Len(text.path)
    BY <1>2, <1>3 DEF TextSet, Stripped
  <2>. QED BY <2>1 DEF Segments
<1>10. path2 = IF text.path = <<>> THEN <<<<>>, <<>>>> ELSE s.path BY <1>9
<1>. HIDE DEF scheme, path2
<1>11. Urls!RemoveDotSegments(path2) \in Segments BY <1>8, DotsResolved
<1>12. u \in UrlSet
  <2>. DEFINE port == IF s.port = Urls!DefaultPort[scheme] THEN Urls!NoPort ELSE s.port
  <2>1. port \in Int BY <1>3 DEF TextSet, Urls!NoPort
  <2>2. /\ s.query \in Seq(Parameter) /\ s.control \in BOOLEAN BY <1>3 DEF TextSet
  <2>. HIDE DEF port
  <2>3. u = [scheme |-> scheme, host |-> Urls!LowerHost[s.host], port |-> port,
             path |-> Urls!RemoveDotSegments(path2), query |-> s.query,
             control |-> s.control, fragment |-> FALSE]
    BY <1>3, <1>4 DEF TextSet, port
  <2>. QED BY <1>7, <1>11, <2>1, <2>2, <2>3 DEF UrlSet
<1>13. /\ u.scheme = scheme /\ u.host = Urls!LowerHost[s.host]
       /\ u.port = (IF s.port = Urls!DefaultPort[scheme] THEN Urls!NoPort ELSE s.port)
       /\ u.path = Urls!RemoveDotSegments(path2)
       /\ u.query = s.query
  BY <1>3, <1>4 DEF TextSet
<1>14. s.scheme = text.scheme /\ s.host = text.host /\ s.port = text.port BY <1>2 DEF Stripped
<1>15. Normal(text, u) BY <1>5, <1>6, <1>10, <1>13, <1>14 DEF Normal, s, scheme
<1>. QED BY <1>1, <1>12, <1>15

\* The path of every URL is the one RFC 3986 gives for its text.
LEMMA PathResolved ==
  ASSUME NEW text \in TextSet, NEW u \in Urls!Normalize(text)
  PROVE  IF text.path = <<>> THEN u.path = <<<<>>, <<>>>>
                             ELSE Urls!IsResolved(Urls!Strip(text).path, u.path)
<1>1. Normal(text, u) BY Normalized
<1>2. CASE text.path = <<>>
  <2>1. u.path = Urls!RemoveDotSegments(<<<<>>, <<>>>>) BY <1>1, <1>2 DEF Normal
  <2>. QED BY <1>2, <2>1, SlashTyped
<1>3. CASE text.path # <<>>
  <2>. DEFINE s == Urls!Strip(text)
  <2>1. Stripped(text, s) BY StripTyped
  <2>. HIDE DEF s
  <2>2. u.path = Urls!RemoveDotSegments(s.path) BY <1>1, <1>3 DEF Normal, s
  <2>3. s.path \in Segments /\ s.path # <<>> /\ s.path[1] = <<>>
    <3>1. /\ text.path \in Segments /\ s.path \in Segments /\ Len(s.path) = Len(text.path)
          /\ s.path = <<>> \/ s.path[1] = <<>>
      BY <2>1 DEF TextSet, Stripped
    <3>. QED BY <1>3, <3>1 DEF Segments
  <2>. QED BY <1>3, <2>2, <2>3, DotsResolved DEF s
<1>. QED BY <1>2, <1>3

\* One site: the seed's host, and its port or both the default ports of their schemes.
SameSite(l, r) ==
  /\ Urls!LowerHost[l.host] = Urls!LowerHost[r.host]
  /\ Urls!AtDefaultPort(l) <=> Urls!AtDefaultPort(r)
  /\ Urls!AtDefaultPort(l) \/ l.port = r.port

\* HostScope allows exactly the URLs of one site with the seed.
LEMMA ScopeOfBoth ==
  ASSUME NEW l \in TextSet, NEW r \in TextSet,
         Urls!Normalize(l) # {}, Urls!Normalize(r) # {}
  PROVE  (\E seed \in Urls!Normalize(l) : Urls!Allows(seed, r)) <=> SameSite(l, r)
<1>1. PICK u : u \in Urls!Normalize(l) OBVIOUS
<1>2. PICK v : v \in Urls!Normalize(r) OBVIOUS
<1>3. Normal(l, u) /\ Urls!Normalize(l) = {u} /\ u \in UrlSet BY <1>1, Normalized
<1>4. Normal(r, v) /\ Urls!Normalize(r) = {v} /\ v \in UrlSet BY <1>2, Normalized
<1>5. (\E seed \in Urls!Normalize(l) : Urls!Allows(seed, r))
        <=> u.host = v.host /\ u.port = v.port
  BY <1>3, <1>4 DEF Urls!Allows, Urls!HostScope
<1>6. /\ u.host = Urls!LowerHost[l.host] /\ v.host = Urls!LowerHost[r.host]
      /\ u.port = (IF Urls!AtDefaultPort(l) THEN Urls!NoPort ELSE l.port)
      /\ v.port = (IF Urls!AtDefaultPort(r) THEN Urls!NoPort ELSE r.port)
  BY <1>3, <1>4 DEF Normal, Urls!AtDefaultPort
<1>7. /\ ~Urls!AtDefaultPort(l) => l.port # Urls!NoPort
      /\ ~Urls!AtDefaultPort(r) => r.port # Urls!NoPort
  BY DEF Urls!AtDefaultPort
<1>. QED BY <1>5, <1>6, <1>7 DEF SameSite

-----------------------------------------------------------------------------
(***************************************************************************)
(* Urls: the order of keys.                                                *)
(***************************************************************************)

\* Every character has a rank of its own.
LEMMA RankTyped ==
  /\ \A c \in Letters : Urls!Rank(c) \in 1..9
  /\ \A c, d \in Letters : Urls!Rank(c) = Urls!Rank(d) => c = d
<1>1. ASSUME NEW c \in Letters
      PROVE  Urls!Rank(c) \in 1..9 /\ Urls!Alphabet[Urls!Rank(c)] = c
  <2>1. \E i \in 1..9 : Urls!Alphabet[i] = c BY DEF Urls!Alphabet, Letters
  <2>2. DOMAIN Urls!Alphabet = 1..9 BY DEF Urls!Alphabet
  <2>. QED BY <2>1, <2>2 DEF Urls!Rank
<1>. QED BY <1>1

\* Word a ends before a character of it differs from b's.
Begins(a, b) == Len(a) <= Len(b) /\ \A j \in 1..Len(a) : a[j] = b[j]

\* Character i is the first that differs, and a's comes first.
Lower(a, b, i) ==
  /\ i \in 1..Len(a) /\ i <= Len(b)
  /\ \A j \in 1..i - 1 : a[j] = b[j]
  /\ Urls!Rank(a[i]) < Urls!Rank(b[i])

LEMMA KeyTyped ==
  ASSUME NEW a \in Keys
  PROVE  Len(a) \in Nat /\ \A i \in 1..Len(a) : Urls!Rank(a[i]) \in Nat
<1>1. Len(a) \in Nat /\ \A i \in 1..Len(a) : a[i] \in Letters BY DEF Keys
<1>. QED BY <1>1, RankTyped

LEMMA SameBeginning ==
  ASSUME NEW a \in Keys, NEW b \in Keys, NEW n \in Nat, n <= Len(a), n <= Len(b)
  PROVE  SubSeq(a, 1, n) = SubSeq(b, 1, n) <=> \A j \in 1..n : a[j] = b[j]
<1>1. /\ SubSeq(a, 1, n) \in Keys /\ Len(SubSeq(a, 1, n)) = n
      /\ \A j \in 1..n : SubSeq(a, 1, n)[j] = a[j]
  BY PrefixTyped DEF Keys
<1>2. /\ SubSeq(b, 1, n) \in Keys /\ Len(SubSeq(b, 1, n)) = n
      /\ \A j \in 1..n : SubSeq(b, 1, n)[j] = b[j]
  BY PrefixTyped DEF Keys
<1>3. ASSUME \A j \in 1..n : a[j] = b[j] PROVE SubSeq(a, 1, n) = SubSeq(b, 1, n)
  <2>. DEFINE x == SubSeq(a, 1, n)
              y == SubSeq(b, 1, n)
  <2>1. x \in Seq(Letters) /\ y \in Seq(Letters) /\ Len(x) = n /\ Len(y) = n
        /\ \A j \in 1..n : x[j] = y[j]
    BY <1>1, <1>2, <1>3 DEF Keys
  <2>. HIDE DEF x, y
  <2>2. x = y BY <2>1, SeqEqual
  <2>. QED BY <2>2 DEF x, y
<1>4. ASSUME SubSeq(a, 1, n) = SubSeq(b, 1, n) PROVE \A j \in 1..n : a[j] = b[j]
  BY <1>1, <1>2, <1>4
<1>. QED BY <1>3, <1>4

\* AtMost character by character.
LEMMA AtMostIs ==
  ASSUME NEW a \in Keys, NEW b \in Keys
  PROVE  Urls!AtMost(a, b) <=> Begins(a, b) \/ \E i \in 1..Len(a) : Lower(a, b, i)
<1>1. /\ Len(a) \in Nat /\ DOMAIN a = 1..Len(a)
      /\ Len(b) \in Nat /\ DOMAIN b = 1..Len(b)
  BY DEF Keys
<1>2. Urls!IsPrefix(a, b) <=> Begins(a, b)
  <2>1. CASE Len(a) <= Len(b)
    <3>1. SubSeq(a, 1, Len(a)) = SubSeq(b, 1, Len(a)) <=> \A j \in 1..Len(a) : a[j] = b[j]
      BY <1>1, <2>1, SameBeginning
    <3>. QED BY <2>1, <3>1 DEF Begins, Urls!IsPrefix
  <2>2. CASE ~(Len(a) <= Len(b)) BY <2>2 DEF Begins, Urls!IsPrefix
  <2>. QED BY <2>1, <2>2
<1>3. ASSUME NEW i \in 1..Len(a), i <= Len(b)
      PROVE  SubSeq(a, 1, i - 1) = SubSeq(b, 1, i - 1) <=> \A j \in 1..i - 1 : a[j] = b[j]
  <2>1. i - 1 \in Nat /\ i - 1 <= Len(a) /\ i - 1 <= Len(b) BY <1>1, <1>3
  <2>. QED BY <2>1, SameBeginning
<1>4. \A i \in 1..Len(a) : Lower(a, b, i) <=>
        i \in DOMAIN b /\ SubSeq(a, 1, i - 1) = SubSeq(b, 1, i - 1)
          /\ Urls!Rank(a[i]) < Urls!Rank(b[i])
  BY <1>1, <1>3 DEF Lower
<1>. QED BY <1>1, <1>2, <1>4 DEF Urls!AtMost

\* AtMost is a total order of the keys.
LEMMA AtMostTotal ==
  ASSUME NEW a \in Keys, NEW b \in Keys PROVE Urls!AtMost(a, b) \/ Urls!AtMost(b, a)
<1>. DEFINE D == {i \in 1..Len(a) : i <= Len(b) /\ a[i] # b[i]}
<1>1. /\ Len(a) \in Nat /\ Len(b) \in Nat
      /\ \A i \in 1..Len(a) : a[i] \in Letters
      /\ \A i \in 1..Len(b) : b[i] \in Letters
  BY DEF Keys
<1>2. CASE D = {}
  <2>1. Begins(a, b) \/ Begins(b, a) BY <1>1, <1>2 DEF Begins
  <2>. QED BY <2>1, AtMostIs
<1>3. CASE D # {}
  <2>1. D \subseteq Nat BY <1>1
  <2>. HIDE DEF D
  <2>2. PICK i \in D : \A j \in D : i <= j BY <1>3, <2>1, NatMin
  <2>. USE DEF D
  <2>3. /\ i \in 1..Len(a) /\ i \in 1..Len(b) /\ i <= Len(a) /\ i <= Len(b) /\ a[i] # b[i]
    BY <1>1, <2>2
  <2>4. \A j \in 1..i - 1 : a[j] = b[j]
    <3>1. \A j \in 1..i - 1 : j \in 1..Len(a) /\ j <= Len(b) /\ ~(i <= j) BY <1>1, <2>3
    <3>. QED BY <2>2, <3>1
  <2>5. Urls!Rank(a[i]) < Urls!Rank(b[i]) \/ Urls!Rank(b[i]) < Urls!Rank(a[i])
    <3>1. a[i] \in Letters /\ b[i] \in Letters BY <1>1, <2>3
    <3>2. Urls!Rank(a[i]) # Urls!Rank(b[i]) BY <2>3, <3>1, RankTyped
    <3>. QED BY <3>1, <3>2, RankTyped
  <2>6. Lower(a, b, i) \/ Lower(b, a, i) BY <2>3, <2>4, <2>5 DEF Lower
  <2>. QED BY <2>3, <2>6, AtMostIs
<1>. QED BY <1>2, <1>3

LEMMA AtMostBoth ==
  ASSUME NEW a \in Keys, NEW b \in Keys, Urls!AtMost(a, b), Urls!AtMost(b, a) PROVE a = b
<1>1. /\ Len(a) \in Nat /\ Len(b) \in Nat
      /\ \A i \in 1..Len(a) : Urls!Rank(a[i]) \in Nat
      /\ \A i \in 1..Len(b) : Urls!Rank(b[i]) \in Nat
  BY RankTyped DEF Keys
<1>2. CASE Begins(a, b) /\ Begins(b, a)
  <2>1. Len(a) = Len(b) /\ \A j \in 1..Len(a) : a[j] = b[j] BY <1>1, <1>2 DEF Begins
  <2>. QED BY <2>1, SeqEqual DEF Keys
<1>3. ASSUME NEW c \in Keys, NEW d \in Keys, NEW i, Lower(c, d, i), Begins(d, c),
             \A j \in 1..Len(c) : Urls!Rank(c[j]) \in Nat
      PROVE  FALSE
  <2>1. i \in 1..Len(c) /\ i <= Len(d) /\ Urls!Rank(c[i]) < Urls!Rank(d[i]) BY <1>3 DEF Lower
  <2>2. Len(c) \in Nat /\ Len(d) \in Nat BY DEF Keys
  <2>3. d[i] = c[i] BY <1>3, <2>1, <2>2 DEF Begins
  <2>4. Urls!Rank(c[i]) \in Nat BY <1>3, <2>1
  <2>. QED BY <2>1, <2>3, <2>4
<1>4. ASSUME NEW i, NEW j, Lower(a, b, i), Lower(b, a, j) PROVE FALSE
  <2>1. i \in 1..Len(a) /\ i \in 1..Len(b) /\ j \in 1..Len(a) /\ j \in 1..Len(b)
    BY <1>1, <1>4 DEF Lower
  <2>2. CASE i < j
    <3>1. a[i] = b[i]
      <4>1. i \in 1..j - 1 BY <2>1, <2>2
      <4>. QED BY <1>4, <4>1 DEF Lower
    <3>. QED BY <1>1, <1>4, <2>1, <3>1 DEF Lower
  <2>3. CASE j < i
    <3>1. a[j] = b[j]
      <4>1. j \in 1..i - 1 BY <2>1, <2>3
      <4>. QED BY <1>4, <4>1 DEF Lower
    <3>. QED BY <1>1, <1>4, <2>1, <3>1 DEF Lower
  <2>4. CASE i = j
    <3>1. /\ Urls!Rank(a[i]) < Urls!Rank(b[i]) /\ Urls!Rank(b[i]) < Urls!Rank(a[i])
          /\ Urls!Rank(a[i]) \in Nat /\ Urls!Rank(b[i]) \in Nat
      BY <1>1, <1>4, <2>1, <2>4 DEF Lower
    <3>. QED BY <3>1
  <2>. QED BY <2>1, <2>2, <2>3, <2>4
<1>5. Begins(a, b) \/ \E i \in 1..Len(a) : Lower(a, b, i) BY AtMostIs
<1>6. Begins(b, a) \/ \E i \in 1..Len(b) : Lower(b, a, i) BY AtMostIs
<1>. QED BY <1>1, <1>2, <1>3, <1>4, <1>5, <1>6

LEMMA AtMostThrough ==
  ASSUME NEW a \in Keys, NEW b \in Keys, NEW c \in Keys, Urls!AtMost(a, b), Urls!AtMost(b, c)
  PROVE  Urls!AtMost(a, c)
<1>1. /\ Len(a) \in Nat /\ Len(b) \in Nat /\ Len(c) \in Nat
      /\ \A i \in 1..Len(a) : Urls!Rank(a[i]) \in Nat
      /\ \A i \in 1..Len(b) : Urls!Rank(b[i]) \in Nat
      /\ \A i \in 1..Len(c) : Urls!Rank(c[i]) \in Nat
  BY KeyTyped
<1>2. ASSUME Begins(a, b), Begins(b, c) PROVE Begins(a, c)
  BY <1>1, <1>2 DEF Begins
<1>3. ASSUME Begins(a, b), NEW i, Lower(b, c, i)
      PROVE  Begins(a, c) \/ (i \in 1..Len(a) /\ Lower(a, c, i))
  <2>1. CASE i <= Len(a) BY <1>1, <1>3, <2>1 DEF Begins, Lower
  <2>2. CASE ~(i <= Len(a)) BY <1>1, <1>3, <2>2 DEF Begins, Lower
  <2>. QED BY <2>1, <2>2
<1>4. ASSUME NEW i, Lower(a, b, i), Begins(b, c) PROVE i \in 1..Len(a) /\ Lower(a, c, i)
  BY <1>1, <1>4 DEF Begins, Lower
<1>5. ASSUME NEW i, Lower(a, b, i), NEW j, Lower(b, c, j)
      PROVE  \E k \in 1..Len(a) : Lower(a, c, k)
  <2>1. /\ i \in 1..Len(a) /\ i \in 1..Len(b) /\ j \in 1..Len(b) /\ j \in 1..Len(c)
        /\ Urls!Rank(a[i]) < Urls!Rank(b[i]) /\ Urls!Rank(b[j]) < Urls!Rank(c[j])
        /\ \A k \in 1..i - 1 : a[k] = b[k]
        /\ \A k \in 1..j - 1 : b[k] = c[k]
    BY <1>1, <1>5 DEF Lower
  <2>2. CASE i < j
    <3>1. b[i] = c[i] /\ i \in 1..Len(c)
      <4>1. i \in 1..j - 1 BY <2>1, <2>2
      <4>. QED BY <1>1, <2>1, <4>1
    <3>2. \A k \in 1..i - 1 : a[k] = c[k] BY <2>1, <2>2
    <3>3. Lower(a, c, i) BY <1>1, <2>1, <3>1, <3>2 DEF Lower
    <3>. QED BY <2>1, <3>3
  <2>3. CASE j < i
    <3>1. a[j] = b[j] /\ j \in 1..Len(a)
      <4>1. j \in 1..i - 1 BY <2>1, <2>3
      <4>. QED BY <1>1, <2>1, <4>1
    <3>2. \A k \in 1..j - 1 : a[k] = c[k] BY <2>1, <2>3
    <3>3. Lower(a, c, j) BY <1>1, <2>1, <3>1, <3>2 DEF Lower
    <3>. QED BY <3>1, <3>3
  <2>4. CASE i = j
    <3>1. \A k \in 1..i - 1 : a[k] = c[k] BY <2>1, <2>4
    <3>2. Urls!Rank(a[i]) < Urls!Rank(c[i]) BY <1>1, <2>1, <2>4
    <3>3. Lower(a, c, i) BY <1>1, <2>1, <2>4, <3>1, <3>2 DEF Lower
    <3>. QED BY <2>1, <3>3
  <2>. QED BY <2>1, <2>2, <2>3, <2>4
<1>6. Begins(a, b) \/ \E i \in 1..Len(a) : Lower(a, b, i) BY AtMostIs
<1>7. Begins(b, c) \/ \E i \in 1..Len(b) : Lower(b, c, i) BY AtMostIs
<1>8. Begins(a, c) \/ \E k \in 1..Len(a) : Lower(a, c, k)
  BY <1>2, <1>3, <1>4, <1>5, <1>6, <1>7
<1>. QED BY <1>8, AtMostIs

-----------------------------------------------------------------------------
(***************************************************************************)
(* Urls: the parameters of a query.  What a query says, which value a key  *)
(* is given the first time, the second and so on, survives the sort, and   *)
(* an ordered query can be read back from it.                              *)
(***************************************************************************)

\* A key without escapes that are undone, and a parameter with one.
PlainKey == {k \in Keys : \A i \in 1..Len(k) : Urls!Folded(k[i]) = k[i]}

Plain == [key : PlainKey, value : Seq(Chars)]

\* How often a key is given up to i; the parameter at i as the key, which time it is given
\* and its value; the parameters up to n.
CountTo(s, i, key) == Cardinality({j \in 1..i : s[j].key = key})

Given(s, i) == <<s[i].key, CountTo(s, i, s[i].key), Urls!CanonicalEscapes(s[i].value)>>

GivenTo(s, n) == {Given(s, i) : i \in 1..n}

\* How the count grows by a parameter.
Counts(s, i, key) ==
  /\ CountTo(s, i, key) \in Nat
  /\ CountTo(s, i + 1, key) = CountTo(s, i, key) + IF s[i + 1].key = key THEN 1 ELSE 0

LEMMA CountStep == ASSUME NEW s, NEW i \in Nat, NEW key PROVE Counts(s, i, key)
<1>. DEFINE P == {j \in 1..i + 1 : s[j].key = key}
<1>1. CountTo(s, i, key) = Cardinality({j \in 1..i : j \in P})
  <2>1. {j \in 1..i : j \in P} = {j \in 1..i : s[j].key = key} OBVIOUS
  <2>. QED BY <2>1 DEF CountTo
<1>2. CountTo(s, i + 1, key) = Cardinality({j \in 1..i + 1 : j \in P})
  <2>1. {j \in 1..i + 1 : j \in P} = {j \in 1..i + 1 : s[j].key = key} OBVIOUS
  <2>. QED BY <2>1 DEF CountTo
<1>3. i + 1 \in P <=> s[i + 1].key = key OBVIOUS
<1>. HIDE DEF P
<1>0. 1 \in Nat /\ 1 <= i + 1 OBVIOUS
<1>4. /\ Cardinality({j \in 1..i : j \in P}) \in Nat
      /\ Cardinality({j \in 1..i + 1 : j \in P})
           = Cardinality({j \in 1..i : j \in P}) + IF i + 1 \in P THEN 1 ELSE 0
  BY <1>0, CountNext
<1>. QED BY <1>1, <1>2, <1>3, <1>4 DEF Counts

LEMMA CountZero == ASSUME NEW s, NEW key PROVE CountTo(s, 0, key) = 0
<1>1. 1..0 = {} OBVIOUS
<1>2. {j \in 1..0 : s[j].key = key} = {} BY <1>1
<1>. QED BY <1>2, FS_EmptySet DEF CountTo

LEMMA CountGrows ==
  ASSUME NEW s, NEW key, NEW i \in Nat, NEW j \in Nat, i <= j
  PROVE  /\ CountTo(s, i, key) <= CountTo(s, j, key)
         /\ i < j /\ s[j].key = key => CountTo(s, i, key) < CountTo(s, j, key)
         /\ CountTo(s, i, key) \in Nat /\ CountTo(s, j, key) \in Nat
<1>. DEFINE few == {k \in 1..i : s[k].key = key}
            more == {k \in 1..j : s[k].key = key}
<1>1. IsFiniteSet(more)
  <2>1. IsFiniteSet(1..j) BY FS_Interval
  <2>2. more \in SUBSET (1..j) OBVIOUS
  <2>. HIDE DEF more
  <2>. QED BY <2>1, <2>2, FS_Subset
<1>2. few \in SUBSET more OBVIOUS
<1>3. i < j /\ s[j].key = key => j \in more /\ j \notin few OBVIOUS
<1>. HIDE DEF few, more
<1>4. /\ IsFiniteSet(few) /\ Cardinality(few) <= Cardinality(more)
      /\ Cardinality(few) = Cardinality(more) => few = more
  BY <1>1, <1>2, FS_Subset
<1>5. Cardinality(few) \in Nat /\ Cardinality(more) \in Nat BY <1>1, <1>4, FS_CardinalityType
<1>6. CountTo(s, i, key) = Cardinality(few) /\ CountTo(s, j, key) = Cardinality(more)
  BY DEF CountTo, few, more
<1>. QED BY <1>3, <1>4, <1>5, <1>6

\* The sequence t is s with p put behind its first m.
Inserted(s, t, m, p) ==
  /\ Len(t) = Len(s) + 1
  /\ \A i \in 1..m : t[i] = s[i]
  /\ t[m + 1] = p
  /\ \A i \in m + 2..Len(s) + 1 : t[i] = s[i - 1]

InsertedCount(s, t, m, p, key, i) ==
  CountTo(t, i, key) = IF i <= m THEN CountTo(s, i, key)
                       ELSE CountTo(s, i - 1, key) + IF p.key = key THEN 1 ELSE 0

\* The counts when one is put in between.
LEMMA InsertCounts ==
  ASSUME NEW s, NEW t, NEW p, NEW n \in Nat, Len(s) = n, NEW m \in 0..n, Inserted(s, t, m, p),
         NEW key
  PROVE  \A i \in 0..n + 1 : InsertedCount(s, t, m, p, key, i)
<1>. DEFINE P == {i \in 0..n + 1 : InsertedCount(s, t, m, p, key, i)}
<1>1. 0 \in P BY CountZero DEF InsertedCount
<1>2. ASSUME NEW k \in 1..n + 1, k - 1 \in P PROVE k \in P
  <2>. DEFINE i == k - 1
  <2>1. i \in Nat /\ k = i + 1 /\ i \in 0..n OBVIOUS
  <2>. HIDE DEF i
  <2>2. InsertedCount(s, t, m, p, key, i) BY <1>2 DEF i
  <2>3. Counts(t, i, key) /\ Counts(s, i, key) BY <2>1, CountStep
  <2>4. InsertedCount(s, t, m, p, key, i + 1)
    <3>1. CASE i + 1 <= m
      <4>1. t[i + 1] = s[i + 1] BY <2>1, <3>1 DEF Inserted
      <4>. QED BY <2>1, <2>2, <2>3, <3>1, <4>1 DEF InsertedCount, Counts
    <3>2. CASE i = m
      <4>1. t[i + 1] = p BY <3>2 DEF Inserted
      <4>2. i + 1 - 1 = i BY <2>1
      <4>. QED BY <2>1, <2>2, <2>3, <3>2, <4>1, <4>2 DEF InsertedCount, Counts
    <3>3. CASE i > m
      <4>1. t[i + 1] = s[i] BY <2>1, <3>3 DEF Inserted
      <4>2. i - 1 \in Nat /\ i - 1 + 1 = i /\ i + 1 - 1 = i BY <2>1, <3>3
      <4>3. Counts(s, i - 1, key) BY <4>2, CountStep
      <4>. QED BY <2>1, <2>2, <2>3, <3>3, <4>1, <4>2, <4>3 DEF InsertedCount, Counts
    <3>. QED BY <2>1, <3>1, <3>2, <3>3
  <2>. QED BY <2>1, <2>4
<1>. HIDE DEF P
<1>3. n + 1 \in Nat OBVIOUS
<1>4. \A i \in 0..n + 1 : i \in P BY <1>1, <1>2, <1>3, UpTo
<1>. QED BY <1>4 DEF P

\* The sequence t is s with p put somewhere behind all that have its key.
Placed(s, t, p) ==
  \E m \in 0..Len(s) : Inserted(s, t, m, p) /\ \A i \in m + 1..Len(s) : s[i].key # p.key

\* A parameter put behind all others with its key is given one time more.
LEMMA InsertGiven ==
  ASSUME NEW s, NEW t, NEW p, NEW n \in Nat, Len(s) = n, Placed(s, t, p)
  PROVE  GivenTo(t, n + 1) = GivenTo(s, n)
           \cup {<<p.key, CountTo(s, n, p.key) + 1, Urls!CanonicalEscapes(p.value)>>}
<1>. PICK m \in 0..n : Inserted(s, t, m, p) /\ \A i \in m + 1..n : s[i].key # p.key
  BY DEF Placed
<1>1. \A key : \A i \in 0..n + 1 : InsertedCount(s, t, m, p, key, i) BY InsertCounts
<1>2. ASSUME NEW i \in 1..m PROVE Given(t, i) = Given(s, i)
  <2>1. t[i] = s[i] /\ i \in 0..n + 1 BY DEF Inserted
  <2>2. CountTo(t, i, s[i].key) = CountTo(s, i, s[i].key) BY <1>1, <2>1 DEF InsertedCount
  <2>. QED BY <2>1, <2>2 DEF Given
<1>3. ASSUME NEW i \in m + 1..n PROVE Given(t, i + 1) = Given(s, i)
  <2>1. i + 1 \in m + 2..n + 1 /\ i + 1 - 1 = i /\ i \in Nat /\ i + 1 \in 0..n + 1 /\ ~(i + 1 <= m)
    OBVIOUS
  <2>2. t[i + 1] = s[i] BY <2>1 DEF Inserted
  <2>3. p.key # s[i].key OBVIOUS
  <2>4. Counts(s, i, s[i].key) BY <2>1, CountStep
  <2>5. CountTo(t, i + 1, s[i].key) = CountTo(s, i, s[i].key)
    BY <1>1, <2>1, <2>3, <2>4 DEF InsertedCount, Counts
  <2>. QED BY <2>2, <2>5 DEF Given
<1>4. Given(t, m + 1) = <<p.key, CountTo(s, n, p.key) + 1, Urls!CanonicalEscapes(p.value)>>
  <2>1. t[m + 1] = p BY DEF Inserted
  <2>2. m + 1 \in 0..n + 1 /\ m + 1 - 1 = m /\ ~(m + 1 <= m) OBVIOUS
  <2>3. CountTo(t, m + 1, p.key) = CountTo(s, m, p.key) + 1 BY <1>1, <2>2 DEF InsertedCount
  <2>4. CountTo(s, m, p.key) = CountTo(s, n, p.key)
    <3>1. \A j \in 1..n : s[j].key = p.key => j \in 1..m
      <4>1. \A j \in 1..n : j \in 1..m \/ j \in m + 1..n OBVIOUS
      <4>. QED BY <4>1
    <3>2. {j \in 1..m : s[j].key = p.key} = {j \in 1..n : s[j].key = p.key} BY <3>1
    <3>. QED BY <3>2 DEF CountTo
  <2>. QED BY <2>1, <2>3, <2>4 DEF Given
<1>5. \A i \in 1..n + 1 : i \in 1..m \/ i = m + 1 \/ i - 1 \in m + 1..n OBVIOUS
<1>6. /\ \A i \in 1..m : i \in 1..n /\ i \in 1..n + 1
      /\ \A i \in m + 1..n : i \in 1..n /\ i + 1 \in 1..n + 1
      /\ m + 1 \in 1..n + 1
      /\ \A i \in 1..n : i \in 1..m \/ i \in m + 1..n
      /\ \A i \in 1..n + 1 : i - 1 + 1 = i
  OBVIOUS
<1>. DEFINE new == <<p.key, CountTo(s, n, p.key) + 1, Urls!CanonicalEscapes(p.value)>>
<1>. HIDE DEF new
<1>7. ASSUME NEW i \in 1..n + 1 PROVE Given(t, i) \in GivenTo(s, n) \cup {new}
  <2>1. CASE i \in 1..m BY <1>2, <1>6, <2>1 DEF GivenTo
  <2>2. CASE i = m + 1 BY <1>4, <2>2 DEF new
  <2>3. CASE i - 1 \in m + 1..n
    <3>1. Given(t, i - 1 + 1) = Given(s, i - 1) /\ i - 1 \in 1..n BY <1>3, <1>6, <2>3
    <3>. QED BY <1>6, <3>1 DEF GivenTo
  <2>. QED BY <1>5, <2>1, <2>2, <2>3
<1>8. ASSUME NEW i \in 1..n PROVE Given(s, i) \in GivenTo(t, n + 1)
  <2>1. CASE i \in 1..m BY <1>2, <1>6, <2>1 DEF GivenTo
  <2>2. CASE i \in m + 1..n BY <1>3, <1>6, <2>2 DEF GivenTo
  <2>. QED BY <1>6, <2>1, <2>2
<1>9. new \in GivenTo(t, n + 1) BY <1>4, <1>6 DEF GivenTo, new
<1>10. GivenTo(t, n + 1) \subseteq GivenTo(s, n) \cup {new} BY <1>7 DEF GivenTo
<1>11. GivenTo(s, n) \subseteq GivenTo(t, n + 1)
  <2>1. \A x \in GivenTo(s, n) : \E i \in 1..n : x = Given(s, i) BY DEF GivenTo
  <2>. QED BY <1>8, <2>1
<1>12. GivenTo(t, n + 1) = GivenTo(s, n) \cup {new} BY <1>9, <1>10, <1>11
<1>. QED BY <1>12 DEF new

\* The orders that sorted() may give.
Ordered(s) == \A i, j \in 1..Len(s) : i <= j => Urls!AtMost(s[i].key, s[j].key)

Sorted == {s \in Seq(Plain) : Ordered(s)}

\* The round of sorted() for a parameter.
Place(sorted, p) ==
  Urls!InsertAt(sorted,
    1 + Urls!Cardinality({i \in DOMAIN sorted : Urls!AtMost(sorted[i].key, p.key)}), p)

\* InsertAt puts in one element and moves those behind it.
LEMMA Inserting ==
  ASSUME NEW S, NEW s \in Seq(S), NEW e \in S, NEW m \in 0..Len(s)
  PROVE  /\ Urls!InsertAt(s, m + 1, e) \in Seq(S)
         /\ Inserted(s, Urls!InsertAt(s, m + 1, e), m, e)
<1>. DEFINE head == SubSeq(s, 1, m)
            tail == SubSeq(s, m + 1, Len(s))
            t == (head \o <<e>>) \o tail
<1>1. Len(s) \in Nat /\ m \in Nat /\ m <= Len(s) OBVIOUS
<1>2. Urls!InsertAt(s, m + 1, e) = t
  <2>. DEFINE k == m + 1
  <2>1. k - 1 = m BY <1>1
  <2>. HIDE DEF k
  <2>2. Urls!InsertAt(s, k, e) = (SubSeq(s, 1, k - 1) \o <<e>>) \o SubSeq(s, k, Len(s))
    BY Zenon DEF Urls!InsertAt
  <2>3. Urls!InsertAt(s, k, e) = (SubSeq(s, 1, m) \o <<e>>) \o SubSeq(s, k, Len(s))
    BY <2>1, <2>2
  <2>. QED BY <2>3 DEF k
<1>3. head \in Seq(S) /\ Len(head) = m /\ \A i \in 1..m : head[i] = s[i]
  BY <1>1, PrefixTyped
<1>4. /\ tail \in Seq(S) /\ Len(tail) = Len(s) - m
      /\ \A i \in 1..Len(s) - m : tail[i] = s[m + i]
  <2>1. tail \in Seq(S) BY <1>1
  <2>2. Len(tail) = Len(s) - m BY <1>1
  <2>3. \A i \in 1..Len(s) - m : tail[i] = s[m + i] BY <1>1
  <2>. QED BY <2>1, <2>2, <2>3
<1>. HIDE DEF head, tail
<1>. DEFINE front == Append(head, e)
<1>5. head \o <<e>> = front BY <1>3
<1>6. /\ front \in Seq(S) /\ Len(front) = m + 1 /\ front[m + 1] = e
      /\ \A i \in 1..m : front[i] = s[i]
  BY <1>1, <1>3
<1>. HIDE DEF front
<1>7. t = front \o tail BY <1>5
<1>. HIDE DEF t
<1>8. /\ t \in Seq(S) /\ Len(t) = Len(s) + 1
      /\ \A i \in 1..m + 1 : t[i] = front[i]
      /\ \A i \in m + 2..Len(s) + 1 : t[i] = tail[i - (m + 1)]
  <2>1. t \in Seq(S) BY <1>4, <1>6, <1>7
  <2>2. Len(t) = Len(s) + 1
    <3>1. Len(front \o tail) = Len(front) + Len(tail) BY <1>4, <1>6, ConcatProperties
    <3>. QED BY <1>1, <1>4, <1>6, <1>7, <3>1
  <2>3. \A i \in 1..m + 1 : t[i] = front[i] BY <1>1, <1>4, <1>6, <1>7
  <2>4. \A i \in m + 2..Len(s) + 1 : t[i] = tail[i - (m + 1)] BY <1>1, <1>4, <1>6, <1>7
  <2>. QED BY <2>1, <2>2, <2>3, <2>4
<1>9. \A i \in m + 2..Len(s) + 1 : t[i] = s[i - 1]
  <2>. TAKE i \in m + 2..Len(s) + 1
  <2>1. i - (m + 1) \in 1..Len(s) - m /\ m + (i - (m + 1)) = i - 1 BY <1>1
  <2>. QED BY <1>4, <1>8, <2>1
<1>10. \A i \in 1..m : t[i] = s[i]
  <2>1. \A i \in 1..m : i \in 1..m + 1 BY <1>1
  <2>. QED BY <1>6, <1>8, <2>1
<1>11. t[m + 1] = e
  <2>1. m + 1 \in 1..m + 1 BY <1>1
  <2>. QED BY <1>6, <1>8, <2>1
<1>12. Inserted(s, t, m, e) BY <1>8, <1>9, <1>10, <1>11 DEF Inserted
<1>. QED BY <1>2, <1>8, <1>12

\* A set of positions that holds all below each of its own is an interval.
LEMMA Segment ==
  ASSUME NEW n \in Nat, NEW D, D \subseteq 1..n, \A j \in D : \A i \in 1..j : i \in D
  PROVE  Cardinality(D) \in 0..n /\ D = 1..Cardinality(D)
<1>1. CASE D = {}
  <2>1. Cardinality(D) = 0 /\ 1..0 = {} BY <1>1, FS_EmptySet
  <2>. QED BY <1>1, <2>1
<1>2. CASE D # {}
  <2>. DEFINE x == Max(D)
  <2>1. x \in D /\ \A y \in D : x >= y BY <1>2, MaxIn
  <2>. HIDE DEF x
  <2>2. x \in 1..n BY <2>1
  <2>3. D = 1..x
    <3>1. \A y \in D : y \in 1..n /\ x >= y BY <2>1
    <3>2. \A y \in D : y \in 1..x BY <2>2, <3>1
    <3>3. \A i \in 1..x : i \in D BY <2>1
    <3>. QED BY <3>2, <3>3
  <2>4. Cardinality(1..x) = x
    <3>1. 1 \in Int /\ x \in Int /\ ~(1 > x) /\ x - 1 + 1 = x BY <2>2
    <3>2. Cardinality(1..x) = IF 1 > x THEN 0 ELSE x - 1 + 1 BY <3>1, FS_Interval
    <3>. QED BY <3>1, <3>2
  <2>. QED BY <2>2, <2>3, <2>4
<1>. QED BY <1>1, <1>2

\* A parameter is placed behind all that have its key, in order.
LEMMA PlaceSorted ==
  ASSUME NEW s \in Sorted, NEW p \in Plain
  PROVE  Place(s, p) \in Sorted /\ Placed(s, Place(s, p), p)
<1>. DEFINE n == Len(s)
            D == {i \in DOMAIN s : Urls!AtMost(s[i].key, p.key)}
            m == Cardinality(D)
            t == Urls!InsertAt(s, m + 1, p)
<1>1. s \in Seq(Plain) /\ n \in Nat /\ DOMAIN s = 1..n /\ Ordered(s) BY DEF Sorted
<1>2. \A i \in 1..n : s[i].key \in Keys
  <2>1. \A i \in 1..n : s[i] \in Plain BY <1>1
  <2>. QED BY <2>1 DEF Plain, PlainKey
<1>3. p.key \in Keys BY DEF Plain, PlainKey
<1>4. D = {i \in 1..n : Urls!AtMost(s[i].key, p.key)} BY <1>1
<1>5. \A j \in D : \A i \in 1..j : i \in D
  <2>. SUFFICES ASSUME NEW j \in D, NEW i \in 1..j PROVE i \in D OBVIOUS
  <2>1. j \in 1..n /\ i \in 1..n /\ i <= j BY <1>1, <1>4
  <2>2. Urls!AtMost(s[i].key, s[j].key) BY <1>1, <2>1 DEF Ordered
  <2>3. Urls!AtMost(s[j].key, p.key) BY <1>4
  <2>4. Urls!AtMost(s[i].key, p.key) BY <1>2, <1>3, <2>1, <2>2, <2>3, AtMostThrough
  <2>. QED BY <1>4, <2>1, <2>4
<1>6. D \subseteq 1..n BY <1>4
<1>7. Place(s, p) = t
  <2>1. Place(s, p) = Urls!InsertAt(s, 1 + Urls!Cardinality(D), p) BY DEF Place
  <2>. HIDE DEF D
  <2>2. m \in 0..n BY <1>1, <1>5, <1>6, Segment
  <2>3. 1 + Urls!Cardinality(D) = m + 1 BY <2>2, SameCount
  <2>. QED BY <2>1, <2>3
<1>8. m \in 0..n /\ D = 1..m
  <2>. HIDE DEF D
  <2>. QED BY <1>1, <1>5, <1>6, Segment
<1>9. \A i \in 1..n : i <= m <=> Urls!AtMost(s[i].key, p.key)
  <2>1. \A i \in 1..n : i \in D <=> Urls!AtMost(s[i].key, p.key) BY <1>4
  <2>. HIDE DEF D, m
  <2>. QED BY <1>8, <2>1
<1>10. t \in Seq(Plain) /\ Inserted(s, t, m, p)
  <2>. HIDE DEF m
  <2>. QED BY <1>1, <1>8, Inserting
<1>. HIDE DEF n, m, t
<1>11. /\ Len(t) = n + 1 /\ t[m + 1] = p
       /\ \A i \in 1..m : t[i] = s[i]
       /\ \A i \in m + 2..n + 1 : t[i] = s[i - 1]
  BY <1>10 DEF Inserted, n
<1>12. \A i \in m + 1..n : s[i].key # p.key /\ Urls!AtMost(p.key, s[i].key)
  <2>. SUFFICES ASSUME NEW i \in m + 1..n
                PROVE  s[i].key # p.key /\ Urls!AtMost(p.key, s[i].key)
    OBVIOUS
  <2>1. i \in 1..n /\ ~(i <= m) BY <1>8
  <2>2. ~Urls!AtMost(s[i].key, p.key) BY <1>9, <2>1
  <2>. QED BY <1>2, <1>3, <2>1, <2>2, AtMostTotal
<1>13. Ordered(t)
  <2>. SUFFICES ASSUME NEW i \in 1..n + 1, NEW j \in 1..n + 1, i <= j
                PROVE  Urls!AtMost(t[i].key, t[j].key)
    BY <1>11 DEF Ordered
  <2>0. \A a, b \in 1..n : a <= b => Urls!AtMost(s[a].key, s[b].key) BY <1>1 DEF Ordered, n
  <2>1. CASE j <= m
    <3>1. i \in 1..m /\ j \in 1..m /\ i \in 1..n /\ j \in 1..n BY <1>1, <1>8, <2>1
    <3>. QED BY <1>11, <2>0, <3>1
  <2>2. CASE i <= m /\ j = m + 1
    <3>1. i \in 1..m /\ i \in 1..n BY <1>1, <1>8, <2>2
    <3>. QED BY <1>9, <1>11, <2>2, <3>1
  <2>3. CASE i <= m /\ j > m + 1
    <3>1. /\ i \in 1..m /\ i \in 1..n /\ j \in m + 2..n + 1 /\ j - 1 \in 1..n /\ i <= j - 1
      BY <1>1, <1>8, <2>3
    <3>. QED BY <1>11, <2>0, <3>1
  <2>4. CASE i = m + 1 /\ j = m + 1 BY <1>3, <1>11, <2>4, AtMostTotal
  <2>5. CASE i = m + 1 /\ j > m + 1
    <3>1. j \in m + 2..n + 1 /\ j - 1 \in m + 1..n BY <1>1, <1>8, <2>5
    <3>. QED BY <1>11, <1>12, <2>5, <3>1
  <2>6. CASE i > m + 1
    <3>1. /\ i \in m + 2..n + 1 /\ j \in m + 2..n + 1 /\ i - 1 \in 1..n /\ j - 1 \in 1..n
          /\ i - 1 <= j - 1
      BY <1>1, <1>8, <2>6
    <3>. QED BY <1>11, <2>0, <3>1
  <2>. QED BY <1>1, <1>8, <2>1, <2>2, <2>3, <2>4, <2>5, <2>6
<1>14. t \in Sorted BY <1>10, <1>13 DEF Sorted
<1>15. Placed(s, t, p) BY <1>8, <1>10, <1>12 DEF Placed, n
<1>. QED BY <1>7, <1>14, <1>15

\* sorted(), parameter by parameter.
LEMMA SortRun ==
  ASSUME NEW q \in Seq(Plain)
  PROVE  \E run \in [0..Len(q) -> Sorted] :
           /\ run[0] = <<>> /\ run[Len(q)] = Urls!SortedQuery(q)
           /\ \A k \in 1..Len(q) : run[k] = Place(run[k - 1], q[k])
<1>. DEFINE F == [x \in Sorted \X Plain |-> Place(x[1], x[2])]
            Steps(iter) ==
              iter = [d \in SUBSET DOMAIN q |->
                        IF d = {} THEN <<>> ELSE Place(iter[d \ {Max(d)}], q[Max(d)])]
            iter == CHOOSE it : Steps(it)
<1>1. Urls!SortedQuery(q) = iter[DOMAIN q]
  BY DEF Urls!SortedQuery, Place, Urls!FoldLeft, Urls!MapThenFoldSet, Urls!Max, Max
<1>2. F \in [Sorted \X Plain -> Sorted] BY PlaceSorted
<1>3. <<>> \in Sorted BY DEF Sorted, Ordered
<1>4. \A d \in SUBSET DOMAIN q : d # {} => q[Max(d)] \in Plain BY MaxInDomain
<1>5. \A x \in Sorted, p \in Plain : F[<<x, p>>] = Place(x, p) OBVIOUS
<1>. HIDE DEF F
<1>6. Steps(iter)
  <2>1. PICK it : IsFold(it, Sorted, <<>>, F, q) BY <1>2, <1>3, FoldExists
  <2>2. /\ it \in [SUBSET DOMAIN q -> Sorted]
        /\ \A d \in SUBSET DOMAIN q : it[d \ {Max(d)}] \in Sorted
    BY <2>1 DEF IsFold
  <2>3. \A d \in SUBSET DOMAIN q : it[d] =
          IF d = {} THEN <<>> ELSE Place(it[d \ {Max(d)}], q[Max(d)])
    <3>. TAKE d \in SUBSET DOMAIN q
    <3>1. it[d] = IF d = {} THEN <<>> ELSE F[<<it[d \ {Max(d)}], q[Max(d)]>>]
      BY <2>1 DEF IsFold
    <3>. QED BY <3>1, <2>2, <1>4, <1>5
  <2>4. Steps(it) BY <2>2, <2>3
  <2>. HIDE DEF Steps
  <2>. QED BY <2>4
<1>7. Descends(iter, Sorted, <<>>, F, q)
  <2>. HIDE DEF iter
  <2>1. {} \in SUBSET DOMAIN q OBVIOUS
  <2>. QED BY <1>4, <1>5, <1>6, <2>1 DEF Descends
<1>. HIDE DEF iter
<1>8. PICK run : IsRun(run, iter, Sorted, <<>>, F, q) BY <1>2, <1>3, <1>7, FoldRun
<1>9. ASSUME NEW k \in 1..Len(q) PROVE run[k] = Place(run[k - 1], q[k])
  <2>1. run[k - 1] \in Sorted /\ q[k] \in Plain BY <1>8 DEF IsRun
  <2>. QED BY <2>1, <1>5, <1>8 DEF IsRun
<1>10. /\ run \in [0..Len(q) -> Sorted] /\ run[0] = <<>> /\ run[Len(q)] = iter[DOMAIN q]
  BY <1>8 DEF IsRun
<1>. QED BY <1>1, <1>9, <1>10

\* What is sorted after k parameters are those k.
Mirrors(q, s, k) ==
  /\ Len(s) = k
  /\ GivenTo(s, k) = GivenTo(q, k)
  /\ \A key : CountTo(s, k, key) = CountTo(q, k, key)

LEMMA MirrorsNext ==
  ASSUME NEW q \in Seq(Plain), NEW s \in Sorted, NEW i \in Nat, i + 1 <= Len(q), Mirrors(q, s, i)
  PROVE  Mirrors(q, Place(s, q[i + 1]), i + 1)
<1>. DEFINE p == q[i + 1]
            t == Place(s, p)
<1>1. p \in Plain OBVIOUS
<1>2. Placed(s, t, p) BY <1>1, PlaceSorted
<1>. HIDE DEF p, t
<1>3. Len(s) = i /\ GivenTo(s, i) = GivenTo(q, i) BY DEF Mirrors
<1>4. \A key : CountTo(s, i, key) = CountTo(q, i, key) BY DEF Mirrors
<1>5. PICK m \in 0..i : Inserted(s, t, m, p) /\ \A j \in m + 1..i : s[j].key # p.key
  BY <1>2, <1>3 DEF Placed
<1>6. Len(t) = i + 1 BY <1>3, <1>5 DEF Inserted
<1>7. \A key : CountTo(t, i + 1, key) = CountTo(q, i + 1, key)
  <2>. TAKE key
  <2>1. \A j \in 0..i + 1 : InsertedCount(s, t, m, p, key, j) BY <1>3, <1>5, InsertCounts
  <2>2. i + 1 \in 0..i + 1 /\ ~(i + 1 <= m) /\ i + 1 - 1 = i OBVIOUS
  <2>3. CountTo(t, i + 1, key) = CountTo(s, i, key) + IF p.key = key THEN 1 ELSE 0
    BY <2>1, <2>2 DEF InsertedCount
  <2>4. Counts(q, i, key) BY CountStep
  <2>. QED BY <1>4, <2>3, <2>4 DEF Counts, p
<1>8. GivenTo(t, i + 1) = GivenTo(s, i)
        \cup {<<p.key, CountTo(s, i, p.key) + 1, Urls!CanonicalEscapes(p.value)>>}
  BY <1>2, <1>3, InsertGiven
<1>9. Given(q, i + 1) = <<p.key, CountTo(s, i, p.key) + 1, Urls!CanonicalEscapes(p.value)>>
  <2>1. Counts(q, i, p.key) BY CountStep
  <2>2. CountTo(q, i + 1, p.key) = CountTo(s, i, p.key) + 1 BY <1>4, <2>1 DEF Counts, p
  <2>. QED BY <2>2 DEF Given, p
<1>. DEFINE new == <<p.key, CountTo(s, i, p.key) + 1, Urls!CanonicalEscapes(p.value)>>
<1>10. GivenTo(q, i + 1) = GivenTo(q, i) \cup {Given(q, i + 1)}
  <2>1. \A j : j \in 1..i + 1 <=> j \in 1..i \/ j = i + 1 OBVIOUS
  <2>. QED BY <2>1 DEF GivenTo
<1>11. GivenTo(t, i + 1) = GivenTo(s, i) \cup {new} /\ Given(q, i + 1) = new BY <1>8, <1>9
<1>. HIDE DEF new
<1>12. GivenTo(t, i + 1) = GivenTo(q, i + 1) BY <1>3, <1>10, <1>11
<1>13. Mirrors(q, t, i + 1) BY <1>6, <1>7, <1>12 DEF Mirrors
<1>. QED BY <1>13 DEF t, p

\* sorted() orders the parameters by key and keeps each one, and the times of each key.
LEMMA SortKeeps ==
  ASSUME NEW q \in Seq(Plain)
  PROVE  Urls!SortedQuery(q) \in Sorted /\ Mirrors(q, Urls!SortedQuery(q), Len(q))
<1>. DEFINE n == Len(q)
<1>1. PICK run \in [0..n -> Sorted] :
        /\ run[0] = <<>> /\ run[n] = Urls!SortedQuery(q)
        /\ \A k \in 1..n : run[k] = Place(run[k - 1], q[k])
  BY SortRun
<1>2. n \in Nat OBVIOUS
<1>. DEFINE P == {k \in 0..n : Mirrors(q, run[k], k)}
<1>3. 0 \in P
  <2>1. GivenTo(<<>>, 0) = {} /\ GivenTo(q, 0) = {}
    <3>1. 1..0 = {} OBVIOUS
    <3>. QED BY <3>1 DEF GivenTo
  <2>2. \A key : CountTo(<<>>, 0, key) = 0 /\ CountTo(q, 0, key) = 0 BY CountZero
  <2>3. Len(<<>>) = 0 OBVIOUS
  <2>4. Mirrors(q, run[0], 0) BY <1>1, <2>1, <2>2, <2>3 DEF Mirrors
  <2>. QED BY <1>2, <2>4
<1>4. ASSUME NEW k \in 1..n, k - 1 \in P PROVE k \in P
  <2>. DEFINE i == k - 1
  <2>1. i \in Nat /\ i + 1 = k /\ i \in 0..n /\ i + 1 <= Len(q) BY <1>2
  <2>. HIDE DEF i
  <2>2. run[i] \in Sorted /\ Mirrors(q, run[i], i) BY <1>1, <1>4, <2>1 DEF i
  <2>3. run[k] = Place(run[i], q[i + 1]) BY <1>1, <2>1 DEF i
  <2>4. Mirrors(q, Place(run[i], q[i + 1]), i + 1) BY <2>1, <2>2, MirrorsNext
  <2>. QED BY <1>2, <2>1, <2>3, <2>4
<1>5. \A k \in 0..n : k \in P
  <2>. HIDE DEF P, n
  <2>. QED BY <1>2, <1>3, <1>4, UpTo
<1>6. n \in 0..n BY <1>2
<1>. QED BY <1>1, <1>5, <1>6

\* The first n parameters of two queries are the same, but for how their values are escaped.
SameTo(s, t, n) ==
  /\ n <= Len(s) /\ n <= Len(t)
  /\ \A i \in 1..n : s[i].key = t[i].key
       /\ Urls!CanonicalEscapes(s[i].value) = Urls!CanonicalEscapes(t[i].value)

LEMMA SameCounts ==
  ASSUME NEW s, NEW t, NEW n \in Nat, SameTo(s, t, n)
  PROVE  \A i \in 1..n : \A key : CountTo(s, i, key) = CountTo(t, i, key)
<1>. SUFFICES ASSUME NEW i \in 1..n, NEW key PROVE CountTo(s, i, key) = CountTo(t, i, key) OBVIOUS
<1>1. \A j \in 1..i : s[j].key = t[j].key BY DEF SameTo
<1>2. {j \in 1..i : s[j].key = key} = {j \in 1..i : t[j].key = key} BY <1>1
<1>. QED BY <1>2 DEF CountTo

\* Where a parameter of s is in t, if all before it are the same.
LEMMA NotBefore ==
  ASSUME NEW s \in Seq(Plain), NEW t \in Seq(Plain), NEW i \in Nat, SameTo(s, t, i),
         i + 1 <= Len(s), GivenTo(s, Len(s)) = GivenTo(t, Len(t))
  PROVE  \E j \in i + 1..Len(t) :
           /\ t[j].key = s[i + 1].key
           /\ CountTo(t, j, t[j].key) = CountTo(s, i + 1, s[i + 1].key)
           /\ Urls!CanonicalEscapes(t[j].value) = Urls!CanonicalEscapes(s[i + 1].value)
<1>. DEFINE key == s[i + 1].key
<1>1. Given(s, i + 1) \in GivenTo(t, Len(t))
  <2>1. i + 1 \in 1..Len(s) OBVIOUS
  <2>2. Given(s, i + 1) \in GivenTo(s, Len(s)) BY <2>1 DEF GivenTo
  <2>. QED BY <2>2
<1>2. PICK j \in 1..Len(t) : Given(s, i + 1) = Given(t, j) BY <1>1 DEF GivenTo
<1>3. /\ t[j].key = key /\ CountTo(t, j, key) = CountTo(s, i + 1, key)
      /\ Urls!CanonicalEscapes(t[j].value) = Urls!CanonicalEscapes(s[i + 1].value)
  BY <1>2 DEF Given
<1>. HIDE DEF key
<1>4. ~(j <= i)
  <2>. SUFFICES ASSUME j <= i PROVE FALSE OBVIOUS
  <2>1. j \in 1..i /\ j \in Nat /\ i + 1 \in Nat /\ j <= i + 1 /\ j < i + 1 OBVIOUS
  <2>2. CountTo(s, j, key) = CountTo(t, j, key) BY <2>1, SameCounts
  <2>3. s[i + 1].key = key BY DEF key
  <2>4. /\ CountTo(s, j, key) < CountTo(s, i + 1, key)
        /\ CountTo(s, j, key) \in Nat /\ CountTo(s, i + 1, key) \in Nat
    BY <2>1, <2>3, CountGrows
  <2>. QED BY <1>3, <2>2, <2>4
<1>5. j \in i + 1..Len(t) BY <1>4
<1>. QED BY <1>3, <1>5 DEF key

\* The next parameter of an ordered query is one that is given in another ordered query.
LEMMA SameKeyNext ==
  ASSUME NEW s \in Sorted, NEW t \in Sorted, NEW i \in Nat, SameTo(s, t, i), i + 1 <= Len(s),
         GivenTo(s, Len(s)) = GivenTo(t, Len(t))
  PROVE  SameTo(s, t, i + 1)
<1>. DEFINE k == i + 1
<1>0. s \in Seq(Plain) /\ t \in Seq(Plain) /\ Ordered(s) /\ Ordered(t) BY DEF Sorted
<1>1. PICK j \in k..Len(t) :
        /\ t[j].key = s[k].key
        /\ CountTo(t, j, t[j].key) = CountTo(s, k, s[k].key)
        /\ Urls!CanonicalEscapes(t[j].value) = Urls!CanonicalEscapes(s[k].value)
  BY <1>0, NotBefore
<1>2. /\ k \in Nat /\ k \in 1..Len(s) /\ k \in 1..Len(t) /\ j \in 1..Len(t)
      /\ Len(s) \in Nat /\ Len(t) \in Nat /\ j \in Nat /\ k <= j /\ k <= Len(t)
  BY <1>0
<1>3. s[k].key \in Keys /\ t[k].key \in Keys
  <2>1. s[k] \in Plain /\ t[k] \in Plain BY <1>0, <1>2
  <2>. QED BY <2>1 DEF Plain, PlainKey
<1>4. t[k].key = s[k].key
  <2>. SUFFICES ASSUME t[k].key # s[k].key PROVE FALSE OBVIOUS
  <2>1. Urls!AtMost(t[k].key, s[k].key)
    <3>1. Urls!AtMost(t[k].key, t[j].key) BY <1>0, <1>2 DEF Ordered
    <3>. QED BY <1>1, <3>1
  <2>2. SameTo(t, s, i)
    BY DEF SameTo
  <2>3. PICK l \in k..Len(s) : s[l].key = t[k].key
    <3>1. k <= Len(t) BY <1>2
    <3>. QED BY <1>0, <2>2, <3>1, NotBefore
  <2>4. Urls!AtMost(s[k].key, t[k].key)
    <3>1. l \in 1..Len(s) /\ k <= l BY <1>2
    <3>2. Urls!AtMost(s[k].key, s[l].key) BY <1>0, <1>2, <3>1 DEF Ordered
    <3>. QED BY <2>3, <3>2
  <2>. QED BY <1>3, <2>1, <2>4, AtMostBoth
<1>5. j = k
  <2>. SUFFICES ASSUME k < j PROVE FALSE BY <1>2
  <2>1. CountTo(t, k, t[k].key) < CountTo(t, j, t[k].key)
        /\ CountTo(t, k, t[k].key) \in Nat /\ CountTo(t, j, t[k].key) \in Nat
    BY <1>1, <1>2, <1>4, CountGrows
  <2>2. CountTo(s, k, s[k].key) = CountTo(t, k, t[k].key)
    <3>1. CountTo(s, i, s[k].key) = CountTo(t, i, s[k].key)
      <4>1. CASE i = 0 BY <4>1, CountZero
      <4>2. CASE i # 0
        <5>1. i \in 1..i BY <4>2
        <5>. QED BY <5>1, SameCounts
      <4>. QED BY <4>1, <4>2
    <3>2. Counts(s, i, s[k].key) /\ Counts(t, i, s[k].key) BY CountStep
    <3>. QED BY <1>4, <3>1, <3>2 DEF Counts
  <2>. QED BY <1>1, <1>4, <2>1, <2>2
<1>6. \A a \in 1..k : a \in 1..i \/ a = k OBVIOUS
<1>. HIDE DEF k
<1>7. \A a \in 1..i : s[a].key = t[a].key
        /\ Urls!CanonicalEscapes(s[a].value) = Urls!CanonicalEscapes(t[a].value)
  BY DEF SameTo
<1>8. Urls!CanonicalEscapes(s[k].value) = Urls!CanonicalEscapes(t[k].value) BY <1>1, <1>5
<1>9. \A a \in 1..k : s[a].key = t[a].key
        /\ Urls!CanonicalEscapes(s[a].value) = Urls!CanonicalEscapes(t[a].value)
  <2>. TAKE a \in 1..k
  <2>1. CASE a = k BY <1>4, <1>8, <2>1
  <2>2. CASE a # k BY <1>6, <1>7, <2>2
  <2>. QED BY <2>1, <2>2
<1>10. k <= Len(s) /\ k <= Len(t) BY <1>2
<1>11. SameTo(s, t, k) BY <1>9, <1>10 DEF SameTo
<1>. QED BY <1>11 DEF k

\* Two ordered queries that give the same are the same, but for the escapes of values.
LEMMA SameAll ==
  ASSUME NEW s \in Sorted, NEW t \in Sorted, GivenTo(s, Len(s)) = GivenTo(t, Len(t))
  PROVE  SameTo(s, t, Len(s))
<1>. DEFINE n == Len(s)
            P == {k \in 0..n : SameTo(s, t, k)}
<1>1. n \in Nat /\ Len(t) \in Nat BY DEF Sorted
<1>2. 0 \in P
  <2>1. 1..0 = {} OBVIOUS
  <2>. QED BY <1>1, <2>1 DEF SameTo
<1>3. ASSUME NEW k \in 1..n, k - 1 \in P PROVE k \in P
  <2>. DEFINE i == k - 1
  <2>1. i \in Nat /\ i + 1 = k /\ i + 1 <= Len(s) BY <1>1
  <2>. HIDE DEF i
  <2>2. SameTo(s, t, i) BY <1>3 DEF i
  <2>3. SameTo(s, t, i + 1) BY <2>1, <2>2, SameKeyNext
  <2>. QED BY <1>1, <2>1, <2>3
<1>4. \A k \in 0..n : k \in P
  <2>. HIDE DEF P, n
  <2>. QED BY <1>1, <1>2, <1>3, UpTo
<1>5. n \in 0..n BY <1>1
<1>. QED BY <1>4, <1>5

\* The parameters of a query as CanonicalKey writes them.
Written(q) == [i \in DOMAIN Urls!SortedQuery(q) |-> Urls!FoldedParameter(Urls!SortedQuery(q)[i])]

LEMMA PlainFolded == ASSUME NEW k \in PlainKey PROVE Urls!CanonicalEscapes(k) = k
<1>1. /\ DOMAIN k = 1..Len(k) /\ k = [i \in DOMAIN k |-> k[i]]
      /\ \A i \in 1..Len(k) : Urls!Folded(k[i]) = k[i]
  BY DEF PlainKey, Keys
<1>2. [i \in DOMAIN k |-> Urls!Folded(k[i])] = [i \in DOMAIN k |-> k[i]] BY <1>1
<1>. QED BY <1>1, <1>2 DEF Urls!CanonicalEscapes

LEMMA SameLength == ASSUME NEW a \in Nat, NEW b \in Nat, 1..a = 1..b PROVE a = b
<1>1. (a >= 1 => a \in 1..b) /\ (b >= 1 => b \in 1..a)
  <2>1. (a >= 1 => a \in 1..a) /\ (b >= 1 => b \in 1..b) OBVIOUS
  <2>. QED BY <2>1
<1>. QED BY <1>1

\* Two characters are written one way by CanonicalEscapes exactly if they are ways to write
\* one character.
LEMMA FoldedSame ==
  ASSUME NEW c, NEW d PROVE Urls!SameCharacter(c, d) <=> Urls!Folded(c) = Urls!Folded(d)
<1>1. ASSUME NEW x
      PROVE  /\ x \in {"a", "%61"} <=> Urls!Folded(x) = "a"
             /\ x \in {"b", "%62"} <=> Urls!Folded(x) = "b"
             /\ x \in {"%2f", "%2F"} <=> Urls!Folded(x) = "%2F"
             /\ x \in {"space", "%20"} <=> Urls!Folded(x) = "%20"
             /\ x \in {"e-acute", "%c3%a9", "%C3%A9"} <=> Urls!Folded(x) = "%C3%A9"
             /\ Urls!Folded(x) \in {"a", "b", "%2F", "%20", "%C3%A9", x}
  <2>1. CASE x \in {"%61", "%62", "%2f", "space"} BY <2>1 DEF Urls!Folded
  <2>2. CASE x \in {"e-acute", "%c3%a9"} BY <2>2 DEF Urls!Folded
  <2>3. CASE x \notin {"%61", "%62", "%2f", "space", "e-acute", "%c3%a9"}
    <3>1. Urls!Folded(x) = x BY <2>3 DEF Urls!Folded
    <3>. QED BY <2>3, <3>1
  <2>. QED BY <2>1, <2>2, <2>3
<1>2. Urls!SameCharacter(c, d) <=>
        \/ c = d
        \/ c \in {"a", "%61"} /\ d \in {"a", "%61"}
        \/ c \in {"b", "%62"} /\ d \in {"b", "%62"}
        \/ c \in {"%2f", "%2F"} /\ d \in {"%2f", "%2F"}
        \/ c \in {"space", "%20"} /\ d \in {"space", "%20"}
        \/ c \in {"e-acute", "%c3%a9", "%C3%A9"} /\ d \in {"e-acute", "%c3%a9", "%C3%A9"}
  BY DEF Urls!SameCharacter, Urls!Spellings
<1>. QED BY <1>1, <1>2

LEMMA TextsSame ==
  ASSUME NEW s \in Seq(Chars), NEW t \in Seq(Chars)
  PROVE  Urls!SameText(s, t) <=> Urls!CanonicalEscapes(s) = Urls!CanonicalEscapes(t)
<1>1. /\ Len(s) \in Nat /\ DOMAIN s = 1..Len(s) /\ Len(t) \in Nat /\ DOMAIN t = 1..Len(t)
  OBVIOUS
<1>2. Urls!SameText(s, t) <=>
        Len(s) = Len(t) /\ \A i \in DOMAIN s : Urls!Folded(s[i]) = Urls!Folded(t[i])
  BY FoldedSame, Zenon DEF Urls!SameText
<1>3. ASSUME Len(s) = Len(t), \A i \in DOMAIN s : Urls!Folded(s[i]) = Urls!Folded(t[i])
      PROVE  Urls!CanonicalEscapes(s) = Urls!CanonicalEscapes(t)
  <2>1. DOMAIN s = DOMAIN t BY <1>1, <1>3
  <2>. QED BY <1>3, <2>1 DEF Urls!CanonicalEscapes
<1>4. ASSUME Urls!CanonicalEscapes(s) = Urls!CanonicalEscapes(t)
      PROVE  Len(s) = Len(t) /\ \A i \in DOMAIN s : Urls!Folded(s[i]) = Urls!Folded(t[i])
  <2>1. DOMAIN s = DOMAIN t BY <1>4 DEF Urls!CanonicalEscapes
  <2>2. 1..Len(s) = 1..Len(t) BY <1>1, <2>1
  <2>3. Len(s) = Len(t) BY <1>1, <2>2, SameLength
  <2>4. \A i \in DOMAIN s : Urls!CanonicalEscapes(s)[i] = Urls!Folded(s[i])
    BY Zenon DEF Urls!CanonicalEscapes
  <2>5. \A i \in DOMAIN t : Urls!CanonicalEscapes(t)[i] = Urls!Folded(t[i])
    BY Zenon DEF Urls!CanonicalEscapes
  <2>. QED BY <1>4, <2>1, <2>3, <2>4, <2>5
<1>. QED BY <1>2, <1>3, <1>4

\* A parameter as the key as it is written, which time it is given and its value; and those
\* of a query.
ParameterOf(q, i) ==
  <<Urls!CanonicalEscapes(q[i].key),
    Urls!Cardinality({j \in 1..i :
      Urls!CanonicalEscapes(q[j].key) = Urls!CanonicalEscapes(q[i].key)}),
    Urls!CanonicalEscapes(q[i].value)>>

Parameters(q) == {ParameterOf(q, i) : i \in DOMAIN q}

LEMMA TriplesSame ==
  ASSUME NEW a, NEW b, NEW c, NEW d, NEW e, NEW f
  PROVE  <<a, b, c>> = <<d, e, f>> <=> a = d /\ b = e /\ c = f
<1>1. <<a, b, c>> = <<d, e, f>> => a = d /\ b = e /\ c = f OBVIOUS
<1>2. a = d /\ b = e /\ c = f => <<a, b, c>> = <<d, e, f>> BY Zenon
<1>. QED BY <1>1, <1>2

\* Two queries give the same exactly if these are the same.
LEMMA QueriesSame ==
  ASSUME NEW q \in Seq(Plain), NEW r \in Seq(Plain)
  PROVE  Urls!SameQuery(q, r) <=> Parameters(q) = Parameters(r)
<1>1. ASSUME NEW x \in Seq(Plain), NEW i \in DOMAIN x
      PROVE  x[i].key \in Seq(Chars) /\ x[i].value \in Seq(Chars)
  <2>1. x[i] \in Plain OBVIOUS
  <2>2. x[i].key \in PlainKey /\ x[i].value \in Seq(Chars) BY <2>1 DEF Plain
  <2>3. x[i].key \in Seq(Letters) BY <2>2 DEF PlainKey, Keys
  <2>4. Letters \subseteq Chars BY DEF Letters, Chars
  <2>5. Seq(Letters) \subseteq Seq(Chars) BY <2>4
  <2>. QED BY <2>2, <2>3, <2>5
<1>2. ASSUME NEW x \in Seq(Plain), NEW i \in DOMAIN x
      PROVE  Urls!Turn(x, i)
               = Urls!Cardinality({j \in 1..i :
                   Urls!CanonicalEscapes(x[j].key) = Urls!CanonicalEscapes(x[i].key)})
  <2>1. \A j \in 1..i : j \in DOMAIN x OBVIOUS
  <2>2. \A j \in 1..i : Urls!SameText(x[j].key, x[i].key)
          <=> Urls!CanonicalEscapes(x[j].key) = Urls!CanonicalEscapes(x[i].key)
    BY <1>1, <2>1, TextsSame
  <2>3. {j \in 1..i : Urls!SameText(x[j].key, x[i].key)}
          = {j \in 1..i : Urls!CanonicalEscapes(x[j].key) = Urls!CanonicalEscapes(x[i].key)}
    BY <2>2
  <2>. QED BY <2>3, Zenon DEF Urls!Turn
<1>3. ASSUME NEW i \in DOMAIN q, NEW j \in DOMAIN r
      PROVE  Urls!SameParameter(q, i, r, j) <=> ParameterOf(q, i) = ParameterOf(r, j)
  <2>1. Urls!SameText(q[i].key, r[j].key)
          <=> Urls!CanonicalEscapes(q[i].key) = Urls!CanonicalEscapes(r[j].key)
    BY <1>1, TextsSame
  <2>2. Urls!SameText(q[i].value, r[j].value)
          <=> Urls!CanonicalEscapes(q[i].value) = Urls!CanonicalEscapes(r[j].value)
    BY <1>1, TextsSame
  <2>3. /\ ParameterOf(q, i) = <<Urls!CanonicalEscapes(q[i].key), Urls!Turn(q, i),
                                 Urls!CanonicalEscapes(q[i].value)>>
        /\ ParameterOf(r, j) = <<Urls!CanonicalEscapes(r[j].key), Urls!Turn(r, j),
                                 Urls!CanonicalEscapes(r[j].value)>>
    BY <1>2, Zenon DEF ParameterOf
  <2>4. Urls!SameParameter(q, i, r, j) <=>
          /\ Urls!CanonicalEscapes(q[i].key) = Urls!CanonicalEscapes(r[j].key)
          /\ Urls!Turn(q, i) = Urls!Turn(r, j)
          /\ Urls!CanonicalEscapes(q[i].value) = Urls!CanonicalEscapes(r[j].value)
    BY <2>1, <2>2, Zenon DEF Urls!SameParameter
  <2>. QED BY <2>3, <2>4, TriplesSame
<1>4. Urls!SameQuery(q, r) <=>
        /\ \A i \in DOMAIN q : \E j \in DOMAIN r : ParameterOf(q, i) = ParameterOf(r, j)
        /\ \A j \in DOMAIN r : \E i \in DOMAIN q : ParameterOf(q, i) = ParameterOf(r, j)
  BY <1>3, Zenon DEF Urls!SameQuery
<1>5. Parameters(q) = Parameters(r) <=>
        /\ \A i \in DOMAIN q : \E j \in DOMAIN r : ParameterOf(q, i) = ParameterOf(r, j)
        /\ \A j \in DOMAIN r : \E i \in DOMAIN q : ParameterOf(q, i) = ParameterOf(r, j)
  <2>1. /\ \A x : x \in Parameters(q) <=> \E i \in DOMAIN q : x = ParameterOf(q, i)
        /\ \A x : x \in Parameters(r) <=> \E j \in DOMAIN r : x = ParameterOf(r, j)
    BY Zenon DEF Parameters
  <2>2. Parameters(q) = Parameters(r) <=>
          \A x : x \in Parameters(q) <=> x \in Parameters(r)
    <3>. HIDE DEF Parameters
    <3>. QED OBVIOUS
  <2>3. ASSUME Parameters(q) = Parameters(r)
        PROVE  /\ \A i \in DOMAIN q : \E j \in DOMAIN r : ParameterOf(q, i) = ParameterOf(r, j)
               /\ \A j \in DOMAIN r : \E i \in DOMAIN q : ParameterOf(q, i) = ParameterOf(r, j)
    <3>1. \A i \in DOMAIN q : ParameterOf(q, i) \in Parameters(r) BY <2>1, <2>3, Zenon
    <3>2. \A j \in DOMAIN r : ParameterOf(r, j) \in Parameters(q) BY <2>1, <2>3, Zenon
    <3>. QED BY <2>1, <3>1, <3>2, Zenon
  <2>4. ASSUME \A i \in DOMAIN q : \E j \in DOMAIN r : ParameterOf(q, i) = ParameterOf(r, j),
               \A j \in DOMAIN r : \E i \in DOMAIN q : ParameterOf(q, i) = ParameterOf(r, j)
        PROVE  Parameters(q) = Parameters(r)
    <3>1. \A x : x \in Parameters(q) => x \in Parameters(r) BY <2>1, <2>4, Zenon
    <3>2. \A x : x \in Parameters(r) => x \in Parameters(q) BY <2>1, <2>4, Zenon
    <3>. QED BY <2>2, <3>1, <3>2, Zenon
  <2>. QED BY <2>3, <2>4, Zenon
<1>. QED BY <1>4, <1>5

\* What these say of a query with plain keys.
LEMMA ParametersAre ==
  ASSUME NEW q \in Seq(Plain) PROVE Parameters(q) = GivenTo(q, Len(q))
<1>1. DOMAIN q = 1..Len(q) /\ \A i \in 1..Len(q) : q[i].key \in PlainKey
  <2>1. DOMAIN q = 1..Len(q) OBVIOUS
  <2>2. \A i \in 1..Len(q) : q[i] \in Plain OBVIOUS
  <2>. QED BY <2>1, <2>2 DEF Plain
<1>2. \A i \in 1..Len(q) : Urls!CanonicalEscapes(q[i].key) = q[i].key BY <1>1, PlainFolded
<1>3. ASSUME NEW i \in 1..Len(q) PROVE ParameterOf(q, i) = Given(q, i)
  <2>1. \A j \in 1..i : j \in 1..Len(q) OBVIOUS
  <2>2. \A j \in 1..i : Urls!CanonicalEscapes(q[j].key) = q[j].key BY <1>2, <2>1
  <2>3. {j \in 1..i : Urls!CanonicalEscapes(q[j].key) = Urls!CanonicalEscapes(q[i].key)}
          = {j \in 1..i : q[j].key = q[i].key}
    BY <1>2, <2>2
  <2>4. Urls!Cardinality({j \in 1..i :
           Urls!CanonicalEscapes(q[j].key) = Urls!CanonicalEscapes(q[i].key)})
          = CountTo(q, i, q[i].key)
    BY <2>3, SameCount DEF CountTo
  <2>. QED BY <1>2, <2>4 DEF Given, ParameterOf
<1>4. Parameters(q) = {ParameterOf(q, i) : i \in 1..Len(q)} BY <1>1, Zenon DEF Parameters
<1>. QED BY <1>3, <1>4 DEF GivenTo

\* Two queries with plain keys are written the same exactly if they give the same.
LEMMA WrittenSame ==
  ASSUME NEW q \in Seq(Plain), NEW r \in Seq(Plain)
  PROVE  Written(q) = Written(r) <=> Parameters(q) = Parameters(r)
<1>. DEFINE s == Urls!SortedQuery(q)
            t == Urls!SortedQuery(r)
<1>1. s \in Sorted /\ t \in Sorted /\ Mirrors(q, s, Len(q)) /\ Mirrors(r, t, Len(r)) BY SortKeeps
<1>. HIDE DEF s, t
<1>2. /\ s \in Seq(Plain) /\ t \in Seq(Plain) /\ Len(s) \in Nat /\ Len(t) \in Nat
      /\ DOMAIN s = 1..Len(s) /\ DOMAIN t = 1..Len(t)
  BY <1>1 DEF Sorted
<1>3. /\ Parameters(q) = GivenTo(s, Len(s)) /\ Parameters(r) = GivenTo(t, Len(t))
  BY <1>1, ParametersAre DEF Mirrors
<1>4. /\ Written(q) = [i \in 1..Len(s) |-> Urls!FoldedParameter(s[i])]
      /\ Written(r) = [i \in 1..Len(t) |-> Urls!FoldedParameter(t[i])]
  BY <1>2, Zenon DEF Written, s, t
<1>5. /\ \A i \in 1..Len(s) : Urls!FoldedParameter(s[i])
           = [key |-> s[i].key, value |-> Urls!CanonicalEscapes(s[i].value)]
      /\ \A i \in 1..Len(t) : Urls!FoldedParameter(t[i])
           = [key |-> t[i].key, value |-> Urls!CanonicalEscapes(t[i].value)]
  <2>1. \A p \in Plain : Urls!FoldedParameter(p)
          = [key |-> p.key, value |-> Urls!CanonicalEscapes(p.value)]
    <3>. TAKE p \in Plain
    <3>1. p.key \in PlainKey BY DEF Plain
    <3>2. Urls!CanonicalEscapes(p.key) = p.key BY <3>1, PlainFolded
    <3>. QED BY <3>2 DEF Urls!FoldedParameter
  <2>2. (\A i \in 1..Len(s) : s[i] \in Plain) /\ (\A i \in 1..Len(t) : t[i] \in Plain) BY <1>2
  <2>. QED BY <2>1, <2>2
<1>6. ASSUME GivenTo(s, Len(s)) = GivenTo(t, Len(t)) PROVE Written(q) = Written(r)
  <2>1. SameTo(s, t, Len(s)) /\ SameTo(t, s, Len(t)) BY <1>1, <1>6, SameAll
  <2>2. Len(s) = Len(t)
    <3>1. Len(s) <= Len(t) BY <2>1 DEF SameTo
    <3>2. Len(t) <= Len(s) BY <2>1 DEF SameTo
    <3>3. Len(s) \in Nat /\ Len(t) \in Nat BY <1>2
    <3>. QED BY <3>1, <3>2, <3>3
  <2>3. \A i \in 1..Len(s) : Urls!FoldedParameter(s[i]) = Urls!FoldedParameter(t[i])
    <3>. TAKE i \in 1..Len(s)
    <3>1. s[i].key = t[i].key
          /\ Urls!CanonicalEscapes(s[i].value) = Urls!CanonicalEscapes(t[i].value)
      BY <2>1 DEF SameTo
    <3>. QED BY <1>5, <2>2, <3>1
  <2>. QED BY <1>4, <2>2, <2>3
<1>7. ASSUME Written(q) = Written(r) PROVE GivenTo(s, Len(s)) = GivenTo(t, Len(t))
  <2>1. Len(s) = Len(t)
    <3>1. 1..Len(s) = 1..Len(t) BY <1>4, <1>7
    <3>. QED BY <1>2, <3>1, SameLength
  <2>2. \A i \in 1..Len(s) : Urls!FoldedParameter(s[i]) = Urls!FoldedParameter(t[i])
    BY <1>4, <1>7, <2>1
  <2>3. \A i \in 1..Len(s) : s[i].key = t[i].key
          /\ Urls!CanonicalEscapes(s[i].value) = Urls!CanonicalEscapes(t[i].value)
    <3>. TAKE i \in 1..Len(s)
    <3>1. [key |-> s[i].key, value |-> Urls!CanonicalEscapes(s[i].value)]
            = [key |-> t[i].key, value |-> Urls!CanonicalEscapes(t[i].value)]
      BY <1>5, <2>1, <2>2
    <3>. QED BY <3>1
  <2>4. SameTo(s, t, Len(s)) BY <1>2, <2>1, <2>3 DEF SameTo
  <2>5. \A i \in 1..Len(s) : \A key : CountTo(s, i, key) = CountTo(t, i, key)
    BY <1>2, <2>4, SameCounts
  <2>6. \A i \in 1..Len(s) : Given(s, i) = Given(t, i) BY <2>3, <2>5 DEF Given
  <2>. QED BY <2>1, <2>6 DEF GivenTo
<1>. QED BY <1>3, <1>6, <1>7

-----------------------------------------------------------------------------
(***************************************************************************)
(* Urls: the answers are right for every two texts.                        *)
(***************************************************************************)

\* The parts of two URLs besides their paths and queries.
SameRest(u, v) ==
  /\ u.scheme = v.scheme /\ u.host = v.host /\ u.port = v.port
  /\ u.control = v.control /\ u.fragment = v.fragment

\* A path as CanonicalKey writes it.
WrittenPath(p) == [i \in DOMAIN p |-> Urls!CanonicalEscapes(p[i])]

\* Two canonical keys are equal part by part, and two URLs are one page part by part.
LEMMA KeyParts ==
  ASSUME NEW u \in UrlSet, NEW v \in UrlSet
  PROVE  Urls!CanonicalKey(u) = Urls!CanonicalKey(v) <=>
           /\ SameRest(u, v)
           /\ WrittenPath(u.path) = WrittenPath(v.path)
           /\ Written(u.query) = Written(v.query)
<1>. DEFINE Key(x, p, q) ==
       [scheme |-> x.scheme, host |-> x.host, port |-> x.port, path |-> p, query |-> q,
        control |-> x.control, fragment |-> x.fragment]
<1>1. ASSUME NEW x \in UrlSet
      PROVE  Urls!CanonicalKey(x) = Key(x, WrittenPath(x.path), Written(x.query))
  <2>1. Urls!CanonicalKey(x) = [x EXCEPT !.path = WrittenPath(x.path), !.query = Written(x.query)]
    BY Zenon DEF Urls!CanonicalKey, WrittenPath, Written
  <2>. QED BY <2>1 DEF UrlSet
<1>2. Urls!CanonicalKey(u) = Key(u, WrittenPath(u.path), Written(u.query)) BY <1>1
<1>3. Urls!CanonicalKey(v) = Key(v, WrittenPath(v.path), Written(v.query)) BY <1>1
<1>4. ASSUME NEW p, NEW q, NEW r, NEW s
      PROVE  Key(u, p, q) = Key(v, r, s) <=> SameRest(u, v) /\ p = r /\ q = s
  BY DEF SameRest
<1>. HIDE DEF Key
<1>. QED BY <1>2, <1>3, <1>4

LEMMA PageParts ==
  ASSUME NEW u \in UrlSet, NEW v \in UrlSet
  PROVE  Urls!SamePage(u, v) <=>
           /\ SameRest(u, v)
           /\ WrittenPath(u.path) = WrittenPath(v.path)
           /\ Urls!SameQuery(u.query, v.query)
<1>1. [u EXCEPT !.path = <<>>, !.query = <<>>] = [v EXCEPT !.path = <<>>, !.query = <<>>]
        <=> SameRest(u, v)
  BY DEF UrlSet, SameRest
<1>2. /\ Len(u.path) \in Nat /\ DOMAIN u.path = 1..Len(u.path)
      /\ Len(v.path) \in Nat /\ DOMAIN v.path = 1..Len(v.path)
  <2>1. u.path \in Segments /\ v.path \in Segments BY DEF UrlSet
  <2>. QED BY <2>1 DEF Segments
<1>3. WrittenPath(u.path) = WrittenPath(v.path) <=>
        /\ Len(u.path) = Len(v.path)
        /\ \A i \in DOMAIN u.path :
             Urls!CanonicalEscapes(u.path[i]) = Urls!CanonicalEscapes(v.path[i])
  <2>1. ASSUME WrittenPath(u.path) = WrittenPath(v.path)
        PROVE  /\ Len(u.path) = Len(v.path)
               /\ \A i \in DOMAIN u.path :
                    Urls!CanonicalEscapes(u.path[i]) = Urls!CanonicalEscapes(v.path[i])
    <3>1. DOMAIN u.path = DOMAIN v.path BY <2>1 DEF WrittenPath
    <3>2. 1..Len(u.path) = 1..Len(v.path) BY <1>2, <3>1
    <3>3. Len(u.path) = Len(v.path) BY <1>2, <3>2, SameLength
    <3>4. \A i \in DOMAIN u.path : WrittenPath(u.path)[i] = Urls!CanonicalEscapes(u.path[i])
      BY Zenon DEF WrittenPath
    <3>5. \A i \in DOMAIN v.path : WrittenPath(v.path)[i] = Urls!CanonicalEscapes(v.path[i])
      BY Zenon DEF WrittenPath
    <3>. QED BY <2>1, <3>1, <3>3, <3>4, <3>5
  <2>2. ASSUME Len(u.path) = Len(v.path),
               \A i \in DOMAIN u.path :
                 Urls!CanonicalEscapes(u.path[i]) = Urls!CanonicalEscapes(v.path[i])
        PROVE  WrittenPath(u.path) = WrittenPath(v.path)
    <3>1. DOMAIN u.path = DOMAIN v.path BY <1>2, <2>2
    <3>. QED BY <2>2, <3>1 DEF WrittenPath
  <2>. QED BY <2>1, <2>2
<1>4. Len(u.path) = Len(v.path) =>
        \A i \in DOMAIN u.path :
          Urls!SameText(u.path[i], v.path[i])
            <=> Urls!CanonicalEscapes(u.path[i]) = Urls!CanonicalEscapes(v.path[i])
  <2>1. u.path \in Segments /\ v.path \in Segments BY DEF UrlSet
  <2>2. /\ \A i \in 1..Len(u.path) : u.path[i] \in Seq(Chars)
        /\ \A i \in 1..Len(v.path) : v.path[i] \in Seq(Chars)
    BY <2>1 DEF Segments
  <2>. QED BY <1>2, <2>2, TextsSame
<1>5. /\ Len(u.path) = Len(v.path)
      /\ \A i \in DOMAIN u.path : Urls!SameText(u.path[i], v.path[i])
      <=> WrittenPath(u.path) = WrittenPath(v.path)
  BY <1>3, <1>4, Zenon
<1>. QED BY <1>1, <1>5, Zenon DEF Urls!SamePage

LEMMA PlainQuery ==
  ASSUME NEW u \in UrlSet, Urls!PlainKeys(u) PROVE u.query \in Seq(Plain)
<1>. DEFINE q == u.query
<1>1. q \in Seq(Parameter) BY DEF UrlSet
<1>2. ASSUME NEW i \in 1..Len(q) PROVE q[i] \in Plain
  <2>1. i \in DOMAIN q /\ q[i] \in Parameter BY <1>1
  <2>2. \A c \in Urls!ToSet(q[i].key) : Urls!Folded(c) = c BY <2>1, Zenon DEF Urls!PlainKeys
  <2>3. q[i].key \in Keys /\ q[i].value \in Seq(Chars) BY <2>1 DEF Parameter
  <2>4. \A j \in 1..Len(q[i].key) : q[i].key[j] \in Urls!ToSet(q[i].key)
    BY <2>3 DEF Keys, Urls!ToSet
  <2>5. q[i].key \in PlainKey BY <2>2, <2>3, <2>4 DEF PlainKey
  <2>6. q[i] = [key |-> q[i].key, value |-> q[i].value] BY <2>1 DEF Parameter
  <2>. QED BY <2>3, <2>5, <2>6 DEF Plain
<1>3. DOMAIN q = 1..Len(q) /\ Len(q) \in Nat /\ q = [i \in DOMAIN q |-> q[i]] BY <1>1
<1>4. q \in [1..Len(q) -> Plain] BY <1>2, <1>3
<1>. HIDE DEF q
<1>5. q \in Seq(Plain) BY <1>3, <1>4
<1>. QED BY <1>5 DEF q

\* URLs with plain keys share their canonical key exactly if they are one page.
LEMMA KeyTells ==
  ASSUME NEW u \in UrlSet, NEW v \in UrlSet, Urls!PlainKeys(u), Urls!PlainKeys(v)
  PROVE  Urls!CanonicalKey(u) = Urls!CanonicalKey(v) <=> Urls!SamePage(u, v)
<1>1. u.query \in Seq(Plain) /\ v.query \in Seq(Plain) BY PlainQuery
<1>2. Written(u.query) = Written(v.query) <=> Parameters(u.query) = Parameters(v.query)
  BY <1>1, WrittenSame
<1>3. Urls!SameQuery(u.query, v.query) <=> Parameters(u.query) = Parameters(v.query)
  BY <1>1, QueriesSame
<1>. QED BY <1>2, <1>3, KeyParts, PageParts

\* The inductive invariant: what was asked are texts, and the answer that of the code.
UrlsInv ==
  /\ left \in TextSet /\ right \in TextSet
  /\ answer = {} \/ answer = {Urls!Answer}

\* The path, the site and the page of any two texts are told exactly, however they are spelled.
THEOREM EverySpellingIsNoMatter ==
  ASSUME left \in TextSet, right \in TextSet, answer = {} \/ answer = {Urls!Answer}
  PROVE  Urls!SpellingIsNoMatter
<1>. DEFINE Keys2 == {<<Urls!CanonicalKey(u), Urls!CanonicalKey(w)>> :
                        u \in Urls!Normalize(left), w \in Urls!Normalize(right)}
            InScope == \E seed \in Urls!Normalize(left) : Urls!Allows(seed, right)
<1>0. Urls!Answer = [normal |-> Urls!Normalize(left), keys |-> Keys2, allows |-> InScope]
  BY DEF Urls!Answer
<1>1. InScope \in BOOLEAN BY Zenon
<1>. HIDE DEF Keys2, InScope
<1>2. ASSUME NEW v \in answer
      PROVE  v.normal = Urls!Normalize(left) /\ v.keys = Keys2 /\ (v.allows <=> InScope)
  <2>1. v = Urls!Answer OBVIOUS
  <2>. QED BY <1>0, <1>1, <2>1
<1>3. Urls!DotsAreResolved
  <2>. SUFFICES ASSUME NEW v \in answer, NEW url \in v.normal
                PROVE  IF left.path = <<>> THEN url.path = <<<<>>, <<>>>>
                       ELSE Urls!IsResolved(Urls!Strip(left).path, url.path)
    BY Zenon DEF Urls!DotsAreResolved
  <2>1. url \in Urls!Normalize(left) BY <1>2
  <2>. QED BY <2>1, PathResolved
<1>4. Urls!ScopeIsHostAndPort
  <2>. SUFFICES ASSUME NEW v \in answer, v.normal # {}, Urls!Normalize(right) # {}
                PROVE  v.allows <=> SameSite(left, right)
    BY Zenon DEF Urls!ScopeIsHostAndPort, SameSite
  <2>1. Urls!Normalize(left) # {} BY <1>2
  <2>2. InScope <=> SameSite(left, right) BY <2>1, ScopeOfBoth DEF InScope
  <2>. QED BY <1>2, <2>2
<1>5. Urls!KeyIsIdentity
  <2>. SUFFICES ASSUME NEW u \in Urls!Normalize(left), NEW v \in Urls!Normalize(right),
                       Urls!PlainKeys(u), Urls!PlainKeys(v), NEW a \in answer, NEW k \in a.keys
                PROVE  k[1] = k[2] <=> Urls!SamePage(u, v)
    BY Zenon DEF Urls!KeyIsIdentity
  <2>1. /\ u \in UrlSet /\ Urls!Normalize(left) = {u}
        /\ v \in UrlSet /\ Urls!Normalize(right) = {v}
    BY Normalized
  <2>2. a.keys = {<<Urls!CanonicalKey(u), Urls!CanonicalKey(v)>>}
    BY <1>2, <2>1 DEF Keys2
  <2>3. k[1] = Urls!CanonicalKey(u) /\ k[2] = Urls!CanonicalKey(v) BY <2>2
  <2>. QED BY <2>1, <2>3, KeyTells
<1>. QED BY <1>3, <1>4, <1>5 DEF Urls!SpellingIsNoMatter

LEMMA UrlsNext == ASSUME UrlsInv, Urls!Next \/ UNCHANGED urlsVars PROVE UrlsInv'
<1>. USE DEF UrlsInv
<1>1. UNCHANGED <<left, right>> BY DEF Urls!Next, Urls!Ask, Urls!Stutter, Urls!vars, urlsVars
<1>2. Urls!Answer' = Urls!Answer BY <1>1 DEF Urls!Answer, Urls!Allows
<1>3. answer' = answer \/ answer' = {Urls!Answer}
  BY DEF Urls!Next, Urls!Ask, Urls!Stutter, Urls!vars, urlsVars
<1>. QED BY <1>1, <1>2, <1>3

-----------------------------------------------------------------------------
(***************************************************************************)
(* Urls: the questions.                                                    *)
(***************************************************************************)

\* The texts that are asked about are texts.
UrlPaths == {p \in Segments : p = <<>> \/ p[1] = <<>>}

LEMMA UrlTyped ==
  ASSUME NEW s \in {"http", "HTTP", "https", "ftp"}, NEW h \in Hosts, NEW n \in Int,
         NEW p \in UrlPaths, NEW q \in Seq(Parameter)
  PROVE  Url(s, h, n, p, q) \in TextSet
BY DEF Url, TextSet, UrlPaths

LEMMA EmptyTyped == <<>> \in UrlPaths /\ <<>> \in Seq(Parameter)
BY DEF UrlPaths, Segments

LEMMA OnPathTyped == ASSUME NEW p \in UrlPaths PROVE OnPath(p) \in TextSet
<1>1. "h" \in Hosts /\ NoPort \in Int /\ "http" \in {"http", "HTTP", "https", "ftp"}
  BY DEF Hosts, NoPort
<1>. QED BY <1>1, EmptyTyped, UrlTyped DEF OnPath

LEMMA WithQueryTyped == ASSUME NEW q \in Seq(Parameter) PROVE WithQuery(q) \in TextSet
<1>1. "h" \in Hosts /\ NoPort \in Int /\ "http" \in {"http", "HTTP", "https", "ftp"}
  BY DEF Hosts, NoPort
<1>. QED BY <1>1, EmptyTyped, UrlTyped DEF WithQuery

LEMMA MarkedTyped ==
  ASSUME NEW t \in TextSet, NEW f \in BOOLEAN
  PROVE  [t EXCEPT !.fragment = f] \in TextSet /\ [t EXCEPT !.control = f] \in TextSet
<1>1. [t EXCEPT !.fragment = f] \in TextSet BY DEF TextSet
<1>2. [t EXCEPT !.control = f] \in TextSet BY DEF TextSet
<1>. QED BY <1>1, <1>2

LEMMA PathsTyped == Paths \subseteq UrlPaths
<1>. DEFINE Names2 == {<<"a">>, <<"b", "space">>, <<>>, <<".">>, <<".", ".">>}
            All == {<<<<>>>> \o p : p \in BoundedSeq(Names2, 5)}
<1>1. Names2 \subseteq Seq(Chars)
  <2>1. "a" \in Chars /\ "b" \in Chars /\ "space" \in Chars /\ "." \in Chars BY DEF Chars
  <2>. QED BY <2>1, ShortTyped
<1>2. BoundedSeq(Names2, 5) \subseteq Segments BY <1>1, BoundedIn DEF Segments
<1>. HIDE DEF Names2
<1>3. ASSUME NEW p \in Segments PROVE <<<<>>>> \o p \in UrlPaths
  <2>. DEFINE one == <<<<>>>>
  <2>1. one \in Seq(Seq(Chars)) /\ Len(one) = 1 /\ one[1] = <<>> OBVIOUS
  <2>. HIDE DEF one
  <2>2. p \in Seq(Seq(Chars)) /\ Len(p) \in Nat BY DEF Segments
  <2>3. /\ one \o p \in Seq(Seq(Chars)) /\ Len(one \o p) = Len(one) + Len(p)
        /\ \A i \in 1..Len(one) + Len(p) :
             (one \o p)[i] = IF i <= Len(one) THEN one[i] ELSE p[i - Len(one)]
    BY <2>1, <2>2, ConcatProperties
  <2>4. 1 \in 1..Len(one) + Len(p) /\ 1 <= Len(one) BY <2>1, <2>2
  <2>5. (one \o p)[1] = <<>> BY <2>1, <2>3, <2>4
  <2>6. one \o p \in UrlPaths BY <2>3, <2>5 DEF UrlPaths, Segments
  <2>. QED BY <2>6 DEF one
<1>4. Paths = All \cup {<<>>} BY DEF Paths, Names2
<1>5. All \subseteq UrlPaths BY <1>2, <1>3
<1>. HIDE DEF All
<1>. QED BY <1>4, <1>5, EmptyTyped

LEMMA PathQuestionsTyped == PathQuestions \subseteq TextSet \X TextSet
<1>. DEFINE All == {[OnPath(p) EXCEPT !.fragment = f] : p \in Paths, f \in BOOLEAN}
            none == [OnPath(<<>>) EXCEPT !.control = TRUE]
<1>1. All \subseteq TextSet
  <2>1. ASSUME NEW p \in Paths, NEW f \in BOOLEAN
        PROVE  [OnPath(p) EXCEPT !.fragment = f] \in TextSet
    BY PathsTyped, OnPathTyped, MarkedTyped
  <2>. QED BY <2>1
<1>2. none \in TextSet
  <2>1. OnPath(<<>>) \in TextSet BY EmptyTyped, OnPathTyped
  <2>2. TRUE \in BOOLEAN OBVIOUS
  <2>. QED BY <2>1, <2>2, MarkedTyped
<1>3. PathQuestions = All \X {none} BY DEF PathQuestions
<1>. HIDE DEF All, none
<1>. QED BY <1>1, <1>2, <1>3

LEMMA EscapedTyped == Escaped \subseteq TextSet
<1>. DEFINE Some == {"a", "%61", "%2f", "%2F", "e-acute", "%c3%a9", "space"}
<1>1. Some \subseteq Chars BY DEF Chars
<1>2. BoundedSeq(Some, 2) \subseteq Seq(Chars) BY <1>1, BoundedIn
<1>3. ASSUME NEW s \in Seq(Chars) PROVE OnPath(<<<<>>, s>>) \in TextSet
  <2>1. <<>> \in Seq(Chars) OBVIOUS
  <2>2. <<<<>>, s>> \in Seq(Seq(Chars)) BY <2>1, ShortTyped
  <2>3. <<<<>>, s>> \in UrlPaths BY <2>2 DEF UrlPaths, Segments
  <2>. QED BY <2>3, OnPathTyped
<1>. QED BY <1>2, <1>3 DEF Escaped

LEMMA QueriesTyped ==
  ASSUME NEW A, NEW B, A \subseteq Keys, B \subseteq Seq(Chars), NEW n \in Nat
  PROVE  Queries(A, B, n) \subseteq TextSet
<1>1. [key : A, value : B] \subseteq Parameter BY DEF Parameter
<1>2. BoundedSeq([key : A, value : B], n) \subseteq Seq(Parameter) BY <1>1, BoundedIn
<1>. QED BY <1>2, WithQueryTyped DEF Queries

LEMMA QuerySetsTyped == PlainQueries \subseteq TextSet /\ EscapedQueries \subseteq TextSet
<1>1. /\ {<<"a">>, <<"b">>} \subseteq Keys /\ {<<"a">>, <<"a", "b">>} \subseteq Keys
      /\ {<<"a">>, <<"%61">>, <<"%62">>} \subseteq Keys
  <2>1. "a" \in Letters /\ "b" \in Letters /\ "%61" \in Letters /\ "%62" \in Letters
    BY DEF Letters
  <2>. QED BY <2>1, ShortTyped DEF Keys
<1>2. /\ {<<"a">>, <<"%61">>, <<"b">>} \subseteq Seq(Chars)
      /\ {<<"a">>, <<"b">>} \subseteq Seq(Chars)
  <2>1. "a" \in Chars /\ "b" \in Chars /\ "%61" \in Chars BY DEF Chars
  <2>. QED BY <2>1, ShortTyped
<1>3. 2 \in Nat /\ 3 \in Nat OBVIOUS
<1>. QED BY <1>1, <1>2, <1>3, QueriesTyped DEF PlainQueries, EscapedQueries

LEMMA SitesTyped == Sites \subseteq TextSet
<1>. DEFINE Schemes == {"http", "HTTP", "https", "ftp"}
            Ports == {NoPort, BadPort, 80, 443, 8080}
            All == {Url(s, h, n, <<>>, <<>>) : s \in Schemes, h \in Hosts, n \in Ports}
<1>1. ASSUME NEW s \in Schemes, NEW h \in Hosts, NEW n \in Ports
      PROVE  Url(s, h, n, <<>>, <<>>) \in TextSet
  <2>1. n \in Int BY DEF NoPort, BadPort
  <2>2. s \in {"http", "HTTP", "https", "ftp"} OBVIOUS
  <2>. HIDE DEF Schemes, Ports
  <2>3. <<>> \in UrlPaths /\ <<>> \in Seq(Parameter) BY EmptyTyped
  <2>. QED BY <2>1, <2>2, <2>3, UrlTyped
<1>2. Sites = All BY DEF Sites, Hosts
<1>. HIDE DEF Schemes, Ports
<1>3. All \subseteq TextSet BY <1>1
<1>. QED BY <1>2, <1>3

LEMMA UrlsInit == ASSUME Urls!Init PROVE UrlsInv
<1>1. PICK q \in UrlsQuestions : left = q[1] /\ right = q[2] BY DEF Urls!Init
<1>2. q \in TextSet \X TextSet
  BY PathQuestionsTyped, EscapedTyped, QuerySetsTyped, SitesTyped DEF UrlsQuestions
<1>3. answer = {} BY DEF Urls!Init
<1>. QED BY <1>1, <1>2, <1>3 DEF UrlsInv

-----------------------------------------------------------------------------
(***************************************************************************)
(* One part runs at a time, and it stays that one.                         *)
(***************************************************************************)

IInv ==
  /\ part = "cli" => CliInv
  /\ part = "submission" => SubmissionInv
  /\ part = "startup" => StartupInv
  /\ part = "load" => LoadInv
  /\ part = "rules" => RulesInv
  /\ part = "urls" => UrlsInv

LEMMA Invariance == Spec => []IInv
<1>1. Init => IInv
  BY CliInit, SubmissionInit, StartupInit, LoadInit, RulesInit, UrlsInit DEF Init, IInv
<1>2. IInv /\ [Next]_vars => IInv'
  <2> SUFFICES ASSUME IInv, [Next]_vars
               PROVE  IInv'
    OBVIOUS
  <2>1. UNCHANGED part
    BY DEF Next, vars, CliStep, SubmissionStep, StartupStep, LoadStep, RulesStep, UrlsStep
  <2>2. CASE part = "cli"
    BY <2>1, <2>2, CliNext
       DEF IInv, Next, vars, CliStep, SubmissionStep, StartupStep, LoadStep, RulesStep, UrlsStep
  <2>3. CASE part = "submission"
    BY <2>1, <2>3, SubmissionNext
       DEF IInv, Next, vars, CliStep, SubmissionStep, StartupStep, LoadStep, RulesStep, UrlsStep
  <2>4. CASE part = "startup"
    BY <2>1, <2>4, StartupNext
       DEF IInv, Next, vars, CliStep, SubmissionStep, StartupStep, LoadStep, RulesStep, UrlsStep
  <2>5. CASE part = "load"
    BY <2>1, <2>5, LoadNext
       DEF IInv, Next, vars, CliStep, SubmissionStep, StartupStep, LoadStep, RulesStep, UrlsStep
  <2>6. CASE part = "rules"
    BY <2>1, <2>6, RulesNext
       DEF IInv, Next, vars, CliStep, SubmissionStep, StartupStep, LoadStep, RulesStep, UrlsStep
  <2>7. CASE part = "urls"
    BY <2>1, <2>7, UrlsNext
       DEF IInv, Next, vars, CliStep, SubmissionStep, StartupStep, LoadStep, RulesStep, UrlsStep
  <2>8. CASE part \notin {"cli", "submission", "startup", "load", "rules", "urls"}
    BY <2>1, <2>8 DEF IInv
  <2> QED BY <2>2, <2>3, <2>4, <2>5, <2>6, <2>7, <2>8
<1> QED BY <1>1, <1>2, PTL DEF Spec

\* A run of the command line prints every page it counts, in order, then its summary, and
\* exits with the code of its outcome, whichever signals come and streams fail on the way.
THEOREM RunsAreReported == Spec => []RunIsReported
<1>1. IInv => RunIsReported
  BY CliInvReports DEF IInv, RunIsReported
<1> QED BY <1>1, Invariance, PTL

\* What POST /crawls accepts a worker can run, whatever the limits are set to, and the
\* status of the response tells whether there is a row.
THEOREM AcceptanceIsBinding == Spec => []AcceptanceIsKept
<1>1. IInv => AcceptanceIsKept
  BY SubmissionInvIsKept DEF IInv, AcceptanceIsKept
<1> QED BY <1>1, Invariance, PTL

\* A host whose addresses changed after the API vetted them is not fetched from.
THEOREM SeedsArePublic == Spec => []FetchedIsPublic
<1>1. IInv => FetchedIsPublic
  BY SubmissionInvIsKept DEF IInv, SubmissionInv, FetchedIsPublic
<1> QED BY <1>1, Invariance, PTL

\* No environment gets a process to run with times that are no numbers, or with a lease
\* shorter than the heartbeat.
THEOREM SettingsAreUsable == Spec => []RunningCanLease
<1>1. IInv => RunningCanLease
  BY DEF IInv, StartupInv, RunningCanLease, Process!RunningCanLease
<1> QED BY <1>1, Invariance, PTL

\* Whatever the servers answer, every request for a robots.txt was vetted, no more of a
\* file than the cap is read, and what could not be read allows nothing.
THEOREM LoadsAreSafe == Spec => []LoadIsSafe
<1>1. IInv => LoadIsSafe
  BY LoadInvIsSafe DEF IInv, LoadIsSafe
<1> QED BY <1>1, Invariance, PTL

\* Every path that is asked about is allowed or not, and every delay applied, as the lines of
\* the file for this crawler say, although the code reads them group by group and matches
\* their patterns as regular expressions.
THEOREM PoliciesAreOurs == Spec => []PolicyIsOurs
<1>1. IInv => PolicyIsOurs
  BY EveryFileIsObeyed DEF IInv, RulesInv, PolicyIsOurs
<1> QED BY <1>1, Invariance, PTL

\* However two texts are spelled, the path requested is the one RFC 3986 gives, the site is the
\* seed's host and port, and two URLs have one key exactly if they name one page.
THEOREM SpellingsDoNotMatter == Spec => []SpellingIsNoMatter
<1>1. IInv => SpellingIsNoMatter
  BY EverySpellingIsNoMatter DEF IInv, UrlsInv, SpellingIsNoMatter
<1> QED BY <1>1, Invariance, PTL
=============================================================================
