---------------------------------- MODULE Cli ----------------------------------
(***************************************************************************)
(* One run of the command line: main() in its stages, the task that        *)
(* crawls, the task that draws the progress line, signals that come at any *)
(* moment, and a stdout and a terminal that may go away.  What the crawl   *)
(* does is in CrawlCore; here it prints pages and ends one way or another. *)
(***************************************************************************)
EXTENDS Naturals, Sequences

CONSTANTS
  MaxPages,    \* bound: pages of the crawl
  MaxSignals   \* bound: signals sent

VARIABLES
  args,      \* what was typed, and where it runs
  main,      \* the stage of main() and the exit code so far
  crawl,     \* pages counted, how it ends, and whether its task has
  progress,  \* the task of the progress line
  stdout,
  stderr,
  out,       \* what the reader of stdout got
  printed,   \* the summary reached stderr
  signals

vars == <<args, main, crawl, progress, stdout, stderr, out, printed, signals>>

EXIT_OK == 0
EXIT_INTERNAL == 1
EXIT_USAGE == 2
EXIT_SEED == 3
EXIT_ABORTED == 4
EXIT_INTERRUPTED == 130

\* tty: stderr is a terminal; handlers: the platform has asyncio signal handlers.
Args == [usable : BOOLEAN, format : {"text", "jsonl"}, quiet : BOOLEAN, verbose : BOOLEAN,
         tty : BOOLEAN, handlers : BOOLEAN]

Init ==
  /\ args \in Args
  /\ main = [stage |-> "start", code |-> EXIT_OK]
  /\ crawl = [pages |-> 0, outcome |-> "none", done |-> FALSE]
  /\ progress = "off"
  /\ stdout = "open"
  /\ stderr = "open"
  /\ out = <<>>
  /\ printed = FALSE
  /\ signals = 0

Exit(code) == main' = [stage |-> "exited", code |-> code]

-----------------------------------------------------------------------------
(***************************************************************************)
(* The world: a reader that closes its end, a disk that is full, a         *)
(* terminal that hangs up.                                                 *)
(***************************************************************************)

StdoutFails ==
  /\ main.stage # "exited" /\ stdout = "open"
  /\ stdout' \in {"closed", "full"}
  /\ UNCHANGED <<args, main, crawl, progress, stderr, out, printed, signals>>

StderrFails ==
  /\ main.stage # "exited" /\ stderr = "open"
  /\ stderr' = "gone"
  /\ UNCHANGED <<args, main, crawl, progress, stdout, out, printed, signals>>

-----------------------------------------------------------------------------
(***************************************************************************)
(* The two tasks.                                                          *)
(***************************************************************************)

Looping == main.stage \in {"await", "progress", "close"}

Crawling == Looping /\ crawl.outcome = "none"

\* What a write to stdout makes of the crawl: a closed pipe and any other error
\* are raised through the tasks, which end before the crawl does.
Written ==
  CASE stdout = "closed" -> "broken_pipe"
    [] stdout = "full" -> "error"
    [] OTHER -> "none"

Page ==
  /\ Crawling /\ crawl.pages < MaxPages
  /\ crawl' = [crawl EXCEPT !.pages = @ + 1, !.outcome = Written]
  /\ out' = IF stdout = "open" THEN Append(out, "page") ELSE out
  /\ UNCHANGED <<args, main, progress, stdout, stderr, printed, signals>>

\* An invalid seed is found before the first page, one that is refused also after
\* its redirects were printed.
CrawlEnds ==
  /\ Crawling
  /\ \E outcome \in {"finished", "aborted", "seed_invalid", "seed_refused", "error"} :
       /\ outcome = "seed_invalid" => crawl.pages = 0
       /\ outcome \in {"finished", "aborted"} => crawl.pages > 0
       /\ crawl' = [crawl EXCEPT !.outcome = outcome, !.done = TRUE]
  /\ UNCHANGED <<args, main, progress, stdout, stderr, out, printed, signals>>

\* The tasks of a crawl that was cancelled or has failed have all ended.
Settle ==
  /\ Looping /\ crawl.outcome # "none" /\ ~crawl.done
  /\ crawl' = [crawl EXCEPT !.done = TRUE]
  /\ UNCHANGED <<args, main, progress, stdout, stderr, out, printed, signals>>

\* The progress line is drawn again; it dies of a terminal that is gone.
Render ==
  /\ Looping /\ progress = "running" /\ stderr = "gone"
  /\ progress' = "dead"
  /\ UNCHANGED <<args, main, crawl, stdout, stderr, out, printed, signals>>

-----------------------------------------------------------------------------
(***************************************************************************)
(* Signals.                                                                *)
(***************************************************************************)

\* Mutant of Cancelled: a handler in the crawl swallows the cancellation.
CancelledSwallowed == crawl

\* task.cancel: without effect on a task that is over or on its way out.
Cancelled == [crawl EXCEPT !.outcome = IF @ = "none" THEN "cancelled" ELSE @]

\* An interrupted run first clears the progress line, which may fail.
InterruptedCode ==
  IF progress # "off" /\ stderr = "gone" THEN EXIT_INTERNAL ELSE EXIT_INTERRUPTED

\* The progress line is cancelled at once and awaited.
AfterCrawl == IF progress = "off" THEN "close" ELSE "progress"

\* The handler of asyncio cancels the crawl, whatever main() is doing.
Signal ==
  /\ args.handlers /\ Looping /\ signals < MaxSignals
  /\ signals' = signals + 1
  /\ crawl' = Cancelled
  /\ UNCHANGED <<args, main, progress, stdout, stderr, out, printed>>

\* Without handlers the runner cancels main(), and with it what main() awaits: the crawl
\* if it is not over yet, or the progress line, where the cancellation is suppressed.
\* A second signal is a KeyboardInterrupt at once.
KeyboardInterrupt ==
  /\ ~args.handlers /\ Looping /\ signals < MaxSignals
  /\ signals' = signals + 1
  /\ \/ /\ signals = 0 /\ main.stage = "await" /\ ~crawl.done
        /\ crawl' = Cancelled
        /\ UNCHANGED main
     \/ /\ signals = 0 /\ main.stage = "await" /\ crawl.done
        /\ main' = [stage |-> AfterCrawl, code |-> InterruptedCode]
        /\ UNCHANGED crawl
     \/ /\ signals = 0 /\ main.stage = "progress"
        /\ UNCHANGED <<main, crawl>>
     \/ /\ signals > 0 \/ main.stage = "close"
        /\ main' = [stage |-> "finish", code |-> EXIT_INTERRUPTED]
        /\ UNCHANGED crawl
  /\ UNCHANGED <<args, progress, stdout, stderr, out, printed>>

-----------------------------------------------------------------------------
(***************************************************************************)
(* main().                                                                 *)
(***************************************************************************)

BannerEnabled == ~args.quiet /\ (args.tty \/ args.verbose)

ProgressEnabled == args.tty /\ ~args.verbose /\ ~args.quiet

\* A usage error; a banner that cannot be printed; or the tasks are started.
Start ==
  /\ main.stage = "start"
  /\ \/ ~args.usable /\ Exit(EXIT_USAGE) /\ UNCHANGED progress
     \/ args.usable /\ BannerEnabled /\ stderr = "gone" /\ Exit(EXIT_INTERNAL) /\ UNCHANGED progress
     \/ /\ args.usable /\ (BannerEnabled => stderr = "open")
        /\ main' = [main EXCEPT !.stage = "await"]
        /\ progress' = IF ProgressEnabled THEN "running" ELSE "off"
  /\ UNCHANGED <<args, crawl, stdout, stderr, out, printed, signals>>

\* The exit code of each way a crawl ends.
CodeOf(outcome) ==
  CASE outcome \in {"finished", "broken_pipe"} -> EXIT_OK
    [] outcome = "aborted" -> EXIT_ABORTED
    [] outcome = "seed_invalid" -> EXIT_USAGE
    [] outcome = "seed_refused" -> EXIT_SEED
    [] outcome = "error" -> EXIT_INTERNAL
    [] outcome = "cancelled" -> InterruptedCode

AwaitCrawl ==
  /\ main.stage = "await" /\ crawl.done
  /\ main' = [stage |-> AfterCrawl, code |-> CodeOf(crawl.outcome)]
  /\ UNCHANGED <<args, crawl, progress, stdout, stderr, out, printed, signals>>

\* Mutant of ProgressCode: the CancelledError of the progress line is not suppressed.
ProgressCodeUnsuppressed ==
  IF progress = "dead" \/ stderr = "gone" THEN EXIT_INTERNAL ELSE EXIT_INTERRUPTED

\* What killed the progress line, or clearing it, takes the place of what the crawl raised.
ProgressCode ==
  IF progress = "dead" \/ stderr = "gone" THEN EXIT_INTERNAL ELSE main.code

AwaitProgress ==
  /\ main.stage = "progress"
  /\ main' = [stage |-> "close", code |-> ProgressCode]
  /\ progress' = "over"
  /\ UNCHANGED <<args, crawl, stdout, stderr, out, printed, signals>>

\* After the closed pipe of a page stdout is /dev/null, unless another error took its place.
Discarded ==
  IF crawl.outcome = "broken_pipe" /\ main.code = EXIT_OK THEN "null" ELSE stdout

Close ==
  /\ main.stage = "close"
  /\ main' = [main EXCEPT !.stage = "finish"]
  /\ stdout' = Discarded
  /\ UNCHANGED <<args, crawl, progress, stderr, out, printed, signals>>

WritesSummary == args.format = "jsonl"

\* A closed pipe is ignored; any other error of stdout is not caught any more.
AfterFinish ==
  IF WritesSummary /\ stdout = "full"
    THEN [stage |-> "exited", code |-> EXIT_INTERNAL]
    ELSE [main EXCEPT !.stage = "summary"]

\* reporter.finish: the last line of JSONL, nothing in text.
Finish ==
  /\ main.stage = "finish"
  /\ main' = AfterFinish
  /\ out' = IF WritesSummary /\ stdout = "open" THEN Append(out, "summary") ELSE out
  /\ stdout' = IF WritesSummary /\ stdout = "closed" THEN "null" ELSE stdout
  /\ UNCHANGED <<args, crawl, progress, stderr, printed, signals>>

PrintSummary ==
  /\ main.stage = "summary"
  /\ Exit(IF stderr = "gone" THEN EXIT_INTERNAL ELSE main.code)
  /\ printed' = (stderr = "open")
  /\ UNCHANGED <<args, crawl, progress, stdout, stderr, out, signals>>

Exited == main.stage = "exited" /\ UNCHANGED vars

MainStep == Start \/ AwaitCrawl \/ AwaitProgress \/ Close \/ Finish \/ PrintSummary

Next ==
  \/ MainStep
  \/ Page \/ CrawlEnds \/ Settle \/ Render
  \/ Signal \/ KeyboardInterrupt \/ StdoutFails \/ StderrFails
  \/ Exited

Spec == Init /\ [][Next]_vars

\* The loop keeps running its ready tasks; the crawl owes its cancellation an end, nothing more.
FairSpec ==
  /\ Spec
  /\ WF_vars(MainStep)
  /\ WF_vars(Settle)

-----------------------------------------------------------------------------

\* The run is over, and was not refused before the crawl began.
Ran == main.stage = "exited" /\ crawl.outcome # "none"

PagesOf(n) == [i \in 1..n |-> "page"]

\* On a stdout that lasts, each page the statistics count is printed, in full, and JSONL
\* ends with its one summary, however the run ends: interrupted, refused, aborted, or with
\* a progress line that died.
OutputIsWhole ==
  Ran /\ stdout = "open" =>
    out = PagesOf(crawl.pages) \o (IF args.format = "jsonl" THEN <<"summary">> ELSE <<>>)

\* "Pages already crawled are flushed and the summary is printed" (docs/cli.md), also when
\* the pipe is closed: nothing but a terminal that is gone or a full disk prevents it.
SummaryIsPrinted == Ran /\ stderr = "open" /\ stdout # "full" => printed

\* The exit codes of docs/cli.md; a closed stdout is tested to be one of success.
Documented ==
  [finished |-> 0, broken_pipe |-> 0, error |-> 1, seed_invalid |-> 2, seed_refused |-> 3,
   aborted |-> 4, cancelled |-> 130]

\* The exit code tells how the crawl ended, whatever comes in its last moments: the end of
\* the progress line does not hide an outcome, nor does a late signal where asyncio takes
\* it; a closed pipe and an interrupt do not hide each other.
CodeTellsOutcome ==
  Ran /\ stderr = "open" /\ stdout # "full" =>
    \/ main.code = Documented[crawl.outcome]
    \/ main.code = 130 /\ ~args.handlers /\ signals > 0

\* What a run tells its caller, on stdout, on stderr and by its exit code, is all of it and true.
RunIsReported == OutputIsWhole /\ SummaryIsPrinted /\ CodeTellsOutcome

\* An interrupted run comes to its end.
InterruptEnds == signals > 0 ~> main.stage = "exited"

=============================================================================
