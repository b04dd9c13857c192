--------------------------------- MODULE MCParts -------------------------------
(***************************************************************************)
(* The parts that work alone, on small instances: a run of the command     *)
(* line, a submission, the start of a process, a robots.txt being loaded,  *)
(* its rules and URLs.  Each initial state is one of one part, and only    *)
(* that part takes steps: the state space is the sum of theirs.            *)
(***************************************************************************)
EXTENDS Integers, Sequences, SequencesExt

CONSTANTS
  MaxPages, MaxSignals,                            \* of Cli
  MaxConcurrency, RequestBudget, MaxBytes,         \* of Submission; the cap of robots.txt too
  NaN, NoLimit, Unset, Text, Inf,
  MaxRedirects, MaxLength                          \* of RobotsLoad, of Urls

ASSUME BoundsAssumption == {MaxPages, MaxSignals, MaxRedirects, MaxLength} \subseteq Nat
ASSUME LimitsAssumption == {MaxConcurrency, RequestBudget, MaxBytes} \subseteq Nat \ {0}
ASSUME NoNumbers == {NaN, NoLimit, Unset, Text, Inf} \cap Int = {}

VARIABLES
  part,
  args, main, crawl, progress, stdout, stderr, out, printed, signals,
  door, input, dns, stage, status, row, seen,
  installed, env, settings, process, code,
  guard, pc, requests, file, raw, policy, vetted, said,
  lines, path, verdict,
  left, right, answer

cliVars == <<args, main, crawl, progress, stdout, stderr, out, printed, signals>>
submissionVars == <<door, input, dns, stage, status, row, seen>>
startupVars == <<installed, env, settings, process, code>>
loadVars == <<guard, pc, requests, file, raw, policy, vetted, said>>
rulesVars == <<lines, path, verdict>>
urlsVars == <<left, right, answer>>

vars == <<part, cliVars, submissionVars, startupVars, loadVars, rulesVars, urlsVars>>

-----------------------------------------------------------------------------
(***************************************************************************)
(* robots.txt: every file of up to four bytes and a status of each kind.   *)
(***************************************************************************)

Files == UNION {[1..n -> {"char", "head", "tail", "junk"}] : n \in 0..4}

Statuses == {200, 204, 300, 301, 308, 404, 500, 503}

-----------------------------------------------------------------------------
(***************************************************************************)
(* Rules: files of many groups with one pattern, and one group with many.  *)
(***************************************************************************)

Star == <<"*">>
Token == <<"u", "c">>

Agent(a) == [field |-> "user-agent", agent |-> a]
Pattern(field, p) == [field |-> field, path |-> p]
Delay(d) == [field |-> "crawl-delay", delay |-> d]

\* Names that fit better, worse, not at all, and not by being empty.
GroupLines ==
  {Agent(Star), Agent(Token), Agent(<<"u">>), Agent(<<"o">>), Agent(<<>>),
   Pattern("disallow", <<"a">>), Delay(1), Delay(2), Delay(-1),
   [field |-> "other"], [field |-> "none"]}

GroupQuestions == BoundedSeq(GroupLines, 4) \X {<<"a">>}

TwoGroups ==
  {<<Agent(n1), Pattern(f1, <<"a">>), Agent(n2), Pattern(f2, <<"a", "b">>), Agent(n3)>> :
     n1 \in {Star, Token, <<"u">>}, n2 \in {Star, Token, <<"u">>}, n3 \in {Star, Token},
     f1 \in {"allow", "disallow"}, f2 \in {"allow", "disallow"}} \X {<<"a">>, <<"a", "b">>}

Patterns ==
  BoundedSeq({"a", "%61", "*", "$"}, 3) \cup
  {<<"a", "*", "b", "$">>, <<"*", "a", "*", "b">>, <<"%2A", "b", "%24">>}

PatternQuestions ==
  {<<Agent(Star), Pattern(f, p)>> : f \in {"allow", "disallow"}, p \in Patterns}
    \X BoundedSeq({"a", "b", "%61", "%0A"}, 3)

RuleLines ==
  {Pattern(f, p) : f \in {"allow", "disallow"},
                   p \in {<<>>, <<"a">>, <<"*">>, <<"a", "b">>, <<"*", "$">>}}

Several ==
  {<<Agent(Star)>> \o rules : rules \in BoundedSeq(RuleLines, 3)} \X {<<>>, <<"a">>, <<"a", "b">>}

RulesQuestions == GroupQuestions \cup TwoGroups \cup PatternQuestions \cup Several

-----------------------------------------------------------------------------
(***************************************************************************)
(* URLs: every short path, every short query and the pairs of them that    *)
(* could be one page, and every mix of schemes, hosts and ports.           *)
(***************************************************************************)

NoPort == -1
BadPort == -2

Url(scheme, host, port, p, query) ==
  [scheme |-> scheme, host |-> host, port |-> port, path |-> p, query |-> query,
   control |-> FALSE, fragment |-> FALSE]

OnPath(p) == Url("http", "h", NoPort, p, <<>>)
WithQuery(query) == Url("http", "h", NoPort, <<>>, query)

Paths ==
  {<<<<>>>> \o p : p \in BoundedSeq({<<"a">>, <<"b", "space">>, <<>>, <<".">>, <<".", ".">>}, 5)}
    \cup {<<>>}

PathQuestions ==
  {[OnPath(p) EXCEPT !.fragment = f] : p \in Paths, f \in BOOLEAN}
    \X {[OnPath(<<>>) EXCEPT !.control = TRUE]}

Escaped == {OnPath(<<<<>>, s>>) :
  s \in BoundedSeq({"a", "%61", "%2f", "%2F", "e-acute", "%c3%a9", "space"}, 2)}

Queries(keys, values, most) ==
  {WithQuery(q) : q \in BoundedSeq([key : keys, value : values], most)}

PlainQueries == Queries({<<"a">>, <<"b">>}, {<<"a">>, <<"%61">>, <<"b">>}, 2)
  \cup Queries({<<"a">>, <<"a", "b">>}, {<<"a">>, <<"b">>}, 3)

EscapedQueries == Queries({<<"a">>, <<"%61">>, <<"%62">>}, {<<"a">>, <<"b">>}, 2)

Sites ==
  {Url(s, h, p, <<>>, <<>>) : s \in {"http", "HTTP", "https", "ftp"}, h \in {"h", "H", "o", ""},
                              p \in {NoPort, BadPort, 80, 443, 8080}}

UrlsQuestions ==
  PathQuestions \cup (Escaped \X Escaped) \cup (PlainQueries \X PlainQueries)
    \cup (EscapedQueries \X EscapedQueries) \cup (Sites \X Sites)

-----------------------------------------------------------------------------

CommandLine == INSTANCE Cli

Service == INSTANCE Submission

Process == INSTANCE Startup

Load == INSTANCE RobotsLoad WITH Guarded <- BOOLEAN

Rules == INSTANCE RobotsRules WITH Questions <- RulesQuestions, file <- lines

Urls == INSTANCE Urls WITH Questions <- UrlsQuestions

\* The variables of a part that another one runs instead of.
None == "none"

NoCli ==
  /\ args = None /\ main = None /\ crawl = None /\ progress = None /\ stdout = None
  /\ stderr = None /\ out = None /\ printed = None /\ signals = None

NoSubmission ==
  /\ door = None /\ input = None /\ dns = None /\ stage = None /\ status = None
  /\ row = None /\ seen = None

NoStartup ==
  /\ installed = None /\ env = None /\ settings = None /\ process = None /\ code = None

NoLoad ==
  /\ guard = None /\ pc = None /\ requests = None /\ file = None /\ raw = None
  /\ policy = None /\ vetted = None /\ said = None

NoRules ==
  /\ lines = None /\ path = None /\ verdict = None

NoUrls ==
  /\ left = None /\ right = None /\ answer = None

Init ==
  \/ part = "cli" /\ CommandLine!Init /\ NoSubmission /\ NoStartup /\ NoLoad /\ NoRules /\ NoUrls
  \/ part = "submission" /\ Service!Init /\ NoCli /\ NoStartup /\ NoLoad /\ NoRules /\ NoUrls
  \/ part = "startup" /\ Process!Init /\ NoCli /\ NoSubmission /\ NoLoad /\ NoRules /\ NoUrls
  \/ part = "load" /\ Load!Init /\ NoCli /\ NoSubmission /\ NoStartup /\ NoRules /\ NoUrls
  \/ part = "rules" /\ Rules!Init /\ NoCli /\ NoSubmission /\ NoStartup /\ NoLoad /\ NoUrls
  \/ part = "urls" /\ Urls!Init /\ NoCli /\ NoSubmission /\ NoStartup /\ NoLoad /\ NoRules

CliStep ==
  /\ part = "cli" /\ CommandLine!Next
  /\ UNCHANGED <<part, submissionVars, startupVars, loadVars, rulesVars, urlsVars>>

SubmissionStep ==
  /\ part = "submission" /\ Service!Next
  /\ UNCHANGED <<part, cliVars, startupVars, loadVars, rulesVars, urlsVars>>

StartupStep ==
  /\ part = "startup" /\ Process!Next
  /\ UNCHANGED <<part, cliVars, submissionVars, loadVars, rulesVars, urlsVars>>

LoadStep ==
  /\ part = "load" /\ Load!Next
  /\ UNCHANGED <<part, cliVars, submissionVars, startupVars, rulesVars, urlsVars>>

RulesStep ==
  /\ part = "rules" /\ Rules!Next
  /\ UNCHANGED <<part, cliVars, submissionVars, startupVars, loadVars, urlsVars>>

UrlsStep ==
  /\ part = "urls" /\ Urls!Next
  /\ UNCHANGED <<part, cliVars, submissionVars, startupVars, loadVars, rulesVars>>

Next == CliStep \/ SubmissionStep \/ StartupStep \/ LoadStep \/ RulesStep \/ UrlsStep

Spec == Init /\ [][Next]_vars

\* The fairness of Cli and of RobotsLoad.
Fairness ==
  /\ WF_vars(part = "cli" /\ CommandLine!MainStep /\ CliStep)
  /\ WF_vars(part = "cli" /\ CommandLine!Settle /\ CliStep)
  /\ WF_vars(part = "load" /\ Load!Step /\ LoadStep)

FairSpec == Spec /\ Fairness

-----------------------------------------------------------------------------
(***************************************************************************)
(* The properties of the parts; each is explained where it is defined.     *)
(***************************************************************************)

\* What a run of the command line tells its caller (Cli) is whole and true.
RunIsReported == part = "cli" => CommandLine!RunIsReported

\* The API accepts only what a worker can run, and its status tells whether a row was left
\* (Submission).
AcceptanceIsKept == part = "submission" => Service!AcceptanceIsKept

\* A seed is fetched only from a host whose addresses are public now (Submission).
FetchedIsPublic == part = "submission" => Service!FetchedIsPublic

\* A process that runs has times and limits that LeaseClock can go by (Startup).
RunningCanLease == part = "startup" => Process!RunningCanLease

\* robots.txt is requested only where the guard allows it, and a file that could not be
\* read allows nothing (RobotsLoad).
LoadIsSafe == part = "load" => Load!LoadIsSafe

\* The rules and the delay applied are those of the lines for us, as the code picks them, and
\* where it does not depart from RFC 9309 they allow what the RFC allows (RobotsRules).
PolicyIsOurs == part = "rules" => Rules!PolicyIsOurs

\* However two URLs are spelled, they are one page, one site and one path or not (Urls).
SpellingIsNoMatter == part = "urls" => Urls!SpellingIsNoMatter

\* An interrupted run of the command line and the loader of robots.txt come to their end
\* (InterruptEnds of Cli and LoaderReturns of RobotsLoad, each over the states of its part).
PartsEnd ==
  /\ part = "cli" /\ signals # 0 ~> part = "cli" /\ main.stage = "exited"
  /\ part = "load" ~> part = "load" /\ pc = "done"

\* "the stable sort keeps repeated keys in their given order" (urls.py, _sorted_query):
\* two orders of one key have two canonical keys (Urls).
RepeatedKeysKeepOrder == part = "urls" => Urls!RepeatedKeysKeepOrder
===============================================================================
