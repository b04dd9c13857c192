------------------------------- MODULE RobotsLoad ------------------------------
(***************************************************************************)
(* load_robots: one robots.txt, fetched through redirects, each URL vetted *)
(* by the guard first, read up to a cap and decoded.  The server is the    *)
(* environment.  Of a file only the bytes' roles in UTF-8 matter.          *)
(***************************************************************************)
EXTENDS Integers, Sequences

CONSTANTS
  Guarded,       \* the guards to run with: TRUE in the service, FALSE for the CLI
  Statuses,      \* the statuses the server answers with
  Files,         \* the files it may serve: sequences over Bytes
  MaxRedirects,  \* MAX_ROBOTS_REDIRECTS
  MaxBytes       \* MAX_ROBOTS_BYTES

\* A character of one byte, the two bytes of another, a byte that is never UTF-8.
Bytes == {"char", "head", "tail", "junk"}

VARIABLES
  guard,     \* whether there is one; never changes
  pc,        \* "guard", "request", "read" or "done"
  requests,  \* requests sent
  file,      \* what the server is sending, <<>> before
  raw,       \* how much of it arrived
  policy,    \* "none" yet, "rules", "allow_all", "deny_all", or "raised"
  vetted,    \* history: the guard has passed the URL at hand
  said       \* history: the status of the last answer, 0 before one and after a failure

vars == <<guard, pc, requests, file, raw, policy, vetted, said>>

Init ==
  /\ guard \in Guarded /\ pc = "guard" /\ requests = 0 /\ file = <<>> /\ raw = 0
  /\ policy = "none" /\ vetted = FALSE /\ said = 0

RedirectStatuses == {301, 302, 303, 307, 308}

\* The bytes decode: each character is whole.
Decodes(bytes) ==
  \A i \in DOMAIN bytes :
    /\ bytes[i] # "junk"
    /\ bytes[i] = "head" => i < Len(bytes) /\ bytes[i + 1] = "tail"
    /\ bytes[i] = "tail" => i > 1 /\ bytes[i - 1] = "head"

-----------------------------------------------------------------------------

Return(p) == pc' = "done" /\ policy' = p

\* _UnreachableError, caught by load_robots.
Unreachable == Return("deny_all")

\* Mutant of Go: the target of a redirect is requested right away.
GoUnvetted == pc' = "request" /\ vetted' = FALSE

\* The head of the loop, once more.
Go == pc' = "guard" /\ vetted' = FALSE

\* The guard, if any, passes the URL or refuses it; after too many redirects neither.
Vet ==
  /\ pc = "guard"
  /\ \/ /\ requests <= MaxRedirects
        /\ pc' = "request" /\ vetted' = guard
        /\ UNCHANGED policy
     \/ (guard \/ requests > MaxRedirects) /\ Unreachable /\ UNCHANGED vetted
  /\ UNCHANGED <<guard, requests, file, raw, said>>

\* A response that is no redirect.
Answer(status) ==
  /\ \/ status >= 500 /\ Unreachable /\ UNCHANGED <<file, raw>>
     \/ status < 500 /\ status # 200 /\ Return("allow_all") /\ UNCHANGED <<file, raw>>
     \/ status = 200 /\ file' \in Files /\ raw' = 0 /\ pc' = "read" /\ UNCHANGED policy
  /\ UNCHANGED vetted

\* A redirect: with a Location, without one, or with one that urljoin, the guard or
\* httpx cannot make a URL of.
Redirect ==
  /\ \/ Go /\ UNCHANGED policy
     \/ Unreachable /\ UNCHANGED vetted
     \/ Return("raised") /\ UNCHANGED vetted
  /\ UNCHANGED <<file, raw>>

Request ==
  /\ pc = "request"
  /\ requests' = requests + 1
  /\ said' \in Statuses
  /\ IF said' \in RedirectStatuses THEN Redirect ELSE Answer(said')
  /\ UNCHANGED guard

\* An httpx.HTTPError before or during the body.
Fail ==
  /\ pc \in {"request", "read"}
  /\ Unreachable
  /\ requests' = requests + (IF pc = "request" THEN 1 ELSE 0)
  /\ said' = IF pc = "request" THEN 0 ELSE said
  /\ UNCHANGED <<guard, file, raw, vetted>>

\* _decode of the first n bytes.
Decode(n) ==
  IF Decodes(SubSeq(file, 1, n)) THEN Return("rules") ELSE Unreachable

\* A chunk of the body arrives; past the cap nothing more is read.
Chunk ==
  /\ pc = "read" /\ raw < Len(file)
  /\ raw' \in raw + 1..Len(file)
  /\ IF raw' > MaxBytes THEN Decode(MaxBytes) ELSE UNCHANGED <<pc, policy>>
  /\ UNCHANGED <<guard, requests, file, vetted, said>>

EndOfFile ==
  /\ pc = "read" /\ raw = Len(file)
  /\ Decode(raw)
  /\ UNCHANGED <<guard, requests, file, raw, vetted, said>>

Stutter == pc = "done" /\ UNCHANGED vars

Step == Vet \/ Request \/ Fail \/ Chunk \/ EndOfFile

Next == Step \/ Stutter

Spec == Init /\ [][Next]_vars

\* A verdict comes, and httpx gives up on a server that is silent for too long.
FairSpec == Spec /\ WF_vars(Step)

-----------------------------------------------------------------------------
(***************************************************************************)
(* Properties.                                                             *)
(***************************************************************************)

\* Nothing is requested that the guard did not pass right before, the targets of
\* redirects included.
EveryHopIsVetted == guard /\ pc \in {"request", "read"} => vetted

\* Whatever goes wrong at whichever hop, a file that could not be read allows nothing: only
\* a server whose last word is that there is no file opens the site, and only a file that
\* arrived whole or up to the cap is applied.
UnreadableAllowsNothing ==
  /\ policy = "allow_all" => said \notin {0, 200} \cup RedirectStatuses /\ said < 500
  /\ policy = "rules" => said = 200 /\ (raw = Len(file) \/ raw > MaxBytes)

\* However long the file is, no chunk is asked for once the cap is passed, and what is
\* applied is whole characters.
BodyIsBounded ==
  /\ pc = "read" => raw <= MaxBytes
  /\ policy = "rules" => Decodes(SubSeq(file, 1, IF raw > MaxBytes THEN MaxBytes ELSE raw))

\* What the loader requests and what it makes of the answer are both safe.
LoadIsSafe == EveryHopIsVetted /\ UnreadableAllowsNothing /\ BodyIsBounded

\* The loader returns: neither a ring of redirects nor a slow file holds it for ever.
LoaderReturns == pc = "guard" ~> pc = "done"
=============================================================================
