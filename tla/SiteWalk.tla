-------------------------------- MODULE SiteWalk -------------------------------
(***************************************************************************)
(* What a crawl promises whoever reads its reports: first the redirects of *)
(* the seed, one after the other; then pages that some reported page links *)
(* to, on the host where the seed landed, none of them disallowed and none *)
(* twice, in any order.  It is complete only when no such page is left.    *)
(* CrawlCore implements this.                                              *)
(***************************************************************************)
CONSTANTS
  Urls,
  Key,   \* equal for two URLs of the same page
  Host

VARIABLES
  disallowed,  \* what robots.txt forbids; never changes
  state,       \* "chain", "walk", "complete" or "cut_short"
  at,          \* where the seed's redirects lead
  visited,     \* the URLs reported
  found        \* the links they were reported with

vars == <<disallowed, state, at, visited, found>>

KeysOf(urls) == {Key[u] : u \in urls}

\* The pages still to be visited.
Open == {u \in found : /\ Host[u] = Host[at] /\ u \notin disallowed
                       /\ Key[u] \notin KeysOf(visited)}

Init ==
  /\ disallowed \subseteq Urls
  /\ state = "chain" /\ at \in Urls
  /\ visited = {} /\ found = {}

\* Page u is reported with some links.
Visit(u) ==
  /\ Key[u] \notin KeysOf(visited)
  /\ visited' = visited \cup {u}
  /\ found \subseteq found' /\ found' \subseteq Urls
  /\ UNCHANGED disallowed

\* A redirect of the seed leads on, or back to where the chain has been.
Hop ==
  /\ state = "chain" /\ Visit(at)
  /\ \E target \in found' :
       IF Key[target] \in KeysOf(visited') THEN state' = "cut_short" /\ UNCHANGED at
                                           ELSE at' = target /\ UNCHANGED state

Land ==
  /\ state = "chain" /\ at \notin disallowed
  /\ Visit(at) /\ state' = "walk" /\ UNCHANGED at

Walk ==
  /\ state = "walk"
  /\ \E u \in Open : Visit(u)
  /\ UNCHANGED <<state, at>>

\* Nothing is left to visit.
Complete ==
  /\ state = "walk" /\ Open = {}
  /\ state' = "complete"
  /\ UNCHANGED <<disallowed, at, visited, found>>

\* A limit, the fuse, an error, a cancel.
CutShort ==
  /\ state \in {"chain", "walk"}
  /\ state' = "cut_short"
  /\ UNCHANGED <<disallowed, at, visited, found>>

Next == Hop \/ Land \/ Walk \/ Complete \/ CutShort

Spec == Init /\ [][Next]_vars
=============================================================================
