------------------------------ MODULE MCCrawlCore -----------------------------
(***************************************************************************)
(* CrawlCore on a small site: the pages of one host link to each other, in *)
(* both spellings of a, to p, which robots.txt disallows, and to x on      *)
(* another host.  A seed that redirects leads to a, a redirecting seed a   *)
(* to x, and x back to the seed: chains are followed, refused, leave the   *)
(* host and run in a cycle.                                                *)
(***************************************************************************)
EXTENDS CrawlCore, TLC

CONSTANTS s, a, a2, b, c, d, p, x

MCUrls == {s, a, a2, b, c, d, p, x}

MCKey == [u \in MCUrls |-> IF u = a2 THEN a ELSE u]

MCHost == [u \in MCUrls |-> IF u = x THEN "other" ELSE "example"]

Links == s :> {a, a2, b, p} @@ a :> {b, c} @@ a2 :> {c} @@ b :> {a2, d, p}
           @@ c :> {d, s} @@ d :> {x} @@ p :> {b} @@ x :> {s, c}

Location == s :> a @@ a :> x @@ a2 :> NoUrl @@ b :> a2 @@ c :> p @@ d :> NoUrl
              @@ p :> a @@ x :> s

SiteWith(max_pages, fuse, hops_allowed, delay, raises) ==
  [seed |-> s, links |-> Links, location |-> Location, disallowed |-> {p},
   crawl_delay |-> delay, max_pages |-> max_pages, failure_fuse |-> fuse,
   max_seed_redirects |-> hops_allowed, reporter_raises |-> raises]

\* Every limit, with and without a delay; the fuse and the redirects at and above their
\* lower bounds.
AllSetups ==
  {SiteWith(max, fuse, hops_allowed, delay, raises) :
     max \in {1, 2, 3, NoLimit}, fuse \in {1, 2, 3}, hops_allowed \in {0, 3},
     delay \in BOOLEAN, raises \in BOOLEAN}

\* Reporters that never raise.
QuietSetups == {st \in AllSetups : ~st.reporter_raises}
=============================================================================
