--------------------------------- MODULE Urls ----------------------------------
(***************************************************************************)
(* normalize, canonical_key and HostScope: which texts are crawlable URLs, *)
(* what is requested for them, when two of them are one page and when they *)
(* are one site.  A text is kept as the parts urlsplit gives; a segment,   *)
(* key or value is a sequence of characters, where %-escapes and letters   *)
(* that quote() escapes are characters of their own.                       *)
(***************************************************************************)
EXTENDS Integers, Sequences, FiniteSets, SequencesExt

CONSTANTS
  Questions,  \* the pairs of texts to ask about
  MaxLength   \* MAX_URL_LENGTH, of a path and its query together

VARIABLES left, right, answer

vars == <<left, right, answer>>

-----------------------------------------------------------------------------
(***************************************************************************)
(* A text: [scheme, host, port, path, query, control, fragment], port      *)
(* NoPort or BadPort if there is none or it is no number, path a sequence  *)
(* of segments (the first one, before the first "/", is empty) or <<>>,    *)
(* query a sequence of [key, value], control and fragment whether there is *)
(* a control character and a fragment.  Userinfo is never looked at.       *)
(***************************************************************************)

NoPort == -1
BadPort == -2
DefaultPort == [http |-> 80, https |-> 443]
LowerScheme == [http |-> "http", HTTP |-> "http", https |-> "https", ftp |-> "ftp"]
LowerHost == [h |-> "h", H |-> "h", o |-> "o"]
Dot == <<".">>
DotDot == <<".", ".">>

Trimmed(s) ==
  LET kept == {i \in DOMAIN s : s[i] # "space"}
  IN SubSeq(s, 1, IF kept = {} THEN 0 ELSE CHOOSE i \in kept : \A j \in kept : j <= i)

\* str.strip: the spaces that end the whole text.
Strip(text) ==
  CASE text.fragment -> text
    [] ~text.fragment /\ text.query # <<>> ->
         [text EXCEPT !.query[Len(text.query)].value = Trimmed(@)]
    [] ~text.fragment /\ text.query = <<>> /\ text.path # <<>> ->
         [text EXCEPT !.path[Len(text.path)] = Trimmed(@)]
    [] OTHER -> text

RemoveDotSegments(path) ==
  LET Segment(output, i) ==
        LET popped == IF path[i] = DotDot /\ Len(output) > 1 THEN Front(output) ELSE output
        IN IF path[i] \notin {Dot, DotDot} THEN Append(output, path[i])
           ELSE IF i = Len(path) THEN Append(popped, <<>>) ELSE popped
  IN FoldLeftDomain(Segment, <<>>, path)

Length(url) ==
  FoldLeft(LAMBDA n, segment : n + Len(segment), Len(url.path), url.path)
    + FoldLeft(LAMBDA n, p : n + Len(p.key) + Len(p.value) + 2, 0, url.query)

IsCrawlable(text) ==
  /\ ~text.control
  /\ text.port # BadPort
  /\ LowerScheme[text.scheme] \in DOMAIN DefaultPort
  /\ text.host \in DOMAIN LowerHost

Canonical(text) ==
  LET scheme == LowerScheme[text.scheme]
      path == IF text.path = <<>> THEN <<<<>>, <<>>>> ELSE text.path
  IN [text EXCEPT !.scheme = scheme, !.host = LowerHost[@], !.path = RemoveDotSegments(path),
                  !.port = IF @ = DefaultPort[scheme] THEN NoPort ELSE @, !.fragment = FALSE]

\* normalize: the set of the one URL, or none.
Normalize(text) ==
  LET url == Canonical(Strip(text))
  IN IF IsCrawlable(text) /\ Length(url) <= MaxLength THEN {url} ELSE {}

-----------------------------------------------------------------------------

\* _canonical_escapes: escapes of unreserved characters are undone, the others and those
\* that quote() adds are written one way.
Folded(c) ==
  CASE c = "%61" -> "a" [] c = "%62" -> "b" [] c = "%2f" -> "%2F" [] c = "space" -> "%20"
    [] c \in {"e-acute", "%c3%a9"} -> "%C3%A9" [] OTHER -> c

CanonicalEscapes(s) == [i \in DOMAIN s |-> Folded(s[i])]

\* The order of the characters that keys are made of.
Alphabet == <<"%2F", "%2f", "%61", "%62", "%C3%A9", "%c3%a9", "a", "b", "e-acute">>

Rank(c) == CHOOSE i \in DOMAIN Alphabet : Alphabet[i] = c

AtMost(a, b) ==
  \/ IsPrefix(a, b)
  \/ \E i \in DOMAIN a \cap DOMAIN b :
       SubSeq(a, 1, i - 1) = SubSeq(b, 1, i - 1) /\ Rank(a[i]) < Rank(b[i])

\* Mutant of SortedQuery: whole pairs are sorted.
SortedPairs(query) ==
  LET Insert(sorted, p) ==
        InsertAt(sorted, 1 + Cardinality({i \in DOMAIN sorted :
          IF sorted[i].key = p.key THEN AtMost(sorted[i].value, p.value)
                                   ELSE AtMost(sorted[i].key, p.key)}), p)
  IN FoldLeft(Insert, <<>>, query)

\* sorted() by key: each parameter goes behind those with a key no greater than its own.
SortedQuery(query) ==
  LET Insert(sorted, p) ==
        InsertAt(sorted, 1 + Cardinality({i \in DOMAIN sorted : AtMost(sorted[i].key, p.key)}), p)
  IN FoldLeft(Insert, <<>>, query)

FoldedParameter(p) == [key |-> CanonicalEscapes(p.key), value |-> CanonicalEscapes(p.value)]

CanonicalKey(url) ==
  LET query == SortedQuery(url.query)
  IN [url EXCEPT !.path = [i \in DOMAIN @ |-> CanonicalEscapes(@[i])],
                 !.query = [i \in DOMAIN query |-> FoldedParameter(query[i])]]

HostScope(url) == [host |-> url.host, port |-> url.port]

\* HostScope.from_url(seed).allows(text)
Allows(seed, text) == \E url \in Normalize(text) : HostScope(url) = HostScope(seed)

-----------------------------------------------------------------------------

Init ==
  /\ answer = {}
  /\ \E q \in Questions : left = q[1] /\ right = q[2]

Answer ==
  [normal |-> Normalize(left),
   keys |-> {<<CanonicalKey(u), CanonicalKey(v)>> : u \in Normalize(left), v \in Normalize(right)},
   allows |-> \E seed \in Normalize(left) : Allows(seed, right)]

Ask == answer = {} /\ answer' = {Answer} /\ UNCHANGED <<left, right>>

Stutter == answer # {} /\ UNCHANGED vars

Next == Ask \/ Stutter

Spec == Init /\ [][Next]_vars

-----------------------------------------------------------------------------
(***************************************************************************)
(* What the answers should be, said without folding, sorting or popping.   *)
(***************************************************************************)

\* Segment i of a path outlives the dot segments: no stretch of segments behind it holds
\* more ".." than names.
Survives(path, i) ==
  /\ path[i] \notin {Dot, DotDot}
  /\ i > 1 => \A j \in i..Len(path) :
       LET behind == i + 1..j
       IN Cardinality({k \in behind : path[k] = DotDot})
            <= Cardinality({k \in behind : path[k] \notin {Dot, DotDot}})

\* The survivors in their order, and the slash that a dot segment at the end leaves.
IsResolved(path, resolved) ==
  LET survivors == {i \in DOMAIN path : Survives(path, i)}
      slash == Last(path) \in {Dot, DotDot}
  IN /\ Len(resolved) = Cardinality(survivors) + (IF slash THEN 1 ELSE 0)
     /\ \A i \in survivors : resolved[Cardinality(survivors \cap 1..i)] = path[i]
     /\ slash => Last(resolved) = <<>>

\* The path requested is the one RFC 3986 section 5.2.4 gives, whatever the mix of names,
\* empty segments and dot segments: ".." never climbs over the root, and a dot segment
\* at the end leaves the slash.
DotsAreResolved ==
  \A v \in answer : \A url \in v.normal :
    IF left.path = <<>> THEN url.path = <<<<>>, <<>>>> ELSE IsResolved(Strip(left).path, url.path)

AtDefaultPort(text) == text.port \in {NoPort, DefaultPort[LowerScheme[text.scheme]]}

\* A URL is in scope if its host is the seed's and its port too, or both are at the
\* default ports of their schemes, however the two are written.
ScopeIsHostAndPort ==
  \A v \in answer : v.normal # {} /\ Normalize(right) # {} =>
    (v.allows <=>
       /\ LowerHost[left.host] = LowerHost[right.host]
       /\ AtDefaultPort(left) <=> AtDefaultPort(right)
       /\ AtDefaultPort(left) \/ left.port = right.port)

\* The ways to write one character: a letter or its escape, an escape in either case, and
\* what may not stand in a URL or its escape.
Spellings ==
  {{"a", "%61"}, {"b", "%62"}, {"%2f", "%2F"}, {"space", "%20"}, {"e-acute", "%c3%a9", "%C3%A9"}}

SameCharacter(c, d) == c = d \/ \E ways \in Spellings : {c, d} \subseteq ways

SameText(s, t) == Len(s) = Len(t) /\ \A i \in DOMAIN s : SameCharacter(s[i], t[i])

\* Parameter i of a query is the n-th that gives its key a value.
Turn(query, i) == Cardinality({j \in 1..i : SameText(query[j].key, query[i].key)})

SameParameter(q, i, r, j) ==
  SameText(q[i].key, r[j].key) /\ Turn(q, i) = Turn(r, j) /\ SameText(q[i].value, r[j].value)

\* Two queries give each key the same values in the same order.
SameQuery(q, r) ==
  /\ \A i \in DOMAIN q : \E j \in DOMAIN r : SameParameter(q, i, r, j)
  /\ \A j \in DOMAIN r : \E i \in DOMAIN q : SameParameter(q, i, r, j)

\* Two URLs name one page: the same but for how characters are written and for the order
\* of parameters with different keys.
SamePage(u, v) ==
  /\ [u EXCEPT !.path = <<>>, !.query = <<>>] = [v EXCEPT !.path = <<>>, !.query = <<>>]
  /\ Len(u.path) = Len(v.path)
  /\ \A i \in DOMAIN u.path : SameText(u.path[i], v.path[i])
  /\ SameQuery(u.query, v.query)

\* No key of the URL is written with an escape that is undone.
PlainKeys(url) == \A i \in DOMAIN url.query : \A c \in ToSet(url.query[i].key) : Folded(c) = c

\* URLs with plain keys share a canonical key exactly if they are one page: none is
\* fetched twice for its spelling, and none is dropped for another.
KeyIsIdentity ==
  \A u \in Normalize(left), v \in Normalize(right) : PlainKeys(u) /\ PlainKeys(v) =>
    \A a \in answer : \A k \in a.keys : (k[1] = k[2]) <=> SamePage(u, v)

\* The path that is requested, the site it is on and the page it names are each told
\* exactly, whatever the spelling.
SpellingIsNoMatter == DotsAreResolved /\ ScopeIsHostAndPort /\ KeyIsIdentity

\* "the stable sort keeps repeated keys in their given order" (urls.py, _sorted_query):
\* two orders of one key have two canonical keys.
RepeatedKeysKeepOrder ==
  \A u \in Normalize(left), v \in Normalize(right) : \A a \in answer : \A k \in a.keys :
    k[1] = k[2] => SamePage(u, v)
=============================================================================
