------------------------------ MODULE RobotsRules ------------------------------
(***************************************************************************)
(* RobotsTxt: what a robots.txt that was read says of a URL.  A file is a  *)
(* sequence of parsed lines, a path a sequence of tokens: plain characters,*)
(* the two special ones and percent-escapes.                               *)
(***************************************************************************)
EXTENDS Integers, Sequences, SequencesExt

CONSTANTS
  Questions,  \* the pairs of a file and a path to ask about
  Token       \* our name in a user-agent line, as a sequence of characters

VARIABLES file, path, verdict

vars == <<file, path, verdict>>

-----------------------------------------------------------------------------
(***************************************************************************)
(* The lines: [field |-> "user-agent", agent |-> a], with a sequence of    *)
(* characters or "*"; [field |-> "allow" or "disallow", path |-> p];       *)
(* [field |-> "crawl-delay", delay |-> d], d <= 0 if it is no positive     *)
(* number; [field |-> "other"]; and [field |-> "none"], which _parse_line  *)
(* makes nothing of.                                                       *)
(***************************************************************************)

Star == <<"*">>
NoDelay == 0
NoGroup == [agents |-> <<>>, rules |-> <<>>, delay |-> NoDelay]

Decoded(c) ==
  CASE c = "%61" -> "a" [] c = "%2A" -> "*" [] c = "%24" -> "$" [] c = "%0A" -> "newline"
    [] OTHER -> c

Unquote(p) == [i \in DOMAIN p |-> Decoded(p[i])]

Rule(line) ==
  [pattern |-> Unquote(line.path), length |-> Len(line.path),
   allowance |-> line.field = "allow" \/ line.path = <<>>]

\* A user-agent line, right after another or not.
NameAgent(parse, agent) ==
  LET groups == IF parse.naming THEN parse.groups ELSE Append(parse.groups, NoGroup)
  IN [groups |-> Append(Front(groups), [Last(groups) EXCEPT !.agents = Append(@, agent)]),
      naming |-> TRUE]

\* A group with one more of its lines.
Extended(group, line) ==
  CASE line.field \in {"allow", "disallow"} -> [group EXCEPT !.rules = Append(@, Rule(line))]
    [] line.field = "crawl-delay" /\ line.delay > 0 -> [group EXCEPT !.delay = line.delay]
    [] OTHER -> group

\* One round of the loop of _parse_groups.
ParseLine(parse, line) ==
  CASE line.field = "none" -> parse
    [] line.field = "user-agent" -> NameAgent(parse, line.agent)
    [] OTHER ->
         [groups |-> IF parse.groups = <<>> THEN <<>>
                     ELSE Append(Front(parse.groups), Extended(Last(parse.groups), line)),
          naming |-> FALSE]

ParseGroups(lines) == FoldLeft(ParseLine, [groups |-> <<>>, naming |-> FALSE], lines).groups

\* The inner round of _select_group, for a name of group i; group 0 is none.
Consider(found, agent, i) ==
  CASE agent = Star -> [found EXCEPT !.wildcard = IF @ = 0 THEN i ELSE @]
    [] agent # Star /\ IsPrefix(agent, Token) /\ Len(agent) > found.length ->
         [found EXCEPT !.best = i, !.length = Len(agent)]
    [] OTHER -> found

NothingFound == [best |-> 0, length |-> 0, wildcard |-> 0]

Find(groups) ==
  LET Look(found, i) ==
        FoldLeft(LAMBDA sofar, agent : Consider(sofar, agent, i), found, groups[i].agents)
  IN FoldLeftDomain(Look, NothingFound, groups)

SelectGroup(groups) ==
  LET found == Find(groups)
      i == IF found.best # 0 THEN found.best ELSE found.wildcard
  IN IF i = 0 THEN NoGroup ELSE groups[i]

-----------------------------------------------------------------------------
(***************************************************************************)
(* _rule_pattern and re.match: the positions of the text that the regular  *)
(* expression can have reached, element by element.                        *)
(***************************************************************************)

\* ".*" stops at a newline.
ReachStar(text, from) ==
  {q \in from..Len(text) : \A i \in from + 1..q : text[i] # "newline"}

Reach(text, pattern) ==
  LET Element(positions, c) ==
        IF c = "*" THEN UNION {ReachStar(text, q) : q \in positions}
                   ELSE {q + 1 : q \in {r \in positions : r < Len(text) /\ text[r + 1] = c}}
  IN FoldLeft(Element, {0}, pattern)

\* Where "$" matches: at the end, and before a newline that ends the text.
AtEnd(text) == {Len(text)} \cup {q \in {Len(text) - 1} : q >= 0 /\ text[Len(text)] = "newline"}

PatternMatches(pattern, text) ==
  IF pattern # <<>> /\ Last(pattern) = "$"
    THEN Reach(text, Front(pattern)) \cap AtEnd(text) # {}
    ELSE Reach(text, pattern) # {}

\* _target_path; the query, if any, is part of the path.
TargetPath == IF path = <<>> THEN <<"/">> ELSE Unquote(path)

\* Mutant of Decides: Disallow breaks the ties.
DecidesAll(matched) ==
  \A r \in matched : (\A s \in matched : s.length <= r.length) => r.allowance

\* RobotsTxt.allows, of the rules whose patterns match: the order of a file is no matter.
Decides(matched) ==
  matched = {} \/ \E r \in matched : r.allowance /\ \A s \in matched : s.length <= r.length

Allows ==
  Decides({rule \in ToSet(SelectGroup(ParseGroups(file)).rules) :
             PatternMatches(rule.pattern, TargetPath)})

\* RobotsTxt(file, user_agent), asked for its delay and about the path.
Answer == [allows |-> Allows, delay |-> SelectGroup(ParseGroups(file)).delay]

Init == verdict = {} /\ \E q \in Questions : file = q[1] /\ path = q[2]

Ask == verdict = {} /\ verdict' = {Answer} /\ UNCHANGED <<file, path>>

Stutter == verdict # {} /\ UNCHANGED vars

Next == Ask \/ Stutter

Spec == Init /\ [][Next]_vars

-----------------------------------------------------------------------------
(***************************************************************************)
(* What the answer should be, said of lines and positions instead of       *)
(* groups and matches: first as the code reads a file, with its departures *)
(* from RFC 9309, and then as section 2.2 of the RFC does.                 *)
(***************************************************************************)

IsAgent(i) == file[i].field = "user-agent"

\* The user-agent lines that line i belongs to: those right before it, with nothing but
\* unreadable lines in between, or before the lines it follows.
Heads(i) ==
  {j \in 1..i : /\ IsAgent(j)
                /\ \E e \in j..i : /\ IsAgent(e)
                                   /\ \A k \in e + 1..i : ~IsAgent(k)
                                   /\ \A k \in j..e : IsAgent(k) \/ file[k].field = "none"}

Fits(i) == IsAgent(i) /\ file[i].agent \notin {<<>>, Star} /\ IsPrefix(file[i].agent, Token)

\* The line that picks the group: the first of the longest names that our name begins with,
\* else the first "*".  Further groups of that name are left aside.
IsPick(i) ==
  \/ /\ Fits(i)
     /\ \A j \in DOMAIN file : Fits(j) =>
          \/ Len(file[j].agent) < Len(file[i].agent)
          \/ Len(file[j].agent) = Len(file[i].agent) /\ i <= j
  \/ /\ IsAgent(i) /\ file[i].agent = Star
     /\ \A j \in DOMAIN file : ~Fits(j) /\ (IsAgent(j) /\ file[j].agent = Star => i <= j)

OurLines == {i \in DOMAIN file : ~IsAgent(i) /\ \E h \in Heads(i) : IsPick(h)}

\* The pattern, character by character, lies along the text: each "*" over any run.
LiesAlong(pattern, text, cut) ==
  /\ cut[0] = 0
  /\ \A i \in DOMAIN pattern :
       IF pattern[i] = "*" THEN cut[i] >= cut[i - 1]
       ELSE cut[i] = cut[i - 1] + 1 /\ text[cut[i]] = pattern[i]

\* Of a pattern whose escapes are folded: "%2A" and "%24" are special like "*" and "$".
Covers(pattern, text) ==
  LET anchored == pattern # <<>> /\ Last(pattern) = "$"
      literal == IF anchored THEN Front(pattern) ELSE pattern
  IN \E cut \in [0..Len(literal) -> 0..Len(text)] :
       LiesAlong(literal, text, cut) /\ (anchored => cut[Len(literal)] = Len(text))

OneLine == "newline" \notin ToSet(TargetPath)

\* Our rules of one kind that cover the path.
Covering(field) ==
  {i \in OurLines : file[i].field = field /\ Covers(Unquote(file[i].path), TargetPath)}

\* A path is allowed unless a Disallow that covers it is longer than every Allow that
\* does, whatever the order of the lines, and an empty Disallow forbids nothing.
ShouldAllow ==
  \A d \in Covering("disallow") : file[d].path # <<>> =>
    \E a \in Covering("allow") : Len(file[a].path) >= Len(file[d].path)

\* The answer is that of the rules of one group: what the parser, the choice of a group and
\* the regular expressions make of a file is what its lines say, read the way the code does.
RulesDecide == verdict # {} /\ OneLine => \A v \in verdict : v.allows = ShouldAllow

\* The delay is the last usable one of our group, wherever it stands among the rules.
DelayIsOurs ==
  LET delays == {i \in OurLines : file[i].field = "crawl-delay" /\ file[i].delay > 0}
  IN \A v \in verdict :
       IF delays = {} THEN v.delay = NoDelay
       ELSE \E i \in delays : v.delay = file[i].delay /\ \A j \in delays : j <= i

-----------------------------------------------------------------------------
(***************************************************************************)
(* RFC 9309 section 2.2.                                                   *)
(***************************************************************************)

IsRule(i) == file[i].field \in {"allow", "disallow"}

\* 2.2.1 and 2.2.4: the user-agent lines of a group, which only a rule brings to their end.
GroupHeads(i) ==
  {j \in 1..i : /\ IsAgent(j)
                /\ \E e \in j..i : /\ IsAgent(e)
                                   /\ \A k \in e + 1..i : ~IsAgent(k)
                                   /\ \A k \in j..e : ~IsRule(k)}

Names(i, agent) == IsAgent(i) /\ file[i].agent = agent

\* 2.2.1: the rules of all groups that name us, or else of all groups of "*", combined.
CombinedLines ==
  LET agent == IF \E j \in DOMAIN file : Names(j, Token) THEN Token ELSE Star
  IN {i \in DOMAIN file : ~IsAgent(i) /\ \E h \in GroupHeads(i) : Names(h, agent)}

\* 2.2.2 and 2.2.3: the pattern as it is written, where an escape stands for its character.
Matches(pattern, text) ==
  LET anchored == pattern # <<>> /\ Last(pattern) = "$"
      literal == IF anchored THEN Front(pattern) ELSE pattern
  IN \E cut \in [0..Len(literal) -> 0..Len(text)] :
       /\ cut[0] = 0
       /\ \A i \in DOMAIN literal :
            IF literal[i] = "*" THEN cut[i] >= cut[i - 1]
            ELSE cut[i] = cut[i - 1] + 1 /\ text[cut[i]] = Decoded(literal[i])
       /\ anchored => cut[Len(literal)] = Len(text)

MatchingLines(field) ==
  {i \in CombinedLines : file[i].field = field /\ Matches(file[i].path, TargetPath)}

\* 2.2.2: the longest match decides, and an Allow if there is one as long.
RfcAllows ==
  \A d \in MatchingLines("disallow") : file[d].path # <<>> =>
    \E a \in MatchingLines("allow") : Len(file[a].path) >= Len(file[d].path)

\* The code departs from the RFC in a file that has two lines with one agent, names that are
\* only the beginning of ours, an escaped "*" or "$" in a rule, or a line that is no rule
\* between two user-agent lines of a group, and of a path with an escaped newline.
IsUndisputed ==
  /\ OneLine
  /\ \A i, j \in DOMAIN file : IsAgent(i) /\ IsAgent(j) /\ file[i].agent = file[j].agent => i = j
  /\ \A i \in DOMAIN file : Fits(i) => file[i].agent = Token
  /\ \A i \in DOMAIN file : IsRule(i) => {"%2A", "%24"} \cap ToSet(file[i].path) = {}
  /\ \A i, j \in DOMAIN file :
       i < j /\ IsAgent(i) /\ IsAgent(j) /\ (\A k \in i..j : ~IsRule(k)) =>
         \A k \in i..j : IsAgent(k) \/ file[k].field = "none"

\* "Matching follows RFC 9309 section 2.2" (docs/design-decisions.md), of every other file.
FollowsRfc == verdict # {} /\ IsUndisputed => \A v \in verdict : v.allows = RfcAllows

\* The answer about a URL and the delay of the crawl are those of the lines meant for us, as
\* the code picks them, and where the code does not depart from the RFC the answer is that
\* of the RFC.
PolicyIsOurs == RulesDecide /\ DelayIsOurs /\ FollowsRfc
=============================================================================
