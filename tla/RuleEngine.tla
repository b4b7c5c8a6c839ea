------------------------------ MODULE RuleEngine ------------------------------
(***************************************************************************)
(* Content rules: the parser (rules/parser.go), the Aho-Corasick automata  *)
(* (match/ahocorasick.go), the engine that uses them as a prefilter        *)
(* (rules/engine.go) and the evaluation of one rule (rules/matcher.go).    *)
(*                                                                         *)
(* Rules are read at startup, then the automata are built, then payloads   *)
(* are matched; nothing changes afterwards and the workers share it. A rule *)
(* is given by its options, already split at the semicolons. The header,   *)
(* the metadata and pcre are left out.                                     *)
(***************************************************************************)
EXTENDS Integers, Sequences, FiniteSets, SequencesExt

CONSTANTS
    Bytes,
    Raw,        \* those of them that are not UTF-8 by themselves
    LowerCase,  \* byte -> byte, the ASCII letters only
    Replacement,\* the bytes of U+FFFD, which stands for what is not UTF-8
    RuleTexts,  \* sequences of options a file may hold as one rule
    Payloads,
    MaxRules    \* bound on the rules of a file

ASSUME BytesAssumption ==
    /\ Raw \subseteq Bytes /\ LowerCase \in [Bytes -> Bytes]
    /\ \A b \in Raw : LowerCase[b] = b
    /\ \A b \in Bytes \ Raw : LowerCase[b] \notin Raw /\ LowerCase[LowerCase[b]] = LowerCase[b]
    /\ Replacement # <<>> /\ Replacement \in Seq(Range(Replacement))
    /\ Range(Replacement) \cap (Bytes \ Raw) = {}
ASSUME PayloadsAssumption == Payloads \subseteq Seq(Bytes)

NumericKeys == {"offset", "depth", "distance", "within"}
ASSUME RuleTextsAssumption ==
    \A text \in RuleTexts :
        /\ text \in Seq(Range(text))
        /\ \A option \in Range(text) :
             \/ option.key = "content" /\ option.value \in Seq(Bytes)
             \/ option.key = "nocase"
             \/ option.key \in NumericKeys /\ option.value \in Int
ASSUME MaxRulesAssumption == MaxRules \in Nat

-------------------------------------------------------------------------------
(* The parser *)

Absent == -1
ContentOf(pattern) ==
    [pattern |-> pattern, nocase |-> FALSE,
     offset |-> Absent, depth |-> Absent, distance |-> Absent, within |-> Absent]

\* strings.Trim, ParseHexContent: an odd or invalid hex part is an error, and the
\* option is skipped, as is an empty content; <<>> stands for both.
Parses(option) == option.value # <<>>

\* The ASCII letters in lower case.
Lowered(s) == [i \in DOMAIN s |-> LowerCase[s[i]]]

Modify(c, option) ==
    CASE option.key = "nocase"   -> [c EXCEPT !.nocase = TRUE, !.pattern = Lowered(@)]
      [] option.key = "offset"   -> [c EXCEPT !.offset = option.value]
      [] option.key = "depth"    -> [c EXCEPT !.depth = option.value]
      [] option.key = "distance" -> [c EXCEPT !.distance = option.value]
      [] option.key = "within"   -> [c EXCEPT !.within = option.value]

\* One option. A modifier is for the last content that was parsed.
AddOption(contents, option) ==
    IF option.key = "content"
    THEN IF Parses(option) THEN Append(contents, ContentOf(option.value)) ELSE contents
    ELSE IF contents = <<>> THEN contents
    ELSE [contents EXCEPT ![Len(contents)] = Modify(@, option)]
ParseRule(text) == FoldLeft(AddOption, <<>>, text)

-------------------------------------------------------------------------------
(* AhoCorasick. A node of the trie is the word that leads to it. The failure *)
(* link of the root, nil in the code, is never followed.                     *)

Root == <<>>
NewAhoCorasick == [patterns |-> <<>>, fail |-> [n \in {Root} |-> Root], outputs |-> [n \in {Root} |-> {}]]

Trie(patterns) == {Root} \cup UNION {{SubSeq(p, 1, i) : i \in 0..Len(p)} : p \in Range(patterns)}
Own(patterns, node) == {id \in DOMAIN patterns : patterns[id] = node}

\* Where a byte leads from a node: to the child of the first node on its failure
\* links that has one, or to the root.
Goto(nodes, fail, b) ==
    LET goto[n \in DOMAIN fail] ==
          IF Append(n, b) \in nodes THEN Append(n, b) ELSE IF n = Root THEN Root ELSE goto[fail[n]]
    IN  goto

\* Mutant: the outputs of the failure link are not added.
OwnOutputs(ac, node, fail) == Own(ac.patterns, node)

MergedOutputs(ac, node, fail) == Own(ac.patterns, node) \cup ac.outputs[fail]

\* Build: breadth first, so that what is above a level is known when it is linked.
LinkLevel(ac, nodes, depth) ==
    LET level == {n \in nodes : Len(n) = depth}
        above == DOMAIN ac.fail
        fail == [n \in level |-> IF depth = 1 THEN Root ELSE Goto(nodes, ac.fail, Last(n))[ac.fail[Front(n)]]]
    IN  [patterns |-> ac.patterns,
         fail     |-> [n \in above \cup level |-> IF n \in above THEN ac.fail[n] ELSE fail[n]],
         outputs  |-> [n \in above \cup level |->
                         IF n \in above THEN ac.outputs[n] ELSE MergedOutputs(ac, n, fail[n])]]
BuildAutomaton(patterns) ==
    LET nodes == Trie(patterns)
        linked[depth \in Nat] ==
          IF depth = 0 THEN [NewAhoCorasick EXCEPT !.patterns = patterns]
          ELSE LinkLevel(linked[depth - 1], nodes, depth)
    IN  linked[Max({Len(n) : n \in nodes})]

\* Mutant: after a mismatch the search starts over at the next byte.
SearchByteNoFailure(ac, s, b) ==
    LET node == IF Append(s.node, b) \in DOMAIN ac.fail THEN Append(s.node, b) ELSE Root
    IN  [node |-> node, at |-> s.at + 1,
         results |-> s.results \o
            SetToSeq({<<id, s.at - Len(ac.patterns[id]) + 1>> : id \in ac.outputs[node]})]

\* Search: the results are pairs <<id, start index>>, from 0.
SearchByte(ac, s, b) ==
    LET node == Goto(DOMAIN ac.fail, ac.fail, b)[s.node]
    IN  [node |-> node, at |-> s.at + 1,
         results |-> s.results \o
            SetToSeq({<<id, s.at - Len(ac.patterns[id]) + 1>> : id \in ac.outputs[node]})]
Search(ac, payload) ==
    FoldLeft(LAMBDA s, b : SearchByte(ac, s, b), [node |-> Root, at |-> 0, results |-> <<>>], payload).results

-------------------------------------------------------------------------------
(* Rule.Match *)

\* bytes.ToLower, bytes.Index (from 0, or -1)
ToLower(s) ==
    FlattenSeq([i \in DOMAIN s |-> IF s[i] \in Raw THEN Replacement ELSE <<LowerCase[s[i]]>>])
OccursAt(pattern, s, i) ==
    i + Len(pattern) <= Len(s) /\ SubSeq(s, i + 1, i + Len(pattern)) = pattern
IndexOf(pattern, s) ==
    LET found == {i \in 0..Len(s) : OccursAt(pattern, s, i)}
    IN  IF found = {} THEN -1 ELSE Min(found)

\* Mutant: the distance is counted from the start of the payload.
FromStart(c, cursor) ==
    IF c.offset >= 0 THEN c.offset
    ELSE IF c.distance >= 0 THEN c.distance
    ELSE IF c.within >= 0 THEN cursor ELSE 0

\* Where the search for a content starts, and where it ends.
From(c, cursor) ==
    IF c.offset >= 0 THEN c.offset
    ELSE IF c.distance >= 0 THEN cursor + c.distance
    ELSE IF c.within >= 0 THEN cursor ELSE 0
Until(c, start, length) ==
    LET width == IF c.depth > 0 THEN c.depth ELSE c.within
    IN  IF width > 0 /\ start + width <= length THEN start + width ELSE length

\* The cursor is Absent once a content was not found.
NextCursor(payload, cursor, c) ==
    LET start == From(c, cursor)
        buffer == SubSeq(payload, start + 1, Until(c, start, Len(payload)))
        index == IF c.nocase THEN IndexOf(ToLower(c.pattern), ToLower(buffer))
                             ELSE IndexOf(c.pattern, buffer)
    IN  IF cursor = Absent \/ start > Len(payload) \/ index = -1 THEN Absent
        ELSE start + index + Len(c.pattern)
RuleMatch(contents, payload) ==
    FoldLeft(LAMBDA cursor, c : NextCursor(payload, cursor, c), 0, contents) # Absent

-------------------------------------------------------------------------------
(* Engine *)

VARIABLES
    texts,      \* the rules of the files, as written
    Rules,      \* their contents
    mpse,       \* patterns and automata: MPSE and NocaseMPSE
    toRules,    \* patternToRules, nocaseToRules: per automaton, pattern -> rule
    built,
    result      \* the last payload, with the results of Match and of Search

rvars == <<texts, Rules, mpse, toRules, built, result>>

Automata == {"case", "nocase"}
NoResult == [payload |-> <<>>, matched |-> {}, found |-> [a \in Automata |-> <<>>]]

RInit ==
    /\ texts = <<>> /\ Rules = <<>> /\ built = FALSE /\ result = NoResult
    /\ mpse = [a \in Automata |-> NewAhoCorasick]
    /\ toRules = [a \in Automata |-> <<>>]

\* AddRule: the first content is the fast pattern.
AddRule(text) ==
    LET contents == ParseRule(text)
        a == IF Head(contents).nocase THEN "nocase" ELSE "case"
        key == IF a = "nocase" THEN Lowered(Head(contents).pattern) ELSE Head(contents).pattern
    IN
    /\ ~built /\ Len(Rules) < MaxRules
    /\ texts' = Append(texts, text) /\ Rules' = Append(Rules, contents)
    /\ IF contents = <<>> THEN UNCHANGED <<mpse, toRules>>
       ELSE /\ mpse' = [mpse EXCEPT ![a].patterns = Append(@, key)]
            /\ toRules' = [toRules EXCEPT ![a] = Append(@, Len(Rules) + 1)]
    /\ UNCHANGED <<built, result>>

\* LoadRulesFromDirectory: in any order, as the files and their lines come.
LoadRulesFromDirectory == \E t \in RuleTexts : AddRule(t)

Build ==
    /\ ~built /\ built' = TRUE
    /\ mpse' = [a \in Automata |-> BuildAutomaton(mpse[a].patterns)]
    /\ UNCHANGED <<texts, Rules, toRules, result>>

\* Match: the candidates of either automaton, and the rules without content.
\* Nothing is carried from one payload to another, so each behaviour has one.
Match(payload) ==
    LET found == [a \in Automata |-> Search(mpse[a], IF a = "nocase" THEN Lowered(payload) ELSE payload)]
        candidates == {i \in DOMAIN Rules : Rules[i] = <<>>}
                      \cup UNION {{toRules[a][r[1]] : r \in Range(found[a])} : a \in Automata}
    IN
    /\ built /\ (result = NoResult \/ result.payload = payload)
    /\ result' = [payload |-> payload, found |-> found,
                  matched |-> {i \in candidates : RuleMatch(Rules[i], payload)}]
    /\ UNCHANGED <<texts, Rules, mpse, toRules, built>>

RNext == LoadRulesFromDirectory \/ Build \/ (\E p \in Payloads : Match(p))

RuleSpec == RInit /\ [][RNext]_rvars

-------------------------------------------------------------------------------
(* Properties *)

RulesTypeOK ==
    /\ texts \in BoundedSeq(RuleTexts, MaxRules) /\ Len(Rules) = Len(texts)
    /\ \A i \in DOMAIN Rules : \A c \in Range(Rules[i]) : DOMAIN c = DOMAIN ContentOf(<<>>)
    /\ \A a \in Automata : Range(toRules[a]) \subseteq DOMAIN Rules
                           /\ DOMAIN mpse[a].fail = DOMAIN mpse[a].outputs
    /\ result.payload \in Payloads \cup {<<>>} /\ result.matched \subseteq DOMAIN Rules

IsText(s) == Range(s) \cap Raw = {}

AllOccurrences(patterns, s) ==
    {o \in (DOMAIN patterns) \X (0..Len(s)) : OccursAt(patterns[o[1]], s, o[2])}

\* Whatever patterns were added, in whatever order, prefixes, suffixes and infixes
\* of each other or equal: a search finds every occurrence of every pattern,
\* each once.
SearchFindsAll ==
    built => \A a \in Automata :
        LET s == IF a = "nocase" THEN Lowered(result.payload) ELSE result.payload
            found == result.found[a]
            occurrences == AllOccurrences(mpse[a].patterns, s)
        IN  result # NoResult => Range(found) = occurrences /\ Len(found) = Cardinality(occurrences)

\* The prefilter hides no rule that would match, and does not let one through
\* unevaluated.
PrefilterLosesNothing ==
    built /\ result # NoResult /\ IsText(result.payload)
        => result.matched = {i \in DOMAIN Rules : RuleMatch(Rules[i], result.payload)}

\* What the options of a rule say, read off the rule as written: there are places
\* for its contents, in this order, each within the limits of its own modifiers.
ContentsOf(text) == {i \in DOMAIN text : text[i].key = "content"}
Scope(text, i) == {j \in DOMAIN text : j > i /\ \A k \in ContentsOf(text) : k > i => j < k}
Setting(text, i, key) ==
    LET set == {j \in Scope(text, i) : text[j].key = key}
    IN  IF set = {} THEN Absent ELSE text[Max(set)].value
HasNocase(text, i) == \E j \in Scope(text, i) : text[j].key = "nocase"
Relative(text, i) == Setting(text, i, "offset") < 0
                     /\ (Setting(text, i, "distance") >= 0 \/ Setting(text, i, "within") >= 0)

Places(text, payload, at) ==
    \A i \in ContentsOf(text) :
        LET earlier == {j \in ContentsOf(text) : j < i}
            before == IF earlier = {} THEN 0 ELSE at[Max(earlier)] + Len(text[Max(earlier)].value)
            low == IF Setting(text, i, "offset") >= 0 THEN Setting(text, i, "offset")
                   ELSE IF Relative(text, i) THEN before + Max({Setting(text, i, "distance"), 0}) ELSE 0
            width == IF Setting(text, i, "depth") > 0 THEN Setting(text, i, "depth")
                     ELSE Setting(text, i, "within")
            stretch == SubSeq(payload, at[i] + 1, at[i] + Len(text[i].value))
        IN  /\ at[i] >= low /\ at[i] + Len(text[i].value) <= Len(payload)
            /\ width > 0 => at[i] + Len(text[i].value) <= low + width
            /\ \/ stretch = text[i].value
               \/ HasNocase(text, i) /\ Lowered(stretch) = Lowered(text[i].value)
Says(text, payload) ==
    \E at \in [ContentsOf(text) -> 0..Len(payload)] : Places(text, payload, at)

\* A rule is reported only for a payload that has what it says, and is not missed
\* for one that has. The matcher does not go back: a rule that limits how far
\* behind the previous content one may be found can be missed. Rules with a content
\* that does not parse, and payloads that are not text, are excepted.
RulesMatchAsWritten ==
    built /\ result # NoResult /\ IsText(result.payload) =>
    \A i \in DOMAIN texts :
        LET text == texts[i]
            limited == \E c \in ContentsOf(text) : Relative(text, c)
                          /\ (Setting(text, c, "depth") > 0 \/ Setting(text, c, "within") > 0)
        IN  (\A c \in ContentsOf(text) : Parses(text[c])) =>
            /\ i \in result.matched => Says(text, result.payload)
            /\ Says(text, result.payload) /\ ~limited => i \in result.matched
===============================================================================
