----------------------------- MODULE MCComponents -----------------------------
(***************************************************************************)
(* Instances for TLC of the components that detection is made of, and of   *)
(* Reload. They share no state: each behaviour is one of one of them, the  *)
(* focus, while the others stay in an initial state.                       *)
(***************************************************************************)
EXTENDS MCReload, MCFlowTable, Reassembly, RateWindow, RuleEngine, FlowFeatures

(* Reassembly *)

FiveBytes == <<1, 2, 3, 4, 5>>
ShortSegments == {<<i, j>> \in (1..5) \X (1..5) : i <= j /\ j < i + 2}

(* RateWindow *)

AboveOne == [r \in DOMAIN RateRules \cup DOMAIN MapRules \cup {"NET-SYN-001", "NET-DOS-001"} |-> 1]

(* RuleEngine *)

LOCAL Content(pattern) == [key |-> "content", value |-> pattern]
LOCAL Modifier(key, n) == [key |-> key, value |-> n]
LOCAL Nocase == Modifier("nocase", 0)

\* "x" stands for a byte that is no text.
Letters == {"a", "A", "b", "x"}
SmallLetters == [b \in Letters |-> IF b = "A" THEN "a" ELSE b]
ReplacementBytes == <<"r", "s", "t">>

\* Patterns that are prefixes, suffixes and infixes of each other, every modifier, and
\* contents that do not parse.
SomeRules ==
    {<<>>,
     <<Content(<<"a", "b">>)>>,
     <<Content(<<"a", "a", "b">>)>>,
     <<Content(<<"A", "b">>), Nocase>>,
     <<Content(<<"b", "a">>), Modifier("offset", 1), Modifier("depth", 2)>>,
     <<Content(<<"a">>), Modifier("depth", 2), Content(<<"b">>), Modifier("distance", 0)>>,
     <<Content(<<"b">>), Content(<<"a">>), Modifier("within", 1), Nocase>>,
     <<Content(<<>>), Nocase, Content(<<"b">>), Content(<<>>), Modifier("offset", 2)>>}
ShortPayloads == UNION {[1..n -> Letters] : n \in 0..4}

-------------------------------------------------------------------------------
VARIABLE focus

mcvars == <<focus, rlvars, ftvars, svars, wvars, rvars, fvars>>

MCInit ==
    /\ focus \in {"reload", "flows", "stream", "rates", "rules", "features"}
    /\ RLInit /\ FTInit /\ SInit /\ WInit /\ RInit /\ FInit
    /\ focus # "reload" => env = (CHOOSE c \in Settings : TRUE) /\ forward = 0
    /\ focus # "stream" => isn = (CHOOSE i \in ISNs : TRUE)

MCNext ==
    \/ focus = "reload" /\ RLNext /\ UNCHANGED <<focus, ftvars, svars, wvars, rvars, fvars>>
    \/ focus = "flows" /\ FTNext /\ UNCHANGED <<focus, rlvars, svars, wvars, rvars, fvars>>
    \/ focus = "stream" /\ SNext /\ UNCHANGED <<focus, rlvars, ftvars, wvars, rvars, fvars>>
    \/ focus = "rates" /\ WNext /\ UNCHANGED <<focus, rlvars, ftvars, svars, rvars, fvars>>
    \/ focus = "rules" /\ RNext /\ UNCHANGED <<focus, rlvars, ftvars, svars, wvars, fvars>>
    \/ focus = "features" /\ FNext /\ UNCHANGED <<focus, rlvars, ftvars, svars, wvars, rvars>>

MCSpec == MCInit /\ [][MCNext]_mcvars

\* Goroutines, which have the same names in every component, are interchangeable, and
\* so are the keys of a window.
MCSymmetry == Permutations(Workers \cup Loops \cup Requesters) \cup Permutations(Keys)

-------------------------------------------------------------------------------
\* The type invariants of the components.
ComponentsTypeOK ==
    CASE focus = "reload"   -> ReloadTypeOK
      [] focus = "flows"    -> FlowTypeOK
      [] focus = "stream"   -> StreamTypeOK
      [] focus = "rates"    -> RateTypeOK
      [] focus = "rules"    -> RulesTypeOK
      [] focus = "features" -> FeaturesTypeOK
===============================================================================
