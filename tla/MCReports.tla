------------------------------ MODULE MCReports ------------------------------
(***************************************************************************)
(* What the user is told: the files of the reporters and the comparisons   *)
(* of expect(), one per behaviour.                                         *)
(***************************************************************************)
EXTENDS Reporting

CONSTANTS Parts, t1, t2, a, b, c, Cases

VARIABLES part, heap, matcher, outcome, shown

expectVars == <<heap, matcher, outcome, shown>>
allVars    == <<part, vars, expectVars>>

Callbacks == {"onStart", "onTestCaseStart", "onStepComplete", "onTestCaseComplete", "onComplete"}
Request   == {"request"}
Both      == {{<<t1, t2>>}, {<<t1>>, <<t2>>}}    \* in sequence, in parallel

\* Besides Reporting itself, with reporters that throw: longer test cases, and
\* the same reporters in two runs.
W == INSTANCE Reporting WITH NSteps <- 2, ThrowsIn <- {}
A == INSTANCE Reporting WITH Tests <- {t1}, Plans <- {{<<t1>>}}, MaxRuns <- 2

E == INSTANCE Expect WITH Objects <- {a, b, c}, KeyOrder <- <<"k1", "k2">>, Left <- a, Right <- b,
                          MAX_DEPTH <- 6, verdict <- outcome, diff <- shown

-----------------------------------------------------------------------------
(* Heaps: each key with an atom, an object, the key undefined, or no key   *)

Objects == {a, b, c}
Field(k, values)     == {k :> v : v \in values}
Either(one, two)  == {<<>>} \cup one \cup two \cup {x @@ y : x \in one, y \in two}
Nodes(kind, contents) == {[kind |-> kind, at |-> x] : x \in contents}

Arrays     == Nodes("array", {<<>>} \cup Field("k1", Objects \cup {"one"}))
Plain      == Nodes("plain", Either(Field("k1", Objects \cup {"one"}), Field("k2", Objects \cup {"undefined"})))
PlainFull  == Nodes("plain", Either(Field("k1", Objects \cup {"one"}), Field("k2", Objects)))
Maps       == Nodes("map", Either(Field("k1", Objects), Field("k2", Objects \cup {"undefined"})))
Dates      == Nodes("date", Field("k1", {"one", "two"}))
Sets       == Nodes("set", {("k1" :> p[1]) @@ ("k2" :> p[2]) : p \in {q \in (Objects \cup {"one"}) \X (Objects \cup {"one"}) : q[1] # q[2]}})

Heaps(nodes) == [Objects -> nodes]

Sound == {<<"toEqual", Heaps(Arrays \cup Plain)>>, <<"toMatchObject", Heaps(Arrays \cup Plain)>>,
          <<"toStrictEqual", Heaps(Arrays \cup PlainFull)>>,
          <<"toEqual", Heaps(Arrays \cup Maps)>>, <<"toStrictEqual", Heaps(Arrays \cup Maps)>>,
          <<"toEqual", Heaps(Arrays \cup Dates)>>}

\* what the comparisons get wrong
WithSets      == {<<"toEqual", Heaps(Arrays \cup Sets)>>}
WithUndefined == {<<"toStrictEqual", Heaps(Plain)>>}
WithDates     == {<<"toMatchObject", Heaps(PlainFull \cup Dates)>>}
MixedKinds    == {<<"toEqual", Heaps(PlainFull \cup Dates)>>}

-----------------------------------------------------------------------------

Absent(v) == v = "absent"
NoExpect  == Absent(heap) /\ Absent(matcher) /\ Absent(outcome) /\ Absent(shown)
NoReports == Init /\ ~ahead    \* and no step

ReportsInit ==
  /\ part \in Parts
  /\ \/ part = "throws" /\ Init /\ NoExpect
     \/ part = "whole" /\ W!Init /\ NoExpect
     \/ part = "again" /\ A!Init /\ NoExpect
     \/ part = "expect" /\ E!Init /\ NoReports

ReportsNext ==
  \/ part = "throws" /\ Next /\ UNCHANGED <<part, expectVars>>
  \/ part = "whole" /\ W!Next /\ UNCHANGED <<part, expectVars>>
  \/ part = "again" /\ A!Next /\ UNCHANGED <<part, expectVars>>
  \/ part = "expect" /\ E!Next /\ UNCHANGED <<part, vars>>

ReportsSpec == ReportsInit /\ [][ReportsNext]_allVars

-----------------------------------------------------------------------------

\* Besides Reported of Reporting, which speaks of its variables only: a
\* comparison says what holds of the values, and a failed one shows why.
ExpectTells == part = "expect" => E!ExpectTells

-----------------------------------------------------------------------------
(* What the code does not promise; no passing run checks it.               *)

ComparisonEnds == part = "expect" => E!ComparisonEnds
StrictShown    == part = "expect" => E!StrictShown
=============================================================================
