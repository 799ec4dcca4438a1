-------------------------- MODULE MCAuthorization --------------------------
(***************************************************************************)
(* Two policies that name the gate or a door group, before or after        *)
(* another door, each with a schedule of its own.  A week has two days of  *)
(* four seconds of two ticks, a year three days.                           *)
(***************************************************************************)
EXTENDS Authorization

CONSTANTS gate, group, door, s1, s2

MCPolicies ==
    [resources: {<<gate>>, <<door, group>>}, schedule_id: {s1, s2}]

MCPolicyLists ==
    {<<>>} \cup {<<p>> : p \in MCPolicies}
    \cup {<<p, q>> : p \in MCPolicies, q \in MCPolicies}

MCRanges == {Malformed} \cup
    {[start |-> 2, end |-> 4], [start |-> 4, end |-> 6], [start |-> 0, end |-> 0],
     [start |-> 6, end |-> 2]}

Range1 == [start |-> 2, end |-> 4]
Night == [start |-> 6, end |-> 2]

\* A holiday within a day, one over New Year that first comes after the
\* horizon, one that ends when it starts.
MCHolidays == {Malformed} \cup
    {[start |-> 3, end |-> 8, repeat |-> FALSE],
     [start |-> 3, end |-> 8, repeat |-> TRUE],
     [start |-> 68, end |-> 77, repeat |-> TRUE],
     [start |-> 9, end |-> 9, repeat |-> FALSE]}

UpToTwo(S) == {<<>>} \cup {<<x>> : x \in S} \cup {<<x, y>> : x \in S, y \in S}

DayPlans == {<<>>, <<Range1>>, <<[start |-> 0, end |-> 0], Night>>, <<Night>>,
             <<Range1, Malformed>>, <<Malformed, Range1>>}

Always(ranges) ==
    [weekly |-> [d \in 0 .. 1 |-> ranges], holiday_schedule |-> Absent, holidays |-> <<>>]

\* A plan that admits at both times, at the second one only, at neither, and
\* one that cannot be read.
MCPlans ==
    {Always(<<Range1>>), Always(<<[start |-> 4, end |-> 6]>>), Always(<<>>),
     Always(<<Malformed>>)}

MCSchedules == MCPlans \cup
    [weekly: {Absent} \cup [0 .. 1 -> DayPlans],
     holiday_schedule: {Absent, <<>>, <<Range1>>},
     holidays: UpToTwo(MCHolidays)]
=============================================================================
