---------------------- MODULE GateAuthorizationProofs ----------------------
(***************************************************************************)
(* Theorems about GateAuthorization, for any number of tags, every         *)
(* cooldown and every time limit.  The invariant Timing accounts for the   *)
(* time since the report of an attempt under way, which the program keeps  *)
(* nowhere, by the time its calls have taken.                              *)
(***************************************************************************)
EXTENDS GateAuthorization, TLAPS

LEMMA Constants ==
    /\ {Cooldown, Poll, LearnLimit, AuthorizeLimit, UnlockLimit, MaxFailures} \subseteq Nat
    /\ Attempt \in Nat /\ Attempt = AuthorizeLimit + UnlockLimit
    /\ NoTag \notin Tags
BY GateAssumption DEF Attempt

\* Only a call that is awaited has a limit.
LEMMA Limits ==
    /\ DOMAIN Limit = {"learn", "retry", "authorize", "unlock", "opened"}
    /\ Limit["learn"] = LearnLimit /\ Limit["retry"] = LearnLimit
    /\ Limit["authorize"] = AuthorizeLimit
    /\ Limit["unlock"] = UnlockLimit /\ Limit["opened"] = UnlockLimit
    /\ \A p \in DOMAIN Limit : Limit[p] \in Nat
BY Constants DEF Limit

-----------------------------------------------------------------------------
(* Type correctness, in four parts.                                        *)

TaskTyped ==
    /\ phase \in Phases
    /\ tag \in Tags \cup {NoTag}
    /\ phase = "idle" <=> tag = NoTag
    /\ elapsed \in Nat
    /\ phase \in DOMAIN Limit => elapsed <= Limit[phase]

TimersTyped ==
    /\ cooling \in [Tags -> 0 .. Cooldown]
    /\ throttle \in [Tags -> 0 .. Poll]
    /\ sinceOpen \in [Tags -> 0 .. Cooldown]

TableTyped ==
    /\ usable \in [Tags -> BOOLEAN]
    /\ sinceUsable \in [Tags -> 0 .. Attempt + 1]

CountsTyped == failures \in 0 .. MaxFailures /\ opened \in BOOLEAN /\ lost \in Nat

LEMMA Parts == TypeOK <=> TaskTyped /\ TimersTyped /\ TableTyped /\ CountsTyped
BY DEF TypeOK, TaskTyped, TimersTyped, TableTyped, CountsTyped

LEMMA InitTyped == Init => TypeOK
<1> SUFFICES ASSUME Init PROVE TypeOK
  OBVIOUS
<1>1. TableTyped
  BY Constants DEF Init, TableTyped
<1>2. TimersTyped
  BY Constants DEF Init, TimersTyped
<1>3. TaskTyped
  BY Limits DEF Init, TaskTyped, Phases
<1>4. CountsTyped
  <2>1. opened \in BOOLEAN
    BY Zenon DEF Init
  <2>2. failures \in 0 .. MaxFailures /\ lost \in Nat
    BY Constants DEF Init
  <2> QED BY <2>1, <2>2 DEF CountsTyped
<1> QED BY <1>1, <1>2, <1>3, <1>4, Parts

\* A step of the task starts the next call's time anew.
LEMMA GoTyped ==
    ASSUME \/ \E p \in Phases \ {"idle"} : \E t \in Tags : Go(p, t)
           \/ Finish
    PROVE  TaskTyped'
<1>1. CASE Finish
  BY <1>1, Limits DEF Finish, Go, TaskTyped, Phases
<1>2. CASE \E p \in Phases \ {"idle"} : \E t \in Tags : Go(p, t)
  <2>1. PICK p \in Phases \ {"idle"}, t \in Tags : phase' = p /\ tag' = t /\ elapsed' = 0
    BY <1>2 DEF Go
  <2>2. phase' \in DOMAIN Limit => 0 <= Limit[phase']
    BY Limits
  <2> QED BY <2>1, <2>2, Constants DEF TaskTyped
<1> QED BY <1>1, <1>2

\* The changes of an assignment keep the types.
LEMMA SetUsableTyped ==
    ASSUME TableTyped, NEW t \in Tags, NEW u \in BOOLEAN, SetUsable(t, u)
    PROVE  TableTyped'
<1>1. usable' \in [Tags -> BOOLEAN]
  BY DEF TableTyped, SetUsable
<1>2. sinceUsable' = [sinceUsable EXCEPT ![t] = 0] \/ sinceUsable' = sinceUsable
  BY DEF SetUsable
<1>3. sinceUsable' \in [Tags -> 0 .. Attempt + 1]
  BY <1>2, Constants DEF TableTyped
<1> QED BY <1>1, <1>3 DEF TableTyped

\* The discovery half of an event changes an assignment, a cooldown, or both.
LEMMA LearnedChanges ==
    ASSUME NEW t \in Tags, Learned(t)
    PROVE  /\ cooling' = cooling \/ cooling' = [cooling EXCEPT ![t] = Cooldown]
           /\ \/ UNCHANGED <<usable, sinceUsable>>
              \/ SetUsable(t, TRUE) \/ SetUsable(t, FALSE)
BY DEF Learned

\* A failure counts, and so does the opening it leaves unrecorded.
LEMMA FailureCounted ==
    ASSUME CountsTyped, failures < MaxFailures, failures' = failures + 1,
           lost' = IF opened THEN lost + 1 ELSE lost, opened' = FALSE
    PROVE  CountsTyped'
<1>1. opened' \in BOOLEAN
  BY Zenon
<1>2. failures' \in 0 .. MaxFailures
  BY Constants DEF CountsTyped
<1>3. lost' = lost + 1 \/ lost' = lost
  OBVIOUS
<1>4. lost' \in Nat
  BY <1>3 DEF CountsTyped
<1> QED BY <1>1, <1>2, <1>4 DEF CountsTyped

LEMMA TypeInductive == TypeOK /\ [Next]_vars => TypeOK'
<1> SUFFICES ASSUME TypeOK, [Next]_vars PROVE TypeOK'
  OBVIOUS
<1>a. TaskTyped /\ TimersTyped /\ TableTyped /\ CountsTyped
  BY Parts
<1>b. SUFFICES TaskTyped' /\ TimersTyped' /\ TableTyped' /\ CountsTyped'
  BY DEF TypeOK, TaskTyped, TimersTyped, TableTyped, CountsTyped
<1>h. phase # "idle" => tag \in Tags
  BY <1>a DEF TaskTyped
<1>1. CASE \E t \in Tags : Report(t) \/ RetryPass(t)
  <2>1. PICK t \in Tags : Report(t) \/ RetryPass(t)
    BY <1>1
  <2>2. TaskTyped'
    BY <2>1, GoTyped DEF Report, ReportLearns, ReportPasses, RetryPass, Phases
  <2>3. TimersTyped'
    BY <1>a, <2>1, Constants
    DEF Report, ReportLearns, ReportPasses, RetryPass, history, TimersTyped
  <2>4. TableTyped' /\ CountsTyped'
    BY <1>a, <2>1
    DEF Report, ReportLearns, ReportPasses, RetryPass, history, TableTyped, CountsTyped
  <2> QED BY <2>2, <2>3, <2>4
<1>2. CASE \E t \in Tags : AssignmentChanges(t)
  <2>1. PICK t \in Tags : AssignmentChanges(t)
    BY <1>2
  <2>2. PICK u \in BOOLEAN : u = ~usable[t]
    BY Zenon
  <2>3. SetUsable(t, u)
    BY <2>1, <2>2, Zenon DEF AssignmentChanges
  <2>4. TableTyped'
    BY <1>a, <2>3, SetUsableTyped
  <2> QED BY <1>a, <2>1, <2>4
          DEF AssignmentChanges, TaskTyped, TimersTyped, CountsTyped
<1>3. CASE LearnReturns \/ RetryReturns
  <2>1. PICK t \in Tags : t = tag
    BY <1>3, <1>h DEF LearnReturns, RetryReturns
  <2>2. Learned(t)
    BY <1>3, <2>1 DEF LearnReturns, RetryReturns
  <2>3. TimersTyped'
    <3>1. UNCHANGED <<throttle, sinceOpen>>
      BY <1>3 DEF LearnReturns, RetryReturns
    <3>2. cooling' = cooling \/ cooling' = [cooling EXCEPT ![t] = Cooldown]
      BY <2>2, LearnedChanges
    <3> QED BY <1>a, <3>1, <3>2, Constants DEF TimersTyped
  <2>4. TableTyped'
    <3>1. CASE UNCHANGED <<usable, sinceUsable>>
      BY <1>a, <3>1 DEF TableTyped
    <3>2. CASE SetUsable(t, TRUE) \/ SetUsable(t, FALSE)
      BY <1>a, <3>2, SetUsableTyped
    <3> QED BY <2>2, <3>1, <3>2, LearnedChanges
  <2>5. TaskTyped'
    BY <1>3, <2>1, GoTyped DEF LearnReturns, RetryReturns, Phases
  <2> QED BY <1>a, <1>3, <2>3, <2>4, <2>5 DEF LearnReturns, RetryReturns, CountsTyped
<1>4. CASE LearnFails \/ GateSkips
  <2>1. TaskTyped'
    BY <1>4, GoTyped DEF LearnFails, GateSkips
  <2> QED BY <1>a, <1>4, <2>1
          DEF LearnFails, GateSkips, history, TimersTyped, TableTyped, CountsTyped
<1>5. CASE GateAttempts
  <2>1. TaskTyped'
    BY <1>5, <1>h, GoTyped DEF GateAttempts, Phases
  <2>2. TimersTyped'
    BY <1>a, <1>h, <1>5, Constants DEF GateAttempts, history, TimersTyped
  <2> QED BY <1>a, <1>5, <2>1, <2>2 DEF GateAttempts, history, TableTyped, CountsTyped
<1>6. CASE Granted \/ NotGranted \/ UnlockReturns
  <2>1. TaskTyped'
    BY <1>6, <1>h, GoTyped DEF Granted, NotGranted, UnlockReturns, Phases
  <2> QED BY <1>a, <1>6, <2>1
          DEF Granted, NotGranted, UnlockReturns, history, TimersTyped, TableTyped, CountsTyped
<1>7. CASE Record
  <2>1. TaskTyped'
    BY <1>7, GoTyped DEF Record
  <2> QED BY <1>a, <1>7, <2>1 DEF Record, TimersTyped, TableTyped, CountsTyped
<1>8. CASE ControllerOpens
  <2>1. TaskTyped'
    BY <1>a, <1>8, Limits DEF ControllerOpens, TaskTyped, Phases
  <2>2. TimersTyped'
    BY <1>a, <1>h, <1>8, Constants DEF ControllerOpens, TimersTyped
  <2> QED BY <1>a, <1>8, <2>1, <2>2 DEF ControllerOpens, TableTyped, CountsTyped
<1>9. CASE StatementFails
  <2>1. TaskTyped'
    BY <1>9, GoTyped DEF StatementFails
  <2>2. CountsTyped'
    BY <1>a, <1>9, FailureCounted DEF StatementFails
  <2> QED BY <1>a, <1>9, <2>1, <2>2 DEF StatementFails, TimersTyped, TableTyped
<1>10. CASE Crash
  <2>1. TaskTyped'
    BY <1>10, GoTyped DEF Crash
  <2>2. CountsTyped'
    BY <1>a, <1>10, FailureCounted DEF Crash
  <2>3. TimersTyped'
    BY <1>10, Constants DEF Crash, TimersTyped
  <2> QED BY <1>a, <1>10, <2>1, <2>2, <2>3 DEF Crash, TableTyped
<1>11. CASE Tick
  <2>1. TimersTyped'
    BY <1>a, <1>11, Constants DEF Tick, TimersTyped, Less, More
  <2>2. TableTyped'
    <3>1. usable' \in [Tags -> BOOLEAN]
      BY <1>a, <1>11 DEF Tick, TableTyped
    <3>2. sinceUsable' \in [Tags -> 0 .. Attempt + 1]
      BY <1>a, <1>11, Constants DEF Tick, TableTyped, More
    <3> QED BY <3>1, <3>2 DEF TableTyped
  <2>3. TaskTyped'
    BY <1>a, <1>11, Limits DEF Tick, TaskTyped
  <2> QED BY <1>a, <1>11, <2>1, <2>2, <2>3 DEF Tick, CountsTyped
<1>12. CASE UNCHANGED vars
  BY <1>a, <1>12 DEF vars, TaskTyped, TimersTyped, TableTyped, CountsTyped
<1> QED BY <1>1, <1>2, <1>3, <1>4, <1>5, <1>6, <1>7, <1>8, <1>9, <1>10, <1>11, <1>12
        DEF Next, Handle

\* The timers never run past what set them, whatever calls, failures and
\* commands come between.
THEOREM TypeCorrect == Spec => []TypeOK
BY InitTyped, TypeInductive, PTL DEF Spec

-----------------------------------------------------------------------------
(* Openings are recorded.                                                  *)

LEMMA RecordedInductive ==
    TypeOK /\ OpeningsAreRecorded /\ [Next]_vars => OpeningsAreRecorded'
<1> SUFFICES ASSUME TypeOK, OpeningsAreRecorded, [Next]_vars
             PROVE  OpeningsAreRecorded'
  OBVIOUS
<1>a. failures \in Nat /\ lost \in Nat
  BY Constants DEF TypeOK
<1>b. lost <= failures /\ (opened => phase \in {"opened", "record"})
  BY DEF OpeningsAreRecorded
<1>1. CASE \E t \in Tags : Report(t) \/ RetryPass(t) \/ AssignmentChanges(t)
  BY <1>b, <1>1 DEF Report, ReportLearns, ReportPasses, RetryPass, AssignmentChanges,
                    history, OpeningsAreRecorded
<1>2. CASE LearnReturns \/ LearnFails \/ RetryReturns \/ GateSkips \/ GateAttempts
           \/ Granted \/ NotGranted
  BY <1>b, <1>2 DEF LearnReturns, LearnFails, RetryReturns, GateSkips, GateAttempts,
                    Granted, NotGranted, history, OpeningsAreRecorded
<1>3. CASE UnlockReturns
  BY <1>b, <1>3 DEF UnlockReturns, Go, history, OpeningsAreRecorded
<1>4. CASE Record
  BY <1>b, <1>4 DEF Record, OpeningsAreRecorded
<1>5. CASE ControllerOpens
  BY <1>b, <1>5 DEF ControllerOpens, OpeningsAreRecorded
<1>6. CASE StatementFails \/ Crash
  <2>1. opened' = FALSE /\ failures' = failures + 1 /\ (lost' = lost \/ lost' = lost + 1)
    BY <1>6 DEF StatementFails, Crash
  <2>2. lost' <= failures'
    BY <1>a, <1>b, <2>1
  <2> QED BY <2>1, <2>2 DEF OpeningsAreRecorded
<1>7. CASE Tick \/ UNCHANGED vars
  BY <1>b, <1>7 DEF Tick, vars, OpeningsAreRecorded
<1> QED BY <1>1, <1>2, <1>3, <1>4, <1>5, <1>6, <1>7 DEF Next, Handle

\* Every opening gets its row in gate_events, but for one per crash or failed
\* statement.
THEOREM OpeningsRecorded == Spec => []OpeningsAreRecorded
<1>1. Init => OpeningsAreRecorded
  BY DEF Init, OpeningsAreRecorded
<1> QED BY <1>1, TypeCorrect, RecordedInductive, PTL DEF Spec

-----------------------------------------------------------------------------
(* How far apart openings are, and how soon they end.  The cooldown covers *)
(* the time since the last opening up to what an attempt may take; while   *)
(* one is under way its calls account for the time since its report.       *)

FreshlyUsable == \A t \in Tags : usable[t] => sinceUsable[t] = 0

Cooled == \A t \in Tags : sinceOpen[t] + cooling[t] + Attempt >= Cooldown

\* The attempt in hand began spent ago.
Under(spent) ==
    /\ sinceUsable[tag] <= spent
    /\ cooling[tag] + spent >= Cooldown
    /\ sinceOpen[tag] + Attempt >= Cooldown

UnderWay ==
    /\ phase = "authorize" => Under(elapsed)
    /\ phase = "unlock" => Under(AuthorizeLimit + elapsed)

Timing == FreshlyUsable /\ Cooled /\ UnderWay

LEMMA TimingInitial == Init => Timing
<1> SUFFICES ASSUME Init PROVE Timing
  OBVIOUS
<1>1. FreshlyUsable
  BY DEF Init, FreshlyUsable
<1>2. ASSUME NEW t \in Tags PROVE sinceOpen[t] + cooling[t] + Attempt >= Cooldown
  <2>1. sinceOpen[t] = Cooldown /\ cooling[t] = 0
    BY DEF Init
  <2> QED BY <2>1, Constants
<1>3. UnderWay
  BY DEF Init, UnderWay
<1> QED BY <1>1, <1>2, <1>3 DEF Timing, Cooled

\* What the types say of the timers, in numbers.
LEMMA Numbers ==
    TypeOK => /\ elapsed \in Nat
              /\ \A t \in Tags : /\ cooling[t] \in Nat /\ sinceUsable[t] \in Nat
                                 /\ sinceOpen[t] \in Nat /\ sinceOpen[t] <= Cooldown
              /\ phase = "authorize" => elapsed <= AuthorizeLimit
              /\ phase = "unlock" => elapsed <= UnlockLimit
              /\ phase \in {"authorize", "unlock"} => tag \in Tags
<1> SUFFICES ASSUME TypeOK
             PROVE  /\ elapsed \in Nat
                    /\ \A t \in Tags : /\ cooling[t] \in Nat /\ sinceUsable[t] \in Nat
                                       /\ sinceOpen[t] \in Nat /\ sinceOpen[t] <= Cooldown
                    /\ phase = "authorize" => elapsed <= AuthorizeLimit
                    /\ phase = "unlock" => elapsed <= UnlockLimit
                    /\ phase \in {"authorize", "unlock"} => tag \in Tags
  OBVIOUS
<1>1. TaskTyped /\ TimersTyped /\ TableTyped
  BY Parts
<1>2. /\ phase = "authorize" => elapsed <= AuthorizeLimit
      /\ phase = "unlock" => elapsed <= UnlockLimit
      /\ phase \in {"authorize", "unlock"} => tag \in Tags
      /\ elapsed \in Nat
  BY <1>1, Limits DEF TaskTyped
<1>3. ASSUME NEW t \in Tags
      PROVE  /\ cooling[t] \in Nat /\ sinceUsable[t] \in Nat
             /\ sinceOpen[t] \in Nat /\ sinceOpen[t] <= Cooldown
  BY <1>1, Constants DEF TimersTyped, TableTyped
<1> QED BY <1>2, <1>3

LEMMA FreshInductive ==
    TypeOK /\ FreshlyUsable /\ [Next]_vars => FreshlyUsable'
<1> SUFFICES ASSUME TypeOK, FreshlyUsable, [Next]_vars, NEW t \in Tags, usable'[t]
             PROVE  sinceUsable'[t] = 0
  BY DEF FreshlyUsable
<1>a. usable \in [Tags -> BOOLEAN] /\ sinceUsable \in [Tags -> 0 .. Attempt + 1]
  BY DEF TypeOK
<1>1. CASE UNCHANGED <<usable, sinceUsable>>
  BY <1>1 DEF FreshlyUsable
<1>2. CASE \E u \in Tags, b \in BOOLEAN : SetUsable(u, b)
  <2>1. PICK u \in Tags, b \in BOOLEAN : SetUsable(u, b)
    BY <1>2
  <2>2. CASE t = u
    <3>1. usable'[t] = b
      BY <1>a, <2>1, <2>2, Zenon DEF SetUsable
    <3>2. sinceUsable' = [sinceUsable EXCEPT ![u] = 0]
      BY <2>1, <3>1 DEF SetUsable
    <3> QED BY <1>a, <2>2, <3>2
  <2>3. CASE t # u
    <3>1. usable[t]
      BY <1>a, <2>1, <2>3, Zenon DEF SetUsable
    <3>2. sinceUsable'[t] = sinceUsable[t]
      BY <1>a, <2>1, <2>3 DEF SetUsable
    <3> QED BY <3>1, <3>2 DEF FreshlyUsable
  <2> QED BY <2>2, <2>3
<1>3. CASE Tick
  BY <1>3 DEF Tick
<1>4. CASE LearnReturns \/ RetryReturns
  <2>1. PICK u \in Tags : u = tag
    BY <1>4 DEF TypeOK, LearnReturns, RetryReturns
  <2>2. Learned(u)
    BY <1>4, <2>1 DEF LearnReturns, RetryReturns
  <2> QED BY <1>1, <1>2, <2>2, LearnedChanges
<1>5. CASE \E u \in Tags : AssignmentChanges(u)
  <2>1. PICK u \in Tags : AssignmentChanges(u)
    BY <1>5
  <2>2. PICK b \in BOOLEAN : b = ~usable[u]
    BY Zenon
  <2>3. SetUsable(u, b)
    BY <2>1, <2>2, Zenon DEF AssignmentChanges
  <2> QED BY <1>2, <2>3
<1>6. CASE \/ \E u \in Tags : Report(u) \/ RetryPass(u)
           \/ LearnFails \/ GateSkips \/ GateAttempts \/ Granted \/ NotGranted
           \/ UnlockReturns \/ Record \/ ControllerOpens \/ StatementFails \/ Crash
           \/ UNCHANGED vars
  BY <1>1, <1>6 DEF Report, ReportLearns, ReportPasses, RetryPass, LearnFails, GateSkips,
     GateAttempts, Granted, NotGranted, UnlockReturns, Record, ControllerOpens,
     StatementFails, Crash, vars, history
<1> QED BY <1>3, <1>4, <1>5, <1>6 DEF Next, Handle

\* The steps that start no attempt and open nothing leave the cooldowns as
\* they are or arm them.
Arms(t) == /\ UNCHANGED sinceOpen
           /\ cooling' = cooling \/ cooling' = [cooling EXCEPT ![t] = Cooldown]

LEMMA CooledInductive ==
    TypeOK /\ Timing /\ [Next]_vars => Cooled'
<1> SUFFICES ASSUME TypeOK, Timing, [Next]_vars, NEW t \in Tags
             PROVE  sinceOpen'[t] + cooling'[t] + Attempt >= Cooldown
  BY DEF Cooled
<1>a. cooling[t] \in Nat /\ sinceOpen[t] \in Nat /\ sinceOpen[t] <= Cooldown
  BY Numbers
<1>b. sinceOpen[t] + cooling[t] + Attempt >= Cooldown
  BY DEF Timing, Cooled
<1>c. cooling \in [Tags -> 0 .. Cooldown] /\ sinceOpen \in [Tags -> 0 .. Cooldown]
  BY DEF TypeOK
<1>1. CASE UNCHANGED <<cooling, sinceOpen>>
  BY <1>b, <1>1
<1>2. CASE \E u \in Tags : Arms(u)
  <2>1. PICK u \in Tags : Arms(u)
    BY <1>2
  <2>2. cooling'[t] = cooling[t] \/ cooling'[t] = Cooldown
    BY <1>c, <2>1 DEF Arms
  <2>3. sinceOpen'[t] = sinceOpen[t]
    BY <2>1 DEF Arms
  <2> QED BY <1>a, <1>b, <2>2, <2>3, Constants
<1>3. CASE Tick
  <2>1. cooling'[t] = Less(cooling[t]) /\ sinceOpen'[t] = More(sinceOpen[t], Cooldown)
    BY <1>3 DEF Tick
  <2>2. cooling'[t] \in Nat /\ cooling'[t] + 1 >= cooling[t]
    BY <1>a, <2>1 DEF Less
  <2>3. sinceOpen'[t] = sinceOpen[t] + 1 \/ sinceOpen'[t] = Cooldown
    BY <2>1 DEF More
  <2> QED BY <1>a, <1>b, <2>2, <2>3, Constants
<1>4. CASE ControllerOpens
  <2>1. /\ elapsed \in Nat /\ elapsed <= UnlockLimit /\ tag \in Tags
        /\ cooling[tag] \in Nat /\ cooling[tag] + (AuthorizeLimit + elapsed) >= Cooldown
    BY <1>4, Numbers DEF ControllerOpens, Timing, UnderWay, Under
  <2>2. cooling[tag] + Attempt >= Cooldown
    BY <2>1, Constants
  <2>3. sinceOpen'[t] = IF t = tag THEN 0 ELSE sinceOpen[t]
    BY <1>c, <1>4, <2>1 DEF ControllerOpens
  <2>4. cooling'[t] = cooling[t]
    BY <1>4 DEF ControllerOpens
  <2> QED BY <1>a, <1>b, <2>2, <2>3, <2>4, Constants
<1>5. CASE Crash
  <2>1. sinceOpen'[t] = Cooldown /\ cooling'[t] = 0
    BY <1>5 DEF Crash
  <2> QED BY <2>1, Constants
<1>6. CASE LearnReturns \/ RetryReturns
  <2>1. PICK u \in Tags : u = tag
    BY <1>6 DEF TypeOK, LearnReturns, RetryReturns
  <2>2. Learned(u) /\ UNCHANGED sinceOpen
    BY <1>6, <2>1 DEF LearnReturns, RetryReturns
  <2> QED BY <1>2, <2>2, LearnedChanges DEF Arms
<1>7. CASE GateAttempts
  <2>1. PICK u \in Tags : u = tag
    BY <1>7 DEF TypeOK, GateAttempts
  <2> QED BY <1>2, <1>7, <2>1 DEF GateAttempts, history, Arms
<1>8. CASE \/ \E u \in Tags : Report(u) \/ RetryPass(u) \/ AssignmentChanges(u)
           \/ LearnFails \/ GateSkips \/ Granted \/ NotGranted
           \/ UnlockReturns \/ Record \/ StatementFails \/ UNCHANGED vars
  BY <1>1, <1>8 DEF Report, ReportLearns, ReportPasses, RetryPass, AssignmentChanges,
     LearnFails, GateSkips, Granted, NotGranted, UnlockReturns, Record,
     StatementFails, vars, history
<1> QED BY <1>3, <1>4, <1>5, <1>6, <1>7, <1>8 DEF Next, Handle

LEMMA UnderWayInductive ==
    TypeOK /\ Timing /\ [Next]_vars => UnderWay'
<1> SUFFICES ASSUME TypeOK, Timing, [Next]_vars PROVE UnderWay'
  OBVIOUS
<1>c. /\ cooling \in [Tags -> 0 .. Cooldown] /\ sinceOpen \in [Tags -> 0 .. Cooldown]
      /\ sinceUsable \in [Tags -> 0 .. Attempt + 1]
  BY DEF TypeOK
<1>1. CASE UNCHANGED <<phase, tag, elapsed, cooling, sinceOpen, sinceUsable>>
  BY <1>1 DEF Timing, UnderWay, Under
<1>2. CASE phase' \notin {"authorize", "unlock"}
  BY <1>2 DEF UnderWay
<1>3. CASE GateAttempts
  <2>1. /\ phase' = "authorize" /\ tag' = tag /\ elapsed' = 0 /\ tag \in Tags
        /\ usable[tag] /\ ~(cooling[tag] > 0)
        /\ cooling'[tag] = Cooldown /\ UNCHANGED <<sinceOpen, sinceUsable>>
    BY <1>c, <1>3 DEF GateAttempts, Go, NotNow, history, TypeOK
  <2>2. sinceUsable[tag] = 0
    BY <2>1 DEF Timing, FreshlyUsable
  <2>3. sinceOpen[tag] + Attempt >= Cooldown
    <3>1. cooling[tag] = 0 /\ sinceOpen[tag] \in Nat
      BY <2>1, Numbers
    <3>2. sinceOpen[tag] + cooling[tag] + Attempt >= Cooldown
      BY <2>1 DEF Timing, Cooled
    <3> QED BY <3>1, <3>2, Constants
  <2> QED BY <2>1, <2>2, <2>3, Constants DEF UnderWay, Under
<1>4. CASE Granted
  <2>1. /\ phase = "authorize" /\ tag' = tag /\ elapsed' = 0 /\ tag \in Tags
        /\ phase' # "authorize" /\ UNCHANGED <<cooling, sinceOpen, sinceUsable>>
    BY <1>4 DEF Granted, Go, history, TypeOK
  <2>2. Under(elapsed)
    BY <2>1 DEF Timing, UnderWay
  <2>3. /\ elapsed \in Nat /\ elapsed <= AuthorizeLimit
        /\ cooling[tag] \in Nat /\ sinceUsable[tag] \in Nat
    BY <2>1, Numbers
  <2>4. /\ sinceUsable[tag] <= AuthorizeLimit + 0
        /\ cooling[tag] + (AuthorizeLimit + 0) >= Cooldown
        /\ sinceOpen[tag] + Attempt >= Cooldown
    BY <2>2, <2>3, Constants DEF Under
  <2> QED BY <2>1, <2>4 DEF UnderWay, Under
<1>5. CASE Tick
  <2>1. CASE phase \in {"authorize", "unlock"}
    <3>1. /\ phase' = phase /\ tag' = tag /\ elapsed' = elapsed + 1 /\ tag \in Tags
          /\ cooling'[tag] = Less(cooling[tag])
          /\ sinceOpen'[tag] = More(sinceOpen[tag], Cooldown)
          /\ sinceUsable'[tag] = IF usable[tag] THEN 0
                                 ELSE More(sinceUsable[tag], Attempt + 1)
      BY <1>5, <2>1 DEF Tick, TypeOK
    <3>2. /\ elapsed \in Nat /\ cooling[tag] \in Nat /\ sinceUsable[tag] \in Nat
          /\ sinceOpen[tag] \in Nat /\ sinceOpen[tag] <= Cooldown
      BY <3>1, Numbers
    <3>3. sinceUsable'[tag] <= sinceUsable[tag] + 1
      BY <3>1, <3>2, Constants DEF More
    <3>4. cooling'[tag] + 1 >= cooling[tag] /\ cooling'[tag] \in Nat
      BY <3>1, <3>2 DEF Less
    <3>5. sinceOpen'[tag] >= sinceOpen[tag] /\ sinceOpen'[tag] \in Nat
      BY <3>1, <3>2, Constants DEF More
    <3>6. sinceUsable'[tag] \in Nat
      BY <3>1, <3>2, Constants DEF More
    <3>7. ASSUME NEW spent \in Nat, Under(spent)
          PROVE  /\ sinceUsable'[tag] <= spent + 1
                 /\ cooling'[tag] + (spent + 1) >= Cooldown
                 /\ sinceOpen'[tag] + Attempt >= Cooldown
      BY <3>2, <3>3, <3>4, <3>5, <3>6, <3>7, Constants DEF Under
    <3>8. CASE phase = "authorize"
      <4>1. Under(elapsed)
        BY <3>8 DEF Timing, UnderWay
      <4> QED BY <3>1, <3>2, <3>7, <3>8, <4>1 DEF UnderWay, Under
    <3>9. CASE phase = "unlock"
      <4>1. Under(AuthorizeLimit + elapsed)
        BY <3>9 DEF Timing, UnderWay
      <4>2. PICK spent \in Nat : spent = AuthorizeLimit + elapsed
        BY <3>2, Constants
      <4>3. AuthorizeLimit + elapsed' = spent + 1
        BY <3>1, <3>2, <4>2, Constants
      <4> QED BY <3>1, <3>7, <3>9, <4>1, <4>2, <4>3 DEF UnderWay, Under
    <3> QED BY <2>1, <3>8, <3>9
  <2>2. CASE phase \notin {"authorize", "unlock"}
    BY <1>2, <1>5, <2>2 DEF Tick
  <2> QED BY <2>1, <2>2
<1>6. CASE \E u \in Tags : AssignmentChanges(u)
  <2>1. PICK u \in Tags : AssignmentChanges(u)
    BY <1>6
  <2>2. /\ sinceUsable' = sinceUsable \/ sinceUsable' = [sinceUsable EXCEPT ![u] = 0]
        /\ UNCHANGED <<phase, tag, elapsed, cooling, sinceOpen>>
    BY <2>1 DEF AssignmentChanges, SetUsable
  <2>3. CASE phase \in {"authorize", "unlock"}
    <3>1. tag \in Tags /\ sinceUsable[tag] \in Nat
      BY <2>3, Numbers
    <3>2. sinceUsable'[tag] <= sinceUsable[tag] /\ sinceUsable'[tag] \in Nat
      BY <1>c, <2>2, <3>1
    <3>3. elapsed \in Nat /\ AuthorizeLimit + elapsed \in Nat
      BY Numbers, Constants
    <3>4. CASE phase = "authorize"
      <4>1. Under(elapsed)
        BY <3>4 DEF Timing, UnderWay
      <4>2. sinceUsable'[tag] <= elapsed
        BY <3>1, <3>2, <3>3, <4>1 DEF Under
      <4> QED BY <2>2, <3>4, <4>1, <4>2 DEF UnderWay, Under
    <3>5. CASE phase = "unlock"
      <4>1. Under(AuthorizeLimit + elapsed)
        BY <3>5 DEF Timing, UnderWay
      <4>2. sinceUsable'[tag] <= AuthorizeLimit + elapsed
        BY <3>1, <3>2, <3>3, <4>1 DEF Under
      <4> QED BY <2>2, <3>5, <4>1, <4>2 DEF UnderWay, Under
    <3> QED BY <2>3, <3>4, <3>5
  <2> QED BY <1>2, <2>2, <2>3
<1>7. CASE \/ \E u \in Tags : Report(u) \/ RetryPass(u)
           \/ LearnReturns \/ RetryReturns \/ LearnFails \/ GateSkips \/ NotGranted
           \/ UnlockReturns \/ Record \/ ControllerOpens \/ StatementFails \/ Crash
  BY <1>2, <1>7 DEF Report, ReportLearns, ReportPasses, RetryPass, LearnReturns,
     RetryReturns, LearnFails, GateSkips, NotGranted, UnlockReturns, Record,
     ControllerOpens, StatementFails, Crash, Finish, Go
<1>8. CASE UNCHANGED vars
  BY <1>1, <1>8 DEF vars
<1> QED BY <1>3, <1>4, <1>5, <1>6, <1>7, <1>8 DEF Next, Handle

LEMMA TimingHolds == Spec => [](TypeOK /\ Timing)
<1>1. Init => TypeOK /\ Timing
  BY InitTyped, TimingInitial
<1>2. TypeOK /\ Timing /\ [Next]_vars => (TypeOK /\ Timing)'
  BY TypeInductive, FreshInductive, CooledInductive, UnderWayInductive DEF Timing
<1> QED BY <1>1, <1>2, PTL DEF Spec

\* Only the controller opens the gate, for the tag of the attempt in hand.
LEMMA OnlyControllerOpens ==
    ASSUME [Next]_vars, NEW t \in Tags, OpensFor(t)
    PROVE  ControllerOpens /\ tag = t
<1>1. ~opened /\ opened' /\ tag = t
  BY DEF OpensFor
<1>2. CASE Record \/ StatementFails \/ Crash
  BY <1>1, <1>2, Zenon DEF Record, StatementFails, Crash
<1>3. CASE UNCHANGED opened
  BY <1>1, <1>3
<1> QED
  BY <1>1, <1>2, <1>3 DEF Next, Handle, Report, ReportLearns, ReportPasses, RetryPass,
     AssignmentChanges, LearnReturns, RetryReturns, LearnFails, GateSkips, GateAttempts,
     Granted, NotGranted, UnlockReturns, Tick, vars, history

\* Whatever the limits of the calls and the cooldown are: two openings for one
\* tag are at least the cooldown less the time of one attempt apart.
THEOREM UnlocksAreApart == Spec => UnlocksKeepDistance
<1>1. TypeOK /\ Timing /\ [Next]_vars =>
          [\A t \in Tags : OpensFor(t) => sinceOpen[t] + Attempt >= Cooldown]_vars
  <2> SUFFICES ASSUME TypeOK, Timing, [Next]_vars, NEW t \in Tags, OpensFor(t)
               PROVE  sinceOpen[t] + Attempt >= Cooldown
    OBVIOUS
  <2>1. phase = "unlock" /\ tag = t
    BY OnlyControllerOpens DEF ControllerOpens
  <2> QED BY <2>1 DEF Timing, UnderWay, Under
<1> QED BY <1>1, TimingHolds, PTL DEF Spec, UnlocksKeepDistance

\* A tag that is not usable any more opens the gate at most for the time one
\* attempt may take.
THEOREM RevocationEndsOpenings == Spec => RevocationTakesHold
<1>1. TypeOK /\ Timing /\ [Next]_vars =>
          [\A t \in Tags : OpensFor(t) => sinceUsable[t] <= Attempt]_vars
  <2> SUFFICES ASSUME TypeOK, Timing, [Next]_vars, NEW t \in Tags, OpensFor(t)
               PROVE  sinceUsable[t] <= Attempt
    OBVIOUS
  <2>1. phase = "unlock" /\ tag = t
    BY OnlyControllerOpens DEF ControllerOpens
  <2>2. sinceUsable[t] <= AuthorizeLimit + elapsed
    BY <2>1 DEF Timing, UnderWay, Under
  <2>3. elapsed \in Nat /\ elapsed <= UnlockLimit /\ sinceUsable[t] \in Nat
    BY <2>1, Numbers
  <2> QED BY <2>2, <2>3, Constants
<1> QED BY <1>1, TimingHolds, PTL DEF Spec, RevocationTakesHold
=============================================================================
