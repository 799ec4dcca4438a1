------------------------- MODULE GateAuthorization -------------------------
(***************************************************************************)
(* What the service does with a reader report once a tag may open the      *)
(* gate: handle_event, its discovery half from the outside, and            *)
(* maybe_unlock_gate_identity with its two awaited UniFi calls (main.rs).  *)
(*                                                                         *)
(* Time is kept as what is left of each timer.  An awaited call answers    *)
(* within its limit; statements between two awaits take no time.           *)
(* Reports wait in the channel while the task is busy, so that one may be  *)
(* taken up the moment the task is idle again, however old it is.          *)
(***************************************************************************)
EXTENDS Integers

CONSTANTS
    Tags,
    GateMode,         \* RFID_GATE_MODE: "disabled", "dry-run" or "live"
    DiscoveryEnabled, \* RFID_DISCOVERY_MODE is not "disabled"
    Cooldown,         \* RFID_GATE_UNLOCK_COOLDOWN_MS
    Poll,             \* RFID_DISCOVERY_POLL_MS
    LearnLimit,       \* longest discovery half of an event, or retry pass
    AuthorizeLimit,   \* longest authorize_now
    UnlockLimit,      \* REQUEST_TIMEOUT, for unlock_entry_gate
    MaxFailures,      \* bound on crashes and failed statements
    NoTag             \* no report in hand

ASSUME GateAssumption ==
    /\ GateMode \in {"disabled", "dry-run", "live"}
    /\ DiscoveryEnabled \in BOOLEAN
    /\ {Cooldown, Poll} \subseteq Nat \ {0}
    /\ {LearnLimit, AuthorizeLimit, UnlockLimit, MaxFailures} \subseteq Nat
    /\ NoTag \notin Tags

VARIABLES
    usable,     \* get_gate_owner finds an active assignment with a lease
    cooling,    \* what is left of the cooldown in last_attempts
    throttle,   \* what is left of the poll interval in discovery_last_attempts
    phase,      \* where the task is
    tag,        \* the tag of the report in hand
    elapsed,    \* time spent in the call awaited
    failures,   \* crashes and failed statements
    \* History of the gate, which the program does not keep:
    sinceOpen,  \* time since the tag last opened the gate, in this process
    sinceUsable,\* time since the tag was last usable
    opened,     \* the attempt in hand has opened the gate
    lost        \* openings whose attempt ended without a row in gate_events

vars == <<usable, cooling, throttle, phase, tag, elapsed, failures,
          sinceOpen, sinceUsable, opened, lost>>
history == <<sinceOpen, sinceUsable, opened, lost>>

\* "learn" and "retry" await discovery, "check" is about to read the owner,
\* "authorize" awaits authorize_now, "unlock" and "opened" the controller
\* before and after it has opened the gate, "record" writes the audit row.
Phases == {"idle", "learn", "retry", "check", "authorize", "unlock", "opened",
           "record"}

Limit ==
    [p \in {"learn", "retry", "authorize", "unlock", "opened"} |->
        CASE p \in {"learn", "retry"} -> LearnLimit
          [] p = "authorize" -> AuthorizeLimit
          [] p \in {"unlock", "opened"} -> UnlockLimit]

Attempt == AuthorizeLimit + UnlockLimit

\* The variables are well formed: no timer runs past what set it.
TypeOK ==
    /\ usable \in [Tags -> BOOLEAN]
    /\ cooling \in [Tags -> 0 .. Cooldown]
    /\ throttle \in [Tags -> 0 .. Poll]
    /\ phase \in Phases
    /\ tag \in Tags \cup {NoTag}
    /\ phase = "idle" <=> tag = NoTag
    /\ elapsed \in Nat
    /\ phase \in DOMAIN Limit => elapsed <= Limit[phase]
    /\ failures \in 0 .. MaxFailures
    /\ sinceOpen \in [Tags -> 0 .. Cooldown]
    /\ sinceUsable \in [Tags -> 0 .. Attempt + 1]
    /\ opened \in BOOLEAN
    /\ lost \in Nat

Init ==
    /\ usable \in [Tags -> BOOLEAN]
    /\ cooling = [t \in Tags |-> 0]
    /\ throttle = [t \in Tags |-> 0]
    /\ phase = "idle" /\ tag = NoTag /\ elapsed = 0
    /\ failures = 0
    /\ sinceOpen = [t \in Tags |-> Cooldown]
    /\ sinceUsable = [t \in Tags |-> IF usable[t] THEN 0 ELSE Attempt + 1]
    /\ opened = FALSE /\ lost = 0

-----------------------------------------------------------------------------
Go(p, t) == phase' = p /\ tag' = t /\ elapsed' = 0

Finish == Go("idle", NoTag)

\* The table's answer for t becomes u.
SetUsable(t, u) ==
    /\ usable' = [usable EXCEPT ![t] = u]
    /\ sinceUsable' = IF u THEN [sinceUsable EXCEPT ![t] = 0] ELSE sinceUsable

\* A report strong enough for discovery and not throttled by it.
ReportLearns(t) ==
    /\ phase = "idle" /\ DiscoveryEnabled /\ throttle[t] = 0
    /\ throttle' = [throttle EXCEPT ![t] = Poll]
    /\ Go("learn", t)
    /\ UNCHANGED <<usable, cooling, failures, history>>

\* Any other report of the configured antenna: too weak for discovery, in
\* which case the throttle does not matter, or throttled.
ReportPasses(t) ==
    /\ phase = "idle"
    /\ Go("check", t)
    /\ UNCHANGED <<usable, cooling, throttle, failures, history>>

Report(t) == ReportLearns(t) \/ ReportPasses(t)

\* retry_pending_discovery_matches takes up a passage of t.
RetryPass(t) ==
    /\ phase = "idle" /\ DiscoveryEnabled
    /\ Go("retry", t)
    /\ UNCHANGED <<usable, cooling, throttle, failures, history>>

\* The ways the discovery half leaves the assignment and the cooldown: it
\* finds nothing to do, gives a usable assignment (activation, renewal) and
\* arms the cooldown, arms it for a match that changes nothing, or takes the
\* assignment away.
Learned(t) ==
    \/ UNCHANGED <<usable, cooling, sinceUsable>>
    \/ /\ SetUsable(t, TRUE)
       /\ cooling' = [cooling EXCEPT ![t] = Cooldown]
    \/ /\ UNCHANGED <<usable, sinceUsable>>
       /\ cooling' = [cooling EXCEPT ![t] = Cooldown]
    \/ /\ SetUsable(t, FALSE)
       /\ cooling' \in {cooling, [cooling EXCEPT ![t] = Cooldown]}

LearnReturns ==
    /\ phase = "learn"
    /\ Learned(tag)
    /\ Go("check", tag)
    /\ UNCHANGED <<throttle, failures, sinceOpen, opened, lost>>

\* maybe_learn_discovered_tag fails, as it does whenever the LPR log cannot
\* be fetched: handle_event ends there.
LearnFails ==
    /\ phase = "learn"
    /\ Finish
    /\ UNCHANGED <<usable, cooling, throttle, failures, history>>

\* The retry pass ends; errors are logged and time-outs cut it off.
RetryReturns ==
    /\ phase = "retry"
    /\ Learned(tag)
    /\ Finish
    /\ UNCHANGED <<throttle, failures, sinceOpen, opened, lost>>

\* Faulty variant: the owner is not read again.
NotNowUnowned == GateMode = "disabled" \/ cooling[tag] > 0

\* maybe_unlock_gate_identity returns before its first await.
NotNow == GateMode = "disabled" \/ ~usable[tag] \/ cooling[tag] > 0

\* Faulty variant: a report within the cooldown starts it over.
GateSkipsRearming ==
    /\ phase = "check"
    /\ NotNow
    /\ cooling' = [cooling EXCEPT ![tag] = Cooldown]
    /\ Finish
    /\ UNCHANGED <<usable, throttle, failures, history>>

GateSkips ==
    /\ phase = "check"
    /\ NotNow
    /\ Finish
    /\ UNCHANGED <<usable, cooling, throttle, failures, history>>

\* Faulty variant: the attempt is not noted.
GateAttemptsUnarmed ==
    /\ phase = "check"
    /\ ~NotNow
    /\ Go("authorize", tag)
    /\ UNCHANGED <<usable, cooling, throttle, failures, history>>

\* It arms the cooldown and asks UniFi.
GateAttempts ==
    /\ phase = "check"
    /\ ~NotNow
    /\ cooling' = [cooling EXCEPT ![tag] = Cooldown]
    /\ Go("authorize", tag)
    /\ UNCHANGED <<usable, throttle, failures, history>>

\* Granted: a live service orders the gate open, a dry run only records.
Granted ==
    /\ phase = "authorize"
    /\ Go(IF GateMode = "dry-run" THEN "record" ELSE "unlock", tag)
    /\ UNCHANGED <<usable, cooling, throttle, failures, history>>

\* Denied, or UniFi cannot be asked.
NotGranted ==
    /\ phase = "authorize"
    /\ Go("record", tag)
    /\ UNCHANGED <<usable, cooling, throttle, failures, history>>

\* The controller carries the order out; assumed never to do so once the
\* service has given the call up.
ControllerOpens ==
    /\ phase = "unlock"
    /\ phase' = "opened"
    /\ sinceOpen' = [sinceOpen EXCEPT ![tag] = 0]
    /\ opened' = TRUE
    /\ UNCHANGED <<usable, cooling, throttle, tag, elapsed, failures,
                   sinceUsable, lost>>

\* Faulty variant: an error is returned without a row.
UnlockReturnsUnrecorded ==
    /\ phase \in {"unlock", "opened"}
    /\ Go("record", tag) \/ Finish
    /\ UNCHANGED <<usable, cooling, throttle, failures, history>>

\* unlock_entry_gate returns: Ok after the opening, or an error before or
\* after it.  Either is recorded.
UnlockReturns ==
    /\ phase \in {"unlock", "opened"}
    /\ Go("record", tag)
    /\ UNCHANGED <<usable, cooling, throttle, failures, history>>

\* record_gate_decision, and the handler returns.
Record ==
    /\ phase = "record"
    /\ opened' = FALSE
    /\ Finish
    /\ UNCHANGED <<usable, cooling, throttle, failures, sinceOpen, sinceUsable,
                   lost>>

\* A statement of the gate step fails and the error ends the event.
StatementFails ==
    /\ failures < MaxFailures
    /\ phase \in {"check", "record"}
    /\ failures' = failures + 1
    /\ lost' = IF opened THEN lost + 1 ELSE lost
    /\ opened' = FALSE
    /\ Finish
    /\ UNCHANGED <<usable, cooling, throttle, sinceOpen, sinceUsable>>

\* The process dies and is started again: both maps of last attempts are
\* gone, the tables stay.
Crash ==
    /\ failures < MaxFailures
    /\ failures' = failures + 1
    /\ lost' = IF opened THEN lost + 1 ELSE lost
    /\ opened' = FALSE
    /\ cooling' = [t \in Tags |-> 0]
    /\ throttle' = [t \in Tags |-> 0]
    /\ sinceOpen' = [t \in Tags |-> Cooldown]
    /\ Finish
    /\ UNCHANGED <<usable, sinceUsable>>

\* A command revokes or assigns the tag, or its lease runs out.
AssignmentChanges(t) ==
    /\ SetUsable(t, ~usable[t])
    /\ UNCHANGED <<cooling, throttle, phase, tag, elapsed, failures,
                   sinceOpen, opened, lost>>

Less(n) == IF n = 0 THEN 0 ELSE n - 1
More(n, most) == IF n = most THEN most ELSE n + 1

\* Time passes while the task is idle or awaits a call within its limit.
Tick ==
    /\ phase = "idle" \/ phase \in DOMAIN Limit
    /\ phase # "idle" => elapsed < Limit[phase]
    /\ elapsed' = IF phase = "idle" THEN 0 ELSE elapsed + 1
    /\ cooling' = [t \in Tags |-> Less(cooling[t])]
    /\ throttle' = [t \in Tags |-> Less(throttle[t])]
    /\ sinceOpen' = [t \in Tags |-> More(sinceOpen[t], Cooldown)]
    /\ sinceUsable' = [t \in Tags |-> IF usable[t] THEN 0
                                      ELSE More(sinceUsable[t], Attempt + 1)]
    /\ UNCHANGED <<usable, phase, tag, failures, opened, lost>>

\* The task's own steps once it has a report in hand.
Handle ==
    \/ LearnReturns \/ LearnFails \/ RetryReturns
    \/ GateSkips \/ GateAttempts \/ Granted \/ NotGranted
    \/ UnlockReturns \/ Record

Next ==
    \/ \E t \in Tags : Report(t) \/ RetryPass(t) \/ AssignmentChanges(t)
    \/ Handle \/ ControllerOpens
    \/ StatementFails \/ Crash
    \/ Tick

Spec == Init /\ [][Next]_vars

\* Every awaited call is answered or times out, time passes, and the channel
\* is first in first out, so that a tag that keeps being reported is taken
\* up again and again.
FairSpec ==
    /\ Spec
    /\ WF_vars(Handle)
    /\ SF_vars(Tick)
    /\ \A t \in Tags : SF_vars(Report(t))

-----------------------------------------------------------------------------
(* Properties.                                                             *)

OpensFor(t) == ~opened /\ opened' /\ tag = t

\* Between two openings for one tag there is at least the cooldown less the
\* time the first one took to come: the cooldown runs from the report, not
\* from the opening.
UnlocksKeepDistance ==
    [][\A t \in Tags : OpensFor(t) => sinceOpen[t] + Attempt >= Cooldown]_vars

\* A tag that was revoked, suspended or has lapsed opens the gate at most
\* for as long as the calls already under way may take.
RevocationTakesHold ==
    [][\A t \in Tags : OpensFor(t) => sinceUsable[t] <= Attempt]_vars

\* The gate never opens without a row in gate_events that tells of it,
\* except while the row is being waited for and where the process died or
\* the database failed in between.
OpeningsAreRecorded ==
    /\ lost <= failures
    /\ opened => phase \in {"opened", "record"}

\* Discovery stands in the way of tag t: it fails, or it has just matched the
\* tag, whose vehicle UniFi has let in by its plate then.
Hindered(t) ==
    LearnFails \/ ((LearnReturns \/ RetryReturns) /\ tag = t /\ cooling'[t] = Cooldown)

\* A tag that stays usable and keeps being reported is put to UniFi again
\* and again, whatever the answers were, unless discovery stands in its way
\* for ever: the cooldown delays an attempt and never becomes a lock-out.
UsableTagIsAttempted ==
    \A t \in Tags :
        <>[](usable[t]) => \/ []<>(phase = "authorize" /\ tag = t)
                           \/ []<><<Hindered(t)>>_vars
=============================================================================
