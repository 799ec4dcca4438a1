------------------------------- MODULE Intake -------------------------------
(***************************************************************************)
(* From the reader's reports to sightings: from_reader_event and           *)
(* handle_event's filters, the channel, and the throttle of                *)
(* maybe_learn_discovered_tag (model.rs, main.rs) in front of the store of *)
(* PassageLog.                                                             *)
(*                                                                         *)
(* A report carries the reader's time; the throttle goes by the time the   *)
(* report is taken up, which is later while run()'s loop awaits UniFi for  *)
(* an earlier one.  The two clocks agree otherwise.  The tag key is the    *)
(* TID, or the EPC marked as one; here every report of a tag has its key.  *)
(***************************************************************************)
EXTENDS PassageLog, Sequences

CONSTANTS
    PollTime,   \* RFID_DISCOVERY_POLL_MS
    MaxLag      \* how long a report waits at most

ASSUME IntakeAssumption ==
    /\ PollTime \in Nat \ {0}
    /\ MaxLag \in Nat

VARIABLES
    clock,
    waiting,    \* the channel
    throttle,   \* discovery_last_attempts: tag key -> time, or None
    reported    \* tag key -> the times the reader has reported it at

intakeVars == <<vars, clock, waiting, throttle, reported>>

\* What becomes of a report: it names a tag, it is none of this antenna's or
\* malformed, or it is too weak for discovery.
ReportKinds == {"usable", "foreign", "weak"}

IntakeInit ==
    /\ Init
    /\ clock = 0 /\ waiting = <<>>
    /\ throttle = [t \in Tags |-> None]
    /\ reported = [t \in Tags |-> {}]

\* The reader reports t, once in a unit of time.
Report(t, kind) ==
    /\ clock \notin reported[t]
    /\ \A k \in DOMAIN waiting : waiting[k].at = clock => waiting[k].tag # t
    /\ waiting' = Append(waiting, [tag |-> t, at |-> clock, kind |-> kind])
    /\ reported' = IF kind = "usable"
                   THEN [reported EXCEPT ![t] = @ \cup {clock}] ELSE reported
    /\ UNCHANGED <<vars, clock, throttle>>

\* Faulty variant: a throttled report starts the poll interval over.
HandleRearming ==
    /\ waiting # <<>>
    /\ waiting' = Tail(waiting)
    /\ LET r == Head(waiting) IN
       IF r.kind # "usable" THEN UNCHANGED <<vars, throttle>>
       ELSE /\ throttle' = [throttle EXCEPT ![r.tag] = clock]
            /\ IF throttle[r.tag] # None /\ clock - throttle[r.tag] < PollTime
               THEN UNCHANGED vars ELSE RecordSeen(r.tag, r.at)
    /\ UNCHANGED <<clock, reported>>

\* handle_event and the beginning of maybe_learn_discovered_tag.
Handle ==
    /\ waiting # <<>>
    /\ waiting' = Tail(waiting)
    /\ LET r == Head(waiting)
           throttled == throttle[r.tag] # None /\ clock - throttle[r.tag] < PollTime
       IN  IF r.kind # "usable" \/ throttled THEN UNCHANGED <<vars, throttle>>
           ELSE /\ throttle' = [throttle EXCEPT ![r.tag] = clock]
                /\ RecordSeen(r.tag, r.at)
    /\ UNCHANGED <<clock, reported>>

ClockTicks ==
    /\ clock < MaxTime
    /\ waiting # <<>> => clock - Head(waiting).at < MaxLag
    /\ clock' = clock + 1
    /\ UNCHANGED <<vars, waiting, throttle, reported>>

IntakeNext ==
    \/ \E t \in Tags, kind \in ReportKinds : Report(t, kind)
    \/ Handle \/ ClockTicks

IntakeSpec == IntakeInit /\ [][IntakeNext]_intakeVars

-----------------------------------------------------------------------------
(* Properties.                                                             *)

Split(p, q) ==
    /\ p # q /\ passages[p].tag_key = passages[q].tag_key
    /\ passages[p].last_seen_ms < passages[q].started_at_ms
    /\ passages[p].last_seen_ms .. passages[q].started_at_ms
          \subseteq reported[passages[p].tag_key]

\* "Each continuous period of RFID visibility is one passage"
\* (docs/gateway-services.md): of two passages of a tag there is a time in
\* between when it was not reported.
VisibilityIsOnePassage ==
    \A p, q \in DOMAIN passages : ~Split(p, q)

\* That holds while no report waits too long: the wait and the throttle fit
\* into the gap.
PromptVisibilityIsOnePassage == MaxLag + PollTime <= Gap => VisibilityIsOnePassage

\* Two visits are never one passage, however long reports wait and whatever
\* the throttle leaves out: a passage does not span an absence longer than
\* the gap.
VisitsAreApart ==
    \A p \in DOMAIN passages :
        LET row == passages[p] IN
        \A s \in row.started_at_ms .. row.last_seen_ms - Gap - 1 :
            \E u \in s + 1 .. s + Gap + 1 : u \in reported[row.tag_key]

\* Passages are visits: one is not split in two, as long as reports are
\* taken up promptly, and two are never joined.
PassagesAreVisits == PromptVisibilityIsOnePassage /\ VisitsAreApart
=============================================================================
