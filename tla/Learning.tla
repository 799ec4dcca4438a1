------------------------------ MODULE Learning ------------------------------
(***************************************************************************)
(* Learning a tag's vehicle: the service's discovery handler, the          *)
(* administrator's command line and the store they share (main.rs,         *)
(* store.rs).                                                              *)
(*                                                                         *)
(* The service is one task.  Its handler is a sequence of SQLite           *)
(* statements and of calls to UniFi Access that it awaits, and each of     *)
(* them is a step here.  The commands associate-discovered, revoke-learned *)
(* and reset-learned run as processes of their own on the same database,   *)
(* so that they can act between any two steps.  A statement that follows a *)
(* reply without an await is one step with it: the reply changes nothing   *)
(* another process can see.                                                *)
(***************************************************************************)
EXTENDS PassageBook

CONSTANTS
    Mode,       \* RFID_DISCOVERY_MODE: "dry-run" or "live"
    Service,    \* the service's actor name, "gate-auto"
    Operators,  \* concurrent runs of associate-discovered
    NoOwner,    \* no row in learned_tag_ownership
    MaxFailures \* bound on how often the handler is cut short: see Abandon

ASSUME LearningAssumption ==
    /\ Mode \in {"dry-run", "live"}
    /\ Service \notin Operators
    /\ MaxFailures \in Nat

VARIABLES
    owner,      \* learned_tag_ownership, with live the lease still running
    audited,    \* discovery_tags.last_candidate_audit_occurrences
    pc,         \* the service's next step
    event,      \* the locals of the handler, None when it is idle
    cli,        \* the candidate each associate-discovered has read, or None
    failures    \* how often the handler was cut short

vars == <<passages, current, nextId, owner, audited, pc, event, cli, failures>>

Actors == Operators \cup {Service}

Candidate == [identity: Identities, matched_occurrences: 0 .. MaxPassages]

Assignment == [identity: Identities, assigned_by: Actors,
               status: {"active", "suspended", "revoked"}, live: BOOLEAN]

\* A missing row is not a row.
ASSUME OwnerAssumption == NoOwner \notin Assignment

Steps == {"lookup", "suspend", "assess", "renew", "extend", "weigh",
          "propose", "validate", "audit"}

\* The tag and passage in hand with the status read with them, the identity
\* in the LPR reply, the identity of the assignment read in Assess and the
\* candidate read in Propose.
Event ==
    [tag_key: Tags, passage_id: PassageIds, correlation_status: Statuses,
     match: Identities \cup {None}, held: Identities \cup {None},
     candidate: Candidate \cup {None}]

\* Tables and handler locals are well formed, and a passage names a vehicle
\* exactly while it is matched.
TypeOK ==
    /\ BookTypeOK
    /\ owner \in [Tags -> Assignment \cup {NoOwner}]
    /\ audited \in [Tags -> 0 .. MaxPassages]
    /\ \/ pc = "idle" /\ event = None
       \/ pc \in Steps /\ event \in Event
    /\ cli \in [Operators -> [tag_key: Tags, found: Candidate] \cup {None}]
    /\ failures \in 0 .. MaxFailures

Init ==
    /\ BookInit
    /\ owner = [t \in Tags |-> NoOwner]
    /\ audited = [t \in Tags |-> 0]
    /\ pc = "idle"
    /\ event = None
    /\ cli = [o \in Operators |-> None]
    /\ failures = 0

-----------------------------------------------------------------------------
(* Store operations on the assignment, as state functions.                 *)

Active(t) == owner[t] # NoOwner /\ owner[t].status = "active"

\* Faulty variant: the update does not ask for an active row.
SuspendedAny(t) ==
    IF owner[t] # NoOwner
    THEN [owner EXCEPT ![t].status = "suspended"] ELSE owner

\* suspend_discovered_tag.
Suspended(t) ==
    IF Active(t) THEN [owner EXCEPT ![t].status = "suspended"] ELSE owner

\* activate_discovered_tag: an existing assignment is returned as it is when
\* it is the same one, refused otherwise, and left alone either way.  The
\* evidence behind the candidate is not read again.
Activated(t, found, actor) ==
    IF owner[t] # NoOwner THEN owner
    ELSE [owner EXCEPT ![t] =
             [identity |-> found.identity, assigned_by |-> actor,
              status |-> "active", live |-> TRUE]]

\* discovery_candidate, when it is ready.
Found(t) ==
    LET i == ReadyCandidate(passages, t, Dwelling(t)) IN
    IF i = None THEN None
    ELSE [identity |-> i, matched_occurrences |-> Occurrences(passages, t, i)]

-----------------------------------------------------------------------------
(* The service.                                                            *)

\* The handler goes on to `step` with the locals `ev`, or returns.
Proceed(step, ev) ==
    /\ pc' = step
    /\ event' = IF step = "idle" THEN None ELSE ev

Return == Proceed("idle", None)

\* The locals at the first await, for passage p of tag t.
Arrival(t, p, status) ==
    [tag_key |-> t, passage_id |-> p, correlation_status |-> status,
     match |-> None, held |-> None, candidate |-> None]

\* A sighting within RFID_DISCOVERY_POLL_MS of the last one is dropped.
Throttled == pc = "idle" /\ UNCHANGED vars

\* Faulty variant: the early return for a long dwell comes first.
AfterSightingReturnsFirst(t, s) ==
    Proceed(IF s.long_dwell \/ s.correlation_status = "ambiguous"
            THEN "idle"
            ELSE IF s.became_long_dwell /\ Mode = "live" THEN "suspend"
                 ELSE "lookup",
            Arrival(t, s.passage_id, s.correlation_status))

\* What maybe_learn_discovered_tag does next with the DiscoverySeen s.
AfterSighting(t, s) ==
    Proceed(IF s.became_long_dwell /\ Mode = "live" THEN "suspend"
            ELSE IF s.long_dwell \/ s.correlation_status = "ambiguous"
                 THEN "idle" ELSE "lookup",
            Arrival(t, s.passage_id, s.correlation_status))

\* maybe_learn_discovered_tag up to its first await, past the throttle.
Sight(t) ==
    /\ pc = "idle"
    /\ \E expired \in SUBSET DOMAIN passages :
          \/ /\ OpenPassage(t, expired)
             /\ AfterSighting(t, SightingOf(nextId, NewRow(t), TRUE, FALSE))
          \/ \E dwelt \in BOOLEAN :
                /\ ContinuePassage(t, dwelt, expired)
                /\ AfterSighting(t, SightingOf(current[t], passages[current[t]],
                                               FALSE, dwelt))
    /\ UNCHANGED <<owner, audited, cli, failures>>

\* retry_pending_discovery_matches takes up a pending passage again.  The
\* DiscoverySeen it makes up always says "pending".
Retry(p) ==
    /\ pc = "idle"
    /\ p \in DOMAIN passages
    /\ passages[p].correlation_status = "pending"
    /\ ~passages[p].stationary
    /\ Proceed("lookup", Arrival(passages[p].tag_key, p, "pending"))
    /\ UNCHANGED <<tables, owner, audited, cli, failures>>

\* suspend_discovered_tag, called for a stationary tag, a withdrawn match or
\* repeated conflicts; the handler returns after each.
SuspendTag ==
    /\ pc = "suspend"
    /\ owner' = Suspended(event.tag_key)
    /\ Return
    /\ UNCHANGED <<tables, audited, cli, failures>>

\* find_lpr_user_match finds nothing, fails, or is cut off by the time limit
\* of the retry pass.
LookupNothing ==
    /\ pc = "lookup"
    /\ Return
    /\ UNCHANGED <<tables, owner, audited, cli, failures>>

\* Faulty variant: the passage is given up and nothing else happens.
LookupAmbiguousForgets ==
    /\ pc = "lookup"
    /\ MarkAmbiguous(event.passage_id)
    /\ Return
    /\ UNCHANGED <<owner, audited, cli, failures>>

\* Ambiguous evidence: the passage is given up, and a tag whose earlier
\* match it withdraws is suspended.
LookupAmbiguous ==
    /\ pc = "lookup"
    /\ MarkAmbiguous(event.passage_id)
    /\ Proceed(IF event.correlation_status = "matched" /\ Mode = "live"
               THEN "suspend" ELSE "idle", event)
    /\ UNCHANGED <<owner, audited, cli, failures>>

\* One vehicle in the window, recorded by record_discovery_match.
LookupMatch(i, e) ==
    /\ pc = "lookup"
    /\ RecordMatch(event.passage_id, i, e)
    /\ LET outcome == MatchOutcome(passages[event.passage_id], i) IN
       Proceed(CASE outcome = "Recorded" -> "assess"
                 [] outcome = "Ambiguous" /\ Mode = "live" -> "suspend"
                 [] OTHER -> "idle",
               [event EXCEPT !.match = i])
    /\ UNCHANGED <<owner, audited, cli, failures>>

\* record_discovery_match refuses: a reset deleted the passage, or a late
\* sighting resumed a stationary one.
LookupRefused ==
    /\ pc = "lookup"
    /\ ~Matchable(event.passage_id)
    /\ Return
    /\ UNCHANGED <<tables, owner, audited, cli, failures>>

\* learned_assignment, read after the match is on file.
Assess ==
    /\ pc = "assess"
    /\ LET row == owner[event.tag_key] IN
       IF row = NoOwner THEN Proceed("propose", event)
       ELSE Proceed(IF row.status # "active" THEN "idle"
                    ELSE IF row.identity # event.match THEN "weigh"
                    ELSE IF Mode = "live" THEN "renew" ELSE "idle",
                    [event EXCEPT !.held = row.identity])
    /\ UNCHANGED <<tables, owner, audited, cli, failures>>

\* renew_discovered_lease reads the assignment once more ...
RenewRead ==
    /\ pc = "renew"
    /\ Proceed(IF /\ Active(event.tag_key)
                  /\ owner[event.tag_key].identity = event.match
               THEN "extend" ELSE "idle", event)
    /\ UNCHANGED <<tables, owner, audited, cli, failures>>

\* Faulty variant: the update does not ask for an active row.
RenewWriteAny ==
    /\ pc = "extend"
    /\ owner' = IF owner[event.tag_key] # NoOwner
                THEN [owner EXCEPT ![event.tag_key].live = TRUE] ELSE owner
    /\ Return
    /\ UNCHANGED <<tables, audited, cli, failures>>

\* ... and extends the lease in a statement of its own.
RenewWrite ==
    /\ pc = "extend"
    /\ owner' = IF Active(event.tag_key)
                THEN [owner EXCEPT ![event.tag_key].live = TRUE] ELSE owner
    /\ Return
    /\ UNCHANGED <<tables, audited, cli, failures>>

\* Faulty variant: the limit has to be exceeded.
WeighAbove ==
    /\ pc = "weigh"
    /\ Proceed(IF /\ Conflicts(passages, event.tag_key, event.held)
                        > ConflictLimit
                  /\ Mode = "live"
               THEN "suspend" ELSE "idle", event)
    /\ UNCHANGED <<tables, owner, audited, cli, failures>>

\* count_discovery_conflicts, against the assignment read in Assess.
Weigh ==
    /\ pc = "weigh"
    /\ Proceed(IF /\ Conflicts(passages, event.tag_key, event.held)
                        >= ConflictLimit
                  /\ Mode = "live"
               THEN "suspend" ELSE "idle", event)
    /\ UNCHANGED <<tables, owner, audited, cli, failures>>

\* discovery_candidate.
Propose ==
    /\ pc = "propose"
    /\ LET found == Found(event.tag_key) IN
       Proceed(IF found = None THEN "idle"
               ELSE IF found.identity \in Visitors THEN "audit" ELSE "validate",
               [event EXCEPT !.candidate = found])
    /\ UNCHANGED <<tables, owner, audited, cli, failures>>

\* validate_claim_user accepts the resident, and a live service assigns the
\* tag.
ActivateTag ==
    /\ pc = "validate" /\ Mode = "live"
    /\ owner' = Activated(event.tag_key, event.candidate, Service)
    /\ Return
    /\ UNCHANGED <<tables, audited, cli, failures>>

\* The same reply in a dry run.
ValidateDryRun ==
    /\ pc = "validate" /\ Mode = "dry-run"
    /\ Proceed("audit", event)
    /\ UNCHANGED <<tables, owner, audited, cli, failures>>

ValidateAccepts == IF Mode = "live" THEN ActivateTag ELSE ValidateDryRun

\* UniFi refuses the resident or does not answer in time: the candidate is
\* dropped without a retry.
ValidateFails ==
    /\ pc = "validate"
    /\ Return
    /\ UNCHANGED <<tables, owner, audited, cli, failures>>

\* record_discovery_candidate_audit.
Audit ==
    /\ pc = "audit"
    /\ audited' = [audited EXCEPT ![event.tag_key] =
                      IF event.candidate.matched_occurrences > @
                      THEN event.candidate.matched_occurrences ELSE @]
    /\ Return
    /\ UNCHANGED <<tables, owner, cli, failures>>

\* The handler stops half way: the process dies and systemd restarts it, or
\* a statement fails (the database stays busy for 5 s, the disk is full) and
\* the error ends the event.
Abandon ==
    /\ failures < MaxFailures
    /\ pc # "idle"
    /\ failures' = failures + 1
    /\ Return
    /\ UNCHANGED <<tables, owner, audited, cli>>

ServiceStep ==
    \/ SuspendTag
    \/ LookupNothing \/ LookupAmbiguous \/ LookupRefused
    \/ \E i \in Identities, e \in EventTimes : LookupMatch(i, e)
    \/ Assess \/ RenewRead \/ RenewWrite \/ Weigh \/ Propose
    \/ ValidateAccepts \/ ValidateFails \/ Audit

-----------------------------------------------------------------------------
(* The command line.                                                       *)

\* associate-discovered up to its await: only a ready candidate that is
\* backed by a visitor goes on.
AssociateRead(o, t) ==
    /\ cli[o] = None
    /\ LET found == Found(t) IN
       /\ found # None
       /\ found.identity \in Visitors
       /\ cli' = [cli EXCEPT ![o] = [tag_key |-> t, found |-> found]]
    /\ UNCHANGED <<tables, owner, audited, pc, event, failures>>

\* --apply, once validate_claim_user has accepted the resident.
AssociateApply(o) ==
    /\ cli[o] # None
    /\ owner' = Activated(cli[o].tag_key, cli[o].found, o)
    /\ cli' = [cli EXCEPT ![o] = None]
    /\ UNCHANGED <<tables, audited, pc, event, failures>>

\* Without --apply, or when the resident is refused.
AssociateStop(o) ==
    /\ cli[o] # None
    /\ cli' = [cli EXCEPT ![o] = None]
    /\ UNCHANGED <<tables, owner, audited, pc, event, failures>>

\* revoke-learned.
RevokeLearned(t) ==
    /\ owner[t] # NoOwner
    /\ owner[t].status \in {"active", "suspended"}
    /\ owner' = [owner EXCEPT ![t].status = "revoked"]
    /\ UNCHANGED <<tables, audited, pc, event, cli, failures>>

\* Faulty variant: any assignment can be reset.
ResetAny(t) ==
    /\ owner[t] # NoOwner
    /\ owner' = [owner EXCEPT ![t] = NoOwner]
    /\ audited' = [audited EXCEPT ![t] = 0]
    /\ ClearEvidence(t)
    /\ UNCHANGED <<pc, event, cli, failures>>

\* reset-learned.
ResetLearned(t) ==
    /\ owner[t] # NoOwner
    /\ owner[t].status = "suspended"
    /\ owner' = [owner EXCEPT ![t] = NoOwner]
    /\ audited' = [audited EXCEPT ![t] = 0]
    /\ ClearEvidence(t)
    /\ UNCHANGED <<pc, event, cli, failures>>

\* now_ms() passes lease_expires_ms.
LeaseExpires(t) ==
    /\ owner[t] # NoOwner
    /\ owner[t].live
    /\ owner' = [owner EXCEPT ![t].live = FALSE]
    /\ UNCHANGED <<tables, audited, pc, event, cli, failures>>

Next ==
    \/ Throttled
    \/ \E t \in Tags : Sight(t)
    \/ \E p \in PassageIds : Retry(p)
    \/ ServiceStep
    \/ Abandon
    \/ \E o \in Operators :
          \/ \E t \in Tags : AssociateRead(o, t)
          \/ AssociateApply(o)
          \/ AssociateStop(o)
    \/ \E t \in Tags : RevokeLearned(t) \/ ResetLearned(t) \/ LeaseExpires(t)

Spec == Init /\ [][Next]_vars

\* The handler never waits for ever: each UniFi request times out after ten
\* seconds and each statement after five, and the task runs nothing else
\* meanwhile.
FairSpec == Spec /\ WF_vars(ServiceStep)

\* Besides, the tags keep coming back to the gate.
RecurringSpec == FairSpec /\ \A t \in Tags : WF_vars(Sight(t))

-----------------------------------------------------------------------------
(* Properties.                                                             *)

\* When the service assigns a tag, the evidence on file at that moment still
\* makes it a ready candidate for that resident.  The candidate was read
\* before the await of validate_claim_user, and revoke-learned,
\* associate-discovered and reset-learned may all have run since.
ServiceActivationIsEarned ==
    [][\A t \in Tags :
          /\ owner[t] = NoOwner
          /\ owner'[t] # NoOwner
          /\ owner'[t].assigned_by = Service
          => /\ Found(t) # None
             /\ Found(t).identity = owner'[t].identity
             /\ owner'[t].identity \notin Visitors]_vars

\* A lease that has run out runs again only after a passage of that tag has
\* just been matched with the very vehicle it is assigned to, and never on
\* an assignment that a command has revoked since it was read.
LeaseRenewedByOwnVehicle ==
    [][\A t \in Tags :
          /\ owner[t] # NoOwner /\ ~owner[t].live
          /\ owner'[t] # NoOwner /\ owner'[t].live
          => /\ Active(t)
             /\ pc # "idle"
             /\ event.tag_key = t /\ event.match = owner[t].identity]_vars

Counts(p, t) ==
    /\ p \in DOMAIN passages
    /\ passages[p].tag_key = t
    /\ passages[p].correlation_status = "matched"
    /\ ~passages[p].stationary

Withdrawn(p, t) ==
    /\ p \in DOMAIN passages
    /\ passages[p].tag_key = t
    /\ passages[p].correlation_status = "ambiguous"

Parked(p, t) ==
    /\ p \in DOMAIN passages
    /\ passages[p].tag_key = t
    /\ passages[p].stationary

\* Once a passage has counted for an active tag, finding out that it was
\* ambiguous takes the assignment away, whatever the commands do meanwhile
\* (later_ambiguity_in_the_same_passage_suspends_a_learned_tag, main.rs:1819).
LaterAmbiguitySuspends ==
    \A t \in Tags, p \in PassageIds :
        [](Counts(p, t) /\ Active(t) =>
              [](Withdrawn(p, t) => <>~Active(t)))

\* Unless a handler has been cut short, by a crash or by a failed statement,
\* that holds, and the same when the tag turns out to be parked in front of
\* the reader.
SpoiltEvidenceSuspends ==
    \A t \in Tags, p \in PassageIds :
        [](Counts(p, t) /\ Active(t) =>
              [](Withdrawn(p, t) \/ Parked(p, t) => <>(~Active(t) \/ failures > 0)))

\* When the votes for other vehicles reach the limit while the service's
\* assignment is active, the tag is suspended, unless a handler has been cut
\* short.  (Votes already there at activation are another matter: admission
\* compares the strongest rival with the limit, suspension the sum of all
\* rivals.)
Rivals(t) == Conflicts(passages, t, owner[t].identity)

ServiceAssigned(t) == Active(t) /\ owner[t].assigned_by = Service

ConflictsSuspend ==
    \A t \in Tags :
        [](ServiceAssigned(t) /\ Rivals(t) < ConflictLimit =>
              []((ServiceAssigned(t) /\ Rivals(t) >= ConflictLimit) =>
                    <>(~ServiceAssigned(t) \/ Rivals(t) < ConflictLimit
                         \/ failures > 0)))

\* The assignments of all actors together behave as Ownership says.
Own == INSTANCE Ownership
ImplementsOwnership == Own!OwnershipSpec
=============================================================================
