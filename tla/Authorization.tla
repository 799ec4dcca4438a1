--------------------------- MODULE Authorization ---------------------------
(***************************************************************************)
(* authorize_now and validate_claim_user: whether UniFi Access lets a user *)
(* through the Entry Gate, asked one request at a time while an            *)
(* administrator may edit users, policies, door groups and schedules       *)
(* (unifi.rs).                                                             *)
(*                                                                         *)
(* The controller's data is the external record world; what its schedules  *)
(* admit is AccessSchedule's.  Any request can fail: no answer within      *)
(* REQUEST_TIMEOUT, an HTTP status, an envelope without SUCCESS, an id     *)
(* that is no UUID.                                                        *)
(***************************************************************************)
EXTENDS AccessSchedule, FiniteSets

CONSTANTS
    Gate,        \* the entry gate among the resources of a policy or group
    Groups,      \* door group ids
    OtherDoors,  \* the other resources
    ScheduleIds,
    Policies,    \* the policies an administrator may write
    PolicyLists, \* the lists of them a user may have
    Plans,       \* the schedules an administrator may write
    MaxTime, MaxEdits, MaxCalls,   \* bounds
    None

Times == 0 .. MaxTime

ASSUME PolicyAssumption ==
    /\ Gate \notin Groups \cup OtherDoors /\ Groups \cap OtherDoors = {}
    /\ PolicyLists \subseteq Seq(Policies)
    /\ Plans \subseteq Schedules /\ MaxTime \in Nat /\ MaxTime <= Horizon
    /\ \A p \in Policies :
          /\ p.resources \in Seq({Gate} \cup Groups \cup OtherDoors)
          /\ p.schedule_id \in ScheduleIds

ASSUME NoneAssumption == None \notin {"granted", "refused", "error"}

VARIABLES
    now,
    world,     \* status, policies, groups with the gate, schedules
    call,      \* the call under way and its locals, or None
    answer,    \* what the last call returned, or None
    during,    \* the worlds there have been since the call began
    edits, calls   \* counts, for the bounds

vars == <<now, world, call, answer, during, edits, calls>>

Worlds == [active: BOOLEAN, policies: PolicyLists,
           gateGroups: SUBSET Groups, schedules: [ScheduleIds -> Plans]]

Init ==
    /\ now = 0 /\ edits = 0 /\ calls = 0
    /\ world \in Worlds
    /\ call = None /\ answer = None /\ during = {}

-----------------------------------------------------------------------------
Return(a) ==
    /\ call' = None
    /\ answer' = a
    /\ UNCHANGED <<now, world, during, edits, calls>>

Continue(c) ==
    /\ call' = c
    /\ UNCHANGED <<now, world, answer, during, edits, calls>>

\* authorize_now (enforcing) or validate_claim_user is called.
Begin(enforcing) ==
    /\ call = None /\ calls < MaxCalls
    /\ call' = [enforcing |-> enforcing, next |-> "user", policies |-> <<>>,
                at |-> None, policy |-> 1, resource |-> 1]
    /\ answer' = None
    /\ during' = {world}
    /\ calls' = calls + 1
    /\ UNCHANGED <<now, world, edits>>

GetUser ==
    /\ call # None /\ call.next = "user"
    /\ IF world.active THEN Continue([call EXCEPT !.next = "policies"])
       ELSE Return("refused")

\* The moment of decision is read here, before the requests that follow.
GetUserPolicies ==
    /\ call # None /\ call.next = "policies"
    /\ Continue([call EXCEPT !.next = "resource", !.at = now,
                             !.policies = world.policies])

NextPolicy ==
    [call EXCEPT !.next = "resource", !.policy = @ + 1, !.resource = 1]

\* policy_grants_entry_gate came to true.
GrantsGate ==
    IF call.enforcing THEN Continue([call EXCEPT !.next = "schedule"])
    ELSE Return("granted")

\* Faulty variant: a door group decides alone, its policy's other resources
\* are not looked at.
InspectFirstResource ==
    /\ call # None /\ call.next = "resource"
    /\ IF call.policy > Len(call.policies) THEN Return("refused")
       ELSE LET resources == call.policies[call.policy].resources IN
            IF resources # <<>> /\ (resources[1] = Gate \/ resources[1] \in world.gateGroups)
            THEN GrantsGate ELSE Continue(NextPolicy)

\* One turn of policy_grants_entry_gate; a door group is fetched.
InspectResource ==
    /\ call # None /\ call.next = "resource"
    /\ IF call.policy > Len(call.policies) THEN Return("refused")
       ELSE LET resources == call.policies[call.policy].resources IN
            IF call.resource > Len(resources) THEN Continue(NextPolicy)
            ELSE IF resources[call.resource] \in {Gate} \cup world.gateGroups
                 THEN GrantsGate
                 ELSE Continue([call EXCEPT !.resource = @ + 1])

\* The schedule of the policy in hand, as it is now.
Plan == world.schedules[call.policies[call.policy].schedule_id]

\* Faulty variant: a schedule that cannot be evaluated does not restrict.
GetScheduleOpen ==
    /\ call # None /\ call.next = "schedule"
    /\ IF ScheduleAllows(Plan, call.at) = "denied" THEN Continue(NextPolicy)
       ELSE Return("granted")

\* get_schedule, and what schedule_allows makes of it.
GetSchedule ==
    /\ call # None /\ call.next = "schedule"
    /\ LET allows == ScheduleAllows(Plan, call.at) IN
       IF allows = "denied" THEN Continue(NextPolicy)
       ELSE Return(IF allows = "allowed" THEN "granted" ELSE "error")

\* get_envelope or parse_envelope: the call ends, also when a later policy
\* would have granted.
RequestFails ==
    /\ call # None
    /\ \/ call.next # "resource"
       \/ /\ call.policy <= Len(call.policies)
          /\ LET resources == call.policies[call.policy].resources IN
             /\ call.resource <= Len(resources)
             /\ resources[call.resource] \in Groups
    /\ Return("error")

\* The administrator's console.
Edit ==
    /\ edits < MaxEdits
    /\ edits' = edits + 1
    /\ world' \in
          {[world EXCEPT !.active = a] : a \in BOOLEAN}
          \cup {[world EXCEPT !.policies = p] : p \in PolicyLists}
          \cup {[world EXCEPT !.gateGroups = g] : g \in SUBSET Groups}
          \cup {[world EXCEPT !.schedules[s] = x] : s \in ScheduleIds, x \in Plans}
    /\ during' = during \cup {world'}
    /\ UNCHANGED <<now, call, answer, calls>>

Tick == now < MaxTime /\ now' = now + 1
        /\ UNCHANGED <<world, call, answer, during, edits, calls>>

Next ==
    \/ \E enforcing \in BOOLEAN : Begin(enforcing)
    \/ GetUser \/ GetUserPolicies \/ InspectResource \/ GetSchedule
    \/ RequestFails \/ Edit \/ Tick

Spec == Init /\ [][Next]_vars

-----------------------------------------------------------------------------
(* Properties.                                                             *)

\* A schedule admits at the times its entries name, by holiday and by local
\* calendar, and what cannot be read admits nobody: the controller's now, and
\* any other at any time.
SchedulesAreKept ==
    /\ \A i \in ScheduleIds : KeptAt(world.schedules[i], now)
    /\ EverySchedule

CoversGate(p, gateGroups) ==
    \E k \in DOMAIN p.resources : p.resources[k] \in {Gate} \cup gateGroups

Returns(a) == call # None /\ call' = None /\ answer' = a

Listed(p, w) == \E k \in DOMAIN w.policies : w.policies[k] = p

Admits(w, p, t) == ScheduleAllows(w.schedules[p.schedule_id], t) = "allowed"

\* Who may pass in world w: an active user one of whose policies covers the
\* gate and, when hours are enforced, is open at the moment of decision.
Entitled(w, c) ==
    /\ w.active
    /\ \E k \in DOMAIN w.policies :
          LET p == w.policies[k] IN
          /\ CoversGate(p, w.gateGroups)
          /\ c.enforcing => Admits(w, p, c.at)

\* When nothing is edited during a call its answer is what the controller's
\* data says, whatever the order of the policies and of their resources: a
\* closed policy does not hide an open one, nor a foreign group the gate.
UndisturbedAnswerIsRight ==
    [][during = {world}
       => /\ Returns("granted") => Entitled(world, call)
          /\ Returns("refused") => ~Entitled(world, call)]_vars

\* With edits in between, a grant may piece together facts of several
\* moments, and every one of them was true at some moment of the call: who
\* was inactive, without the policy or outside its hours all along is not
\* let in.
GrantedOnFactsOfTheCall ==
    [][Returns("granted") =>
          /\ \E w \in during : w.active
          /\ \E p \in Policies :
                /\ \E w \in during : Listed(p, w)
                /\ \E w \in during : CoversGate(p, w.gateGroups)
                /\ call.enforcing => \E w \in during : Admits(w, p, call.at)]_vars
=============================================================================
