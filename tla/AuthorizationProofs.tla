------------------------ MODULE AuthorizationProofs ------------------------
(***************************************************************************)
(* Theorems about Authorization, for any policies, door groups, schedules  *)
(* and whatever ScheduleAllows makes of them: an undisturbed call answers  *)
(* what the controller's data says, and a grant rests on facts of the      *)
(* call.  And about AccessSchedule, for years, weeks, days and seconds of  *)
(* any length and any offset of the local clock: what ScheduleAllows makes *)
(* of a schedule is what its entries mean.                                 *)
(***************************************************************************)
EXTENDS Authorization, SequenceTheorems, WellFoundedInduction, TLAPS

Steps == {"user", "policies", "resource", "schedule"}

Calls == [enforcing: BOOLEAN, next: Steps, policies: Seq(Policies),
          at: Nat \cup {None}, policy: Nat \ {0}, resource: Nat \ {0}]

Typed == world \in Worlds /\ now \in Nat

CallTyped ==
    call # None => call \in Calls /\ answer = None /\ world \in during

ReadPolicies(c) == c.next \in {"resource", "schedule"}

\* What call c has learnt was so at some moment of it.
LearntBy(c) ==
    /\ c.next # "user" => \E w \in during : w.active
    /\ ReadPolicies(c) => \E w \in during : w.policies = c.policies
    /\ c.next = "schedule" =>
          /\ c.enforcing /\ c.policy <= Len(c.policies)
          /\ \E w \in during : CoversGate(c.policies[c.policy], w.gateGroups)

Learnt == call # None => LearntBy(call)

Grants(w, c, p) == CoversGate(p, w.gateGroups) /\ (c.enforcing => Admits(w, p, c.at))

\* Undisturbed, what the call has learnt is so, and the policies and
\* resources it has passed over do not grant.
PassedOver(c) ==
    /\ c.next # "user" => world.active
    /\ ~ReadPolicies(c) => c.policy = 1 /\ c.resource = 1
    /\ ReadPolicies(c) =>
          /\ c.policies = world.policies
          /\ \A k \in 1 .. Len(c.policies) :
                k < c.policy => ~Grants(world, c, c.policies[k])
    /\ c.next = "resource" /\ c.policy <= Len(c.policies) =>
          \A k \in 1 .. Len(c.policies[c.policy].resources) :
              k < c.resource =>
                  c.policies[c.policy].resources[k] \notin {Gate} \cup world.gateGroups
    /\ c.next = "schedule" => CoversGate(c.policies[c.policy], world.gateGroups)

Undisturbed == call # None /\ during = {world} => PassedOver(call)

IInv == Typed /\ CallTyped /\ Learnt /\ Undisturbed

-----------------------------------------------------------------------------
LEMMA PolicyTyped ==
    ASSUME NEW p \in Policies
    PROVE  /\ p.resources \in Seq({Gate} \cup Groups \cup OtherDoors)
           /\ Len(p.resources) \in Nat /\ DOMAIN p.resources = 1 .. Len(p.resources)
BY PolicyAssumption, LenProperties

LEMMA CallFacts ==
    ASSUME NEW c \in Calls
    PROVE  /\ c.policies \in Seq(Policies)
           /\ Len(c.policies) \in Nat
           /\ DOMAIN c.policies = 1 .. Len(c.policies)
           /\ \A k \in 1 .. Len(c.policies) : c.policies[k] \in Policies
           /\ c.policy \in Nat \ {0} /\ c.resource \in Nat \ {0}
<1>1. c.policies \in Seq(Policies) /\ c.policy \in Nat \ {0} /\ c.resource \in Nat \ {0}
  BY DEF Calls
<1> QED BY <1>1, LenProperties, ElementOfSeq

LEMMA InitialIInv == Init => IInv
BY DEF Init, IInv, Typed, CallTyped, Learnt, Undisturbed

LEMMA BeginKeeps ==
    ASSUME IInv, NEW enforcing \in BOOLEAN, Begin(enforcing)
    PROVE  IInv'
<1>1. world' = world /\ now' = now /\ during' = {world} /\ answer' = None
  BY DEF Begin
<1>2. call' = [enforcing |-> enforcing, next |-> "user", policies |-> <<>>,
               at |-> None, policy |-> 1, resource |-> 1]
  BY DEF Begin
<1>3. call' \in Calls
  BY <1>2, EmptySeq DEF Calls, Steps
<1>4. call'.next = "user" /\ call'.policy = 1 /\ call'.resource = 1
  BY <1>2
<1> QED BY <1>1, <1>3, <1>4
        DEF IInv, Typed, CallTyped, Learnt, LearntBy, Undisturbed, PassedOver, ReadPolicies

\* A call that ends leaves nothing to show.
LEMMA ReturnKeeps ==
    ASSUME IInv, NEW a, Return(a)
    PROVE  IInv'
BY DEF IInv, Return, Typed, CallTyped, Learnt, Undisturbed

\* A call that goes on with locals c, which must be right in the same world.
LEMMA ContinueKeeps ==
    ASSUME IInv, call # None, NEW c \in Calls, Continue(c),
           LearntBy(c), during = {world} => PassedOver(c)
    PROVE  IInv'
<1>1. call' = c /\ world' = world /\ now' = now /\ answer' = answer /\ during' = during
  BY DEF Continue
<1>2. Typed' /\ CallTyped'
  BY <1>1 DEF IInv, Typed, CallTyped
<1>3. LearntBy(call)'
  BY <1>1 DEF LearntBy, ReadPolicies
<1>4. during = {world} => PassedOver(call)'
  BY <1>1 DEF PassedOver, ReadPolicies, Grants, Admits
<1> QED BY <1>1, <1>2, <1>3, <1>4 DEF IInv, Learnt, Undisturbed

LEMMA GetUserKeeps ==
    ASSUME IInv, GetUser
    PROVE  IInv'
<1>1. CASE ~world.active
  BY <1>1, ReturnKeeps DEF GetUser
<1>2. CASE world.active
  <2>1. PICK c : c = [call EXCEPT !.next = "policies"]
    OBVIOUS
  <2>2. call # None /\ call \in Calls /\ world \in during /\ call.next = "user"
    BY DEF GetUser, IInv, CallTyped
  <2>3. c \in Calls /\ c.next = "policies" /\ c.policy = call.policy
        /\ c.resource = call.resource
    BY <2>1, <2>2 DEF Calls, Steps
  <2>4. LearntBy(c)
    BY <1>2, <2>2, <2>3 DEF LearntBy, ReadPolicies
  <2>5. during = {world} => PassedOver(c)
    BY <1>2, <2>2, <2>3 DEF IInv, Undisturbed, PassedOver, ReadPolicies
  <2>6. Continue(c)
    BY <1>2, <2>1 DEF GetUser
  <2> QED BY <2>2, <2>3, <2>4, <2>5, <2>6, ContinueKeeps
<1> QED BY <1>1, <1>2

LEMMA GetUserPoliciesKeeps ==
    ASSUME IInv, GetUserPolicies
    PROVE  IInv'
<1>1. PICK c : c = [call EXCEPT !.next = "resource", !.at = now, !.policies = world.policies]
  OBVIOUS
<1>2. call # None /\ call \in Calls /\ world \in during /\ call.next = "policies"
  BY DEF GetUserPolicies, IInv, CallTyped
<1>3. now \in Nat /\ world.policies \in Seq(Policies)
  BY PolicyAssumption DEF IInv, Typed, Worlds
<1>4. /\ c.next = "resource" /\ c.policies = world.policies
      /\ c.policy = call.policy /\ c.resource = call.resource
  BY <1>1, <1>2 DEF Calls
<1>5. c \in Calls
  <2>1. c = [enforcing |-> call.enforcing, next |-> "resource", policies |-> world.policies,
             at |-> now, policy |-> call.policy, resource |-> call.resource]
    BY <1>1, <1>2 DEF Calls
  <2>2. call.enforcing \in BOOLEAN /\ call.policy \in Nat \ {0} /\ call.resource \in Nat \ {0}
    BY <1>2 DEF Calls
  <2> QED BY <2>1, <2>2, <1>3 DEF Calls, Steps
<1>6. LearntBy(c)
  <2>1. \E w \in during : w.active
    BY <1>2 DEF IInv, Learnt, LearntBy
  <2> QED BY <2>1, <1>2, <1>4 DEF LearntBy, ReadPolicies
<1>7. ASSUME during = {world} PROVE PassedOver(c)
  <2>1. world.active /\ c.policy = 1 /\ c.resource = 1
    BY <1>2, <1>4, <1>7 DEF IInv, Undisturbed, PassedOver, ReadPolicies
  <2> QED BY <2>1, <1>4 DEF PassedOver, ReadPolicies
<1>8. Continue(c)
  BY <1>1 DEF GetUserPolicies
<1> QED BY <1>2, <1>5, <1>6, <1>7, <1>8, ContinueKeeps

\* The policy in hand is done with: it must not grant.
LEMMA NextPolicyKeeps ==
    ASSUME IInv, call # None, ReadPolicies(call), call.policy <= Len(call.policies),
           Continue(NextPolicy),
           during = {world} => ~Grants(world, call, call.policies[call.policy])
    PROVE  IInv'
<1>1. PICK c : c = NextPolicy
  OBVIOUS
<1>2. call \in Calls /\ LearntBy(call)
  BY DEF IInv, CallTyped, Learnt
<1>3. call.policy \in Nat /\ call.next # "user"
  BY <1>2 DEF Calls, ReadPolicies
<1>4. /\ c.next = "resource" /\ c.policy = call.policy + 1 /\ c.resource = 1
      /\ c.policies = call.policies /\ c.at = call.at /\ c.enforcing = call.enforcing
  BY <1>1, <1>2 DEF Calls, NextPolicy
<1>5. c \in Calls
  <2>1. c = [enforcing |-> call.enforcing, next |-> "resource", policies |-> call.policies,
             at |-> call.at, policy |-> call.policy + 1, resource |-> 1]
    BY <1>1, <1>2 DEF Calls, NextPolicy
  <2>2. call.policy \in Nat \ {0}
    BY <1>2 DEF Calls
  <2>3. /\ call.enforcing \in BOOLEAN /\ call.policies \in Seq(Policies)
        /\ call.at \in Nat \cup {None} /\ call.policy + 1 \in Nat \ {0}
    BY <1>2, <2>2 DEF Calls
  <2> QED BY <2>1, <2>3 DEF Calls, Steps
<1>6. LearntBy(c)
  BY <1>2, <1>3, <1>4 DEF LearntBy, ReadPolicies
<1>7. ASSUME during = {world} PROVE PassedOver(c)
  <2>1. PassedOver(call)
    BY <1>7 DEF IInv, Undisturbed
  <2>2. world.active /\ c.policies = world.policies
    BY <2>1, <1>3, <1>4 DEF PassedOver
  <2>3. ASSUME NEW k \in 1 .. Len(c.policies), k < c.policy
        PROVE  ~Grants(world, c, c.policies[k])
    <3>1. k < call.policy \/ k = call.policy
      BY <1>3, <1>4, <2>3
    <3>2. ~Grants(world, call, call.policies[k])
      BY <3>1, <1>4, <1>7, <2>1, <2>3 DEF PassedOver
    <3> QED BY <3>2, <1>4 DEF Grants
  <2> QED BY <2>2, <2>3, <1>4 DEF PassedOver, ReadPolicies
<1>8. Continue(c)
  BY <1>1
<1> QED BY <1>5, <1>6, <1>7, <1>8, ContinueKeeps

\* The policy in hand covers the gate.
LEMMA GrantsGateKeeps ==
    ASSUME IInv, call # None, call.next = "resource", call.policy <= Len(call.policies),
           GrantsGate, CoversGate(call.policies[call.policy], world.gateGroups)
    PROVE  IInv'
<1>1. CASE ~call.enforcing
  BY <1>1, ReturnKeeps DEF GrantsGate
<1>2. CASE call.enforcing
  <2>1. PICK c : c = [call EXCEPT !.next = "schedule"]
    OBVIOUS
  <2>2. call \in Calls /\ LearntBy(call) /\ world \in during
    BY DEF IInv, CallTyped, Learnt
  <2>3. /\ c.next = "schedule" /\ c.policy = call.policy
        /\ c.policies = call.policies /\ c.at = call.at /\ c.enforcing = call.enforcing
    BY <2>1, <2>2 DEF Calls
  <2>4. c \in Calls
    BY <2>1, <2>2 DEF Calls, Steps
  <2>5. LearntBy(c)
    BY <1>2, <2>2, <2>3 DEF LearntBy, ReadPolicies
  <2>6. ASSUME during = {world} PROVE PassedOver(c)
    <3>1. PassedOver(call)
      BY <2>6 DEF IInv, Undisturbed
    <3> QED BY <3>1, <2>3 DEF PassedOver, ReadPolicies, Grants
  <2>7. Continue(c)
    BY <1>2, <2>1 DEF GrantsGate
  <2> QED BY <2>4, <2>5, <2>6, <2>7, ContinueKeeps
<1>3. call.enforcing \in BOOLEAN
  BY DEF IInv, CallTyped, Calls
<1> QED BY <1>1, <1>2, <1>3

LEMMA InspectResourceKeeps ==
    ASSUME IInv, InspectResource
    PROVE  IInv'
<1>1. call # None /\ call \in Calls /\ call.next = "resource"
  BY DEF InspectResource, IInv, CallTyped
<1>2. CASE call.policy > Len(call.policies)
  BY <1>2, ReturnKeeps DEF InspectResource
<1>3. CASE ~(call.policy > Len(call.policies))
  <2>1. call.policy \in 1 .. Len(call.policies) /\ call.resource \in Nat \ {0}
    BY <1>1, <1>3, CallFacts
  <2>2. call.policies[call.policy] \in Policies
    BY <1>1, <2>1, CallFacts
  <2>3. PICK r : r = call.policies[call.policy].resources
    OBVIOUS
  <2>4. Len(r) \in Nat /\ DOMAIN r = 1 .. Len(r)
    BY <2>2, <2>3, PolicyTyped
  <2>5. ASSUME call.resource > Len(r)
        PROVE  IInv'
    <3>1. Continue(NextPolicy)
      BY <1>1, <1>3, <2>3, <2>5 DEF InspectResource
    <3>2. ASSUME during = {world}
          PROVE  ~Grants(world, call, call.policies[call.policy])
      <4>1. \A k \in 1 .. Len(r) : k < call.resource =>
                r[k] \notin {Gate} \cup world.gateGroups
        BY <1>1, <2>1, <2>3, <3>2 DEF IInv, Undisturbed, PassedOver
      <4>2. \A k \in 1 .. Len(r) : k < call.resource
        BY <2>1, <2>4, <2>5
      <4> QED BY <4>1, <4>2, <2>3, <2>4 DEF Grants, CoversGate
    <3> QED BY <1>1, <2>1, <3>1, <3>2, NextPolicyKeeps DEF ReadPolicies
  <2>6. ASSUME ~(call.resource > Len(r)), r[call.resource] \in {Gate} \cup world.gateGroups
        PROVE  IInv'
    <3>1. GrantsGate
      BY <1>1, <1>3, <2>3, <2>6 DEF InspectResource
    <3>2. call.resource \in DOMAIN r
      BY <2>1, <2>4, <2>6
    <3>3. CoversGate(call.policies[call.policy], world.gateGroups)
      BY <2>3, <2>6, <3>2 DEF CoversGate
    <3> QED BY <1>1, <2>1, <3>1, <3>3, GrantsGateKeeps
  <2>7. ASSUME ~(call.resource > Len(r)), r[call.resource] \notin {Gate} \cup world.gateGroups
        PROVE  IInv'
    <3>1. PICK c : c = [call EXCEPT !.resource = @ + 1]
      OBVIOUS
    <3>2. Continue(c)
      BY <1>1, <1>3, <2>3, <2>7, <3>1 DEF InspectResource
    <3>3. /\ c.next = "resource" /\ c.policy = call.policy /\ c.resource = call.resource + 1
          /\ c.policies = call.policies /\ c.at = call.at /\ c.enforcing = call.enforcing
      BY <1>1, <3>1 DEF Calls
    <3>4. c \in Calls
      BY <1>1, <2>1, <3>1 DEF Calls
    <3>5. LearntBy(c)
      BY <1>1, <3>3 DEF IInv, Learnt, LearntBy, ReadPolicies
    <3>6. ASSUME during = {world} PROVE PassedOver(c)
      <4>1. PassedOver(call)
        BY <1>1, <3>6 DEF IInv, Undisturbed
      <4>2. \A k \in 1 .. Len(r) : k < call.resource =>
                r[k] \notin {Gate} \cup world.gateGroups
        BY <1>1, <2>1, <2>3, <4>1 DEF PassedOver
      <4>3. ASSUME NEW k \in 1 .. Len(r), k < call.resource + 1
            PROVE  r[k] \notin {Gate} \cup world.gateGroups
        <5>1. k < call.resource \/ k = call.resource
          BY <2>1, <4>3
        <5> QED BY <5>1, <4>2, <2>7
      <4> QED BY <1>1, <2>3, <3>3, <4>1, <4>3 DEF PassedOver, ReadPolicies, Grants
    <3> QED BY <1>1, <3>2, <3>4, <3>5, <3>6, ContinueKeeps
  <2> QED BY <2>5, <2>6, <2>7
<1> QED BY <1>2, <1>3

\* The policy whose schedule is asked for is one of the call's.
LEMMA PolicyInHand ==
    ASSUME IInv, call # None, call.next = "schedule"
    PROVE  /\ call.policy \in 1 .. Len(call.policies)
           /\ call.policies[call.policy] \in Policies
<1>1. call \in Calls /\ call.policy <= Len(call.policies)
  BY DEF IInv, CallTyped, Learnt, LearntBy
<1> QED BY <1>1, CallFacts

LEMMA GetScheduleKeeps ==
    ASSUME IInv, GetSchedule
    PROVE  IInv'
<1> DEFINE allows == ScheduleAllows(Plan, call.at)
<1>1. call # None /\ call.next = "schedule"
  BY DEF GetSchedule
<1>2. CASE allows = "denied"
  <2>1. Continue(NextPolicy)
    BY <1>2 DEF GetSchedule
  <2>2. ASSUME during = {world}
        PROVE  ~Grants(world, call, call.policies[call.policy])
    <3>1. call.enforcing
      BY <1>1 DEF IInv, Learnt, LearntBy
    <3> QED BY <1>2, <3>1 DEF Grants, Admits, Plan
  <2> QED BY <1>1, <2>1, <2>2, PolicyInHand, NextPolicyKeeps DEF ReadPolicies
<1>3. CASE allows # "denied"
  <2>1. Return(IF allows = "allowed" THEN "granted" ELSE "error")
    BY <1>3 DEF GetSchedule
  <2> QED BY <2>1, ReturnKeeps
<1> QED BY <1>2, <1>3

\* A world may be edited while a call is under way: what it was is kept.
LEMMA EditKeeps ==
    ASSUME IInv, Edit
    PROVE  IInv'
<1>1. /\ call' = call /\ answer' = answer /\ now' = now
      /\ during' = during \cup {world'} /\ world \in Worlds
  BY DEF Edit, IInv, Typed
<1>2. world' \in Worlds
  <2>1. ASSUME NEW a \in BOOLEAN PROVE [world EXCEPT !.active = a] \in Worlds
    BY <1>1 DEF Worlds
  <2>2. ASSUME NEW p \in PolicyLists PROVE [world EXCEPT !.policies = p] \in Worlds
    BY <1>1 DEF Worlds
  <2>3. ASSUME NEW g \in SUBSET Groups PROVE [world EXCEPT !.gateGroups = g] \in Worlds
    BY <1>1 DEF Worlds
  <2>4. ASSUME NEW s \in ScheduleIds, NEW x \in Plans
        PROVE  [world EXCEPT !.schedules[s] = x] \in Worlds
    BY <1>1 DEF Worlds
  <2> QED BY <2>1, <2>2, <2>3, <2>4 DEF Edit
<1>3. Typed' /\ CallTyped'
  BY <1>1, <1>2 DEF IInv, Typed, CallTyped
<1>4. Learnt'
  BY <1>1 DEF IInv, Learnt, LearntBy, ReadPolicies
<1>5. Undisturbed'
  <2> SUFFICES ASSUME call # None, during' = {world'}
               PROVE  PassedOver(call)'
    BY <1>1 DEF Undisturbed
  <2>1. world' = world /\ during = {world}
    BY <1>1 DEF IInv, CallTyped
  <2>2. PassedOver(call)
    BY <2>1 DEF IInv, Undisturbed
  <2> QED BY <1>1, <2>1, <2>2 DEF PassedOver, ReadPolicies, Grants, Admits
<1> QED BY <1>3, <1>4, <1>5 DEF IInv

LEMMA UnchangedKeeps ==
    ASSUME IInv, UNCHANGED <<world, call, answer, during>>, now' \in Nat
    PROVE  IInv'
<1>1. Typed' /\ CallTyped'
  BY DEF IInv, Typed, CallTyped
<1>2. Learnt' /\ Undisturbed'
  BY DEF IInv, Learnt, LearntBy, ReadPolicies, Undisturbed, PassedOver, Grants, Admits
<1> QED BY <1>1, <1>2 DEF IInv

LEMMA InductiveStep == IInv /\ [Next]_vars => IInv'
<1> SUFFICES ASSUME IInv, [Next]_vars PROVE IInv'
  OBVIOUS
<1>1. ASSUME NEW enforcing \in BOOLEAN, Begin(enforcing) PROVE IInv'
  BY <1>1, BeginKeeps
<1>2. CASE GetUser
  BY <1>2, GetUserKeeps
<1>3. CASE GetUserPolicies
  BY <1>3, GetUserPoliciesKeeps
<1>4. CASE InspectResource
  BY <1>4, InspectResourceKeeps
<1>5. CASE GetSchedule
  BY <1>5, GetScheduleKeeps
<1>6. CASE RequestFails
  BY <1>6, ReturnKeeps DEF RequestFails
<1>7. CASE Edit
  BY <1>7, EditKeeps
<1>8. CASE Tick
  <2>1. now' \in Nat
    BY <1>8 DEF Tick, IInv, Typed
  <2> QED BY <1>8, <2>1, UnchangedKeeps DEF Tick
<1>9. CASE UNCHANGED vars
  <2>1. now' \in Nat
    BY <1>9 DEF vars, IInv, Typed
  <2> QED BY <1>9, <2>1, UnchangedKeeps DEF vars
<1> QED BY <1>1, <1>2, <1>3, <1>4, <1>5, <1>6, <1>7, <1>8, <1>9 DEF Next

LEMMA Inductive == Spec => []IInv
<1> QED BY InitialIInv, InductiveStep, PTL DEF Spec

-----------------------------------------------------------------------------
\* Only three steps answer anything, and with what.
LEMMA WhoGrants ==
    ASSUME IInv, [Next]_vars, Returns("granted")
    PROVE  \/ /\ InspectResource /\ ~call.enforcing
              /\ call \in Calls /\ call.next = "resource"
              /\ call.policy \in 1 .. Len(call.policies)
              /\ CoversGate(call.policies[call.policy], world.gateGroups)
           \/ /\ call \in Calls /\ call.next = "schedule"
              /\ call.policy \in 1 .. Len(call.policies)
              /\ Admits(world, call.policies[call.policy], call.at)
<1>1. call # None /\ call' = None /\ answer' = "granted" /\ call \in Calls /\ answer = None
  BY DEF Returns, IInv, CallTyped
<1>2. InspectResource \/ GetSchedule
  <2>1. \A enforcing \in BOOLEAN : ~Begin(enforcing)
    BY <1>1 DEF Begin
  <2>2. ~GetUser
    <3>1. call' # [call EXCEPT !.next = "policies"] \/ call' = [call EXCEPT !.next = "policies"]
      OBVIOUS
    <3> QED BY <1>1, NoneAssumption DEF GetUser, Return, Continue
  <2>3. ~GetUserPolicies
    BY <1>1, NoneAssumption DEF GetUserPolicies, Continue
  <2>4. ~RequestFails
    BY <1>1 DEF RequestFails, Return
  <2>5. ~Edit /\ ~Tick /\ ~UNCHANGED vars
    BY <1>1 DEF Edit, Tick, vars
  <2> QED BY <2>1, <2>2, <2>3, <2>4, <2>5 DEF Next
<1>3. CASE InspectResource
  <2> DEFINE r == call.policies[call.policy].resources
  <2>1. call.next = "resource"
    BY <1>3 DEF InspectResource
  <2>2. ~(call.policy > Len(call.policies))
    BY <1>1, <1>3 DEF InspectResource, Return
  <2>3. call.policy \in 1 .. Len(call.policies)
    BY <1>1, <2>2, CallFacts
  <2>4. call.policies[call.policy] \in Policies
    BY <1>1, <2>3, CallFacts
  <2>5. Len(r) \in Nat /\ DOMAIN r = 1 .. Len(r)
    BY <2>4, PolicyTyped
  <2>6. answer' # answer
    BY <1>1, NoneAssumption
  <2>7. ~(call.resource > Len(r)) /\ r[call.resource] \in {Gate} \cup world.gateGroups
    BY <1>3, <2>2, <2>6 DEF InspectResource, Continue
  <2>8. call.resource \in DOMAIN r
    BY <1>1, <2>5, <2>7, CallFacts
  <2>9. CoversGate(call.policies[call.policy], world.gateGroups)
    BY <2>7, <2>8 DEF CoversGate
  <2>10. ~call.enforcing
    BY <1>3, <2>2, <2>6, <2>7 DEF InspectResource, GrantsGate, Continue
  <2> QED BY <1>1, <1>3, <2>1, <2>3, <2>9, <2>10
<1>4. CASE GetSchedule
  <2>1. call.next = "schedule"
    BY <1>4 DEF GetSchedule
  <2>2. ScheduleAllows(Plan, call.at) = "allowed"
    BY <1>1, <1>4, NoneAssumption DEF GetSchedule, Return, Continue
  <2> QED BY <1>1, <2>1, <2>2, PolicyInHand DEF Admits, Plan
<1> QED BY <1>2, <1>3, <1>4

\* A grant of a call that nothing disturbs, and the rest of a grant: both
\* from what the call has learnt.
LEMMA GrantFacts ==
    ASSUME IInv, [Next]_vars, Returns("granted")
    PROVE  /\ \E w \in during : w.active
           /\ \E p \in Policies :
                 /\ \E w \in during : Listed(p, w)
                 /\ \E w \in during : CoversGate(p, w.gateGroups)
                 /\ call.enforcing => \E w \in during : Admits(w, p, call.at)
<1>1. call \in Calls /\ world \in during /\ LearntBy(call)
  BY DEF Returns, IInv, CallTyped, Learnt
<1>2. /\ call.next \in {"resource", "schedule"}
      /\ call.policy \in 1 .. Len(call.policies)
      /\ call.next = "resource" =>
            ~call.enforcing /\ CoversGate(call.policies[call.policy], world.gateGroups)
      /\ call.next = "schedule" =>
            Admits(world, call.policies[call.policy], call.at)
  BY WhoGrants
<1>3. PICK p \in Policies : p = call.policies[call.policy]
  BY <1>1, <1>2, CallFacts
<1>4. \E w \in during : w.active
  BY <1>1, <1>2 DEF LearntBy
<1>5. \E w \in during : Listed(p, w)
  <2>1. PICK w \in during : w.policies = call.policies
    BY <1>1, <1>2 DEF LearntBy, ReadPolicies
  <2>2. call.policy \in DOMAIN w.policies /\ w.policies[call.policy] = p
    BY <1>1, <1>2, <1>3, <2>1, CallFacts
  <2> QED BY <2>1, <2>2 DEF Listed
<1>6. \E w \in during : CoversGate(p, w.gateGroups)
  BY <1>1, <1>2, <1>3 DEF LearntBy
<1>7. call.enforcing => \E w \in during : Admits(w, p, call.at)
  BY <1>1, <1>2, <1>3
<1> QED BY <1>3, <1>4, <1>5, <1>6, <1>7

LEMMA UndisturbedGrant ==
    ASSUME IInv, [Next]_vars, during = {world}, Returns("granted")
    PROVE  Entitled(world, call)
<1>1. call \in Calls /\ PassedOver(call) /\ LearntBy(call)
  BY DEF Returns, IInv, CallTyped, Undisturbed, Learnt
<1>2. /\ call.next \in {"resource", "schedule"}
      /\ call.policy \in 1 .. Len(call.policies)
      /\ call.next = "resource" =>
            ~call.enforcing /\ CoversGate(call.policies[call.policy], world.gateGroups)
      /\ call.next = "schedule" =>
            Admits(world, call.policies[call.policy], call.at)
  BY WhoGrants
<1>3. world.active /\ world.policies = call.policies
  BY <1>1, <1>2 DEF PassedOver, ReadPolicies
<1>4. call.policy \in DOMAIN world.policies
  BY <1>1, <1>2, <1>3, CallFacts
<1>5. CoversGate(call.policies[call.policy], world.gateGroups)
  BY <1>1, <1>2 DEF PassedOver
<1>6. call.enforcing => Admits(world, call.policies[call.policy], call.at)
  BY <1>2
<1> QED BY <1>3, <1>4, <1>5, <1>6 DEF Entitled

LEMMA UndisturbedRefusal ==
    ASSUME IInv, [Next]_vars, during = {world}, Returns("refused")
    PROVE  ~Entitled(world, call)
<1>1. /\ call # None /\ call' = None /\ answer' = "refused" /\ call \in Calls
      /\ answer = None /\ PassedOver(call)
  BY DEF Returns, IInv, CallTyped, Undisturbed
<1>2. GetUser \/ InspectResource
  <2>1. \A enforcing \in BOOLEAN : ~Begin(enforcing)
    BY <1>1 DEF Begin
  <2>2. ~GetUserPolicies
    BY <1>1, NoneAssumption DEF GetUserPolicies, Continue
  <2>3. ~RequestFails
    BY <1>1 DEF RequestFails, Return
  <2>4. ~GetSchedule
    BY <1>1, NoneAssumption DEF GetSchedule, Return, Continue
  <2>5. ~Edit /\ ~Tick /\ ~UNCHANGED vars
    BY <1>1 DEF Edit, Tick, vars
  <2> QED BY <2>1, <2>2, <2>3, <2>4, <2>5 DEF Next
<1>3. CASE GetUser
  <2>1. answer' # answer
    BY <1>1, NoneAssumption
  <2> QED BY <1>3, <2>1 DEF GetUser, Continue, Entitled
<1>4. CASE InspectResource
  <2>1. answer' # answer
    BY <1>1, NoneAssumption
  <2>2. call.next = "resource"
    BY <1>4 DEF InspectResource
  <2>3. call.policy > Len(call.policies)
    BY <1>1, <1>4, <2>1 DEF InspectResource, GrantsGate, Return, Continue
  <2>4. call.policies = world.policies /\ DOMAIN world.policies = 1 .. Len(call.policies)
    BY <1>1, <2>2, CallFacts DEF PassedOver, ReadPolicies
  <2>5. ASSUME NEW k \in 1 .. Len(call.policies)
        PROVE  ~Grants(world, call, call.policies[k])
    <3>1. k < call.policy
      BY <1>1, <2>3, CallFacts
    <3> QED BY <1>1, <2>2, <3>1 DEF PassedOver, ReadPolicies
  <2> QED BY <2>4, <2>5 DEF Entitled, Grants
<1> QED BY <1>2, <1>3, <1>4

-----------------------------------------------------------------------------
\* A grant of authorize_now or validate_claim_user rests on facts that were
\* so at some moment of the call, whatever is edited meanwhile.
THEOREM GrantsRestOnFacts == Spec => GrantedOnFactsOfTheCall
<1>1. IInv /\ [Next]_vars => (Returns("granted") =>
          /\ \E w \in during : w.active
          /\ \E p \in Policies :
                /\ \E w \in during : Listed(p, w)
                /\ \E w \in during : CoversGate(p, w.gateGroups)
                /\ call.enforcing => \E w \in during : Admits(w, p, call.at))
  BY GrantFacts
<1> QED BY <1>1, Inductive, PTL DEF Spec, GrantedOnFactsOfTheCall

\* An answer of authorize_now or validate_claim_user that no edit disturbs
\* is what the controller's data says.
THEOREM UndisturbedAnswers == Spec => UndisturbedAnswerIsRight
<1>1. IInv /\ [Next]_vars => (during = {world}
          => /\ Returns("granted") => Entitled(world, call)
             /\ Returns("refused") => ~Entitled(world, call))
  BY UndisturbedGrant, UndisturbedRefusal
<1> QED BY <1>1, Inductive, PTL DEF Spec, UndisturbedAnswerIsRight

-----------------------------------------------------------------------------
(* Schedules: division, years and weeks.                                   *)

LEMMA TimesInOrder ==
    ASSUME NEW b \in Nat, NEW x \in Int, NEW y \in Int, x <= y
    PROVE  b * x <= b * y
OBVIOUS

LEMMA DivIs ==
    ASSUME NEW a \in Int, NEW b \in Nat \ {0}
    PROVE  /\ a \div b \in Int /\ a % b \in Int /\ 0 <= a % b /\ a % b < b
           /\ a = b * (a \div b) + (a % b)
OBVIOUS

LEMMA DivUnique ==
    ASSUME NEW b \in Nat \ {0}, NEW q \in Int, NEW r \in Int, 0 <= r, r < b,
           NEW a \in Int, a = b * q + r
    PROVE  a \div b = q /\ a % b = r
<1> DEFINE p == a \div b
           s == a % b
<1>1. p \in Int /\ s \in Int /\ 0 <= s /\ s < b /\ a = b * p + s
  BY DivIs
<1> HIDE DEF p, s
<1>2. ~(p <= q - 1)
  <2> SUFFICES ASSUME p <= q - 1 PROVE FALSE
    OBVIOUS
  <2>1. b * p <= b * (q - 1)
    BY <1>1, TimesInOrder
  <2>2. b * (q - 1) = b * q - b
    OBVIOUS
  <2> QED BY <1>1, <2>1, <2>2
<1>3. ~(p >= q + 1)
  <2> SUFFICES ASSUME p >= q + 1 PROVE FALSE
    OBVIOUS
  <2>1. b * (q + 1) <= b * p
    BY <1>1, TimesInOrder
  <2>2. b * (q + 1) = b * q + b
    OBVIOUS
  <2> QED BY <1>1, <2>1, <2>2
<1>4. p = q
  BY <1>1, <1>2, <1>3
<1>5. s = r
  BY <1>1, <1>4
<1> QED BY <1>4, <1>5 DEF p, s

LEMMA DivMono ==
    ASSUME NEW b \in Nat \ {0}, NEW a \in Int, NEW c \in Int, a <= c
    PROVE  a \div b <= c \div b
<1> DEFINE p == a \div b
           q == c \div b
<1>1. /\ p \in Int /\ q \in Int /\ a >= b * p /\ c < b * q + b
  BY DivIs
<1> HIDE DEF p, q
<1>2. ~(q + 1 <= p)
  <2> SUFFICES ASSUME q + 1 <= p PROVE FALSE
    OBVIOUS
  <2>1. b * (q + 1) <= b * p
    BY <1>1, TimesInOrder
  <2>2. b * (q + 1) = b * q + b
    BY <1>1
  <2> QED BY <1>1, <2>1, <2>2
<1>3. p <= q
  BY <1>1, <1>2
<1> QED BY <1>3 DEF p, q

\* A moment by its year and its second in the year.
InYear(t) == Second * YearKey(t)

LEMMA WholeSecondIs ==
    ASSUME NEW t \in Nat
    PROVE  /\ YearKey(t) \in Nat /\ InYear(t) \in 0 .. Year - 1
           /\ t \div Year \in Nat
           /\ WholeSecond(t) = Year * (t \div Year) + InYear(t)
           /\ WholeSecond(t) <= t /\ t < WholeSecond(t) + Second
<1> DEFINE y == t \div Year
           m == t % Year
           k == m \div Second
           x == m % Second
           n == Year \div Second
<1>0. Second \in Nat \ {0} /\ Year \in Nat \ {0} /\ Year % Second = 0
  BY CalendarAssumption
<1>1. y \in Int /\ m \in Nat /\ m < Year /\ t = Year * y + m
  BY <1>0, DivIs
<1>2. k \in Int /\ x \in Nat /\ x < Second /\ m = Second * k + x
  BY <1>0, <1>1, DivIs
<1>3. n \in Int /\ Year = Second * n
  BY <1>0, DivIs
<1>4. YearKey(t) = k
  BY DEF YearKey
<1> HIDE DEF y, m, k, x, n
<1>5. y \in Nat
  <2>1. CASE y <= -1
    <3>1. Year * y <= Year * (-1)
      BY <1>0, <1>1, <2>1, TimesInOrder
    <3> QED BY <1>0, <1>1, <3>1
  <2> QED BY <1>1, <2>1
<1>6. k \in Nat
  <2>1. CASE k <= -1
    <3>1. Second * k <= Second * (-1)
      BY <1>0, <1>2, <2>1, TimesInOrder
    <3> QED BY <1>0, <1>1, <1>2, <3>1
  <2> QED BY <1>2, <2>1
<1>7. t = Second * (n * y + k) + x
  <2>1. Year * y = Second * (n * y)
    BY <1>0, <1>1, <1>3
  <2> QED BY <1>0, <1>1, <1>2, <1>3, <2>1
<1>8. t % Second = x
  <2> DEFINE q == n * y + k
  <2>1. q \in Int /\ t = Second * q + x
    BY <1>1, <1>3, <1>6, <1>7
  <2> HIDE DEF q
  <2> QED BY <1>0, <1>2, <2>1, DivUnique
<1>9. Second * k \in Nat /\ Year * y \in Nat
  BY <1>0, <1>5, <1>6
<1> QED
  BY <1>0, <1>1, <1>2, <1>4, <1>5, <1>6, <1>8, <1>9 DEF y, InYear, WholeSecond

LEMMA WholeSecondsInOrder ==
    ASSUME NEW a \in Nat, NEW b \in Nat, a < b
    PROVE  WholeSecond(a) <= WholeSecond(b)
<1>0. Second \in Nat \ {0}
  BY CalendarAssumption
<1>1. Second * (a \div Second) <= Second * (b \div Second)
  BY <1>0, DivMono, DivIs, TimesInOrder
<1>2. WholeSecond(a) = Second * (a \div Second) /\ WholeSecond(b) = Second * (b \div Second)
  BY <1>0, DivIs DEF WholeSecond
<1> QED BY <1>1, <1>2

LEMMA KeysInOrder ==
    ASSUME NEW a \in Nat, NEW b \in Nat
    PROVE  YearKey(a) < YearKey(b) <=> InYear(a) < InYear(b)
<1>0. Second \in Nat \ {0} /\ YearKey(a) \in Nat /\ YearKey(b) \in Nat
  BY CalendarAssumption, WholeSecondIs
<1>1. ASSUME NEW k \in Nat, NEW l \in Nat, k < l
      PROVE  Second * k < Second * l
  <2>1. Second * (k + 1) <= Second * l
    BY <1>0, <1>1, TimesInOrder
  <2>2. Second * (k + 1) = Second * k + Second
    BY <1>0
  <2> QED BY <1>0, <2>1, <2>2
<1>2. CASE YearKey(a) < YearKey(b)
  BY <1>0, <1>1, <1>2 DEF InYear
<1>3. CASE YearKey(b) < YearKey(a)
  <2>1. InYear(b) < InYear(a)
    BY <1>0, <1>1, <1>3 DEF InYear
  <2> QED BY <1>0, <1>3, <2>1 DEF InYear
<1>4. CASE YearKey(a) = YearKey(b)
  BY <1>0, <1>4 DEF InYear
<1> QED BY <1>0, <1>2, <1>3, <1>4

-----------------------------------------------------------------------------
\* In years of length n, a moment k of the year u, and what begins at f of
\* the year v and ends at l of the year w.
Within(k, f, l) == (f <= l /\ k >= f /\ k < l) \/ (f > l /\ (k >= f \/ k < l))

LEMMA WithinIsMeant ==
    ASSUME NEW n \in Nat \ {0}, NEW u \in Nat, NEW v \in Nat, NEW w \in Nat,
           NEW k \in 0 .. n - 1, NEW f \in 0 .. n - 1, NEW l \in 0 .. n - 1,
           n * v + f <= n * w + l, Within(k, f, l)
    PROVE  \E y \in -v - 1 .. u :
              n * u + k >= n * v + f + y * n /\ n * u + k < n * w + l + y * n
<1>1. v <= w /\ (f > l => v + 1 <= w)
  <2>1. ASSUME w <= v - 1 PROVE FALSE
    <3>1. n * w <= n * (v - 1)
      BY <2>1, TimesInOrder
    <3>2. n * (v - 1) = n * v - n
      OBVIOUS
    <3> QED BY <3>1, <3>2
  <2>2. v = w => f <= l
    OBVIOUS
  <2> QED BY <2>1, <2>2
<1>2. ASSUME NEW j \in {u - v, u - v - 1} PROVE n * u = n * v + j * n + n * (u - v - j)
  OBVIOUS
<1>3. n * v <= n * w /\ (f > l => n * v + n <= n * w)
  <2>1. n * v <= n * w
    BY <1>1, TimesInOrder
  <2>2. CASE f > l
    <3>1. n * (v + 1) <= n * w
      BY <1>1, <2>2, TimesInOrder
    <3>2. n * (v + 1) = n * v + n
      OBVIOUS
    <3> QED BY <2>1, <3>1, <3>2
  <2> QED BY <2>1, <2>2
<1>4. CASE k >= f /\ (f > l \/ k < l)
  <2> DEFINE j == u - v
  <2>1. n * u = n * v + j * n
    BY <1>2
  <2>2. n * u \in Int /\ n * v \in Int /\ j * n \in Int /\ n * w \in Int
    OBVIOUS
  <2>3. j \in -v - 1 .. u
    OBVIOUS
  <2> HIDE DEF j
  <2>4. n * u + k >= n * v + f + j * n /\ n * u + k < n * w + l + j * n
    BY <1>3, <1>4, <2>1, <2>2
  <2> QED BY <2>3, <2>4
<1>5. CASE f > l /\ k < l
  <2> DEFINE j == u - v - 1
  <2>1. n * u = n * v + j * n + n
    BY <1>2
  <2>2. n * u \in Int /\ n * v \in Int /\ j * n \in Int /\ n * w \in Int
    OBVIOUS
  <2>3. j \in -v - 1 .. u
    OBVIOUS
  <2> HIDE DEF j
  <2>4. n * u + k >= n * v + f + j * n /\ n * u + k < n * w + l + j * n
    BY <1>3, <1>5, <2>1, <2>2
  <2> QED BY <2>3, <2>4
<1> QED BY <1>4, <1>5 DEF Within

LEMMA MeantIsWithin ==
    ASSUME NEW n \in Nat \ {0}, NEW u \in Nat, NEW v \in Nat, NEW w \in Nat,
           NEW k \in 0 .. n - 1, NEW f \in 0 .. n - 1, NEW l \in 0 .. n - 1,
           n * v + f <= n * w + l, n * w + l < n * v + f + n,
           NEW y \in Int,
           n * u + k >= n * v + f + y * n, n * u + k < n * w + l + y * n
    PROVE  Within(k, f, l)
<1> DEFINE c == w - v
           d == u - v - y
<1>1. n * w = n * v + n * c /\ n * u = n * v + y * n + n * d
  OBVIOUS
<1>2. c \in Int /\ d \in Int /\ {n * v, y * n, n * c, n * d, n * w, n * u} \subseteq Int
  OBVIOUS
<1> HIDE DEF c, d
<1>3. /\ f <= n * c + l /\ n * c + l < f + n
      /\ n * d + k >= f /\ n * d + k < n * c + l
  BY <1>1, <1>2
<1>4. ASSUME NEW i \in Int
      PROVE  /\ i <= -1 => n * i <= -n
             /\ i >= 2 => n * i >= 2 * n
             /\ n * 0 = 0 /\ n * 1 = n
  <2>1. i <= -1 => n * i <= n * (-1)
    BY TimesInOrder
  <2>2. i >= 2 => n * 2 <= n * i
    BY TimesInOrder
  <2> QED BY <2>1, <2>2
<1>5. c \in {0, 1}
  BY <1>2, <1>3, <1>4
<1>6. d \in {0, 1}
  <2>1. n * c <= n
    BY <1>4, <1>5
  <2> QED BY <1>2, <1>3, <1>4, <2>1
<1>7. n * 0 = 0 /\ n * 1 = n
  BY <1>4
<1> QED BY <1>3, <1>5, <1>6, <1>7 DEF Within

-----------------------------------------------------------------------------
Entry(h) == h # Malformed /\ h.start < h.end

LEMMA HolidayTyped ==
    ASSUME NEW h \in Holidays, h # Malformed
    PROVE  h.start \in Nat /\ h.end \in Nat /\ h.repeat \in BOOLEAN
BY CalendarAssumption

LEMMA CoversIs ==
    ASSUME NEW h \in Holidays, h # Malformed, h.repeat, NEW t \in Nat
    PROVE  Covers(h, t) <=> Within(InYear(t), InYear(h.start), InYear(h.end))
<1>1. h.start \in Nat /\ h.end \in Nat
  BY HolidayTyped
<1> DEFINE key == YearKey(t) first == YearKey(h.start) last == YearKey(h.end)
           k == InYear(t) f == InYear(h.start) l == InYear(h.end)
<1>2. {key, first, last, k, f, l} \subseteq Nat
  BY <1>1, WholeSecondIs
<1>3. /\ key < last <=> k < l
      /\ key < first <=> k < f
      /\ last < first <=> l < f
  BY <1>1, KeysInOrder
<1>4. Covers(h, t) <=> \/ (first <= last /\ key >= first /\ key < last)
                      \/ (first > last /\ (key >= first \/ key < last))
  BY DEF Covers
<1>5. Within(k, f, l) <=> (f <= l /\ k >= f /\ k < l) \/ (f > l /\ (k >= f \/ k < l))
  BY DEF Within
<1> HIDE DEF key, first, last, k, f, l
<1>6. Covers(h, t) <=> Within(k, f, l)
  BY <1>2, <1>3, <1>4, <1>5
<1> QED BY <1>6 DEF k, f, l

\* A holiday that covers a moment was meant to.
LEMMA CoveredIsMeant ==
    ASSUME NEW h \in Holidays, Entry(h), NEW t \in 0 .. Horizon, Covers(h, t)
    PROVE  MeantHoliday(h, t)
<1>0. /\ h.start \in Nat /\ h.end \in Nat /\ h.repeat \in BOOLEAN
      /\ h # Malformed /\ h.start < h.end
      /\ Year \in Nat \ {0} /\ Horizon \in Nat /\ t \in Nat /\ t <= Horizon
  BY HolidayTyped, CalendarAssumption DEF Entry
<1>1. CASE ~h.repeat
  BY <1>1 DEF Covers, MeantHoliday
<1>2. CASE h.repeat
  <2> DEFINE u == t \div Year v == h.start \div Year w == h.end \div Year
             k == InYear(t) f == InYear(h.start) l == InYear(h.end)
  <2>1. /\ {u, v, w} \subseteq Nat /\ {k, f, l} \subseteq 0 .. Year - 1
        /\ WholeSecond(t) = Year * u + k
        /\ WholeSecond(h.start) = Year * v + f
        /\ WholeSecond(h.end) = Year * w + l
    BY <1>0, WholeSecondIs
  <2>2. Year * v + f <= Year * w + l
    BY <1>0, <2>1, WholeSecondsInOrder
  <2>3. Within(k, f, l)
    BY <1>0, <1>2, CoversIs
  <2>4. u <= Horizon \div Year /\ Horizon \div Year \in Int
    BY <1>0, DivMono, DivIs
  <2>5. MeantHoliday(h, t) <=>
          \E y \in -v - 1 .. Horizon \div Year :
              /\ WholeSecond(t) >= WholeSecond(h.start) + y * Year
              /\ WholeSecond(t) < WholeSecond(h.end) + y * Year
    BY <1>2, Zenon DEF MeantHoliday
  <2> HIDE DEF u, v, w, k, f, l
  <2>6. PICK y \in -v - 1 .. u :
           Year * u + k >= Year * v + f + y * Year /\ Year * u + k < Year * w + l + y * Year
    BY <1>0, <2>1, <2>2, <2>3, WithinIsMeant
  <2>7. y \in -v - 1 .. Horizon \div Year
    BY <2>1, <2>4, <2>6
  <2> QED BY <2>1, <2>5, <2>6, <2>7
<1> QED BY <1>0, <1>1, <1>2

\* Of a holiday shorter than a year, the converse.
LEMMA MeantIsCovered ==
    ASSUME NEW h \in Holidays, Entry(h), NEW t \in 0 .. Horizon, MeantHoliday(h, t),
           WholeSecond(h.end) - WholeSecond(h.start) < Year
    PROVE  Covers(h, t)
<1>0. /\ h.start \in Nat /\ h.end \in Nat /\ h.repeat \in BOOLEAN
      /\ h # Malformed /\ h.start < h.end
      /\ Year \in Nat \ {0} /\ Horizon \in Nat /\ t \in Nat
  BY HolidayTyped, CalendarAssumption DEF Entry
<1>1. CASE ~h.repeat
  BY <1>1 DEF Covers, MeantHoliday
<1>2. CASE h.repeat
  <2> DEFINE u == t \div Year v == h.start \div Year w == h.end \div Year
             k == InYear(t) f == InYear(h.start) l == InYear(h.end)
  <2>1. /\ {u, v, w} \subseteq Nat /\ {k, f, l} \subseteq 0 .. Year - 1
        /\ WholeSecond(t) = Year * u + k
        /\ WholeSecond(h.start) = Year * v + f
        /\ WholeSecond(h.end) = Year * w + l
    BY <1>0, WholeSecondIs
  <2>2. Year * v + f <= Year * w + l
    BY <1>0, <2>1, WholeSecondsInOrder
  <2>3. PICK y \in -(h.start \div Year) - 1 .. Horizon \div Year :
           /\ WholeSecond(t) >= WholeSecond(h.start) + y * Year
           /\ WholeSecond(t) < WholeSecond(h.end) + y * Year
    BY <1>2, Zenon DEF MeantHoliday
  <2>y. y \in Int
    BY <1>0, <2>3, DivIs
  <2> HIDE DEF u, v, w, k, f, l
  <2>4. Year * w + l < Year * v + f + Year
    BY <1>0, <2>1
  <2>5. Year * u + k >= Year * v + f + y * Year /\ Year * u + k < Year * w + l + y * Year
    BY <2>1, <2>3
  <2>6. Within(k, f, l)
    <3>1. u \in Nat /\ v \in Nat /\ w \in Nat
      BY <2>1
    <3>2. k \in 0 .. Year - 1 /\ f \in 0 .. Year - 1 /\ l \in 0 .. Year - 1
      BY <2>1
    <3> QED BY <1>0, <3>1, <3>2, <2>2, <2>y, <2>4, <2>5, MeantIsWithin
  <2> QED BY <1>0, <1>2, <2>6, CoversIs DEF k, f, l
<1> QED BY <1>0, <1>1, <1>2

-----------------------------------------------------------------------------
(* The loops over entries.                                                 *)

Less == {ss \in Nat \X Nat : ss[1] < ss[2]}

LEMMA MinOf ==
    ASSUME NEW S \in SUBSET Nat, S # {}
    PROVE  Min(S) \in S /\ \A e \in S : Min(S) <= e
<1>1. IsWellFoundedOn(Less, Nat)
  BY NatLessThanWellFounded DEF OpToRel, Less
<1>2. PICK m \in S : \A e \in S : ~(<<e, m>> \in Less)
  BY <1>1, WFMin
<1>3. \A e \in S : m <= e
  <2> TAKE e \in S
  <2>1. ~(<<e, m>> \in Less) /\ e \in Nat /\ m \in Nat
    BY <1>2
  <2> QED BY <2>1 DEF Less
<1> DEFINE n == CHOOSE x \in S : \A e \in S : x <= e
<1>4. n \in S /\ \A e \in S : n <= e
  BY <1>3, Zenon
<1> QED BY <1>4, Zenon DEF Min

\* The first entry that is not off decides.
LEMMA FirstDecides ==
    ASSUME NEW n \in Nat, NEW states, DOMAIN states = 1 .. n, NEW on, NEW off
    PROVE  \/ /\ \A k \in 1 .. n : states[k] = "off"
              /\ FirstAnswer(states, on, off) = off
           \/ \E k \in 1 .. n :
                 /\ states[k] # "off" /\ \A j \in 1 .. k - 1 : states[j] = "off"
                 /\ FirstAnswer(states, on, off) = IF states[k] = "error" THEN "error" ELSE on
<1> DEFINE D == {k \in DOMAIN states : states[k] # "off"}
<1>1. FirstAnswer(states, on, off) =
         IF D = {} THEN off ELSE IF states[Min(D)] = "error" THEN "error" ELSE on
  BY Zenon DEF FirstAnswer
<1>2. CASE D = {}
  BY <1>1, <1>2
<1>3. CASE D # {}
  <2> DEFINE k == Min(D)
  <2>1. k \in D /\ \A e \in D : k <= e
    BY <1>3, MinOf
  <2>2. FirstAnswer(states, on, off) = IF states[k] = "error" THEN "error" ELSE on
    BY <1>1, <1>3
  <2> HIDE DEF k
  <2>3. \A j \in 1 .. k - 1 : states[j] = "off"
    BY <2>1
  <2> QED BY <2>1, <2>2, <2>3
<1> QED BY <1>2, <1>3

\* Without errors the order of the entries does not matter.
LEMMA AnyDecides ==
    ASSUME NEW n \in Nat, NEW states, DOMAIN states = 1 .. n,
           \A k \in 1 .. n : states[k] \in {"on", "off"}, NEW on, NEW off
    PROVE  FirstAnswer(states, on, off) =
              IF \E k \in 1 .. n : states[k] = "on" THEN on ELSE off
<1>1. CASE \A k \in 1 .. n : states[k] = "off"
  BY <1>1, FirstDecides
<1>2. CASE \E k \in 1 .. n : states[k] # "off"
  BY <1>2, FirstDecides
<1> QED BY <1>1, <1>2

\* What is said in place of an error does not change another answer.
LEMMA ErrorsDecide ==
    ASSUME NEW n \in Nat, NEW states, DOMAIN states = 1 .. n,
           NEW others, DOMAIN others = 1 .. n,
           \A k \in 1 .. n : states[k] # "error" => others[k] = states[k],
           NEW on, NEW off, FirstAnswer(states, on, off) # "error"
    PROVE  FirstAnswer(others, on, off) = FirstAnswer(states, on, off)
<1>1. CASE \A k \in 1 .. n : states[k] = "off"
  <2>1. \A k \in 1 .. n : others[k] = "off"
    BY <1>1
  <2>2. FirstAnswer(states, on, off) = off
    BY <1>1, FirstDecides
  <2>3. FirstAnswer(others, on, off) = off
    BY <2>1, FirstDecides
  <2> QED BY <2>2, <2>3
<1>2. CASE ~\A k \in 1 .. n : states[k] = "off"
  <2>1. PICK k \in 1 .. n :
           /\ states[k] # "off" /\ \A j \in 1 .. k - 1 : states[j] = "off"
           /\ FirstAnswer(states, on, off) = IF states[k] = "error" THEN "error" ELSE on
    BY <1>2, FirstDecides
  <2>2. /\ others[k] = states[k] /\ states[k] # "error"
        /\ \A j \in 1 .. k - 1 : others[j] = "off"
    BY <2>1
  <2>3. PICK i \in 1 .. n :
           /\ others[i] # "off" /\ \A j \in 1 .. i - 1 : others[j] = "off"
           /\ FirstAnswer(others, on, off) = IF others[i] = "error" THEN "error" ELSE on
    BY <2>1, <2>2, FirstDecides
  <2>4. i = k
    BY <2>1, <2>2, <2>3
  <2> QED BY <2>1, <2>2, <2>3, <2>4
<1> QED BY <1>1, <1>2

-----------------------------------------------------------------------------
(* A schedule.                                                             *)

LEMMA ScheduleTyped ==
    ASSUME NEW s \in Schedules
    PROVE  /\ s = [weekly |-> s.weekly, holiday_schedule |-> s.holiday_schedule,
                   holidays |-> s.holidays]
           /\ s.weekly # Absent => s.weekly \in [0 .. DaysPerWeek - 1 -> Seq(Ranges)]
           /\ s.holiday_schedule # Absent => s.holiday_schedule \in Seq(Ranges)
           /\ s.holidays \in Seq(Holidays)
<1>1. s \in [weekly: {Absent} \cup [0 .. DaysPerWeek - 1 -> Seq(Ranges)],
            holiday_schedule: {Absent} \cup Seq(Ranges),
            holidays: Seq(Holidays)]
  BY CalendarAssumption
<1> QED BY <1>1

LEMMA EntriesAre ==
    ASSUME NEW S, NEW q \in Seq(S)
    PROVE  /\ Len(q) \in Nat /\ DOMAIN q = 1 .. Len(q)
           /\ \A k \in 1 .. Len(q) : q[k] \in S
OBVIOUS

HolidayAnswer(s, t) ==
    FirstAnswer([k \in DOMAIN s.holidays |-> HolidayState(s.holidays[k], t)], "on", "off")

Weekly(s, t) ==
    IF s.weekly = Absent THEN "allowed"
    ELSE TimeRangesAllow(s.weekly[Weekday(t)], TimeOfDay(t))

LEMMA ScheduleIs ==
    ASSUME NEW s, NEW t
    PROVE  ScheduleAllows(s, t) =
              IF HolidayAnswer(s, t) = "error" THEN "error"
              ELSE IF HolidayAnswer(s, t) = "on"
                   THEN IF s.holiday_schedule = Absent THEN "denied"
                        ELSE TimeRangesAllow(s.holiday_schedule, TimeOfDay(t))
              ELSE Weekly(s, t)
BY Zenon DEF ScheduleAllows, HolidayAnswer, Weekly

\* Readable holidays: the answer is whether one of them covers the moment.
LEMMA HolidayAnswerIs ==
    ASSUME NEW s \in Schedules, NEW t,
           \A k \in DOMAIN s.holidays : Entry(s.holidays[k])
    PROVE  HolidayAnswer(s, t) =
              IF \E k \in DOMAIN s.holidays : Covers(s.holidays[k], t) THEN "on" ELSE "off"
<1> DEFINE n == Len(s.holidays)
           states == [k \in DOMAIN s.holidays |-> HolidayState(s.holidays[k], t)]
<1>1. n \in Nat /\ DOMAIN s.holidays = 1 .. n /\ \A k \in 1 .. n : s.holidays[k] \in Holidays
  BY ScheduleTyped, EntriesAre
<1>2. ASSUME NEW k \in 1 .. n
      PROVE  states[k] = IF Covers(s.holidays[k], t) THEN "on" ELSE "off"
  <2>1. Entry(s.holidays[k]) /\ states[k] = HolidayState(s.holidays[k], t)
    BY <1>1
  <2>2. s.holidays[k].start \in Nat /\ s.holidays[k].end \in Nat
    BY <1>1, <2>1, HolidayTyped DEF Entry
  <2>3. s.holidays[k] # Malformed /\ ~(s.holidays[k].end <= s.holidays[k].start)
    BY <2>1, <2>2 DEF Entry
  <2> QED BY <2>1, <2>3, Zenon DEF HolidayState
<1>3. DOMAIN states = 1 .. n /\ HolidayAnswer(s, t) = FirstAnswer(states, "on", "off")
  BY <1>1, Zenon DEF HolidayAnswer
<1> HIDE DEF n, states
<1>4. HolidayAnswer(s, t) = IF \E k \in 1 .. n : states[k] = "on" THEN "on" ELSE "off"
  BY <1>1, <1>2, <1>3, AnyDecides
<1> QED BY <1>1, <1>2, <1>4

LEMMA HolidaysKept ==
    ASSUME NEW s \in Schedules, NEW t \in 0 .. Horizon
    PROVE  HolidaysTakePrecedence(s, t)
<1> SUFFICES ASSUME WellFormed(s),
                    \A k \in DOMAIN s.holidays :
                       WholeSecond(s.holidays[k].end) - WholeSecond(s.holidays[k].start) < Year
             PROVE  IF OnHoliday(s, t)
                    THEN ScheduleAllows(s, t) = "allowed" <=>
                            /\ s.holiday_schedule # Absent
                            /\ TimeRangesAllow(s.holiday_schedule, TimeOfDay(t)) = "allowed"
                    ELSE ScheduleAllows(s, t) = ScheduleAllows([s EXCEPT !.holidays = <<>>], t)
  BY Zenon DEF HolidaysTakePrecedence
<1>1. \A k \in DOMAIN s.holidays : s.holidays[k] \in Holidays /\ Entry(s.holidays[k])
  BY ScheduleTyped, EntriesAre DEF WellFormed, Entry
<1>2. OnHoliday(s, t) <=> \E k \in DOMAIN s.holidays : Covers(s.holidays[k], t)
  BY <1>1, CoveredIsMeant, MeantIsCovered DEF OnHoliday
<1>3. HolidayAnswer(s, t) = IF OnHoliday(s, t) THEN "on" ELSE "off"
  BY <1>1, <1>2, HolidayAnswerIs
<1>4. CASE OnHoliday(s, t)
  BY <1>3, <1>4, ScheduleIs
<1>5. CASE ~OnHoliday(s, t)
  <2> DEFINE e == [s EXCEPT !.holidays = <<>>]
  <2>1. e.weekly = s.weekly /\ e.holidays = <<>>
    BY ScheduleTyped
  <2> HIDE DEF e
  <2>2. HolidayAnswer(e, t) = "off"
    <3> DEFINE none == [k \in DOMAIN e.holidays |-> HolidayState(e.holidays[k], t)]
    <3>1. DOMAIN none = 1 .. 0
      BY <2>1
    <3>2. HolidayAnswer(e, t) = FirstAnswer(none, "on", "off")
      BY Zenon DEF HolidayAnswer
    <3> HIDE DEF none
    <3> QED BY <3>1, <3>2, FirstDecides
  <2>3. Weekly(e, t) = Weekly(s, t)
    BY <2>1, Zenon DEF Weekly
  <2>6. ScheduleAllows(s, t) = ScheduleAllows(e, t)
    BY <1>3, <1>5, <2>2, <2>3, ScheduleIs
  <2> QED BY <1>5, <2>6 DEF e
<1> QED BY <1>4, <1>5

-----------------------------------------------------------------------------
(* Weekly hours.                                                           *)

LEMMA RangeTyped ==
    ASSUME NEW r \in Ranges, r # Malformed
    PROVE  r.start \in 0 .. Day - 1 /\ r.end \in 0 .. Day - 1
BY CalendarAssumption

LEMMA ClockIs ==
    ASSUME NEW t \in Nat
    PROVE  /\ TimeOfDay(t) \in 0 .. Day - 1 /\ Weekday(t) \in 0 .. DaysPerWeek - 1
           /\ (t + Offset) \div Week \in Int
           /\ t + Offset = Week * ((t + Offset) \div Week) + Day * Weekday(t) + TimeOfDay(t)
<1>0. Day \in Nat \ {0} /\ DaysPerWeek \in Nat \ {0} /\ Offset \in Int
  BY CalendarAssumption
<1> DEFINE u == t + Offset
           q == u \div Day
           m == u % Day
           w == q \div DaysPerWeek
           d == q % DaysPerWeek
<1>1. u \in Int /\ q \in Int /\ m \in 0 .. Day - 1 /\ u = Day * q + m
  BY <1>0, DivIs
<1> HIDE DEF u
<1>2. w \in Int /\ d \in 0 .. DaysPerWeek - 1 /\ q = DaysPerWeek * w + d
  BY <1>0, <1>1, DivIs
<1>3. TimeOfDay(t) = m /\ Weekday(t) = d
  BY DEF TimeOfDay, Weekday, u
<1> HIDE DEF q, m, w, d
<1>4. Week \in Nat \ {0} /\ Week = Day * DaysPerWeek
  BY <1>0 DEF Week
<1>5. u = Week * w + (Day * d + m)
  <2>1. Day * q = Day * (DaysPerWeek * w) + Day * d
    BY <1>0, <1>1, <1>2
  <2>2. Day * (DaysPerWeek * w) = (Day * DaysPerWeek) * w
    BY <1>0, <1>2
  <2> QED BY <1>0, <1>1, <1>2, <1>4, <2>1, <2>2
<1>6. Day * d + m \in Int /\ 0 <= Day * d + m /\ Day * d + m < Week
  <2>1. Day * d <= Day * (DaysPerWeek - 1) /\ Day * 0 <= Day * d
    BY <1>0, <1>2, TimesInOrder
  <2>2. Day * (DaysPerWeek - 1) = Day * DaysPerWeek - Day /\ Day * 0 = 0
    BY <1>0
  <2>3. Day * d \in Int
    BY <1>0, <1>2
  <2> QED BY <1>0, <1>1, <1>4, <2>1, <2>2, <2>3
<1>7. u \div Week = w
  <2> DEFINE x == Day * d + m
  <2>1. x \in Int /\ 0 <= x /\ x < Week /\ u = Week * w + x
    BY <1>5, <1>6
  <2> HIDE DEF x
  <2> QED BY <1>1, <1>2, <1>4, <2>1, DivUnique
<1>8. Day * d \in Int /\ Week * w \in Int
  BY <1>0, <1>2, <1>4
<1>9. u = Week * w + Day * d + m
  BY <1>1, <1>5, <1>8
<1> QED BY <1>1, <1>2, <1>3, <1>7, <1>9 DEF u

\* On the local calendar a moment belongs to one day of one week.
LEMMA MeantDayIs ==
    ASSUME NEW r \in Ranges, r # Malformed, r.start <= r.end,
           NEW day \in 0 .. DaysPerWeek - 1, NEW t \in 0 .. Horizon
    PROVE  MeantDay(r, day, t) <=>
              day = Weekday(t) /\ r.start <= TimeOfDay(t) /\ TimeOfDay(t) <= r.end
<1>0. /\ Day \in Nat \ {0} /\ DaysPerWeek \in Nat \ {0} /\ Offset \in Int
      /\ Week \in Nat \ {0} /\ Week = Day * DaysPerWeek
      /\ Horizon \in Nat /\ t \in Nat /\ t <= Horizon
  BY CalendarAssumption DEF Week
<1>1. r.start \in 0 .. Day - 1 /\ r.end \in 0 .. Day - 1
  BY RangeTyped
<1> DEFINE u == t + Offset
           w == u \div Week
           d == Weekday(t)
           m == TimeOfDay(t)
<1>2. /\ u \in Int /\ w \in Int /\ d \in 0 .. DaysPerWeek - 1 /\ m \in 0 .. Day - 1
      /\ u = Week * w + Day * d + m
  BY <1>0, ClockIs
<1>3. w \in Offset \div Week .. (Horizon + Offset) \div Week
  BY <1>0, DivMono, DivIs
<1>4. \A x \in Offset \div Week .. (Horizon + Offset) \div Week : x \in Int
  BY <1>0, DivIs
<1>5. MeantDay(r, day, t) <=>
         \E week \in Offset \div Week .. (Horizon + Offset) \div Week :
            /\ t >= week * Week + day * Day - Offset + r.start
            /\ t <= week * Week + day * Day - Offset + r.end
  BY Zenon DEF MeantDay
<1>6. t = u - Offset
  BY <1>0
<1>7. Weekday(t) = (u \div Day) % DaysPerWeek /\ TimeOfDay(t) = u % Day
  BY Zenon DEF Weekday, TimeOfDay
<1> HIDE DEF u, w, d, m
<1>8. ASSUME day = d, r.start <= m, m <= r.end PROVE MeantDay(r, day, t)
  <2>1. Week * w = w * Week /\ Day * d = d * Day /\ w * Week \in Int /\ d * Day \in Int
    BY <1>0, <1>2
  <2>2. /\ t >= w * Week + day * Day - Offset + r.start
        /\ t <= w * Week + day * Day - Offset + r.end
    BY <1>0, <1>1, <1>2, <1>6, <1>8, <2>1
  <2> QED BY <1>3, <1>5, <2>2
<1>9. ASSUME MeantDay(r, day, t) PROVE day = d /\ r.start <= m /\ m <= r.end
  <2>1. PICK week \in Offset \div Week .. (Horizon + Offset) \div Week :
           /\ t >= week * Week + day * Day - Offset + r.start
           /\ t <= week * Week + day * Day - Offset + r.end
    BY <1>5, <1>9
  <2>2. week \in Int
    BY <1>4
  <2> DEFINE q == DaysPerWeek * week + day
             x == u - Day * q
  <2>3. q \in Int /\ Day * q = week * Week + day * Day
    <3>1. Day * q = Day * (DaysPerWeek * week) + Day * day
      BY <1>0, <2>2
    <3>2. Day * (DaysPerWeek * week) = week * (Day * DaysPerWeek)
      BY <1>0, <2>2
    <3> QED BY <1>0, <2>2, <3>1, <3>2
  <2> HIDE DEF q
  <2>4. x \in Int /\ r.start <= x /\ x <= r.end /\ u = Day * q + x
    <3>1. week * Week \in Int /\ day * Day \in Int /\ Day * q \in Int
      BY <1>0, <2>2, <2>3
    <3> QED BY <1>0, <1>1, <1>2, <1>6, <2>1, <2>3, <3>1
  <2> HIDE DEF x
  <2>5. u \div Day = q /\ u % Day = x
    <3>1. 0 <= x /\ x < Day
      BY <1>0, <1>1, <2>4
    <3> QED BY <1>0, <1>2, <2>3, <2>4, <3>1, DivUnique
  <2>6. q % DaysPerWeek = day
    BY <1>0, <2>2, <2>3, DivUnique DEF q
  <2> QED BY <1>7, <2>4, <2>5, <2>6 DEF d, m
<1> QED BY <1>8, <1>9 DEF d, m

\* Readable ranges: the answer is whether one of them holds the time of day.
LEMMA RangesAnswer ==
    ASSUME NEW q \in Seq(Ranges), \A k \in DOMAIN q : q[k] # Malformed /\ q[k].start <= q[k].end,
           NEW clock \in Int
    PROVE  TimeRangesAllow(q, clock) = "allowed" <=>
              \E k \in DOMAIN q : q[k].start <= clock /\ clock <= q[k].end
<1> DEFINE n == Len(q)
           states == [k \in DOMAIN q |-> RangeState(q[k], clock)]
<1>1. n \in Nat /\ DOMAIN q = 1 .. n /\ \A k \in 1 .. n : q[k] \in Ranges
  BY EntriesAre
<1>2. ASSUME NEW k \in 1 .. n
      PROVE  states[k] = IF q[k].start <= clock /\ clock <= q[k].end THEN "on" ELSE "off"
  <2>1. states[k] = RangeState(q[k], clock) /\ q[k] # Malformed /\ q[k].start <= q[k].end
    BY <1>1
  <2>2. q[k].start \in Int /\ q[k].end \in Int
    BY <1>1, <2>1, RangeTyped, CalendarAssumption
  <2> HIDE DEF states
  <2> QED BY <2>1, <2>2 DEF RangeState
<1>3. DOMAIN states = 1 .. n /\ TimeRangesAllow(q, clock) = FirstAnswer(states, "allowed", "denied")
  BY <1>1, Zenon DEF TimeRangesAllow
<1> HIDE DEF n, states
<1>4. TimeRangesAllow(q, clock) = IF \E k \in 1 .. n : states[k] = "on" THEN "allowed" ELSE "denied"
  BY <1>1, <1>2, <1>3, AnyDecides
<1> QED BY <1>1, <1>2, <1>4

LEMMA HoursKept ==
    ASSUME NEW s \in Schedules, NEW t \in 0 .. Horizon
    PROVE  WeeklyHoursAreLocal(s, t)
<1> SUFFICES ASSUME WellFormed(s), WithinDays(s), ~OnHoliday(s, t)
             PROVE  ScheduleAllows(s, t) = "allowed" <=>
                       \E d \in DOMAIN s.weekly : \E r \in Range(s.weekly[d]) : MeantDay(r, d, t)
  BY Zenon DEF WeeklyHoursAreLocal
<1>1. \A k \in DOMAIN s.holidays : s.holidays[k] \in Holidays /\ Entry(s.holidays[k])
  BY ScheduleTyped, EntriesAre DEF WellFormed, Entry
<1>2. \A k \in DOMAIN s.holidays : ~Covers(s.holidays[k], t)
  BY <1>1, CoveredIsMeant DEF OnHoliday
<1>3. HolidayAnswer(s, t) = "off"
  BY <1>1, <1>2, HolidayAnswerIs
<1>4. /\ s.weekly # Absent
      /\ s.weekly \in [0 .. DaysPerWeek - 1 -> Seq(Ranges)]
      /\ DOMAIN s.weekly = 0 .. DaysPerWeek - 1
  BY ScheduleTyped DEF WithinDays
<1>5. \A d \in DOMAIN s.weekly : \A r \in Range(s.weekly[d]) :
         r \in Ranges /\ r # Malformed /\ r.start <= r.end
  <2> TAKE d \in DOMAIN s.weekly
  <2> TAKE r \in Range(s.weekly[d])
  <2>1. PICK k \in DOMAIN s.weekly[d] : r = s.weekly[d][k]
    BY DEF Range
  <2>2. r \in Ranges
    BY <1>4, <2>1, EntriesAre
  <2> QED BY <1>4, <2>2 DEF WellFormed, WithinDays
<1>6. t \in Nat /\ TimeOfDay(t) \in Int /\ Weekday(t) \in DOMAIN s.weekly
  BY <1>4, ClockIs, CalendarAssumption
<1> DEFINE q == s.weekly[Weekday(t)]
<1>7. ScheduleAllows(s, t) = TimeRangesAllow(q, TimeOfDay(t))
  <2>1. Weekly(s, t) = TimeRangesAllow(q, TimeOfDay(t))
    BY <1>4, Zenon DEF Weekly
  <2> QED BY <1>3, <2>1, ScheduleIs
<1>8. q \in Seq(Ranges)
  BY <1>4, <1>6
<1>9. \A k \in DOMAIN q : q[k] # Malformed /\ q[k].start <= q[k].end
  BY <1>5, <1>6 DEF Range
<1>10. ScheduleAllows(s, t) = "allowed" <=>
          \E k \in DOMAIN q : q[k].start <= TimeOfDay(t) /\ TimeOfDay(t) <= q[k].end
  BY <1>6, <1>7, <1>8, <1>9, RangesAnswer
<1>11. ScheduleAllows(s, t) = "allowed" <=>
          \E r \in Range(q) : r.start <= TimeOfDay(t) /\ TimeOfDay(t) <= r.end
  BY <1>10 DEF Range
<1>12. ASSUME NEW d \in DOMAIN s.weekly, NEW r \in Range(s.weekly[d])
       PROVE  MeantDay(r, d, t) <=>
                 d = Weekday(t) /\ r.start <= TimeOfDay(t) /\ TimeOfDay(t) <= r.end
  BY <1>4, <1>5, MeantDayIs
<1> QED BY <1>6, <1>11, <1>12, Zenon

-----------------------------------------------------------------------------
(* Malformed entries.                                                      *)

LEMMA RepairKeeps ==
    ASSUME NEW entries, NEW good, NEW rs \in Repairs(entries, good)
    PROVE  /\ DOMAIN rs = DOMAIN entries
           /\ \A k \in DOMAIN entries : entries[k] # Malformed => rs[k] = entries[k]
BY DEF Repairs

LEMMA RangesRepaired ==
    ASSUME NEW q \in Seq(Ranges), NEW good, NEW rs \in Repairs(q, good), NEW clock,
           TimeRangesAllow(q, clock) = "allowed"
    PROVE  TimeRangesAllow(rs, clock) = "allowed"
<1> DEFINE n == Len(q)
           states == [k \in DOMAIN q |-> RangeState(q[k], clock)]
           others == [k \in DOMAIN rs |-> RangeState(rs[k], clock)]
<1>1. n \in Nat /\ DOMAIN q = 1 .. n /\ DOMAIN rs = 1 .. n
  BY EntriesAre, RepairKeeps
<1>2. ASSUME NEW k \in 1 .. n, states[k] # "error" PROVE others[k] = states[k]
  <2>1. states[k] = RangeState(q[k], clock) /\ others[k] = RangeState(rs[k], clock)
    BY <1>1
  <2>2. q[k] # Malformed
    BY <1>2, <2>1, Zenon DEF RangeState
  <2>3. rs[k] = q[k]
    BY <1>1, <2>2, RepairKeeps
  <2> QED BY <2>1, <2>3
<1>3. /\ DOMAIN states = 1 .. n /\ DOMAIN others = 1 .. n
      /\ TimeRangesAllow(q, clock) = FirstAnswer(states, "allowed", "denied")
      /\ TimeRangesAllow(rs, clock) = FirstAnswer(others, "allowed", "denied")
  BY <1>1, Zenon DEF TimeRangesAllow
<1> HIDE DEF n, states, others
<1>4. FirstAnswer(states, "allowed", "denied") # "error"
  BY <1>3
<1> QED BY <1>1, <1>2, <1>3, <1>4, ErrorsDecide

LEMMA HolidaysRepaired ==
    ASSUME NEW s \in Schedules, NEW t, NEW good, NEW e, NEW hs \in Repairs(s.holidays, good),
           e.holidays = hs, HolidayAnswer(s, t) # "error"
    PROVE  HolidayAnswer(e, t) = HolidayAnswer(s, t)
<1> DEFINE q == s.holidays
           n == Len(q)
           states == [k \in DOMAIN q |-> HolidayState(q[k], t)]
           others == [k \in DOMAIN e.holidays |-> HolidayState(e.holidays[k], t)]
<1>1. n \in Nat /\ DOMAIN q = 1 .. n /\ DOMAIN e.holidays = 1 .. n
  BY ScheduleTyped, EntriesAre, RepairKeeps
<1>2. ASSUME NEW k \in 1 .. n, states[k] # "error" PROVE others[k] = states[k]
  <2>1. states[k] = HolidayState(q[k], t) /\ others[k] = HolidayState(e.holidays[k], t)
    BY <1>1
  <2>2. q[k] # Malformed
    BY <1>2, <2>1, Zenon DEF HolidayState
  <2>3. e.holidays[k] = q[k]
    BY <1>1, <2>2, RepairKeeps
  <2> QED BY <2>1, <2>3
<1>3. /\ DOMAIN states = 1 .. n /\ DOMAIN others = 1 .. n
      /\ HolidayAnswer(s, t) = FirstAnswer(states, "on", "off")
      /\ HolidayAnswer(e, t) = FirstAnswer(others, "on", "off")
  BY <1>1, Zenon DEF HolidayAnswer
<1> HIDE DEF q, n, states, others
<1> QED BY <1>1, <1>2, <1>3, ErrorsDecide

LEMMA FailsClosed ==
    ASSUME NEW s \in Schedules, NEW t \in 0 .. Horizon
    PROVE  MalformedFailsClosed(s, t)
<1> SUFFICES ASSUME ScheduleAllows(s, t) = "allowed"
             PROVE  /\ \A hs \in Repairs(s.holidays, Holidays \ {Malformed}) :
                          ScheduleAllows([s EXCEPT !.holidays = hs], t) = "allowed"
                    /\ s.weekly # Absent =>
                          \A rs \in Repairs(s.weekly[Weekday(t)], Ranges \ {Malformed}) :
                             ScheduleAllows([s EXCEPT !.weekly[Weekday(t)] = rs], t) = "allowed"
  BY Zenon DEF MalformedFailsClosed
<1>1. /\ HolidayAnswer(s, t) # "error"
      /\ IF HolidayAnswer(s, t) = "on"
         THEN /\ s.holiday_schedule # Absent
              /\ TimeRangesAllow(s.holiday_schedule, TimeOfDay(t)) = "allowed"
         ELSE Weekly(s, t) = "allowed"
  BY ScheduleIs
<1>2. ASSUME NEW hs \in Repairs(s.holidays, Holidays \ {Malformed})
      PROVE  ScheduleAllows([s EXCEPT !.holidays = hs], t) = "allowed"
  <2> DEFINE e == [s EXCEPT !.holidays = hs]
  <2>1. e.weekly = s.weekly /\ e.holiday_schedule = s.holiday_schedule /\ e.holidays = hs
    BY ScheduleTyped
  <2> HIDE DEF e
  <2>2. HolidayAnswer(e, t) = HolidayAnswer(s, t)
    BY <1>1, <1>2, <2>1, HolidaysRepaired
  <2>3. Weekly(e, t) = Weekly(s, t)
    BY <2>1, Zenon DEF Weekly
  <2>4. ScheduleAllows(e, t) = "allowed"
    BY <1>1, <2>1, <2>2, <2>3, ScheduleIs
  <2> QED BY <2>4 DEF e
<1>3. ASSUME s.weekly # Absent,
             NEW rs \in Repairs(s.weekly[Weekday(t)], Ranges \ {Malformed})
      PROVE  ScheduleAllows([s EXCEPT !.weekly[Weekday(t)] = rs], t) = "allowed"
  <2> DEFINE e == [s EXCEPT !.weekly[Weekday(t)] = rs]
             q == s.weekly[Weekday(t)]
  <2>1. t \in Nat /\ Weekday(t) \in 0 .. DaysPerWeek - 1
    BY ClockIs, CalendarAssumption
  <2>2. s.weekly \in [0 .. DaysPerWeek - 1 -> Seq(Ranges)] /\ q \in Seq(Ranges)
    BY <1>3, <2>1, ScheduleTyped
  <2>3. /\ e.holidays = s.holidays /\ e.holiday_schedule = s.holiday_schedule
        /\ e.weekly[Weekday(t)] = rs
    <3> DEFINE d == Weekday(t)
    <3>1. d \in DOMAIN s.weekly
      BY <2>1, <2>2
    <3> HIDE DEF d
    <3>2. /\ e.holidays = s.holidays /\ e.holiday_schedule = s.holiday_schedule
          /\ e.weekly = [s.weekly EXCEPT ![d] = rs]
      BY ScheduleTyped DEF d
    <3>3. [s.weekly EXCEPT ![d] = rs][d] = rs
      BY <3>1
    <3> QED BY <3>2, <3>3 DEF d
  <2> HIDE DEF e
  <2>4. HolidayAnswer(e, t) = HolidayAnswer(s, t)
    BY <2>3, Zenon DEF HolidayAnswer
  <2>5. Weekly(s, t) = "allowed" => Weekly(e, t) = "allowed"
    <3>1. Weekly(s, t) = TimeRangesAllow(q, TimeOfDay(t))
      BY <1>3, Zenon DEF Weekly
    <3>2. Weekly(e, t) = "allowed" \/ Weekly(e, t) = TimeRangesAllow(rs, TimeOfDay(t))
      BY <2>3, Zenon DEF Weekly
    <3> QED BY <1>3, <2>2, <3>1, <3>2, RangesRepaired
  <2>6. ScheduleAllows(e, t) = "allowed"
    BY <1>1, <2>3, <2>4, <2>5, ScheduleIs
  <2> QED BY <2>6 DEF e
<1> QED BY <1>2, <1>3

\* Every schedule that can be written is kept at every time.
LEMMA ScheduleKept ==
    ASSUME NEW s \in Schedules, NEW t \in 0 .. Horizon
    PROVE  KeptAt(s, t)
BY HolidaysKept, HoursKept, FailsClosed DEF KeptAt

\* The times and the worlds of a behaviour.
InTimes == now \in Times /\ world \in Worlds

LEMMA InTimesHolds == Spec => []InTimes
<1>1. Init => InTimes
  BY PolicyAssumption DEF Init, InTimes, Times
<1>2. InTimes /\ [Next]_vars => InTimes'
  <2> SUFFICES ASSUME InTimes, [Next]_vars PROVE InTimes'
    OBVIOUS
  <2>1. CASE Tick
    BY <2>1, PolicyAssumption DEF Tick, InTimes, Times
  <2>2. CASE Edit
    <3>1. world' \in Worlds
      BY <2>2 DEF Edit, InTimes, Worlds
    <3> QED BY <2>2, <3>1 DEF Edit, InTimes
  <2>3. CASE UNCHANGED <<now, world>>
    BY <2>3 DEF InTimes
  <2> QED
    BY <2>1, <2>2, <2>3
    DEF Next, Begin, GetUser, GetUserPolicies, InspectResource, NextPolicy, GrantsGate,
        GetSchedule, RequestFails, Return, Continue, vars
<1> QED BY <1>1, <1>2, PTL DEF Spec

\* The controller's schedules, and all others, admit at the times their
\* entries name, holidays before weekly hours, in local time, and a malformed
\* entry admits nobody, at every time (schedule_allows).
THEOREM SchedulesKept == Spec => []SchedulesAreKept
<1>1. EverySchedule
  BY ScheduleKept DEF EverySchedule
<1>2. InTimes => \A i \in ScheduleIds : KeptAt(world.schedules[i], now)
  <2> SUFFICES ASSUME InTimes, NEW i \in ScheduleIds PROVE KeptAt(world.schedules[i], now)
    OBVIOUS
  <2>1. world.schedules[i] \in Schedules
    BY PolicyAssumption DEF InTimes, Worlds
  <2>2. now \in 0 .. Horizon
    BY PolicyAssumption, CalendarAssumption DEF InTimes, Times
  <2> QED BY <2>1, <2>2, ScheduleKept
<1>3. InTimes => SchedulesAreKept
  BY <1>1, <1>2 DEF SchedulesAreKept
<1> QED BY <1>3, InTimesHolds, PTL
=============================================================================
