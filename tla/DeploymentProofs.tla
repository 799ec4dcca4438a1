-------------------------- MODULE DeploymentProofs -------------------------
(***************************************************************************)
(* Theorems about Migration, for any number of commands, any set of        *)
(* earlier releases and any bound on the opens, and about Release, for any *)
(* number of days, changes, builds, assets and setbacks.                   *)
(*                                                                         *)
(* Migration: what a process may count on at a step of open (Reached) is   *)
(* never lost again, whatever the other processes do: columns are only     *)
(* added, but for the renaming of tid, and a row that names an actor goes  *)
(* on naming one.                                                          *)
(*                                                                         *)
(* Release: only drafts are written to and only compared ones published    *)
(* (Drafted), a tag is made when every earlier one is published (InOrder), *)
(* and a day that does not bring what was merged before it was paid for by *)
(* a setback (Timely).                                                     *)
(***************************************************************************)
EXTENDS Migration, Release, WellFoundedInduction, TLAPS

\* Only a step that looks for a column acts on what it has seen, and the
\* first one never does.
Places == {s \in [step: 0 .. 10, act: BOOLEAN] : s.act => s.step \in {2, 3, 4, 5, 7, 8}}

Rows == [status: {"matched", "ambiguous"}, actor: NewActors \cup {LegacyUser, None}]

Typed ==
    /\ columns \subseteq Columns
    /\ passage \in Rows
    /\ owner \in NewActors \cup {LegacyUser, None}
    /\ at \in [Processes -> Places]

PassagesFilled == passage.status = "matched" => passage.actor # None

\* What open has made sure of when it is at step k.
Reached(k) ==
    /\ k >= 3 => "gate.tag_key" \in columns
    /\ k >= 4 => "gate.mode" \in columns
    /\ k >= 5 => "passage.type" \in columns
    /\ k >= 6 => "passage.actor" \in columns
    /\ k >= 7 => PassagesFilled
    /\ k >= 8 => "owner.type" \in columns
    /\ k >= 9 => "owner.actor" \in columns
    /\ k >= 10 => owner # None

\* The inductive invariant.
MigrationInv ==
    /\ Typed
    /\ "gate.tid" \in columns <=> "gate.tag_key" \notin columns
    /\ "passage.user" \in columns \/ PassagesFilled
    /\ \A p \in Processes : Reached(at[p].step)

\* The order of the calls of open.
LEMMA StepIs ==
    ASSUME NEW p \in Processes, Running(p)
    PROVE  \/ at[p].step = 1 /\ Step(p) = "gate.tag_key"
           \/ at[p].step = 2 /\ Step(p) = "gate.tid"
           \/ at[p].step = 3 /\ Step(p) = "gate.mode"
           \/ at[p].step = 4 /\ Step(p) = "passage.type"
           \/ at[p].step = 5 /\ Step(p) = "passage.actor"
           \/ at[p].step = 6 /\ Step(p) = "fill passages"
           \/ at[p].step = 7 /\ Step(p) = "owner.type"
           \/ at[p].step = 8 /\ Step(p) = "owner.actor"
           \/ at[p].step = 9 /\ Step(p) = "fill owners"
<1>1. DOMAIN Steps = 1 .. 9
  BY DEF Steps
<1>2. /\ Steps[1] = "gate.tag_key" /\ Steps[2] = "gate.tid" /\ Steps[3] = "gate.mode"
      /\ Steps[4] = "passage.type" /\ Steps[5] = "passage.actor"
      /\ Steps[6] = "fill passages" /\ Steps[7] = "owner.type"
      /\ Steps[8] = "owner.actor" /\ Steps[9] = "fill owners"
  BY DEF Steps
<1>3. PICK k \in 1 .. 9 : k = at[p].step
  BY <1>1 DEF Running
<1>4. Step(p) = Steps[k]
  BY <1>3 DEF Step
<1>5. k \in {1, 2, 3, 4, 5, 6, 7, 8, 9}
  BY <1>3
<1> QED BY <1>2, <1>3, <1>4, <1>5

LEMMA AtSteps ==
    \A k \in 1 .. 10 : AtStep(k) \in Places /\ AtStep(k).step = k
BY DEF AtStep, Places

LEMMA OpenIs == Open = [step |-> 10, act |-> FALSE]
<1>1. Len(Steps) = 9
  BY DEF Steps
<1> QED BY <1>1 DEF Open

LEMMA MigrationInvImplies == MigrationInv => OpenStoreIsMigrated
<1> SUFFICES ASSUME MigrationInv, NEW p \in Processes, at[p] = Open
             PROVE  /\ Required \subseteq columns
                    /\ passage.status = "matched" => passage.actor # None
                    /\ owner # None
  BY DEF OpenStoreIsMigrated
<1>1. at[p].step = 10
  BY OpenIs
<1>2. Reached(10)
  BY <1>1 DEF MigrationInv
<1> QED BY <1>2 DEF Reached, Required, Columns, PassagesFilled

LEMMA MigrationInit == Init => MigrationInv
<1> SUFFICES ASSUME Init PROVE MigrationInv
  OBVIOUS
<1>1. /\ columns \subseteq Columns
      /\ "gate.tid" \in columns <=> "gate.tag_key" \notin columns
      /\ "passage.user" \in columns \/ "passage.actor" \in columns
  BY MigrationAssumption DEF Init
<1>2. Closed \in Places /\ Closed.step = 0
  BY DEF Closed, Places
<1>3. Typed
  BY <1>1, <1>2 DEF Init, Typed, Rows
<1>4. "passage.user" \in columns \/ PassagesFilled
  BY MigrationAssumption DEF Init, PassagesFilled
<1>5. \A p \in Processes : Reached(at[p].step)
  BY <1>2 DEF Init, Reached
<1> QED BY <1>1, <1>3, <1>4, <1>5 DEF MigrationInv

\* What is reached stays reached when columns are only added, but for the
\* renaming, and rows that name an actor go on naming one.
LEMMA ReachedKept ==
    ASSUME NEW k \in 0 .. 10, Reached(k),
           columns \ {"gate.tid"} \subseteq columns',
           PassagesFilled => PassagesFilled',
           owner # None => owner' # None
    PROVE  Reached(k)'
BY DEF Reached

\* A process that goes on to step k while columns and rows are as they were,
\* or better, keeps the invariant.
LEMMA StepKeeps ==
    ASSUME MigrationInv, NEW p \in Processes, NEW s \in Places,
           at' = [at EXCEPT ![p] = s],
           Reached(s.step)',
           columns' \subseteq Columns,
           passage' \in Rows, owner' \in NewActors \cup {LegacyUser, None},
           "gate.tid" \in columns' <=> "gate.tag_key" \notin columns',
           columns \ {"gate.tid"} \subseteq columns',
           PassagesFilled => PassagesFilled',
           owner # None => owner' # None
    PROVE  MigrationInv'
<1>1. at \in [Processes -> Places]
  BY DEF MigrationInv, Typed
<1>2. at' \in [Processes -> Places] /\ at'[p] = s
      /\ \A q \in Processes \ {p} : at'[q] = at[q]
  BY <1>1
<1>3. Typed'
  BY <1>2 DEF Typed
<1>4. ("passage.user" \in columns \/ PassagesFilled)'
  BY DEF MigrationInv
<1>5. ASSUME NEW q \in Processes PROVE Reached(at[q].step)'
  <2>1. CASE q = p
    BY <1>2, <2>1
  <2>2. CASE q # p
    <3>1. at'[q] = at[q] /\ at[q].step \in 0 .. 10
      BY <1>1, <1>2, <2>2 DEF Places
    <3>2. Reached(at[q].step)
      BY DEF MigrationInv
    <3> DEFINE k == at[q].step
    <3>3. PICK n \in 0 .. 10 : n = k
      BY <3>1
    <3>4. Reached(n)'
      BY <3>2, <3>3, ReachedKept
    <3>5. at'[q].step = n
      BY <3>1, <3>3
    <3> QED BY <3>4, <3>5 DEF Reached
  <2> QED BY <2>1, <2>2
<1> QED BY <1>3, <1>4, <1>5 DEF MigrationInv

LEMMA LookKeeps ==
    ASSUME MigrationInv, NEW p \in Processes, Look(p)
    PROVE  MigrationInv'
<1>1. /\ at \in [Processes -> Places] /\ at[p] \in Places
      /\ Reached(at[p].step)
      /\ columns \subseteq Columns /\ passage \in Rows
      /\ owner \in NewActors \cup {LegacyUser, None}
      /\ "gate.tid" \in columns <=> "gate.tag_key" \notin columns
  BY DEF MigrationInv, Typed
<1>2. /\ Running(p) /\ ~at[p].act /\ Step(p) \in Columns
      /\ UNCHANGED <<columns, passage, owner, opens>>
  BY DEF Look
<1>3. PICK k \in {1, 2, 3, 4, 5, 7, 8} :
         /\ k = at[p].step
         /\ \/ k = 1 /\ Step(p) = "gate.tag_key"
            \/ k = 2 /\ Step(p) = "gate.tid"
            \/ k = 3 /\ Step(p) = "gate.mode"
            \/ k = 4 /\ Step(p) = "passage.type"
            \/ k = 5 /\ Step(p) = "passage.actor"
            \/ k = 7 /\ Step(p) = "owner.type"
            \/ k = 8 /\ Step(p) = "owner.actor"
  <2>1. Step(p) # "fill passages" /\ Step(p) # "fill owners"
    BY <1>2 DEF Columns
  <2> QED BY <1>2, <2>1, StepIs
<1>4. (k = 1 <=> Step(p) = "gate.tag_key") /\ (k = 2 <=> Step(p) = "gate.tid")
  BY <1>3
<1> DEFINE acting == [at[p] EXCEPT !.act = TRUE]
<1>5. PICK s :
         /\ s = IF Step(p) = "gate.tid"
                THEN IF "gate.tid" \in columns THEN acting ELSE AtStep(k + 1)
                ELSE IF Step(p) \in columns THEN AtStep(AfterPresent(k))
                ELSE IF Step(p) = "gate.tag_key" THEN AtStep(k + 1)
                ELSE acting
         /\ at' = [at EXCEPT ![p] = s]
  BY <1>3, Zenon DEF Look, Goto
<1>6. AfterPresent(k) = IF k = 1 THEN k + 2 ELSE k + 1
  <2>1. Steps[k] = "gate.tag_key" <=> k = 1
    BY <1>3, <1>4 DEF Step
  <2> QED BY <2>1 DEF AfterPresent
<1>7. k # 1 => acting \in Places /\ acting.step = k
  BY <1>1, <1>3 DEF Places
<1> HIDE DEF acting
<1>8. s \in Places /\ Reached(s.step)
  <2>1. CASE k = 2 /\ "gate.tid" \in columns
    <3>1. s = acting
      BY <2>1, <1>4, <1>5
    <3> QED BY <3>1, <2>1, <1>1, <1>3, <1>7
  <2>2. CASE k = 2 /\ "gate.tid" \notin columns
    <3>1. s = AtStep(3)
      BY <2>2, <1>4, <1>5
    <3>2. Reached(3)
      BY <2>2, <1>1 DEF Reached
    <3> QED BY <3>1, <3>2, AtSteps
  <2>3. CASE k = 1 /\ Step(p) \in columns
    <3>1. s = AtStep(3) /\ "gate.tag_key" \in columns
      BY <2>3, <1>4, <1>5, <1>6
    <3>2. Reached(3)
      BY <3>1 DEF Reached
    <3> QED BY <3>1, <3>2, AtSteps
  <2>4. CASE k = 1 /\ Step(p) \notin columns
    <3>1. s = AtStep(2)
      BY <2>4, <1>4, <1>5
    <3>2. Reached(2)
      BY DEF Reached
    <3> QED BY <3>1, <3>2, AtSteps
  <2>5. CASE k \in {3, 4, 5, 7, 8} /\ Step(p) \in columns
    <3>1. s = AtStep(k + 1) /\ k + 1 \in 1 .. 10
      BY <2>5, <1>4, <1>5, <1>6
    <3>2. Reached(k + 1)
      BY <2>5, <1>1, <1>3 DEF Reached
    <3> QED BY <3>1, <3>2, AtSteps
  <2>6. CASE k \in {3, 4, 5, 7, 8} /\ Step(p) \notin columns
    <3>1. s = acting
      BY <2>6, <1>4, <1>5
    <3> QED BY <3>1, <2>6, <1>1, <1>3, <1>7
  <2> QED BY <1>3, <2>1, <2>2, <2>3, <2>4, <2>5, <2>6
<1>9. PICK n \in 0 .. 10 : n = s.step
  BY <1>8 DEF Places
<1>10. UNCHANGED <<columns, passage, owner>> /\ (PassagesFilled => PassagesFilled')
  BY <1>2 DEF PassagesFilled
<1>11. Reached(n)'
  BY <1>8, <1>9, <1>10, ReachedKept
<1>12. Reached(s.step)'
  BY <1>9, <1>11
<1> QED BY <1>1, <1>5, <1>8, <1>10, <1>12, StepKeeps

\* A step that leaves columns and rows alone.
LEMMA GotoKeeps ==
    ASSUME MigrationInv, NEW p \in Processes, NEW s \in Places, Reached(s.step),
           Goto(p, s), UNCHANGED <<columns, passage, owner>>
    PROVE  MigrationInv'
<1>1. /\ columns \subseteq Columns /\ passage \in Rows
      /\ owner \in NewActors \cup {LegacyUser, None}
      /\ "gate.tid" \in columns <=> "gate.tag_key" \notin columns
  BY DEF MigrationInv, Typed
<1>2. PassagesFilled => PassagesFilled'
  BY DEF PassagesFilled
<1>3. PICK n \in 0 .. 10 : n = s.step
  BY DEF Places
<1>4. Reached(n)'
  BY <1>2, <1>3, ReachedKept
<1>5. at' = [at EXCEPT ![p] = s]
  BY DEF Goto
<1> QED BY <1>1, <1>2, <1>3, <1>4, <1>5, StepKeeps

LEMMA AlterKeeps ==
    ASSUME MigrationInv, NEW p \in Processes, Alter(p)
    PROVE  MigrationInv'
<1>1. /\ at \in [Processes -> Places] /\ at[p] \in Places
      /\ Reached(at[p].step)
      /\ columns \subseteq Columns /\ passage \in Rows
      /\ owner \in NewActors \cup {LegacyUser, None}
      /\ "gate.tid" \in columns <=> "gate.tag_key" \notin columns
  BY DEF MigrationInv, Typed
<1>2. /\ Running(p) /\ at[p].act
      /\ UNCHANGED <<passage, owner, opens>>
  BY DEF Alter
<1>3. PICK k \in {2, 3, 4, 5, 7, 8} :
         /\ k = at[p].step
         /\ \/ k = 2 /\ Step(p) = "gate.tid"
            \/ k = 3 /\ Step(p) = "gate.mode"
            \/ k = 4 /\ Step(p) = "passage.type"
            \/ k = 5 /\ Step(p) = "passage.actor"
            \/ k = 7 /\ Step(p) = "owner.type"
            \/ k = 8 /\ Step(p) = "owner.actor"
  <2>1. at[p].step \in {2, 3, 4, 5, 7, 8}
    BY <1>1, <1>2 DEF Places
  <2>2. \/ at[p].step = 2 /\ Step(p) = "gate.tid"
        \/ at[p].step = 3 /\ Step(p) = "gate.mode"
        \/ at[p].step = 4 /\ Step(p) = "passage.type"
        \/ at[p].step = 5 /\ Step(p) = "passage.actor"
        \/ at[p].step = 7 /\ Step(p) = "owner.type"
        \/ at[p].step = 8 /\ Step(p) = "owner.actor"
    <3>1. Running(p)
      BY <1>2
    <3> DEFINE n == at[p].step
    <3>2. n # 1 /\ n # 6 /\ n # 9
      BY <2>1
    <3> QED BY <3>1, <3>2, StepIs, Zenon
  <2> QED BY <2>2, Zenon
<1>4. PassagesFilled => PassagesFilled'
  BY <1>2 DEF PassagesFilled
<1>5. AtStep(k + 1) \in Places /\ AtStep(k + 1).step = k + 1
  BY AtSteps
<1>6. CASE Goto(p, Closed) /\ UNCHANGED columns
  <2>1. Closed \in Places /\ Closed.step = 0
    BY DEF Closed, Places
  <2>2. Reached(0)
    BY DEF Reached
  <2> QED BY <1>2, <1>6, <2>1, <2>2, GotoKeeps
<1>7. CASE /\ k = 2 /\ columns' = (columns \ {"gate.tid"}) \cup {"gate.tag_key"}
           /\ Goto(p, AtStep(k + 1))
  <2>1. /\ columns' \subseteq Columns
        /\ "gate.tid" \in columns' <=> "gate.tag_key" \notin columns'
        /\ columns \ {"gate.tid"} \subseteq columns'
    BY <1>1, <1>7 DEF Columns
  <2>2. Reached(k + 1)'
    BY <1>7 DEF Reached
  <2>3. at' = [at EXCEPT ![p] = AtStep(k + 1)]
    BY <1>7 DEF Goto
  <2> QED BY <1>1, <1>2, <1>4, <1>5, <2>1, <2>2, <2>3, StepKeeps
<1>8. CASE /\ k # 2 /\ columns' = columns \cup {Step(p)}
           /\ Goto(p, AtStep(k + 1))
  <2>1. /\ columns' \subseteq Columns
        /\ "gate.tid" \in columns' <=> "gate.tag_key" \notin columns'
        /\ columns \ {"gate.tid"} \subseteq columns'
    BY <1>1, <1>3, <1>8 DEF Columns
  <2>2. Reached(k)'
    <3>1. Reached(k) /\ k \in 0 .. 10
      BY <1>1, <1>3
    <3> QED BY <3>1, <1>2, <1>4, <2>1, ReachedKept
  <2>3. Reached(k + 1)'
    BY <2>2, <1>3, <1>8 DEF Reached
  <2>4. at' = [at EXCEPT ![p] = AtStep(k + 1)]
    BY <1>8 DEF Goto
  <2> QED BY <1>1, <1>2, <1>4, <1>5, <2>1, <2>3, <2>4, StepKeeps
<1> QED BY <1>3, <1>6, <1>7, <1>8 DEF Alter

LEMMA FillKeeps ==
    ASSUME MigrationInv, NEW p \in Processes, Fill(p)
    PROVE  MigrationInv'
<1>1. /\ Reached(at[p].step)
      /\ columns \subseteq Columns /\ passage \in Rows
      /\ owner \in NewActors \cup {LegacyUser, None}
      /\ "gate.tid" \in columns <=> "gate.tag_key" \notin columns
      /\ "passage.user" \in columns \/ PassagesFilled
  BY DEF MigrationInv, Typed
<1>2. Running(p) /\ Goto(p, AtStep(at[p].step + 1)) /\ UNCHANGED columns
  BY Zenon DEF Fill
<1>3. AtStep(7) \in Places /\ AtStep(7).step = 7 /\ AtStep(10) \in Places /\ AtStep(10).step = 10
  BY AtSteps
<1>4. LegacyUser # None
  BY MigrationAssumption
<1>5. CASE Step(p) = "fill passages"
  <2>1. at[p].step = 6
    BY <1>2, <1>5, StepIs
  <2>2. /\ passage' = IF "passage.user" \in columns /\ passage.actor = None
                      THEN [passage EXCEPT !.actor = LegacyUser] ELSE passage
        /\ owner' = owner
    BY <1>5 DEF Fill
  <2>3. passage' \in Rows /\ PassagesFilled'
    <3>1. CASE "passage.user" \in columns /\ passage.actor = None
      BY <1>1, <1>4, <2>2, <3>1 DEF PassagesFilled, Rows
    <3>2. CASE ~("passage.user" \in columns /\ passage.actor = None)
      BY <1>1, <2>2, <3>2 DEF PassagesFilled
    <3> QED BY <3>1, <3>2
  <2>4. Reached(7)'
    <3>1. Reached(6)
      BY <1>1, <2>1
    <3> QED BY <3>1, <1>2, <2>3 DEF Reached
  <2>5. at' = [at EXCEPT ![p] = AtStep(7)]
    BY <1>2, <2>1 DEF Goto
  <2> QED BY <1>1, <1>2, <1>3, <2>2, <2>3, <2>4, <2>5, StepKeeps
<1>6. CASE Step(p) = "fill owners"
  <2>1. at[p].step = 9
    BY <1>2, <1>6, StepIs
  <2>2. owner' = (IF owner = None THEN LegacyUser ELSE owner) /\ passage' = passage
    BY <1>6 DEF Fill
  <2>3. /\ owner' # None /\ owner' \in NewActors \cup {LegacyUser, None}
        /\ PassagesFilled => PassagesFilled'
    BY <1>1, <1>4, <2>2 DEF PassagesFilled
  <2>4. Reached(10)'
    <3>1. Reached(9)
      BY <1>1, <2>1
    <3> QED BY <3>1, <1>2, <2>3 DEF Reached
  <2>5. at' = [at EXCEPT ![p] = AtStep(10)]
    BY <1>2, <2>1 DEF Goto
  <2> QED BY <1>1, <1>2, <1>3, <2>2, <2>3, <2>4, <2>5, StepKeeps
<1> QED BY <1>5, <1>6 DEF Fill

LEMMA UseStoreKeeps ==
    ASSUME MigrationInv, NEW p \in Processes, UseStore(p)
    PROVE  MigrationInv'
<1>1. /\ at \in [Processes -> Places] /\ at[p] \in Places /\ Reached(at[p].step)
      /\ columns \subseteq Columns /\ passage \in Rows
      /\ owner \in NewActors \cup {LegacyUser, None}
      /\ "gate.tid" \in columns <=> "gate.tag_key" \notin columns
  BY DEF MigrationInv, Typed
<1>2. UNCHANGED <<columns, at, opens>>
  BY DEF UseStore, Ambiguate, RecordMatch, Activate
<1>3. /\ passage' \in Rows /\ owner' \in NewActors \cup {LegacyUser, None}
      /\ PassagesFilled => PassagesFilled'
      /\ owner # None => owner' # None
  BY <1>1, MigrationAssumption DEF UseStore, Ambiguate, RecordMatch, Activate, Rows, PassagesFilled
<1>4. PICK s \in Places : s = at[p]
  BY <1>1
<1>5. at' = [at EXCEPT ![p] = s]
  BY <1>1, <1>2, <1>4
<1>6. PICK n \in 0 .. 10 : n = s.step
  BY DEF Places
<1>7. Reached(n)'
  BY <1>1, <1>2, <1>3, <1>4, <1>6, ReachedKept
<1> QED BY <1>1, <1>2, <1>3, <1>5, <1>6, <1>7, StepKeeps

LEMMA MigrationNext ==
    ASSUME MigrationInv, [Next]_vars
    PROVE  MigrationInv'
<1>1. ASSUME NEW p \in Processes, Begin(p) PROVE MigrationInv'
  <2>1. Goto(p, AtStep(1)) /\ UNCHANGED <<columns, passage, owner>>
    BY <1>1 DEF Begin
  <2>2. Reached(1)
    BY DEF Reached
  <2> QED BY <2>1, <2>2, AtSteps, GotoKeeps
<1>2. ASSUME NEW p \in Processes, Leave(p) PROVE MigrationInv'
  <2>1. Goto(p, Closed) /\ UNCHANGED <<columns, passage, owner>>
    BY <1>2 DEF Leave
  <2>2. Closed \in Places /\ Closed.step = 0 /\ Reached(0)
    BY DEF Closed, Places, Reached
  <2> QED BY <2>1, <2>2, GotoKeeps
<1>3. CASE UNCHANGED vars
  BY <1>3 DEF vars, MigrationInv, Typed, PassagesFilled, Reached
<1> QED BY <1>1, <1>2, <1>3, LookKeeps, AlterKeeps, FillKeeps, UseStoreKeeps
        DEF Next, Proceed

LEMMA MigrationInvHolds == Spec => []MigrationInv
<1>1. MigrationInv /\ [Next]_vars => MigrationInv'
  BY MigrationNext
<1> QED BY MigrationInit, <1>1, PTL DEF Spec

\* Whoever's Store::open has returned works on a migrated database, whatever
\* other opens do and wherever one of them has died.
THEOREM OpenMeansMigrated == Spec => []OpenStoreIsMigrated
  BY MigrationInvHolds, MigrationInvImplies, PTL

\* No statement of the migrations replaces an actor that is on file.
THEOREM ActorsAreKept == Spec => NewerActorsAreKept
<1>1. MigrationInv /\ [Next]_vars =>
        ((\A p \in Processes : at[p] # Open) =>
            /\ passage.actor # None => passage'.actor = passage.actor
            /\ owner # None => owner' = owner)
  <2> SUFFICES ASSUME MigrationInv, [Next]_vars, \A p \in Processes : at[p] # Open
               PROVE  /\ passage.actor # None => passage'.actor = passage.actor
                      /\ owner # None => owner' = owner
    OBVIOUS
  <2>1. ASSUME NEW p \in Processes, Fill(p)
        PROVE  /\ passage.actor # None => passage'.actor = passage.actor
               /\ owner # None => owner' = owner
    BY <2>1 DEF Fill
  <2>2. CASE UNCHANGED <<passage, owner>>
    BY <2>2
  <2> QED BY <2>1, <2>2 DEF Next, Proceed, Begin, Look, Alter, Leave, UseStore, vars
<1> QED BY <1>1, MigrationInvHolds, PTL DEF Spec, NewerActorsAreKept

-----------------------------------------------------------------------------
(* Publishing.                                                             *)

ReleaseTypes ==
    /\ today \in Days /\ ran \in BOOLEAN /\ setbacks \in Nat
    /\ mergedOn \in [Changes -> 0 .. MaxDay] /\ \A c \in Changes : mergedOn[c] <= today
    /\ main \in Heads /\ main.version <= today
    /\ tags \in [Days -> Heads \cup {Absent}] /\ \A d \in Tagged : d <= today
    /\ release \in [Days -> Drafts \cup {Absent}]
    /\ job \in [Days -> ReleaseRuns \cup {Absent}]
    /\ cal \in CalendarRuns \cup {Absent} /\ (cal # Absent => cal.tag <= today)

\* Only a draft is written to, only one that was compared is published, and
\* that one is whole.
DraftedAt(t) ==
    /\ job[t] # Absent => tags[t] # Absent
    /\ job[t] # Absent /\ job[t].step # "view" => release[t] # Absent /\ release[t].draft
    /\ At(t, "publish") => SameAssets(t)
    /\ release[t] # Absent /\ ~release[t].draft =>
          /\ tags[t] # Absent
          /\ \E b \in Builds : release[t].assets = {Asset(n, b) : n \in Names}

Drafted == \A t \in Days : DraftedAt(t)

CalAt(steps) == cal # Absent /\ cal.step \in steps

\* Every tag but the newest is published; and the newest too before a new one
\* is made.
InOrder ==
    /\ \A d, e \in Tagged : d < e => d \in Published
    /\ CalAt({"commit", "tag"}) =>
          Tagged \subseteq Published /\ \A d \in Tagged : d < cal.tag
    /\ CalAt({"release", "wait"}) => tags[cal.tag] # Absent
    /\ LatestIsNewest

\* Without another setback the run t has will publish its release.
Promising(t) ==
    /\ job[t] # Absent
    /\ job[t].step \in {"view", "delete"} => job[t].left = Names
    /\ job[t].step = "upload" =>
          release[t].assets = {Asset(n, job[t].build) : n \in Names \ job[t].left}
    /\ job[t].step = "compare" => SameAssets(t)

Releasing(t) == (CalAt({"release"}) /\ cal.tag = t) \/ Promising(t)

\* The newest tag has no public release, and is about to get one.
Behind == Previous # 0 /\ Previous \notin Published

CaughtUp == Releasing(Previous) \/ (CalAt({"plan"}) /\ cal.tag = today)

\* c is merged and not out; it waits for the release before its own; the run
\* under way will bring it.
Unreleased(c) == mergedOn[c] # 0 /\ \A t \in Published : c \notin tags[t].changes

Blocked(c) == Behind /\ c \notin tags[Previous].changes

ToCome(c) ==
    /\ (CalAt({"plan"}) /\ cal.tag = today) \/ CalAt({"commit", "tag"})
    /\ c \in cal.head.changes

\* The version of the day is committed, and its tag was not pushed.
Halfway ==
    main.version = today /\ tags[today] = Absent /\ ~(CalAt({"tag"}) /\ cal.tag = today)

\* c has a day to spare.
Spare(c) == today <= mergedOn[c] + setbacks

InTime(c) ==
    /\ today <= mergedOn[c] + setbacks + 1
    /\ Blocked(c) => Spare(c) /\ (ran => today < mergedOn[c] + setbacks \/ CaughtUp)
    /\ ~Blocked(c) /\ ran => Spare(c) \/ (Behind /\ CaughtUp) \/ (~Behind /\ ToCome(c))
    /\ Halfway => Spare(c)

\* A day's run brings what was merged before the day, or a setback pays for
\* the day; whoever has to wait for the release of an earlier tag has been
\* paid for beforehand.
Timely ==
    /\ main.changes = {c \in Changes : mergedOn[c] # 0}
    /\ Behind => setbacks > 0 \/ Releasing(Previous)
    /\ cal # Absent =>
          \A c \in main.changes : mergedOn[c] = today \/ c \in cal.head.changes
    /\ tags[today] # Absent =>
          \A c \in main.changes : mergedOn[c] = today \/ c \in tags[today].changes
    /\ \A c \in Changes : Unreleased(c) => InTime(c)

ReleaseInv == ReleaseTypes /\ Drafted /\ InOrder /\ Timely

-----------------------------------------------------------------------------
LEMMA MaxIs ==
    ASSUME NEW S \in SUBSET Nat, NEW d \in S, \A e \in S : e <= d
    PROVE  Max(S) = d
<1>1. \E m \in S : \A e \in S : m >= e
  <2>1. \A e \in S : d >= e
    OBVIOUS
  <2> QED BY <2>1
<1>2. Max(S) \in S /\ \A e \in S : Max(S) >= e
  <2> HIDE DEF Max
  <2> DEFINE m == CHOOSE m \in S : \A e \in S : m >= e
  <2>1. m \in S /\ \A e \in S : m >= e
    BY <1>1, Zenon
  <2> QED BY <2>1, Zenon DEF Max
<1>3. Max(S) >= d /\ Max(S) <= d /\ Max(S) \in Nat /\ d \in Nat
  BY <1>2
<1> QED BY <1>3

Less == {ss \in Nat \X Nat : ss[1] < ss[2]}

LEMMA MaxOf ==
    ASSUME NEW S \in SUBSET Days, S # {}
    PROVE  Max(S) \in S /\ \A e \in S : e <= Max(S)
<1> DEFINE T == {MaxDay - d : d \in S}
<1>0. MaxDay \in Nat /\ S \subseteq 1 .. MaxDay
  BY ReleaseAssumption DEF Days
<1>1. T \subseteq Nat /\ T # {}
  <2>1. \A d \in S : MaxDay - d \in Nat
    BY <1>0
  <2> QED BY <2>1
<1>2. IsWellFoundedOn(Less, Nat)
  BY NatLessThanWellFounded DEF OpToRel, Less
<1>3. PICK n \in T : \A m \in T : ~(<<m, n>> \in Less)
  BY <1>1, <1>2, WFMin
<1>4. PICK d \in S : n = MaxDay - d
  BY <1>3
<1>5. \A e \in S : e <= d
  <2> TAKE e \in S
  <2>1. MaxDay - e \in T
    OBVIOUS
  <2>2. ~(MaxDay - e < MaxDay - d)
    BY <1>1, <1>3, <1>4, <2>1 DEF Less
  <2> QED BY <1>0, <2>2
<1>6. Max(S) = d
  BY <1>0, <1>5, MaxIs
<1> QED BY <1>5, <1>6

LEMMA PreviousIs ==
    /\ Tagged \subseteq Days
    /\ Previous = 0 <=> Tagged = {}
    /\ Tagged # {} => Previous \in Tagged /\ \A d \in Tagged : d <= Previous
<1>1. Tagged \subseteq Days
  BY DEF Tagged
<1>2. Tagged # {} => Max(Tagged) \in Tagged /\ \A d \in Tagged : d <= Max(Tagged)
  BY <1>1, MaxOf
<1>3. 0 \notin Days
  BY ReleaseAssumption DEF Days
<1> QED BY <1>1, <1>2, <1>3 DEF Previous

LEMMA GoOnTypes ==
    ASSUME NEW t \in Days, NEW step \in {"view", "delete", "upload", "compare", "publish"},
           job[t] # Absent, job \in [Days -> ReleaseRuns \cup {Absent}], GoOn(t, step)
    PROVE  /\ job' \in [Days -> ReleaseRuns \cup {Absent}]
           /\ job' = [job EXCEPT ![t] = job'[t]] /\ job'[t] # Absent
           /\ job'[t].step = step /\ job'[t].build = job[t].build /\ job'[t].left = job[t].left
<1> DEFINE j == [job[t] EXCEPT !.step = step]
<1>1. j \in ReleaseRuns /\ j.step = step /\ j.build = job[t].build /\ j.left = job[t].left
  BY DEF ReleaseRuns
<1>2. job' = [job EXCEPT ![t] = j]
  BY DEF GoOn
<1>3. j # Absent
  BY <1>1, ReleaseAssumption
<1> HIDE DEF j
<1> QED BY <1>1, <1>2, <1>3

\* The release at t gets the assets A.
LEMMA AssetsTyped ==
    ASSUME NEW t \in Days, NEW A, A \subseteq [name : Names, content : Builds \cup {"cut"}],
           release \in [Days -> Drafts \cup {Absent}], release[t] # Absent,
           release' = [release EXCEPT ![t].assets = A]
    PROVE  /\ release' \in [Days -> Drafts \cup {Absent}]
           /\ release' = [release EXCEPT ![t] = release'[t]] /\ release'[t] # Absent
           /\ release'[t].assets = A /\ (release'[t].draft <=> release[t].draft)
<1> DEFINE d == [release[t] EXCEPT !.assets = A]
<1>1. d \in Drafts /\ d.assets = A /\ d.draft = release[t].draft
  BY DEF Drafts
<1>2. d # Absent
  BY <1>1, ReleaseAssumption
<1>3. release' = [release EXCEPT ![t] = d]
  OBVIOUS
<1> HIDE DEF d
<1> QED BY <1>1, <1>2, <1>3

LEMMA NewJobTypes ==
    ASSUME NEW t \in Days, job \in [Days -> ReleaseRuns \cup {Absent}], NewJob(t)
    PROVE  /\ job' \in [Days -> ReleaseRuns \cup {Absent}]
           /\ job' = [job EXCEPT ![t] = job'[t]] /\ job'[t] # Absent
           /\ job'[t].step = "view" /\ job'[t].left = Names /\ job[t] = Absent
<1>1. PICK b \in Builds : job' = [job EXCEPT ![t] = [step |-> "view", build |-> b, left |-> Names]]
  BY DEF NewJob
<1> DEFINE j == [step |-> "view", build |-> b, left |-> Names]
<1>2. j \in ReleaseRuns /\ j.step = "view" /\ j.left = Names
  BY DEF ReleaseRuns
<1>3. j # Absent
  BY <1>2, ReleaseAssumption
<1> HIDE DEF j
<1> QED BY <1>1, <1>2, <1>3 DEF NewJob, j

\* Upload puts one more asset into the draft.
LEMMA UploadTypes ==
    ASSUME NEW t \in Days, Upload(t), job[t].left # {}, release[t] # Absent,
           job \in [Days -> ReleaseRuns \cup {Absent}],
           release \in [Days -> Drafts \cup {Absent}]
    PROVE  \E n \in Names \cap job[t].left :
              /\ job' \in [Days -> ReleaseRuns \cup {Absent}]
              /\ job' = [job EXCEPT ![t] = job'[t]] /\ job'[t] # Absent
              /\ job'[t].step = "upload" /\ job'[t].build = job[t].build
              /\ job'[t].left = job[t].left \ {n}
              /\ release' \in [Days -> Drafts \cup {Absent}]
              /\ release' = [release EXCEPT ![t] = release'[t]] /\ release'[t] # Absent
              /\ release'[t].draft <=> release[t].draft
              /\ \/ /\ release'[t].assets = release[t].assets \cup {Asset(n, job[t].build)}
                    /\ setbacks' = setbacks
                 \/ Setback
<1>1. job[t] # Absent /\ job[t] \in ReleaseRuns /\ job[t].step = "upload"
  BY DEF Upload, At
<1>2. PICK n \in job[t].left :
         /\ job' = [job EXCEPT ![t].left = @ \ {n}]
         /\ \/ /\ release' = [release EXCEPT ![t].assets = @ \cup {Asset(n, job[t].build)}]
               /\ UNCHANGED setbacks
            \/ /\ release' = [release EXCEPT ![t].assets = @ \cup {Asset(n, "cut")}]
               /\ Setback
  BY DEF Upload
<1>3. /\ n \in Names
      /\ job' \in [Days -> ReleaseRuns \cup {Absent}]
      /\ job' = [job EXCEPT ![t] = job'[t]] /\ job'[t] # Absent
      /\ job'[t].step = "upload" /\ job'[t].build = job[t].build
      /\ job'[t].left = job[t].left \ {n}
  <2> DEFINE j == [job[t] EXCEPT !.left = job[t].left \ {n}]
  <2>1. /\ n \in Names /\ j \in ReleaseRuns /\ j.step = "upload" /\ j.build = job[t].build
        /\ j.left = job[t].left \ {n}
    BY <1>1 DEF ReleaseRuns
  <2>2. j # Absent
    BY <2>1, ReleaseAssumption
  <2>3. job' = [job EXCEPT ![t] = j]
    BY <1>2
  <2> HIDE DEF j
  <2> QED BY <2>1, <2>2, <2>3
<1>4. ASSUME NEW b \in Builds \cup {"cut"},
             release' = [release EXCEPT ![t].assets = @ \cup {Asset(n, b)}]
      PROVE  /\ release' \in [Days -> Drafts \cup {Absent}]
             /\ release' = [release EXCEPT ![t] = release'[t]] /\ release'[t] # Absent
             /\ release'[t].draft <=> release[t].draft
             /\ release'[t].assets = release[t].assets \cup {Asset(n, b)}
  <2>1. release[t].assets \cup {Asset(n, b)} \subseteq [name : Names, content : Builds \cup {"cut"}]
    BY <1>3 DEF Asset, Drafts
  <2>2. release' = [release EXCEPT ![t].assets = release[t].assets \cup {Asset(n, b)}]
    BY <1>4
  <2> QED BY <2>1, <2>2, AssetsTyped
<1>5. job[t].build \in Builds
  BY <1>1 DEF ReleaseRuns
<1>6. CASE /\ release' = [release EXCEPT ![t].assets = @ \cup {Asset(n, job[t].build)}]
           /\ UNCHANGED setbacks
  BY <1>3, <1>4, <1>5, <1>6
<1>7. CASE /\ release' = [release EXCEPT ![t].assets = @ \cup {Asset(n, "cut")}]
           /\ Setback
  BY <1>3, <1>4, <1>7
<1> QED BY <1>2, <1>6, <1>7

\* What a step leaves alone of a tag stays in order.
LEMMA StaysDrafted ==
    ASSUME NEW t \in Days, DraftedAt(t), tags'[t] = tags[t] \/ tags'[t] # Absent,
           job'[t] = job[t] \/ job'[t] = Absent, release'[t] = release[t]
    PROVE  DraftedAt(t)'
  BY DEF DraftedAt, At, SameAssets

Out(t) == release[t] # Absent /\ ~release[t].draft

\* The release run of t changes its own release only.
RunStep(t) ==
    \/ View(t) \/ ViewFails(t) \/ DeleteAsset(t) \/ Upload(t) \/ Compare(t) \/ Publish(t)
    \/ JobCancelled(t)

LEMMA RunStepKeeps ==
    ASSUME ReleaseTypes, Drafted, NEW t \in Days, RunStep(t)
    PROVE  /\ ReleaseTypes' /\ DraftedAt(t)' /\ UNCHANGED world
           /\ Publish(t) \/ (latest' = latest /\ (Out(t)' <=> Out(t)))
           /\ job' = [job EXCEPT ![t] = job'[t]]
           /\ release' = [release EXCEPT ![t] = release'[t]]
<1>0. /\ job \in [Days -> ReleaseRuns \cup {Absent}]
      /\ release \in [Days -> Drafts \cup {Absent}] /\ setbacks \in Nat
      /\ DraftedAt(t) /\ Absent \notin Drafts
  BY ReleaseAssumption DEF ReleaseTypes, Drafted
<1>1. ASSUME UNCHANGED world, job' \in [Days -> ReleaseRuns \cup {Absent}],
             release' \in [Days -> Drafts \cup {Absent}], setbacks' \in Nat
      PROVE  ReleaseTypes'
  BY <1>1 DEF world, ReleaseTypes, Tagged
<1>2. CASE View(t)
  <2>1. job[t] # Absent /\ job[t].step = "view" /\ UNCHANGED <<world, latest, setbacks>>
    BY <1>2 DEF View, At
  <2>2. CASE release[t] = Absent
    <3>1. GoOn(t, "upload")
          /\ release' = [release EXCEPT ![t] = [draft |-> TRUE, assets |-> {}]]
      BY <1>2, <2>2 DEF View
    <3>2. [draft |-> TRUE, assets |-> {}] \in Drafts
      BY DEF Drafts
    <3>3. release' \in [Days -> Drafts \cup {Absent}] /\ release'[t] # Absent /\ release'[t].draft
          /\ release' = [release EXCEPT ![t] = release'[t]]
      <4> DEFINE d == [draft |-> TRUE, assets |-> {}]
      <4>1. d \in Drafts /\ d.draft /\ d # Absent
        BY <1>0, <3>2
      <4> HIDE DEF d
      <4>2. release' = [release EXCEPT ![t] = d]
        BY <3>1 DEF d
      <4> QED BY <1>0, <4>1, <4>2
    <3>4. /\ job' \in [Days -> ReleaseRuns \cup {Absent}]
          /\ job' = [job EXCEPT ![t] = job'[t]] /\ job'[t].step = "upload"
      BY <1>0, <2>1, <3>1, GoOnTypes
    <3>5. ReleaseTypes'
      BY <1>0, <1>1, <2>1, <3>3, <3>4
    <3>6. DraftedAt(t)' /\ (Out(t)' <=> Out(t))
      BY <1>0, <2>1, <2>2, <3>3, <3>4 DEF DraftedAt, At, world, Out
    <3> QED BY <2>1, <3>3, <3>4, <3>5, <3>6
  <2>3. CASE release[t] # Absent /\ release[t].draft
    <3>1. GoOn(t, "delete") /\ release' = release
      BY <1>2, <2>3 DEF View
    <3> QED BY <1>0, <1>1, <2>1, <2>3, <3>1, GoOnTypes DEF DraftedAt, At, world, Out
  <2>4. CASE release[t] # Absent /\ ~release[t].draft
    <3>1. job' = [job EXCEPT ![t] = Absent] /\ release' = release
      BY <1>2, <2>4 DEF View
    <3> QED BY <1>0, <1>1, <2>1, <2>4, <3>1 DEF DraftedAt, At, world, Out
  <2> QED BY <2>2, <2>3, <2>4
<1>3. CASE DeleteAsset(t)
  <2>1. job[t] # Absent /\ job[t].step = "delete" /\ UNCHANGED <<world, latest, setbacks>>
        /\ release[t] # Absent /\ release[t].draft
    BY <1>0, <1>3 DEF DeleteAsset, At, DraftedAt
  <2>2. CASE release[t].assets = {}
    <3>1. GoOn(t, "upload") /\ release' = release
      BY <1>3, <2>2 DEF DeleteAsset
    <3> QED BY <1>0, <1>1, <2>1, <3>1, GoOnTypes DEF DraftedAt, At, world, Out
  <2>3. CASE release[t].assets # {}
    <3>1. PICK a : release' = [release EXCEPT ![t].assets = @ \ {a}]
      BY <1>3, <2>3 DEF DeleteAsset
    <3>2. release' = [release EXCEPT ![t].assets = release[t].assets \ {a}]
      BY <3>1
    <3>3. release[t].assets \ {a} \subseteq [name : Names, content : Builds \cup {"cut"}]
      BY <1>0, <2>1 DEF Drafts
    <3>4. /\ release' \in [Days -> Drafts \cup {Absent}] /\ release'[t] # Absent
          /\ release' = [release EXCEPT ![t] = release'[t]]
          /\ release'[t].draft <=> release[t].draft
      BY <1>0, <2>1, <3>2, <3>3, AssetsTyped
    <3>5. job' = job
      BY <1>3, <2>3 DEF DeleteAsset
    <3> QED BY <1>0, <1>1, <2>1, <3>4, <3>5 DEF DraftedAt, At, world, Out
  <2> QED BY <2>2, <2>3
<1>4. CASE Upload(t)
  <2>1. job[t] # Absent /\ job[t].step = "upload" /\ UNCHANGED <<world, latest>>
        /\ release[t] # Absent /\ release[t].draft
    BY <1>0, <1>4 DEF Upload, At, DraftedAt
  <2>2. CASE job[t].left = {}
    <3>1. GoOn(t, "compare") /\ UNCHANGED <<release, setbacks>>
      BY <1>4, <2>2 DEF Upload
    <3> QED BY <1>0, <1>1, <2>1, <3>1, GoOnTypes DEF DraftedAt, At, world, Out
  <2>3. CASE job[t].left # {}
    <3>1. /\ job' \in [Days -> ReleaseRuns \cup {Absent}]
          /\ job' = [job EXCEPT ![t] = job'[t]] /\ job'[t].step = "upload"
          /\ release' \in [Days -> Drafts \cup {Absent}] /\ release'[t] # Absent
          /\ release' = [release EXCEPT ![t] = release'[t]]
          /\ release'[t].draft <=> release[t].draft
          /\ setbacks' = setbacks \/ Setback
      BY <1>0, <1>4, <2>1, <2>3, UploadTypes
    <3>2. setbacks' \in Nat
      BY <1>0, <3>1 DEF Setback
    <3> QED BY <1>0, <1>1, <2>1, <3>1, <3>2 DEF DraftedAt, At, world, Out
  <2> QED BY <2>2, <2>3
<1>5. CASE Compare(t)
  <2>1. job[t] # Absent /\ job[t].step = "compare" /\ UNCHANGED <<world, release, latest, setbacks>>
        /\ release[t] # Absent /\ release[t].draft
    BY <1>0, <1>5 DEF Compare, At, DraftedAt
  <2>2. CASE SameAssets(t)
    <3>1. GoOn(t, "publish")
      BY <1>5, <2>2 DEF Compare
    <3>2. job'[t].build = job[t].build /\ job' \in [Days -> ReleaseRuns \cup {Absent}]
          /\ job' = [job EXCEPT ![t] = job'[t]] /\ job'[t].step = "publish"
      BY <1>0, <2>1, <3>1, GoOnTypes
    <3>3. SameAssets(t)'
      BY <2>1, <2>2, <3>2 DEF SameAssets
    <3> QED BY <1>0, <1>1, <2>1, <3>2, <3>3 DEF DraftedAt, At, world, Out
  <2>3. CASE ~SameAssets(t)
    <3>1. job' = [job EXCEPT ![t] = Absent]
      BY <1>5, <2>3 DEF Compare
    <3> QED BY <1>0, <1>1, <2>1, <3>1 DEF DraftedAt, At, world, Out
  <2> QED BY <2>2, <2>3
<1>6. CASE Publish(t)
  <2>1. job[t] # Absent /\ job[t].step = "publish" /\ UNCHANGED <<world, setbacks>>
        /\ release[t] # Absent /\ SameAssets(t) /\ tags[t] # Absent
        /\ job' = [job EXCEPT ![t] = Absent]
    BY <1>0, <1>6 DEF Publish, At, DraftedAt
  <2> DEFINE d == [release[t] EXCEPT !.draft = FALSE]
  <2>2. d \in Drafts /\ d # Absent /\ d.assets = release[t].assets
    <3>1. d \in Drafts /\ d.assets = release[t].assets
      BY <1>0, <2>1 DEF Drafts
    <3> QED BY <1>0, <3>1
  <2>3. release' = [release EXCEPT ![t] = d]
    BY <1>6 DEF Publish
  <2> HIDE DEF d
  <2>4. release' \in [Days -> Drafts \cup {Absent}] /\ release'[t] = d
        /\ release' = [release EXCEPT ![t] = release'[t]]
    BY <1>0, <2>2, <2>3
  <2>5. job[t].build \in Builds /\ d.assets = {Asset(n, job[t].build) : n \in Names}
    BY <1>0, <2>1, <2>2 DEF SameAssets, ReleaseRuns
  <2>6. ReleaseTypes' /\ job'[t] = Absent
    BY <1>0, <1>1, <2>1, <2>2, <2>4
  <2>7. DraftedAt(t)'
    BY <2>1, <2>4, <2>5, <2>6 DEF DraftedAt, At, world
  <2> QED BY <1>6, <2>1, <2>4, <2>6, <2>7
<1>7. CASE JobCancelled(t)
  <2>1. UNCHANGED <<world, release, latest>> /\ job' = [job EXCEPT ![t] = Absent]
        /\ setbacks' \in Nat
    BY <1>0, <1>7 DEF JobCancelled, Setback
  <2> QED BY <1>0, <1>1, <2>1 DEF DraftedAt, At, world, Out
<1>8. CASE ViewFails(t)
  <2>1. /\ job[t] # Absent /\ release[t] # Absent /\ UNCHANGED <<world, latest>>
        /\ setbacks' \in Nat
    BY <1>0, <1>8 DEF ViewFails, At, Setback
  <2>2. CASE job' = [job EXCEPT ![t] = Absent] /\ UNCHANGED release
    BY <1>0, <1>1, <2>1, <2>2 DEF DraftedAt, At, world, Out
  <2>3. CASE release[t].draft /\ GoOn(t, "upload") /\ release' = release
    BY <1>0, <1>1, <2>1, <2>3, GoOnTypes DEF DraftedAt, At, world, Out
  <2>4. CASE /\ release[t].draft /\ GoOn(t, "upload")
             /\ release' = [release EXCEPT ![t] = [draft |-> TRUE, assets |-> {}]]
    <3> DEFINE d == [draft |-> TRUE, assets |-> {}]
    <3>1. d \in Drafts /\ d.draft /\ d # Absent
      <4>1. d \in Drafts
        BY DEF Drafts
      <4> QED BY <1>0, <4>1
    <3>2. release' = [release EXCEPT ![t] = d]
      BY <2>4
    <3> HIDE DEF d
    <3>3. release' \in [Days -> Drafts \cup {Absent}] /\ release'[t] # Absent /\ release'[t].draft
          /\ release' = [release EXCEPT ![t] = release'[t]]
      BY <1>0, <3>1, <3>2
    <3>4. /\ job' \in [Days -> ReleaseRuns \cup {Absent}]
          /\ job' = [job EXCEPT ![t] = job'[t]] /\ job'[t].step = "upload"
      BY <1>0, <2>1, <2>4, GoOnTypes
    <3>5. ReleaseTypes'
      BY <1>0, <1>1, <2>1, <3>3, <3>4
    <3>6. DraftedAt(t)' /\ (Out(t)' <=> Out(t))
      BY <1>0, <2>1, <2>4, <3>3, <3>4 DEF DraftedAt, At, world, Out
    <3> QED BY <2>1, <3>3, <3>4, <3>5, <3>6
  <2> QED BY <1>8, <2>2, <2>3, <2>4 DEF ViewFails
<1> QED BY <1>2, <1>3, <1>4, <1>5, <1>6, <1>7, <1>8 DEF RunStep

\* What Plan makes of the run, when the releases in seen are published.
LEMMA Planned ==
    ASSUME ReleaseTypes, NEW seen, cal # Absent, cal.step = "plan"
    PROVE  LET c == PlanOf(seen)
               clear == Previous = 0 \/ Previous \in seen
           IN
           /\ c # Absent => c \in CalendarRuns /\ c.head = cal.head /\ c.tag <= today
           /\ \/ /\ ~clear /\ Previous \in Tagged
                 /\ c # Absent /\ c.step = "release" /\ c.tag = Previous
              \/ /\ clear /\ tags[cal.tag] # Absent /\ cal.tag \notin seen
                 /\ c # Absent /\ c.step = "release" /\ c.tag = cal.tag
              \/ /\ clear /\ c = Absent
                 /\ \/ tags[cal.tag] # Absent
                    \/ main.version = cal.tag
                    \/ Previous # 0 /\ cal.tag <= Previous
                    \/ Previous # 0 /\ main = tags[Previous]
              \/ /\ clear /\ tags[cal.tag] = Absent
                 /\ ~(cal.tag <= Previous) /\ main.version # cal.tag
                 /\ c # Absent /\ c.step = "commit" /\ c.tag = cal.tag
<1>1. /\ cal \in CalendarRuns /\ cal.tag \in Days /\ cal.tag <= today
      /\ \A d \in Days : d \in Nat /\ d > 0
      /\ \A c \in CalendarRuns : c # Absent
  BY ReleaseAssumption DEF ReleaseTypes, CalendarRuns, Days
<1>2. Previous # 0 => Previous \in Tagged /\ Previous \in Days /\ Previous <= today
  BY PreviousIs DEF ReleaseTypes
<1> DEFINE toRelease == [cal EXCEPT !.step = "release"]
           toCommit == [cal EXCEPT !.step = "commit"]
           toPrevious == [cal EXCEPT !.step = "release", !.tag = Previous]
<1>3. /\ toRelease \in CalendarRuns /\ toRelease.step = "release"
      /\ toRelease.tag = cal.tag /\ toRelease.head = cal.head
      /\ toCommit \in CalendarRuns /\ toCommit.step = "commit"
      /\ toCommit.tag = cal.tag /\ toCommit.head = cal.head
  BY <1>1 DEF CalendarRuns
<1>4. Previous # 0 => /\ toPrevious \in CalendarRuns /\ toPrevious.step = "release"
                      /\ toPrevious.tag = Previous /\ toPrevious.head = cal.head
  BY <1>1, <1>2 DEF CalendarRuns
<1>5. Previous = 0 => ~(cal.tag <= Previous)
  BY <1>1
<1>e. PlanOf(seen) =
        IF Previous # 0 /\ Previous \notin seen THEN toPrevious
        ELSE IF tags[cal.tag] # Absent
        THEN IF cal.tag \in seen THEN Absent ELSE toRelease
        ELSE IF \/ cal.tag <= Previous
                \/ main.version = cal.tag
                \/ Previous # 0 /\ main = tags[Previous]
             THEN Absent ELSE toCommit
  BY DEF PlanOf
<1> HIDE DEF toRelease, toCommit, toPrevious
<1> DEFINE c == PlanOf(seen)
<1>6. CASE Previous # 0 /\ Previous \notin seen
  <2>1. c = toPrevious
    BY <1>6, <1>e
  <2> HIDE DEF c
  <2>2. c # Absent /\ c \in CalendarRuns /\ c.head = cal.head /\ c.tag <= today
        /\ Previous \in Tagged /\ c.step = "release" /\ c.tag = Previous
    BY <1>1, <1>2, <1>4, <1>6, <2>1
  <2> QED BY <1>6, <2>2 DEF c
<1>7. CASE Previous = 0 \/ Previous \in seen
  <2>1. CASE tags[cal.tag] # Absent /\ cal.tag \in seen
    <3>1. c = Absent
      BY <1>7, <1>e, <2>1
    <3> QED BY <1>7, <2>1, <3>1
  <2>2. CASE tags[cal.tag] # Absent /\ cal.tag \notin seen
    <3>1. c = toRelease
      BY <1>7, <1>e, <2>2
    <3> HIDE DEF c
    <3> QED BY <1>1, <1>3, <1>7, <2>2, <3>1 DEF c
  <2>3. CASE /\ tags[cal.tag] = Absent
             /\ \/ cal.tag <= Previous
                \/ main.version = cal.tag
                \/ Previous # 0 /\ main = tags[Previous]
    <3>1. c = Absent
      BY <1>7, <1>e, <2>3
    <3> QED BY <1>5, <1>7, <2>3, <3>1
  <2>4. CASE /\ tags[cal.tag] = Absent
             /\ ~(cal.tag <= Previous) /\ main.version # cal.tag
             /\ ~(Previous # 0 /\ main = tags[Previous])
    <3>1. c = toCommit
      BY <1>7, <1>e, <2>4
    <3> HIDE DEF c
    <3> QED BY <1>1, <1>3, <1>7, <2>4, <3>1 DEF c
  <2> QED BY <2>1, <2>2, <2>3, <2>4
<1> QED BY <1>6, <1>7

CalendarStep ==
    \/ \E c \in Changes : Merge(c)
    \/ \E d \in Days : StartCalendar(d) \/ Dispatch(d)
    \/ Plan \/ HeadMoved \/ PushCommit \/ PushRejected \/ PushTag \/ CallRelease
    \/ EndCalendar
    \/ CalendarCancelled \/ NextDay

LEMMA CalendarStepKeeps ==
    ASSUME ReleaseTypes, Drafted, CalendarStep, CalAt({"release"}) => tags[cal.tag] # Absent
    PROVE  ReleaseTypes' /\ Drafted' /\ UNCHANGED <<release, latest>>
<1>0. /\ MaxDay \in Nat /\ Days = 1 .. MaxDay /\ today \in Days /\ ran \in BOOLEAN
      /\ setbacks \in Nat
      /\ mergedOn \in [Changes -> 0 .. MaxDay] /\ \A c \in Changes : mergedOn[c] <= today
      /\ main \in Heads /\ main.version <= today
      /\ tags \in [Days -> Heads \cup {Absent}] /\ \A d \in Tagged : d <= today
      /\ job \in [Days -> ReleaseRuns \cup {Absent}]
      /\ cal \in CalendarRuns \cup {Absent} /\ (cal # Absent => cal.tag <= today)
  BY ReleaseAssumption DEF ReleaseTypes, Days
<1>k. cal # Absent => cal \in CalendarRuns /\ cal.tag \in Days /\ cal.head \in Heads
  BY <1>0 DEF CalendarRuns
<1>a. ASSUME UNCHANGED <<release, job, tags>> PROVE Drafted'
  BY <1>a, StaysDrafted DEF Drafted
<1>1. ASSUME NEW c \in Changes, Merge(c) PROVE ReleaseTypes' /\ Drafted' /\ UNCHANGED <<release, latest>>
  <2>1. main' \in Heads /\ main'.version = main.version
    BY <1>0, <1>1 DEF Merge, Heads
  <2>2. mergedOn' \in [Changes -> 0 .. MaxDay] /\ \A d \in Changes : mergedOn'[d] <= today
    BY <1>0, <1>1 DEF Merge
  <2> QED BY <1>a, <1>1, <2>1, <2>2 DEF Merge, ReleaseTypes, Tagged
<1>2. ASSUME NEW d \in Days, StartCalendar(d) PROVE ReleaseTypes' /\ Drafted' /\ UNCHANGED <<release, latest>>
  <2>1. cal' \in CalendarRuns /\ cal'.tag <= today
    BY <1>0, <1>2 DEF StartCalendar, CalendarRuns
  <2>2. ran' \in BOOLEAN
    BY <1>0, <1>2, Zenon DEF StartCalendar
  <2> QED BY <1>a, <1>2, <2>1, <2>2 DEF StartCalendar, ReleaseTypes, Tagged
<1>3. CASE Plan
  <2>1. /\ UNCHANGED <<today, ran, mergedOn, main, tags, release, latest, job>>
        /\ setbacks' \in Nat /\ cal # Absent /\ cal.step = "plan"
        /\ \E seen : cal' = PlanOf(seen)
    BY <1>0, <1>3 DEF Plan, Setback
  <2>2. PICK seen : cal' = PlanOf(seen)
    BY <2>1
  <2>4. cal' \in CalendarRuns \cup {Absent} /\ (cal' # Absent => cal'.tag <= today)
    BY <2>1, <2>2, Planned
  <2> QED BY <1>a, <2>1, <2>4 DEF ReleaseTypes, Tagged
<1>4. CASE PushCommit
  <2>1. cal # Absent /\ main' = [main EXCEPT !.version = cal.tag]
        /\ cal' = [cal EXCEPT !.step = "tag", !.head = main']
    BY <1>4 DEF PushCommit
  <2>2. main' \in Heads /\ main'.version = cal.tag
    <3>1. cal.tag \in 0 .. MaxDay
      BY <1>0, <1>k, <2>1
    <3>2. [main EXCEPT !.version = cal.tag] \in Heads
          /\ [main EXCEPT !.version = cal.tag].version = cal.tag
      BY <1>0, <3>1 DEF Heads
    <3> QED BY <2>1, <3>2
  <2>3. cal' \in CalendarRuns /\ cal'.tag = cal.tag
    BY <1>k, <2>1, <2>2 DEF CalendarRuns
  <2> QED BY <1>0, <1>a, <1>4, <2>1, <2>2, <2>3 DEF PushCommit, ReleaseTypes, Tagged
<1>5. CASE HeadMoved \/ PushRejected
  BY <1>0, <1>a, <1>5 DEF HeadMoved, PushRejected, EndsBehind, Setback, ReleaseTypes, Tagged
<1>6. CASE PushTag
  <2>1. cal # Absent /\ cal' = [cal EXCEPT !.step = "release"]
        /\ tags' = [tags EXCEPT ![cal.tag] = cal.head]
        /\ UNCHANGED <<today, ran, mergedOn, main, release, latest, job, setbacks>>
    BY <1>6 DEF PushTag
  <2>2. cal' \in CalendarRuns /\ cal'.tag = cal.tag
    BY <1>k, <2>1 DEF CalendarRuns
  <2>3. cal.head # Absent
    BY <1>k, <2>1, ReleaseAssumption
  <2>4. tags' \in [Days -> Heads \cup {Absent}] /\ \A d \in Tagged' : d <= today
    BY <1>0, <1>k, <2>1 DEF Tagged
  <2>5. \A d \in Days : tags'[d] = tags[d] \/ tags'[d] # Absent
    BY <1>0, <1>k, <2>1, <2>3
  <2>6. Drafted'
    BY <2>1, <2>5, StaysDrafted DEF Drafted
  <2> QED BY <1>0, <2>1, <2>2, <2>4, <2>6 DEF ReleaseTypes
<1>7. ASSUME NEW t \in Days, NewJob(t), tags[t] # Absent, UNCHANGED <<release, tags>>
      PROVE  job' \in [Days -> ReleaseRuns \cup {Absent}] /\ Drafted'
  <2>1. /\ job' \in [Days -> ReleaseRuns \cup {Absent}]
        /\ job' = [job EXCEPT ![t] = job'[t]] /\ job'[t] # Absent
        /\ job'[t].step = "view" /\ job'[t].left = Names /\ job[t] = Absent
    BY <1>0, <1>7, NewJobTypes
  <2>2. DraftedAt(t)'
    BY <1>7, <2>1 DEF Drafted, DraftedAt, At
  <2>3. ASSUME NEW u \in Days, u # t PROVE DraftedAt(u)'
    <3>1. job'[u] = job[u]
      BY <1>0, <2>1, <2>3
    <3> QED BY <1>7, <3>1, StaysDrafted DEF Drafted
  <2> QED BY <2>1, <2>2, <2>3 DEF Drafted
<1>8. CASE CallRelease
  <2>1. cal # Absent /\ cal' = [cal EXCEPT !.step = "wait"] /\ tags[cal.tag] # Absent
        /\ UNCHANGED <<today, ran, mergedOn, main, tags, release, latest, setbacks>>
        /\ NewJob(cal.tag)
    BY <1>8 DEF CallRelease, CalAt
  <2>2. cal' \in CalendarRuns /\ cal'.tag = cal.tag
    BY <1>k, <2>1 DEF CalendarRuns
  <2> QED BY <1>0, <1>k, <1>7, <2>1, <2>2 DEF ReleaseTypes, Tagged
<1>9. CASE EndCalendar
  BY <1>0, <1>a, <1>9 DEF EndCalendar, ReleaseTypes, Tagged
<1>10. ASSUME NEW t \in Days, Dispatch(t) PROVE ReleaseTypes' /\ Drafted' /\ UNCHANGED <<release, latest>>
  <2>1. job' \in [Days -> ReleaseRuns \cup {Absent}] /\ Drafted'
    BY <1>7, <1>10 DEF Dispatch
  <2> QED BY <1>10, <2>1 DEF Dispatch, ReleaseTypes, Tagged
<1>11. CASE CalendarCancelled
  <2>1. /\ cal # Absent /\ cal' = Absent
        /\ job' = IF cal.step = "wait" THEN [job EXCEPT ![cal.tag] = Absent] ELSE job
        /\ UNCHANGED <<today, ran, mergedOn, main, tags, release, latest>> /\ setbacks' \in Nat
    BY <1>0, <1>11 DEF CalendarCancelled, Setback
  <2>2. job' \in [Days -> ReleaseRuns \cup {Absent}]
        /\ \A t \in Days : job'[t] = job[t] \/ job'[t] = Absent
    BY <1>0, <2>1
  <2>3. Drafted'
    BY <2>1, <2>2, StaysDrafted DEF Drafted
  <2> QED BY <2>1, <2>2, <2>3 DEF ReleaseTypes, Tagged
<1>12. CASE NextDay
  <2>1. today' = today + 1 /\ today' \in Days /\ ran' = FALSE
        /\ UNCHANGED <<mergedOn, main, tags, release, latest, cal, job, setbacks>> /\ cal = Absent
    BY <1>0, <1>12 DEF NextDay
  <2>2. \A n \in Int : n <= today => n <= today'
    BY <1>0, <2>1
  <2>3. main.version \in Int /\ \A c \in Changes : mergedOn[c] \in Int
    BY <1>0 DEF Heads
  <2>4. (\A c \in Changes : mergedOn'[c] <= today') /\ main'.version <= today'
        /\ \A d \in Tagged' : d <= today'
    BY <1>0, <2>1, <2>2, <2>3 DEF Tagged
  <2> QED BY <1>0, <1>a, <2>1, <2>4 DEF ReleaseTypes
<1> QED BY <1>1, <1>2, <1>3, <1>4, <1>5, <1>6, <1>8, <1>9, <1>10, <1>11, <1>12 DEF CalendarStep

LEMMA RunPublishes ==
    ASSUME ReleaseTypes, Drafted, NEW t \in Days, RunStep(t)
    PROVE  /\ ReleaseTypes' /\ Drafted' /\ UNCHANGED world
           /\ Tagged' = Tagged /\ Published \subseteq Tagged
           /\ \/ latest' = latest /\ Published' = Published
              \/ /\ Publish(t) /\ latest' = t /\ Published' = Published \cup {t}
                 /\ t \in Tagged \ Published
<1>1. /\ ReleaseTypes' /\ DraftedAt(t)' /\ UNCHANGED world /\ tags' = tags
      /\ Publish(t) \/ (latest' = latest /\ (Out(t)' <=> Out(t)))
      /\ job' = [job EXCEPT ![t] = job'[t]]
      /\ release' = [release EXCEPT ![t] = release'[t]]
  BY RunStepKeeps DEF world
<1>2. \A u \in Days : u # t => job'[u] = job[u] /\ release'[u] = release[u]
  BY <1>1 DEF ReleaseTypes
<1>3. Drafted'
  <2> SUFFICES ASSUME NEW u \in Days, u # t PROVE DraftedAt(u)'
    BY <1>1 DEF Drafted
  <2> QED BY <1>1, <1>2, StaysDrafted DEF Drafted
<1>4. Tagged' = Tagged /\ Published \subseteq Tagged
  BY <1>1 DEF Tagged, Published, Drafted, DraftedAt
<1>5. Published = {u \in Days : Out(u)} /\ Published' = {u \in Days : Out(u)'}
      /\ \A u \in Days : u # t => (Out(u)' <=> Out(u))
  BY <1>2 DEF Published, Out
<1>6. CASE latest' = latest /\ (Out(t)' <=> Out(t))
  <2>1. Published' = Published
    BY <1>5, <1>6
  <2> QED BY <1>1, <1>3, <1>4, <1>6, <2>1
<1>7. CASE Publish(t)
  <2>1. /\ job[t] # Absent /\ job[t].step = "publish" /\ latest' = t
        /\ release' = [release EXCEPT ![t].draft = FALSE]
    BY <1>7 DEF Publish, At
  <2>2. tags[t] # Absent /\ release[t] # Absent /\ release[t].draft /\ release[t] \in Drafts
    BY <2>1 DEF Drafted, DraftedAt, ReleaseTypes
  <2>3. release'[t] = [release[t] EXCEPT !.draft = FALSE]
    BY <2>1 DEF ReleaseTypes
  <2>4. release'[t] \in Drafts /\ ~release'[t].draft
    BY <2>2, <2>3 DEF Drafts
  <2>5. Out(t)' /\ ~Out(t)
    BY <2>2, <2>4, ReleaseAssumption DEF Out
  <2>6. Published' = Published \cup {t} /\ t \notin Published
    BY <1>5, <2>5
  <2>7. t \in Tagged
    BY <2>2 DEF Tagged
  <2> QED BY <1>1, <1>3, <1>4, <1>7, <2>1, <2>6, <2>7
<1> QED BY <1>1, <1>6, <1>7

\* A tag that is not published is the newest.
LEMMA UnpublishedIsLast ==
    ASSUME ReleaseTypes, InOrder, NEW t \in Tagged \ Published
    PROVE  /\ t = Previous /\ Previous # 0 /\ \A d \in Tagged : d <= t
           /\ Tagged \subseteq Nat
<1>1. Tagged \subseteq Nat
  BY ReleaseAssumption DEF Tagged, Days
<1>2. \A d \in Tagged : d <= t
  BY <1>1 DEF InOrder
<1>3. Previous \in Tagged /\ t <= Previous /\ Previous # 0
  BY PreviousIs
<1> QED BY <1>1, <1>2, <1>3

LEMMA ClearMeansPublished ==
    ASSUME ReleaseTypes, InOrder, NEW seen, seen = Published \/ seen = {},
           Previous = 0 \/ Previous \in seen
    PROVE  Tagged \subseteq Published
<1> SUFFICES ASSUME NEW t \in Tagged, t \notin Published PROVE FALSE
  OBVIOUS
<1>1. t = Previous /\ Previous # 0
  BY UnpublishedIsLast
<1> QED BY <1>1

LEMMA RunStepOrder ==
    ASSUME ReleaseTypes, Drafted, InOrder, NEW t \in Days, RunStep(t)
    PROVE  InOrder'
<1>1. /\ UNCHANGED <<tags, cal>> /\ Tagged' = Tagged /\ Published \subseteq Tagged
      /\ \/ latest' = latest /\ Published' = Published
         \/ /\ latest' = t /\ Published' = Published \cup {t}
            /\ t \in Tagged \ Published
  BY RunPublishes DEF world
<1>2. LatestIsNewest'
  <2>1. CASE latest' = latest /\ Published' = Published
    BY <2>1 DEF InOrder, LatestIsNewest
  <2>2. CASE latest' = t /\ Published' = Published \cup {t} /\ t \in Tagged \ Published
    <3>1. (\A d \in Tagged : d <= t) /\ Tagged \subseteq Nat
      BY <2>2, UnpublishedIsLast
    <3>2. Max(Published') = t
      <4>1. Published' \in SUBSET Nat /\ t \in Published' /\ \A e \in Published' : e <= t
        BY <1>1, <2>2, <3>1
      <4> QED BY <4>1, MaxIs
    <3> QED BY <2>2, <3>2 DEF LatestIsNewest
  <2> QED BY <1>1, <2>1, <2>2
<1> QED BY <1>1, <1>2 DEF InOrder, CalAt

LEMMA CalendarStepOrder ==
    ASSUME ReleaseTypes, Drafted, InOrder, CalendarStep
    PROVE  InOrder'
<1>1. ReleaseTypes' /\ Drafted' /\ UNCHANGED <<release, latest>>
  BY CalendarStepKeeps DEF InOrder, CalAt
<1>2. Published' = Published /\ LatestIsNewest'
  BY <1>1 DEF Published, LatestIsNewest, InOrder
<1>3. CASE UNCHANGED tags /\ (cal' = cal \/ cal' = Absent)
  BY <1>2, <1>3 DEF InOrder, CalAt, Tagged
<1>4. ASSUME NEW d \in Days, StartCalendar(d) PROVE InOrder'
  <2>1. cal'.step = "plan" /\ UNCHANGED tags
    BY <1>4 DEF StartCalendar
  <2> QED BY <1>2, <2>1 DEF InOrder, CalAt, Tagged
<1>5. CASE Plan
  <2>1. PICK seen : cal' = PlanOf(seen) /\ (seen = Published \/ seen = {})
    BY <1>5 DEF Plan
  <2>2. cal # Absent /\ cal.step = "plan" /\ UNCHANGED tags
    BY <1>5 DEF Plan
  <2>3. CASE CalAt({"commit", "tag"})'
    <3>1. /\ Previous = 0 \/ Previous \in seen
          /\ ~(cal.tag <= Previous) /\ cal'.tag = cal.tag
      BY <2>1, <2>2, <2>3, Planned DEF CalAt
    <3>2. Tagged \subseteq Published
      BY <2>1, <3>1, ClearMeansPublished
    <3>3. \A d \in Tagged : d < cal.tag
      <4>1. cal.tag \in Nat /\ Tagged \subseteq Nat
        BY <2>2, ReleaseAssumption DEF ReleaseTypes, CalendarRuns, Tagged, Days
      <4>2. ASSUME NEW d \in Tagged PROVE d < cal.tag
        <5>1. Previous \in Nat /\ d \in Nat /\ d <= Previous
          BY <4>1, PreviousIs
        <5> QED BY <3>1, <4>1, <5>1
      <4> QED BY <4>2
    <3> QED BY <1>2, <2>2, <2>3, <3>1, <3>2, <3>3 DEF InOrder, CalAt, Tagged
  <2>4. CASE ~CalAt({"commit", "tag"})'
    <3>1. CalAt({"release", "wait"})' => tags[cal'.tag] # Absent
      BY <2>1, <2>2, Planned DEF CalAt, Tagged
    <3> QED BY <1>2, <2>2, <2>4, <3>1 DEF InOrder, Tagged
  <2> QED BY <2>3, <2>4
<1>6. ASSUME cal # Absent, UNCHANGED tags, cal'.tag = cal.tag,
             \/ cal.step = "commit" /\ cal'.step = "tag"
             \/ cal.step = "release" /\ cal'.step = "wait"
      PROVE  InOrder'
  BY <1>2, <1>6 DEF InOrder, CalAt, Tagged
<1>7. CASE PushCommit
  <2>1. /\ cal # Absent /\ cal.step = "commit" /\ UNCHANGED tags
        /\ cal' = [cal EXCEPT !.step = "tag", !.head = main']
    BY <1>7 DEF PushCommit
  <2>2. cal'.tag = cal.tag /\ cal'.step = "tag"
    BY <2>1 DEF ReleaseTypes, CalendarRuns
  <2> QED BY <1>6, <2>1, <2>2
<1>8. CASE PushTag
  <2>1. /\ cal # Absent /\ cal.step = "tag" /\ cal \in CalendarRuns
        /\ cal' = [cal EXCEPT !.step = "release"]
        /\ tags' = [tags EXCEPT ![cal.tag] = cal.head]
    BY <1>8 DEF PushTag, ReleaseTypes
  <2>2. cal'.tag = cal.tag /\ cal'.step = "release" /\ cal.tag \in Days /\ cal.head # Absent
    BY <2>1, ReleaseAssumption DEF CalendarRuns
  <2>3. Tagged' = Tagged \cup {cal.tag} /\ tags'[cal.tag] # Absent
    BY <2>1, <2>2 DEF Tagged, ReleaseTypes
  <2>4. Tagged \subseteq Published /\ \A d \in Tagged : d < cal.tag
    BY <2>1 DEF InOrder, CalAt
  <2>5. Tagged' \subseteq Nat
    BY ReleaseAssumption DEF Tagged, Days
  <2>6. \A d, e \in Tagged' : d < e => d \in Published
    BY <2>3, <2>4, <2>5
  <2> QED BY <1>2, <2>2, <2>3, <2>6 DEF InOrder, CalAt
<1>9. CASE CallRelease
  <2>1. /\ cal # Absent /\ cal.step = "release" /\ UNCHANGED tags
        /\ cal' = [cal EXCEPT !.step = "wait"]
    BY <1>9 DEF CallRelease
  <2>2. cal'.tag = cal.tag /\ cal'.step = "wait"
    BY <2>1 DEF ReleaseTypes, CalendarRuns
  <2> QED BY <1>6, <2>1, <2>2
<1>10. ASSUME NEW c \in Changes, Merge(c) PROVE InOrder'
  BY <1>3, <1>10 DEF Merge
<1>11. ASSUME NEW d \in Days, Dispatch(d) PROVE InOrder'
  BY <1>3, <1>11 DEF Dispatch
<1>12. CASE HeadMoved \/ PushRejected \/ EndCalendar \/ CalendarCancelled \/ NextDay
  BY <1>3, <1>12 DEF HeadMoved, PushRejected, EndsBehind, EndCalendar, CalendarCancelled, NextDay
<1> QED BY <1>4, <1>5, <1>7, <1>8, <1>9, <1>10, <1>11, <1>12 DEF CalendarStep

LEMMA DayTypes ==
    ASSUME ReleaseTypes
    PROVE  /\ today \in Nat /\ today \in Days /\ setbacks \in Nat /\ ran \in BOOLEAN
           /\ \A c \in Changes : mergedOn[c] \in Nat /\ mergedOn[c] <= today
           /\ \A d \in Days : d \in Nat /\ d > 0
           /\ \A d \in Tagged : d <= today
  BY ReleaseAssumption DEF ReleaseTypes, Days

\* A setback is worth a day to every change.
LEMMA SetbackPays ==
    ASSUME ReleaseTypes, Timely, setbacks' = setbacks + 1,
           UNCHANGED <<today, ran, mergedOn, main, tags>>, Published' = Published,
           cal' # Absent => cal # Absent /\ cal'.head = cal.head
    PROVE  Timely'
<1>1. Previous' = Previous /\ (Behind' <=> Behind)
  BY DEF Previous, Tagged, Behind
<1>2. ASSUME NEW c \in Changes, Unreleased(c)' PROVE InTime(c)'
  <2>1. Unreleased(c) /\ (Blocked(c)' <=> Blocked(c))
    BY <1>1, <1>2 DEF Unreleased, Blocked
  <2>2. today <= mergedOn[c] + setbacks + 1 /\ (Blocked(c) => Spare(c))
    BY <2>1 DEF Timely, InTime
  <2>3. Spare(c)' /\ (Blocked(c) => today' < mergedOn'[c] + setbacks')
        /\ today' <= mergedOn'[c] + setbacks' + 1
    BY <2>2, DayTypes DEF Spare
  <2> QED BY <2>1, <2>3 DEF InTime
<1>3. setbacks' > 0
  BY DayTypes
<1> QED BY <1>1, <1>2, <1>3 DEF Timely

\* So does nothing that leaves the promises as they are.
LEMMA TimelyStays ==
    ASSUME Timely, UNCHANGED <<today, ran, mergedOn, main, tags, setbacks>>,
           Published' = Published,
           Behind /\ Releasing(Previous) => Releasing(Previous)',
           \/ cal' = cal
           \/ /\ ~CalAt({"plan", "commit", "tag"}) /\ ~CalAt({"plan", "commit", "tag"})'
              /\ cal' # Absent => cal # Absent /\ cal'.head = cal.head
    PROVE  Timely'
<1>1. Previous' = Previous /\ (Behind' <=> Behind)
  BY DEF Previous, Tagged, Behind
<1>2. /\ Behind /\ CaughtUp => CaughtUp'
      /\ Halfway' => Halfway
      /\ cal' # Absent => cal # Absent /\ cal'.head = cal.head
  BY <1>1 DEF CaughtUp, Halfway, CalAt
<1>3. ASSUME NEW c \in Changes, Unreleased(c)' PROVE InTime(c)'
  <2>1. Unreleased(c) /\ (Blocked(c)' <=> Blocked(c)) /\ (Spare(c)' <=> Spare(c))
        /\ (ToCome(c) => ToCome(c)')
    BY <1>1, <1>3 DEF Unreleased, Blocked, Spare, ToCome, CalAt
  <2>2. Blocked(c) => Behind
    BY DEF Blocked
  <2>3. InTime(c)
    BY <2>1 DEF Timely
  <2> QED BY <1>1, <1>2, <2>1, <2>2, <2>3 DEF InTime
<1> QED BY <1>1, <1>2, <1>3 DEF Timely

LEMMA PromiseKept ==
    ASSUME ReleaseTypes, Drafted, NEW t \in Days, RunStep(t), ~Publish(t),
           setbacks' # setbacks + 1, Promising(t)
    PROVE  Promising(t)' \/ t \in Published
<1>0. /\ job \in [Days -> ReleaseRuns \cup {Absent}] /\ job[t] # Absent
      /\ release \in [Days -> Drafts \cup {Absent}] /\ DraftedAt(t)
      /\ Absent \notin Drafts
  BY ReleaseAssumption DEF ReleaseTypes, Drafted, Promising
<1>1. ~JobCancelled(t) /\ ~ViewFails(t)
  BY DEF JobCancelled, ViewFails, Setback
<1>2. CASE View(t) /\ ~Out(t)
  <2>1. job[t].step = "view" /\ job[t].left = Names
    BY <1>2 DEF View, At, Promising
  <2>2. CASE release[t] = Absent
    <3>1. GoOn(t, "upload") /\ release' = [release EXCEPT ![t] = [draft |-> TRUE, assets |-> {}]]
      BY <1>2, <2>2 DEF View
    <3>2. job'[t] # Absent /\ job'[t].step = "upload" /\ job'[t].left = Names
      BY <1>0, <2>1, <3>1, GoOnTypes
    <3>3. release'[t].assets = {}
      BY <1>0, <3>1
    <3> QED BY <3>2, <3>3 DEF Promising
  <2>3. CASE release[t] # Absent
    <3>1. GoOn(t, "delete")
      BY <1>2, <2>3 DEF View, Out
    <3>2. job'[t] # Absent /\ job'[t].step = "delete" /\ job'[t].left = Names
      BY <1>0, <2>1, <3>1, GoOnTypes
    <3> QED BY <3>2 DEF Promising
  <2> QED BY <2>2, <2>3
<1>3. CASE DeleteAsset(t)
  <2>1. job[t].step = "delete" /\ job[t].left = Names
    BY <1>3 DEF DeleteAsset, At, Promising
  <2>2. CASE release[t].assets = {}
    <3>1. GoOn(t, "upload") /\ release' = release
      BY <1>3, <2>2 DEF DeleteAsset
    <3>2. job'[t] # Absent /\ job'[t].step = "upload" /\ job'[t].left = Names
      BY <1>0, <2>1, <3>1, GoOnTypes
    <3> QED BY <2>2, <3>1, <3>2 DEF Promising
  <2>3. CASE release[t].assets # {}
    <3>1. job' = job
      BY <1>3, <2>3 DEF DeleteAsset
    <3> QED BY <1>0, <2>1, <3>1 DEF Promising
  <2> QED BY <2>2, <2>3
<1>4. CASE Upload(t)
  <2>1. job[t].step = "upload" /\ release[t] # Absent
        /\ release[t].assets = {Asset(n, job[t].build) : n \in Names \ job[t].left}
    BY <1>0, <1>4 DEF Upload, At, Promising, DraftedAt
  <2>2. CASE job[t].left = {}
    <3>1. GoOn(t, "compare") /\ release' = release
      BY <1>4, <2>2 DEF Upload
    <3>2. job'[t] # Absent /\ job'[t].step = "compare" /\ job'[t].build = job[t].build
      BY <1>0, <3>1, GoOnTypes
    <3>3. SameAssets(t)'
      BY <2>1, <2>2, <3>1, <3>2 DEF SameAssets
    <3> QED BY <3>2, <3>3 DEF Promising
  <2>3. CASE job[t].left # {}
    <3>1. PICK n \in Names \cap job[t].left :
             /\ job'[t] # Absent /\ job'[t].step = "upload" /\ job'[t].build = job[t].build
             /\ job'[t].left = job[t].left \ {n}
             /\ release'[t].assets = release[t].assets \cup {Asset(n, job[t].build)}
      BY <1>0, <1>4, <2>1, <2>3, UploadTypes DEF Setback
    <3>2. release'[t].assets = {Asset(m, job'[t].build) : m \in Names \ job'[t].left}
      BY <2>1, <3>1
    <3> QED BY <3>1, <3>2 DEF Promising
  <2> QED BY <2>2, <2>3
<1>5. CASE Compare(t)
  <2>1. job[t].step = "compare" /\ SameAssets(t)
    BY <1>5 DEF Compare, At, Promising
  <2>2. GoOn(t, "publish")
    BY <1>5, <2>1 DEF Compare
  <2>3. job'[t] # Absent /\ job'[t].step = "publish"
    BY <1>0, <2>2, GoOnTypes
  <2> QED BY <2>3 DEF Promising
<1>6. CASE Out(t)
  BY <1>6 DEF Out, Published
<1> QED BY <1>1, <1>2, <1>3, <1>4, <1>5, <1>6 DEF RunStep

LEMMA RunStepTimely ==
    ASSUME ReleaseInv, NEW t \in Days, RunStep(t)
    PROVE  Timely'
<1>0. ReleaseTypes /\ Drafted /\ InOrder /\ Timely
  BY DEF ReleaseInv
<1>1. /\ UNCHANGED <<today, ran, mergedOn, main, tags, cal>>
      /\ Tagged' = Tagged /\ Published \subseteq Tagged
      /\ \/ latest' = latest /\ Published' = Published
         \/ /\ Publish(t) /\ latest' = t /\ Published' = Published \cup {t}
            /\ t \in Tagged \ Published
      /\ job' = [job EXCEPT ![t] = job'[t]]
      /\ release' = [release EXCEPT ![t] = release'[t]]
  BY <1>0, RunPublishes, RunStepKeeps DEF world
<1>2. CASE Publish(t)
  <2>1. t = Previous /\ t \in Tagged \ Published /\ Published' = Published \cup {t}
        /\ setbacks' = setbacks
    <3>1. t \notin Published
      <4>1. job[t] # Absent /\ job[t].step = "publish"
        BY <1>2 DEF Publish, At
      <4> QED BY <1>0, <4>1 DEF Drafted, DraftedAt, Published
    <3>2. setbacks' = setbacks /\ t \in Published'
      <4>1. release' = [release EXCEPT ![t].draft = FALSE] /\ setbacks' = setbacks
            /\ release[t] # Absent
        BY <1>0, <1>2 DEF Publish, At, Drafted, DraftedAt
      <4>2. release'[t] = [release[t] EXCEPT !.draft = FALSE] /\ release[t] \in Drafts
        BY <1>0, <4>1 DEF ReleaseTypes
      <4>3. release'[t] \in Drafts /\ ~release'[t].draft
        BY <4>2 DEF Drafts
      <4> QED BY <4>1, <4>3, ReleaseAssumption DEF Published
    <3> QED BY <1>0, <1>1, <3>1, <3>2, UnpublishedIsLast
  <2>2. Previous' = Previous /\ Behind /\ ~Behind'
    BY <1>0, <1>1, <2>1, UnpublishedIsLast DEF Previous, Behind
  <2>3. ASSUME NEW c \in Changes, Unreleased(c)' PROVE InTime(c)'
    <3>1. Unreleased(c) /\ Blocked(c)
      BY <1>1, <2>1, <2>2, <2>3 DEF Unreleased, Blocked
    <3>2. Spare(c) /\ today <= mergedOn[c] + setbacks + 1
      BY <1>0, <3>1 DEF Timely, InTime
    <3> QED BY <1>1, <2>1, <2>2, <3>2 DEF InTime, Spare, Blocked
  <2> QED BY <1>0, <1>1, <2>2, <2>3 DEF Timely
<1>3. CASE ~Publish(t) /\ setbacks' = setbacks + 1
  BY <1>0, <1>1, <1>3, SetbackPays
<1>4. CASE ~Publish(t) /\ setbacks' # setbacks + 1
  <2>1. setbacks' = setbacks
    BY <1>4 DEF RunStep, View, ViewFails, DeleteAsset, Upload, Compare, JobCancelled, Setback
  <2>2. ASSUME Behind, Releasing(Previous) PROVE Releasing(Previous)'
    <3>1. Previous' = Previous /\ Previous \in Days /\ Previous \notin Published
      BY <1>1, <2>2, PreviousIs DEF Previous, Behind
    <3>2. CASE CalAt({"release"}) /\ cal.tag = Previous
      BY <1>1, <3>1, <3>2 DEF Releasing, CalAt
    <3>3. CASE Promising(Previous)
      <4>1. CASE t = Previous
        BY <1>0, <1>4, <3>1, <3>3, <4>1, PromiseKept DEF Releasing
      <4>2. CASE t # Previous
        <5>1. job'[Previous] = job[Previous] /\ release'[Previous] = release[Previous]
          BY <1>0, <1>1, <3>1, <4>2 DEF ReleaseTypes
        <5> QED BY <3>1, <3>3, <5>1 DEF Releasing, Promising, SameAssets
      <4> QED BY <4>1, <4>2
    <3> QED BY <2>2, <3>2, <3>3 DEF Releasing
  <2> QED BY <1>0, <1>1, <1>4, <2>1, <2>2, TimelyStays
<1> QED BY <1>2, <1>3, <1>4

\* Where the calendar run and the tags stay, so do the facts about releases.
LEMMA MergeTimely ==
    ASSUME ReleaseInv, NEW c \in Changes, Merge(c)
    PROVE  Timely'
<1>1. /\ ReleaseTypes /\ Timely /\ mergedOn[c] = 0
      /\ mergedOn' = [mergedOn EXCEPT ![c] = today]
      /\ main' = [main EXCEPT !.changes = @ \cup {c}]
      /\ UNCHANGED <<today, ran, tags, release, latest, cal, job, setbacks>>
  BY DEF ReleaseInv, Merge
<1>2. /\ today \in Nat /\ today > 0 /\ setbacks \in Nat
      /\ \A d \in Changes : mergedOn[d] \in Nat /\ mergedOn[d] <= today
      /\ main'.changes = main.changes \cup {c} /\ main'.version = main.version
      /\ mergedOn'[c] = today
      /\ \A d \in Changes : d # c => mergedOn'[d] = mergedOn[d]
  BY <1>1, DayTypes DEF ReleaseTypes, Heads
<1>3. /\ Published' = Published /\ Previous' = Previous /\ (Behind' <=> Behind)
      /\ (Halfway' <=> Halfway) /\ (CaughtUp' <=> CaughtUp)
      /\ (Releasing(Previous)' <=> Releasing(Previous))
  BY <1>1, <1>2 DEF Published, Previous, Tagged, Behind, Halfway, CaughtUp, Releasing, CalAt,
                    Promising, SameAssets
<1>4. ASSUME NEW d \in Changes, Unreleased(d)' PROVE InTime(d)'
  <2>1. Blocked(d)' <=> Blocked(d)
    BY <1>1, <1>3 DEF Blocked
  <2>2. ToCome(d)' <=> ToCome(d)
    BY <1>1 DEF ToCome, CalAt
  <2>3. CASE d = c
    <3>1. Spare(d)' /\ today' <= mergedOn'[d] + setbacks' + 1
          /\ (setbacks > 0 => today' < mergedOn'[d] + setbacks')
      BY <1>1, <1>2, <2>3 DEF Spare
    <3>2. Blocked(d) => setbacks > 0 \/ CaughtUp
      BY <1>1 DEF Timely, Blocked, CaughtUp
    <3> QED BY <1>3, <2>1, <3>1, <3>2 DEF InTime
  <2>4. CASE d # c
    <3>1. mergedOn'[d] = mergedOn[d] /\ Unreleased(d)
      BY <1>1, <1>2, <1>3, <1>4, <2>4 DEF Unreleased
    <3>2. InTime(d) /\ (Spare(d)' <=> Spare(d))
      BY <1>1, <3>1 DEF Timely, Spare
    <3> QED BY <1>1, <1>3, <2>1, <2>2, <3>1, <3>2 DEF InTime
  <2> QED BY <2>3, <2>4
<1>5. main'.changes = {d \in Changes : mergedOn'[d] # 0}
  <2>1. main.changes = {d \in Changes : mergedOn[d] # 0}
    BY <1>1 DEF Timely
  <2> QED BY <1>2, <2>1
<1>6. ASSUME NEW S, \A d \in main.changes : mergedOn[d] = today \/ d \in S
      PROVE  \A d \in main'.changes : mergedOn'[d] = today' \/ d \in S
  BY <1>1, <1>2, <1>5, <1>6
<1>7. cal' # Absent => \A d \in main'.changes : mergedOn'[d] = today' \/ d \in cal'.head.changes
  BY <1>1, <1>6 DEF Timely
<1>8. tags'[today'] # Absent =>
         \A d \in main'.changes : mergedOn'[d] = today' \/ d \in tags'[today'].changes
  BY <1>1, <1>6 DEF Timely
<1>9. Behind' => setbacks' > 0 \/ Releasing(Previous)'
  BY <1>1, <1>3 DEF Timely
<1> QED BY <1>4, <1>5, <1>7, <1>8, <1>9 DEF Timely

LEMMA StartTimely ==
    ASSUME ReleaseInv, NEW d \in Days, StartCalendar(d)
    PROVE  Timely'
<1>1. /\ ReleaseTypes /\ Timely /\ cal = Absent /\ cal' # Absent
      /\ cal'.step = "plan" /\ cal'.tag = d /\ cal'.head = main
      /\ (d = today /\ ran' = TRUE) \/ ran' = ran
      /\ UNCHANGED <<today, mergedOn, main, tags, release, latest, job, setbacks>>
  <2>1. /\ ReleaseTypes /\ Timely /\ cal = Absent
        /\ cal' = [step |-> "plan", tag |-> d, head |-> main]
        /\ (d = today /\ ran' = TRUE) \/ ran' = ran
        /\ UNCHANGED <<today, mergedOn, main, tags, release, latest, job, setbacks>>
    BY DEF ReleaseInv, StartCalendar
  <2>2. cal' \in CalendarRuns
    BY <2>1 DEF ReleaseTypes, CalendarRuns
  <2>3. cal' # Absent
    BY <2>2, ReleaseAssumption
  <2> QED BY <2>1, <2>3
<1>2. /\ Published' = Published /\ Previous' = Previous /\ (Behind' <=> Behind)
      /\ Halfway' => Halfway
      /\ \A t : Promising(t)' <=> Promising(t)
  BY <1>1 DEF Published, Previous, Tagged, Behind, Halfway, CalAt, Promising, SameAssets
<1>3. /\ Releasing(Previous) => Releasing(Previous)'
      /\ d = today => CaughtUp'
      /\ CaughtUp => CaughtUp'
  BY <1>1, <1>2 DEF Releasing, CaughtUp, CalAt
<1>4. ASSUME NEW c \in Changes, Unreleased(c)' PROVE InTime(c)'
  <2>1. /\ Unreleased(c) /\ (Blocked(c)' <=> Blocked(c)) /\ (Spare(c)' <=> Spare(c))
        /\ ~ToCome(c) /\ (Blocked(c) => Behind)
    BY <1>1, <1>2, <1>4 DEF Unreleased, Blocked, Spare, ToCome, CalAt
  <2>2. InTime(c) /\ c \in main.changes
    BY <1>1, <2>1 DEF Timely, Unreleased
  <2>3. d = today => ToCome(c)'
    BY <1>1, <2>2 DEF ToCome, CalAt
  <2> QED BY <1>1, <1>2, <1>3, <2>1, <2>2, <2>3 DEF InTime
<1> QED BY <1>1, <1>2, <1>3, <1>4 DEF Timely

LEMMA PlanTimely ==
    ASSUME ReleaseInv, Plan
    PROVE  Timely'
<1>0. ReleaseTypes /\ InOrder /\ Timely
  BY DEF ReleaseInv
<1>1. /\ cal # Absent /\ cal.step = "plan" /\ main = cal.head
      /\ UNCHANGED <<today, ran, mergedOn, main, tags, release, latest, job>>
      /\ \/ cal' = PlanOf(Published) /\ setbacks' = setbacks
         \/ cal' = PlanOf({}) /\ setbacks' = setbacks + 1
  BY DEF Plan, Setback
<1>2. /\ Published' = Published /\ Previous' = Previous /\ (Behind' <=> Behind)
      /\ \A t : Promising(t)' <=> Promising(t)
      /\ Halfway' => Halfway
  BY <1>0, <1>1 DEF Published, Previous, Tagged, Behind, Promising, SameAssets, Halfway, CalAt
<1>3. CASE setbacks' = setbacks + 1 /\ cal' = PlanOf({})
  <2>1. cal' # Absent => cal'.head = cal.head
    BY <1>0, <1>1, <1>3, Planned
  <2> QED BY <1>0, <1>1, <1>2, <1>3, <2>1, SetbackPays
<1>4. CASE setbacks' = setbacks /\ cal' = PlanOf(Published)
  <2>1. cal' # Absent => cal'.head = cal.head
    BY <1>0, <1>1, <1>4, Planned
  <2>2. Behind => Releasing(Previous)'
    <3>1. Behind => cal' # Absent /\ cal'.step = "release" /\ cal'.tag = Previous
      BY <1>0, <1>1, <1>4, Planned DEF Behind
    <3> QED BY <1>2, <3>1 DEF Releasing, CalAt
  <2>3. ASSUME NEW c \in Changes, Unreleased(c)' PROVE InTime(c)'
    <3>1. /\ Unreleased(c) /\ (Blocked(c)' <=> Blocked(c)) /\ (Spare(c)' <=> Spare(c))
          /\ Blocked(c) => Behind
      BY <1>1, <1>2, <1>4, <2>3 DEF Unreleased, Blocked, Spare
    <3>2. InTime(c) /\ c \in main.changes /\ c \in cal.head.changes
      BY <1>0, <1>1, <3>1 DEF Timely, Unreleased
    <3>3. CASE Behind
      <4>1. CaughtUp'
        BY <1>2, <2>2, <3>3 DEF CaughtUp
      <4> QED BY <1>1, <1>2, <1>4, <3>1, <3>2, <3>3, <4>1 DEF InTime
    <3>4. CASE ~Behind
      <4>1. Previous = 0 \/ Previous \in Published
        BY <3>4 DEF Behind
      <4>2. Tagged \subseteq Published
        BY <1>0, <4>1, ClearMeansPublished
      <4>3. \A t \in Tagged : c \notin tags[t].changes
        BY <3>1, <4>2 DEF Unreleased
      <4>4. CASE cal' # Absent /\ cal'.step = "commit"
        <5>1. ToCome(c)'
          BY <2>1, <3>2, <4>4 DEF ToCome, CalAt
        <5> QED BY <1>1, <1>2, <1>4, <3>1, <3>2, <3>4, <5>1 DEF InTime
      <4>5. CASE cal' # Absent /\ cal'.step # "commit"
        <5>1. tags[cal.tag] # Absent /\ cal.tag \notin Published
          BY <1>0, <1>1, <1>4, <4>1, <4>5, Planned
        <5>2. cal.tag \in Tagged
          BY <1>0, <1>1, <5>1 DEF Tagged, ReleaseTypes, CalendarRuns
        <5> QED BY <4>2, <5>1, <5>2
      <4>6. CASE cal' = Absent
        <5>1. CASE cal.tag = today
          <6>1. Spare(c) \/ mergedOn[c] = today
            <7>1. \/ tags[cal.tag] # Absent
                  \/ main.version = cal.tag
                  \/ Previous # 0 /\ cal.tag <= Previous
                  \/ Previous # 0 /\ main = tags[Previous]
              BY <1>0, <1>1, <1>4, <4>6, Planned
            <7>2. CASE tags[today] # Absent
              <8>1. today \in Tagged
                BY <1>0, <7>2, DayTypes DEF Tagged
              <8> QED BY <1>0, <3>2, <4>3, <7>2, <8>1 DEF Timely
            <7>3. CASE main.version = today /\ tags[today] = Absent
              <8>1. Halfway
                BY <1>1, <7>3 DEF Halfway, CalAt
              <8> QED BY <3>2, <8>1 DEF InTime
            <7>4. CASE Previous # 0 /\ today <= Previous /\ tags[today] = Absent
              <8>1. Previous \in Tagged /\ Previous <= today /\ Previous \in Nat
                BY <1>0, <7>4, PreviousIs, DayTypes
              <8>2. Previous = today
                BY <1>0, <7>4, <8>1, DayTypes
              <8> QED BY <7>4, <8>1, <8>2 DEF Tagged
            <7>5. CASE Previous # 0 /\ main = tags[Previous]
              <8>1. Previous \in Tagged
                BY <7>5, PreviousIs
              <8> QED BY <3>2, <4>3, <7>5, <8>1
            <7> QED BY <5>1, <7>1, <7>2, <7>3, <7>4, <7>5
          <6>2. mergedOn[c] = today => Spare(c)
            BY <1>0, DayTypes DEF Spare
          <6> QED BY <1>1, <1>2, <1>4, <3>1, <3>2, <3>4, <6>1, <6>2 DEF InTime
        <5>2. CASE cal.tag # today
          <6>1. ~ToCome(c)
            BY <1>1, <5>2 DEF ToCome, CalAt
          <6> QED BY <1>1, <1>2, <1>4, <3>1, <3>2, <3>4, <6>1 DEF InTime
        <5> QED BY <5>1, <5>2
      <4> QED BY <4>4, <4>5, <4>6
    <3> QED BY <3>3, <3>4
  <2> QED BY <1>0, <1>1, <1>2, <1>4, <2>1, <2>2, <2>3 DEF Timely
<1> QED BY <1>1, <1>3, <1>4

LEMMA PushCommitTimely ==
    ASSUME ReleaseInv, PushCommit
    PROVE  Timely'
<1>1. /\ ReleaseTypes /\ Timely /\ cal # Absent /\ cal.step = "commit" /\ main = cal.head
      /\ main' = [main EXCEPT !.version = cal.tag]
      /\ cal' = [cal EXCEPT !.step = "tag", !.head = main']
      /\ UNCHANGED <<today, ran, mergedOn, tags, release, latest, job, setbacks>>
  BY DEF ReleaseInv, PushCommit
<1>2. main'.changes = main.changes /\ main'.version = cal.tag
  BY <1>1 DEF ReleaseTypes, Heads
<1>3. cal'.step = "tag" /\ cal'.tag = cal.tag /\ cal'.head = main' /\ cal' # Absent
  <2> DEFINE c == [cal EXCEPT !.step = "tag", !.head = main']
  <2>1. main' \in Heads
    <3>1. cal.tag \in 0 .. MaxDay
      BY <1>1, ReleaseAssumption DEF ReleaseTypes, CalendarRuns, Days
    <3> QED BY <1>1, <3>1 DEF ReleaseTypes, Heads
  <2>2. c \in CalendarRuns /\ c.step = "tag" /\ c.tag = cal.tag /\ c.head = main'
    BY <1>1, <2>1 DEF ReleaseTypes, CalendarRuns
  <2>3. c # Absent
    BY <2>2, ReleaseAssumption
  <2> HIDE DEF c
  <2> QED BY <1>1, <2>2, <2>3 DEF c
<1>4. /\ Published' = Published /\ Previous' = Previous /\ (Behind' <=> Behind)
      /\ \A t : Promising(t)' <=> Promising(t)
      /\ ~Halfway'
  BY <1>1, <1>2, <1>3 DEF Published, Previous, Tagged, Behind, Promising, SameAssets, Halfway, CalAt
<1>5. /\ Releasing(Previous)' <=> Releasing(Previous)
      /\ CaughtUp' <=> CaughtUp
  BY <1>1, <1>3, <1>4 DEF Releasing, CaughtUp, CalAt
<1>6. ASSUME NEW c \in Changes, Unreleased(c)' PROVE InTime(c)'
  <2>1. /\ Unreleased(c) /\ (Blocked(c)' <=> Blocked(c)) /\ (Spare(c)' <=> Spare(c))
    BY <1>1, <1>4, <1>6 DEF Unreleased, Blocked, Spare
  <2>2. InTime(c) /\ (ToCome(c) => ToCome(c)')
    BY <1>1, <1>2, <1>3, <2>1 DEF Timely, ToCome, CalAt
  <2> QED BY <1>1, <1>4, <1>5, <2>1, <2>2 DEF InTime
<1> QED BY <1>1, <1>2, <1>3, <1>4, <1>5, <1>6 DEF Timely

LEMMA PushTagTimely ==
    ASSUME ReleaseInv, PushTag
    PROVE  Timely'
<1>1. /\ ReleaseTypes /\ InOrder /\ Drafted /\ Timely
      /\ cal # Absent /\ cal.step = "tag" /\ cal \in CalendarRuns
      /\ tags' = [tags EXCEPT ![cal.tag] = cal.head]
      /\ cal' = [cal EXCEPT !.step = "release"]
      /\ UNCHANGED <<today, ran, mergedOn, main, release, latest, job, setbacks>>
  BY DEF ReleaseInv, PushTag, ReleaseTypes
<1>2. /\ cal.tag \in Days /\ cal.tag <= today /\ cal.head \in Heads /\ cal.head # Absent
      /\ cal'.step = "release" /\ cal'.tag = cal.tag /\ cal'.head = cal.head /\ cal' # Absent
  <2>1. cal' \in CalendarRuns
    BY <1>1 DEF CalendarRuns
  <2> QED BY <1>1, <2>1, ReleaseAssumption DEF CalendarRuns, ReleaseTypes
<1>3. /\ Tagged \subseteq Published /\ \A d \in Tagged : d < cal.tag
      /\ Published \subseteq Tagged /\ cal.tag \notin Published
  <2>1. Tagged \subseteq Published /\ \A d \in Tagged : d < cal.tag
    BY <1>1 DEF InOrder, CalAt
  <2>2. Published \subseteq Tagged
    BY <1>1 DEF Drafted, DraftedAt, Published, Tagged
  <2>3. ~(cal.tag < cal.tag)
    BY <1>1, <1>2, DayTypes
  <2> QED BY <2>1, <2>2, <2>3
<1>4. tags'[cal.tag] = cal.head /\ \A d \in Days : d # cal.tag => tags'[d] = tags[d]
  BY <1>1, <1>2 DEF ReleaseTypes
<1>5. Tagged' = Tagged \cup {cal.tag}
  BY <1>2, <1>4 DEF Tagged
<1>6. Previous' = cal.tag
  <2>1. Tagged' \in SUBSET Nat /\ \A d \in Tagged' : d <= cal.tag
    BY <1>1, <1>2, <1>3, <1>5, DayTypes DEF Tagged
  <2>2. Max(Tagged') = cal.tag
    BY <1>5, <2>1, MaxIs
  <2> QED BY <1>5, <2>2 DEF Previous
<1>7. /\ Published' = Published /\ Behind' /\ ~Behind /\ Releasing(Previous)' /\ CaughtUp'
  <2>1. Published' = Published
    BY <1>1 DEF Published
  <2>2. cal.tag # 0
    BY <1>1, <1>2, DayTypes
  <2>3. ~Behind
    BY <1>3, PreviousIs DEF Behind
  <2>4. Releasing(Previous)'
    BY <1>2, <1>6 DEF Releasing, CalAt
  <2> QED BY <1>3, <1>6, <2>1, <2>2, <2>3, <2>4 DEF Behind, CaughtUp
<1>8. ASSUME NEW c \in Changes, Unreleased(c)' PROVE InTime(c)'
  <2>1. Unreleased(c)
    <3>1. \A t \in Published : tags'[t] = tags[t]
      BY <1>3, <1>4 DEF Published
    <3> QED BY <1>1, <1>7, <1>8, <3>1 DEF Unreleased
  <2>2. InTime(c) /\ c \in main.changes /\ (Spare(c)' <=> Spare(c))
    BY <1>1, <2>1 DEF Timely, Unreleased, Spare
  <2>3. Blocked(c)' => Spare(c)
    <3>1. Blocked(c)' => c \notin cal.head.changes
      BY <1>4, <1>6 DEF Blocked
    <3>2. c \notin cal.head.changes => mergedOn[c] = today
      BY <1>1, <2>2 DEF Timely
    <3> QED BY <1>1, <3>1, <3>2, DayTypes DEF Spare
  <2>4. Halfway' => Spare(c)
    <3>1. Halfway' => Halfway
      <4> SUFFICES ASSUME Halfway' PROVE Halfway
        OBVIOUS
      <4>1. cal.tag # today
        BY <1>1, <1>2, <1>4 DEF Halfway
      <4>2. tags[today] = Absent
        BY <1>1, <1>4, <4>1, DayTypes DEF Halfway
      <4> QED BY <1>1, <4>1, <4>2 DEF Halfway
    <3> QED BY <2>2, <3>1 DEF InTime
  <2> QED BY <1>1, <1>7, <2>2, <2>3, <2>4 DEF InTime
<1>9. tags'[today] # Absent =>
         \A c \in main.changes : mergedOn[c] = today \/ c \in tags'[today].changes
  <2>1. CASE cal.tag = today
    BY <1>1, <1>4, <2>1 DEF Timely
  <2>2. CASE cal.tag # today
    BY <1>1, <1>4, <2>2, DayTypes DEF Timely
  <2> QED BY <2>1, <2>2
<1> QED BY <1>1, <1>2, <1>7, <1>8, <1>9 DEF Timely

LEMMA NextDayTimely ==
    ASSUME ReleaseInv, NextDay
    PROVE  Timely'
<1>1. /\ ReleaseTypes /\ InOrder /\ Timely /\ ran /\ cal = Absent
      /\ \A t \in Days : job[t] = Absent
      /\ today' = today + 1 /\ ran' = FALSE
      /\ UNCHANGED <<mergedOn, main, tags, release, latest, cal, job, setbacks>>
      /\ today < MaxDay
  BY DEF ReleaseInv, NextDay
<1>2. /\ today \in Nat /\ setbacks \in Nat /\ today' \in Days /\ main.version \in Nat
      /\ main.version < today'
      /\ \A c \in Changes : mergedOn[c] \in Nat
  <2>1. main.version \in Nat /\ main.version <= today
    BY <1>1, ReleaseAssumption DEF ReleaseTypes, Heads
  <2> QED BY <1>1, <2>1, DayTypes, ReleaseAssumption DEF Days
<1>3. /\ Published' = Published /\ Previous' = Previous /\ (Behind' <=> Behind)
      /\ ~Halfway'
  <2>1. main.version # today + 1
    BY <1>1, <1>2
  <2> QED BY <1>1, <2>1 DEF Published, Previous, Tagged, Behind, Halfway
<1>4. Behind => ~Releasing(Previous) /\ ~CaughtUp
  <2>1. Behind => Previous \in Days
    BY PreviousIs DEF Behind
  <2> QED BY <1>1, <2>1 DEF Releasing, CaughtUp, Promising, CalAt
<1>5. ASSUME NEW c \in Changes, Unreleased(c)' PROVE InTime(c)'
  <2>1. Unreleased(c) /\ (Blocked(c)' <=> Blocked(c)) /\ ~ToCome(c) /\ (Blocked(c) => Behind)
    BY <1>1, <1>3, <1>5 DEF Unreleased, Blocked, ToCome, CalAt
  <2>2. InTime(c)
    BY <1>1, <2>1 DEF Timely
  <2>3. Spare(c)
    BY <1>1, <1>4, <2>1, <2>2 DEF InTime
  <2>4. Blocked(c) => today < mergedOn[c] + setbacks
    BY <1>1, <1>4, <2>1, <2>2 DEF InTime
  <2>5. today' <= mergedOn'[c] + setbacks' + 1 /\ (Blocked(c)' => Spare(c)')
    BY <1>1, <1>2, <2>1, <2>3, <2>4 DEF Spare
  <2> QED BY <1>1, <1>3, <2>5 DEF InTime
<1>6. tags'[today'] = Absent
  <2>1. today' \notin Tagged
    BY <1>1, <1>2, DayTypes
  <2> QED BY <1>1, <1>2, <2>1 DEF Tagged
<1>7. Behind' => setbacks' > 0
  BY <1>1, <1>3, <1>4 DEF Timely
<1> QED BY <1>1, <1>3, <1>5, <1>6, <1>7 DEF Timely

LEMMA CalendarStepTimely ==
    ASSUME ReleaseInv, CalendarStep
    PROVE  Timely'
<1>0. ReleaseTypes /\ Drafted /\ InOrder /\ Timely
  BY DEF ReleaseInv
<1>1. UNCHANGED <<release, latest>>
  BY <1>0, CalendarStepKeeps DEF InOrder, CalAt
<1>2. Published' = Published
  BY <1>1 DEF Published
<1>3. CASE HeadMoved \/ PushRejected \/ CalendarCancelled
  <2>1. /\ UNCHANGED <<today, ran, mergedOn, main, tags>> /\ cal' = Absent
        /\ setbacks' = setbacks + 1
    BY <1>3 DEF HeadMoved, PushRejected, EndsBehind, CalendarCancelled, Setback
  <2> QED BY <1>0, <1>2, <2>1, SetbackPays
<1>4. ASSUME NEW t \in Days, NewJob(t) PROVE
         /\ Promising(t)'
         /\ \A u \in Days : Promising(u) => Promising(u)'
  <2>1. /\ job' = [job EXCEPT ![t] = job'[t]] /\ job'[t] # Absent
        /\ job'[t].step = "view" /\ job'[t].left = Names
    BY <1>0, <1>4, NewJobTypes DEF ReleaseTypes
  <2>2. Promising(t)'
    BY <2>1 DEF Promising
  <2>3. ASSUME NEW u \in Days, u # t, Promising(u) PROVE Promising(u)'
    <3>1. job'[u] = job[u]
      BY <1>0, <2>1, <2>3 DEF ReleaseTypes
    <3> QED BY <1>1, <2>3, <3>1 DEF Promising, SameAssets
  <2> QED BY <2>2, <2>3
<1>5. Behind => Previous \in Days
  BY PreviousIs DEF Behind
<1>6. CASE CallRelease
  <2>1. /\ cal # Absent /\ cal.step = "release" /\ NewJob(cal.tag)
        /\ cal' = [cal EXCEPT !.step = "wait"] /\ cal \in CalendarRuns
        /\ UNCHANGED <<today, ran, mergedOn, main, tags, release, latest, setbacks>>
    BY <1>0, <1>6 DEF CallRelease, ReleaseTypes
  <2>2. cal.tag \in Days /\ cal'.step = "wait" /\ cal'.head = cal.head
    BY <2>1 DEF CalendarRuns
  <2>3. Behind /\ Releasing(Previous) => Releasing(Previous)'
    <3>1. Previous' = Previous
      BY <2>1 DEF Previous, Tagged
    <3> QED BY <1>4, <1>5, <2>1, <2>2, <3>1 DEF Releasing
  <2> QED BY <1>0, <1>2, <2>1, <2>2, <2>3, TimelyStays DEF CalAt
<1>7. CASE EndCalendar
  <2>1. /\ cal # Absent /\ cal.step = "wait" /\ cal' = Absent
        /\ UNCHANGED <<today, ran, mergedOn, main, tags, release, latest, job, setbacks>>
    BY <1>7 DEF EndCalendar
  <2>2. Releasing(Previous) => Releasing(Previous)'
    <3>1. Previous' = Previous /\ (Promising(Previous)' <=> Promising(Previous))
      BY <2>1 DEF Previous, Tagged, Promising, SameAssets
    <3> QED BY <2>1, <3>1 DEF Releasing, CalAt
  <2> QED BY <1>0, <1>2, <2>1, <2>2, TimelyStays DEF CalAt
<1>8. ASSUME NEW t \in Days, Dispatch(t) PROVE Timely'
  <2>1. /\ NewJob(t)
        /\ UNCHANGED <<today, ran, mergedOn, main, tags, release, latest, cal, setbacks>>
    BY <1>8 DEF Dispatch
  <2>2. Behind /\ Releasing(Previous) => Releasing(Previous)'
    <3>1. Previous' = Previous
      BY <2>1 DEF Previous, Tagged
    <3> QED BY <1>4, <1>5, <2>1, <3>1 DEF Releasing, CalAt
  <2> QED BY <1>0, <1>2, <2>1, <2>2, TimelyStays
<1> QED BY <1>3, <1>6, <1>7, <1>8, MergeTimely, StartTimely, PlanTimely, PushCommitTimely,
           PushTagTimely, NextDayTimely DEF CalendarStep

LEMMA ReleaseInvInit == ReleaseInit => ReleaseInv
<1> SUFFICES ASSUME ReleaseInit PROVE ReleaseInv
  OBVIOUS
<1>1. /\ Tagged = {} /\ Published = {} /\ Previous = 0
  BY DEF ReleaseInit, Tagged, Published, Previous
<1>2. ReleaseTypes
  <2>1. /\ 1 \in Days /\ 0 \in 0 .. MaxDay /\ 0 <= 1
    BY ReleaseAssumption DEF Days
  <2>2. [changes |-> {}, version |-> 0] \in Heads
    BY <2>1 DEF Heads
  <2> QED BY <1>1, <2>1, <2>2 DEF ReleaseInit, ReleaseTypes
<1>3. Drafted
  BY DEF ReleaseInit, Drafted, DraftedAt, At
<1>4. InOrder
  BY <1>1 DEF ReleaseInit, InOrder, CalAt, LatestIsNewest
<1>5. Timely
  <2>1. 1 \in Days /\ tags[today] = Absent
    BY ReleaseAssumption DEF ReleaseInit, Days
  <2> QED BY <1>1, <2>1 DEF ReleaseInit, Timely, Behind, Unreleased
<1> QED BY <1>2, <1>3, <1>4, <1>5 DEF ReleaseInv

LEMMA ReleaseInvNext == ReleaseInv /\ [ReleaseNext]_releaseVars => ReleaseInv'
<1> SUFFICES ASSUME ReleaseInv, [ReleaseNext]_releaseVars PROVE ReleaseInv'
  OBVIOUS
<1>0. ReleaseTypes /\ Drafted /\ InOrder /\ Timely
  BY DEF ReleaseInv
<1>1. CASE CalendarStep
  <2>1. ReleaseTypes' /\ Drafted'
    BY <1>0, <1>1, CalendarStepKeeps DEF InOrder, CalAt
  <2> QED BY <1>0, <1>1, <2>1, CalendarStepOrder, CalendarStepTimely DEF ReleaseInv
<1>2. ASSUME NEW t \in Days, RunStep(t) PROVE ReleaseInv'
  BY <1>0, <1>2, RunPublishes, RunStepOrder, RunStepTimely DEF ReleaseInv
<1>3. CASE UNCHANGED releaseVars
  <2>1. ReleaseTypes'
    BY <1>0, <1>3 DEF releaseVars, ReleaseTypes, Tagged
  <2>2. Drafted'
    BY <1>0, <1>3, StaysDrafted DEF releaseVars, Drafted
  <2>3. InOrder'
    BY <1>0, <1>3 DEF releaseVars, InOrder, CalAt, Tagged, Published, LatestIsNewest
  <2>4. Timely'
    <3>0. /\ release' = release /\ tags' = tags /\ cal' = cal /\ job' = job
          /\ Tagged' = Tagged
      BY <1>3 DEF releaseVars, Tagged
    <3>1. Published' = Published
      BY <3>0 DEF Published
    <3>2. Previous' = Previous
      BY <3>0 DEF Previous
    <3>3. Releasing(Previous) => Releasing(Previous)'
      BY <3>0, <3>2 DEF Releasing, CalAt, Promising, SameAssets
    <3> QED BY <1>0, <1>3, <3>1, <3>3, TimelyStays DEF releaseVars
  <2> QED BY <2>1, <2>2, <2>3, <2>4 DEF ReleaseInv
<1> QED BY <1>1, <1>2, <1>3 DEF ReleaseNext, CalendarStep, RunStep

LEMMA ReleaseInvHolds == ReleaseSpec => []ReleaseInv
  BY ReleaseInvInit, ReleaseInvNext, PTL DEF ReleaseSpec

LEMMA ReleaseInvImplies ==
    ReleaseInv => PublishedIsWhole /\ LatestIsNewest /\ ReleasedInTime
<1> SUFFICES ASSUME ReleaseInv PROVE PublishedIsWhole /\ LatestIsNewest /\ ReleasedInTime
  OBVIOUS
<1>1. PublishedIsWhole
  BY DEF ReleaseInv, Drafted, DraftedAt, Published, PublishedIsWhole
<1>2. ReleasedInTime
  <2> SUFFICES ASSUME NEW c \in Changes, mergedOn[c] # 0, today > mergedOn[c] + 1 + setbacks,
                      Unreleased(c)
               PROVE  FALSE
    BY DEF ReleasedInTime, Unreleased
  <2>1. today <= mergedOn[c] + setbacks + 1
    BY DEF ReleaseInv, Timely, InTime
  <2> QED BY <2>1, DayTypes DEF ReleaseInv
<1> QED BY <1>1, <1>2 DEF ReleaseInv, InOrder

\* Whatever drafts and cut uploads interrupted runs of publish.sh have left,
\* what it makes public is all of one build.
THEOREM PublishedWhole == ReleaseSpec => []PublishedIsWhole
  BY ReleaseInvHolds, ReleaseInvImplies, PTL

\* However runs are interrupted and repeated by hand, gh release edit --latest
\* is said last of the newest tag that is public.
THEOREM LatestNewest == ReleaseSpec => []LatestIsNewest
  BY ReleaseInvHolds, ReleaseInvImplies, PTL

\* No number of interrupted runs blocks the days after them: a change is out
\* the day after it was merged, or a day later for each.
THEOREM ReleasedTimely == ReleaseSpec => []ReleasedInTime
  BY ReleaseInvHolds, ReleaseInvImplies, PTL
====
