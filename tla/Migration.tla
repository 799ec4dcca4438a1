----------------------------- MODULE Migration -----------------------------
(***************************************************************************)
(* Store::open on a database of an earlier release: every statement of the *)
(* migrations commits by itself, the service and an administrator's        *)
(* command may open the file at the same time, and either may die between  *)
(* two statements (store.rs).                                              *)
(*                                                                         *)
(* One matched passage and one assignment stand for the rows the earlier   *)
(* release wrote, with the user's id in unifi_user_id.                     *)
(***************************************************************************)
EXTENDS Integers, Sequences, FiniteSets

CONSTANTS
    Service,      \* the service's process
    Commands,     \* processes of administrator commands
    LegacyUser,   \* what unifi_user_id holds
    NewActors,    \* ids the present release writes
    Releases,     \* the sets of columns earlier releases left behind
    MaxOpens,     \* bound on the opens of a process
    None

Processes == {Service} \cup Commands

Columns == {"gate.tid", "gate.tag_key", "gate.mode", "passage.user", "passage.type",
            "passage.actor", "owner.type", "owner.actor"}

Required == Columns \ {"gate.tid", "passage.user"}

\* gate_events names the tag under one of its two names.
ASSUME MigrationAssumption ==
    /\ Service \notin Commands
    /\ None \notin NewActors \cup {LegacyUser}
    /\ MaxOpens \in Nat \ {0}
    /\ \A cs \in Releases :
          /\ cs \subseteq Columns
          /\ "gate.tid" \in cs <=> "gate.tag_key" \notin cs
          /\ "passage.user" \in cs \/ "passage.actor" \in cs

VARIABLES
    columns,   \* what PRAGMA table_info tells
    passage,   \* correlation_status and lpr_actor_id of the old passage
    owner,     \* lpr_actor_id of the old assignment
    at,        \* process -> the step of open it is in
    opens      \* process -> how often it has called open

vars == <<columns, passage, owner, at, opens>>

\* The calls of open after CREATE TABLE IF NOT EXISTS, in order.
Steps == <<"gate.tag_key", "gate.tid", "gate.mode", "passage.type",
           "passage.actor", "fill passages", "owner.type", "owner.actor",
           "fill owners">>

\* A process is closed, open, or at a step, either about to look for the
\* column or having found it absent (present, for the column to rename).
Closed == [step |-> 0, act |-> FALSE]
Open == [step |-> Len(Steps) + 1, act |-> FALSE]
AtStep(k) == [step |-> k, act |-> FALSE]

Init ==
    /\ columns \in Releases
    /\ passage = [status |-> "matched",
                  actor |-> IF "passage.user" \in columns THEN None ELSE LegacyUser]
    /\ owner = None
    /\ at = [p \in Processes |-> Closed]
    /\ opens = [p \in Processes |-> 0]

-----------------------------------------------------------------------------
Goto(p, s) == at' = [at EXCEPT ![p] = s]

Running(p) == at[p].step \in DOMAIN Steps

Step(p) == Steps[at[p].step]

Begin(p) ==
    /\ at[p] = Closed
    /\ p = Service \/ opens[p] < MaxOpens
    /\ Goto(p, AtStep(1))
    /\ opens' = [opens EXCEPT ![p] = IF @ < MaxOpens THEN @ + 1 ELSE @]
    /\ UNCHANGED <<columns, passage, owner>>

\* Faulty variant: rows are filled in only by the open that adds the column.
AfterPresentFilled(k) ==
    IF Steps[k] = "gate.tag_key" \/ Steps[k] = "passage.actor" THEN k + 2 ELSE k + 1

\* Where open goes on when a column is there: past the renaming, if it is
\* tag_key.
AfterPresent(k) == IF Steps[k] = "gate.tag_key" THEN k + 2 ELSE k + 1

\* Faulty variant: the column is added without a look.
LookAway(p) ==
    /\ Running(p) /\ ~at[p].act /\ Step(p) \in Columns
    /\ Goto(p, IF Step(p) = "gate.tag_key" THEN AtStep(at[p].step + 1)
               ELSE [at[p] EXCEPT !.act = TRUE])
    /\ UNCHANGED <<columns, passage, owner, opens>>

\* table_has_column.  tag_key is never added, tid is renamed if it is there.
Look(p) ==
    /\ Running(p) /\ ~at[p].act /\ Step(p) \in Columns
    /\ Goto(p, IF Step(p) = "gate.tid"
               THEN IF "gate.tid" \in columns THEN [at[p] EXCEPT !.act = TRUE]
                    ELSE AtStep(at[p].step + 1)
               ELSE IF Step(p) \in columns THEN AtStep(AfterPresent(at[p].step))
               ELSE IF Step(p) = "gate.tag_key" THEN AtStep(at[p].step + 1)
               ELSE [at[p] EXCEPT !.act = TRUE])
    /\ UNCHANGED <<columns, passage, owner, opens>>

\* ALTER TABLE.  It fails, and open with it, when another process has been
\* faster.
Alter(p) ==
    /\ Running(p) /\ at[p].act
    /\ IF Step(p) = "gate.tid"
       THEN IF "gate.tid" \in columns
            THEN /\ columns' = (columns \ {"gate.tid"}) \cup {"gate.tag_key"}
                 /\ Goto(p, AtStep(at[p].step + 1))
            ELSE Goto(p, Closed) /\ UNCHANGED columns
       ELSE IF Step(p) \notin columns
            THEN /\ columns' = columns \cup {Step(p)}
                 /\ Goto(p, AtStep(at[p].step + 1))
            ELSE Goto(p, Closed) /\ UNCHANGED columns
    /\ UNCHANGED <<passage, owner, opens>>

\* Faulty variant: the passages are filled in whatever they hold.
FillOver(p) ==
    /\ Running(p)
    /\ \/ /\ Step(p) = "fill passages"
          /\ passage' = IF "passage.user" \in columns
                        THEN [passage EXCEPT !.actor = LegacyUser] ELSE passage
          /\ UNCHANGED owner
       \/ /\ Step(p) = "fill owners"
          /\ owner' = IF owner = None THEN LegacyUser ELSE owner
          /\ UNCHANGED passage
    /\ Goto(p, AtStep(at[p].step + 1))
    /\ UNCHANGED <<columns, opens>>

\* The two UPDATE statements.
Fill(p) ==
    /\ Running(p)
    /\ \/ /\ Step(p) = "fill passages"
          /\ passage' = IF "passage.user" \in columns /\ passage.actor = None
                        THEN [passage EXCEPT !.actor = LegacyUser] ELSE passage
          /\ UNCHANGED owner
       \/ /\ Step(p) = "fill owners"
          /\ owner' = IF owner = None THEN LegacyUser ELSE owner
          /\ UNCHANGED passage
    /\ Goto(p, AtStep(at[p].step + 1))
    /\ UNCHANGED <<columns, opens>>

\* A statement meets a lock for longer than busy_timeout, or the process is
\* done, or dies.
Leave(p) ==
    /\ at[p] # Closed /\ opens[p] < MaxOpens
    /\ Goto(p, Closed)
    /\ UNCHANGED <<columns, passage, owner, opens>>

\* What an open store does to the two rows: mark_discovery_passage_ambiguous;
\* a match, of the same passage or one that came after a reset; an assignment.
Ambiguate ==
    /\ passage' = [status |-> "ambiguous", actor |-> None]
    /\ UNCHANGED owner

RecordMatch(a) ==
    /\ passage' = [status |-> "matched", actor |-> a]
    /\ UNCHANGED owner

Activate(a) == owner' = a /\ UNCHANGED passage

UseStore(p) ==
    /\ at[p] = Open
    /\ Ambiguate \/ \E a \in NewActors : RecordMatch(a) \/ Activate(a)
    /\ UNCHANGED <<columns, at, opens>>

Proceed(p) == Begin(p) \/ Look(p) \/ Alter(p) \/ Fill(p)

Next == \E p \in Processes : Proceed(p) \/ Leave(p) \/ UseStore(p)

Spec == Init /\ [][Next]_vars

\* systemd starts the service again until it runs.
FairSpec == Spec /\ WF_vars(Proceed(Service))

-----------------------------------------------------------------------------
(* Properties.                                                             *)

\* Whoever has opened the store finds every column, and the old rows name an
\* actor, whatever another open was doing and wherever one has died.
OpenStoreIsMigrated ==
    \A p \in Processes : at[p] = Open =>
        /\ Required \subseteq columns
        /\ passage.status = "matched" => passage.actor # None
        /\ owner # None

\* A migration never replaces an actor that is on file: while no store is
\* open the ids the present release has written stay.
NewerActorsAreKept ==
    [][(\A p \in Processes : at[p] # Open) =>
          /\ passage.actor # None => passage'.actor = passage.actor
          /\ owner # None => owner' = owner]_vars

\* The service comes up in the end: an open that lost a race to add a column
\* finds it the next time.
ServiceOpens == <>(at[Service] = Open)
=============================================================================
