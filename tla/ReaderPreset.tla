---------------------------- MODULE ReaderPreset ----------------------------
(***************************************************************************)
(* The beginning of run(): require_inventory_preset asks the reader which  *)
(* preset is active, then for that preset's settings, and the service runs *)
(* only on an inventory preset that does not turn TIDs off (impinj.rs).    *)
(*                                                                         *)
(* The reader and whoever configures it are external; they may act between *)
(* the two requests and while the service runs.  A setting the reader      *)
(* omits is "absent" and has the reader's default.                         *)
(***************************************************************************)
EXTENDS Integers, Sequences, FiniteSets

CONSTANTS
    Ids,         \* preset ids
    Antennas,    \* antenna ports
    Watched,     \* IMPINJ_ANTENNA_PORT
    States,      \* what the reader may say of itself
    Settings,    \* the settings presets may have
    Transient,   \* an active preset without an id
    Absent,      \* a setting, or a preset, that is not there
    MaxEdits     \* bound on the changes of the reader's configuration

VARIABLES
    state,     \* what GET /status returns
    presets,   \* id -> settings, or Absent
    service,   \* where run() is
    named,     \* the preset the first answer named
    during,    \* <<state, presets>> of every moment of the checks
    edits

vars == <<state, presets, service, named, during, edits>>

Init ==
    /\ state \in States
    /\ presets \in [Ids -> Settings \cup {Absent}]
    /\ service = "stopped" /\ named = Absent
    /\ during = {} /\ edits = 0

-----------------------------------------------------------------------------
(* The checks.                                                             *)

\* Faulty variant: the profile is not looked at.
ActiveAnyProfile(s) ==
    s.interface = "IoT" /\ s.status \in {"running", "armed"} /\ s.profile # "absent"

\* active_inventory_preset does not fail.
ActiveInventory(s) ==
    /\ s.interface = "IoT"
    /\ s.status \in {"running", "armed"}
    /\ s.profile = "inventory"

\* Faulty variant: the first antenna is taken for the watched one.
VerifiedFirstAntenna(p) ==
    /\ p.tidHex # "other"
    /\ p.antennas # Absent => p.antennas # <<>> /\ p.antennas[1].fastId # "other"

\* antennas.iter().find: the first entry for the watched antenna is the kth.
FirstWatched(antennas, k) ==
    antennas[k].port = Watched /\ \A j \in 1 .. k - 1 : antennas[j].port # Watched

\* Faulty variant: what the reader omits counts as turned off.
VerifiedExplicit(p) ==
    /\ p.tidHex = "enabled"
    /\ p.antennas # Absent
    /\ \E k \in DOMAIN p.antennas :
          FirstWatched(p.antennas, k) /\ p.antennas[k].fastId = "enabled"

\* verify_tid_reporting does not fail.
Verified(p) ==
    /\ p.tidHex # "other"
    /\ p.antennas # Absent =>
          \E k \in DOMAIN p.antennas :
             FirstWatched(p.antennas, k) /\ p.antennas[k].fastId # "other"

-----------------------------------------------------------------------------
(* run().                                                                  *)

Now == <<state, presets>>

\* systemd starts the service, again after every failure.
Begin ==
    /\ service = "stopped"
    /\ service' = "status"
    /\ named' = Absent
    /\ during' = {Now}
    /\ UNCHANGED <<state, presets, edits>>

\* The first request is answered.
QueryStatus ==
    /\ service = "status"
    /\ service' = IF ~ActiveInventory(state) THEN "stopped"
                  ELSE IF state.preset = Transient THEN "streaming" ELSE "preset"
    /\ IF service' = "preset" THEN named' = state.preset /\ UNCHANGED during
                              ELSE named' = Absent /\ during' = {}
    /\ UNCHANGED <<state, presets, edits>>

\* The second one; a preset that is gone is an error.
FetchPreset ==
    /\ service = "preset"
    /\ service' = IF presets[named] # Absent /\ Verified(presets[named])
                  THEN "streaming" ELSE "stopped"
    /\ named' = Absent /\ during' = {}
    /\ UNCHANGED <<state, presets, edits>>

RequestFails ==
    /\ service \in {"status", "preset"}
    /\ service' = "stopped"
    /\ named' = Absent /\ during' = {}
    /\ UNCHANGED <<state, presets, edits>>

\* The service fails for another reason.
Stop ==
    /\ service = "streaming"
    /\ service' = "stopped"
    /\ UNCHANGED <<state, presets, named, during, edits>>

\* Somebody starts another preset, or edits one.
Configure ==
    /\ edits < MaxEdits
    /\ edits' = edits + 1
    /\ \/ state' \in States /\ UNCHANGED presets
       \/ /\ \E i \in Ids, p \in Settings \cup {Absent} :
                presets' = [presets EXCEPT ![i] = p]
          /\ UNCHANGED state
    /\ during' = IF during = {} THEN {} ELSE during \cup {Now'}
    /\ UNCHANGED <<service, named>>

Next == Begin \/ QueryStatus \/ FetchPreset \/ RequestFails \/ Stop \/ Configure

Spec == Init /\ [][Next]_vars

-----------------------------------------------------------------------------
(* Properties.                                                             *)

\* The settings keep TIDs from being reported on the watched antenna: TIDs
\* are turned off, or FastID is, or the antenna is not among those set up.
TurnsTidOff(p) ==
    \/ p.tidHex = "other"
    \/ /\ p.antennas # Absent
       /\ \A k \in DOMAIN p.antennas :
             p.antennas[k].port = Watched => p.antennas[k].fastId = "other"

Starts == service \in {"status", "preset"} /\ service' = "streaming"

\* The service streams only what it has checked, although the check is two
\* requests: at one moment since it began an inventory preset was active,
\* and that same preset, when it has a name, did not turn TIDs off at one.
StreamsCheckedPreset ==
    [][Starts =>
          \E x, y \in during :
             /\ x[1].interface = "IoT" /\ x[1].status \in {"running", "armed"}
             /\ x[1].profile = "inventory"
             /\ x[1].preset # Transient =>
                   y[2][x[1].preset] # Absent /\ ~TurnsTidOff(y[2][x[1].preset])]_vars

\* "omitted keys mean the reader default and only log a warning"
\* (docs/gateway-services.md): the active preset, if it has a name, does not
\* turn TIDs off.
Suitable ==
    /\ ActiveInventory(state)
    /\ state.preset = Transient \/
          (presets[state.preset] # Absent /\ ~TurnsTidOff(presets[state.preset]))
=============================================================================
