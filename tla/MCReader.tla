------------------------------ MODULE MCReader ------------------------------
(***************************************************************************)
(* Two presets, two antennas, one change of the reader's configuration;    *)
(* four events through a channel for two.                                  *)
(***************************************************************************)
EXTENDS Reader

CONSTANTS p1, p2

State(profile, preset) ==
    [interface |-> "IoT", status |-> "running", profile |-> profile, preset |-> preset]

MCStates ==
    {State("inventory", p1), [State("inventory", p2) EXCEPT !.status = "armed"],
     State("inventory", Transient), State("other", p1)}

On(port, fastId) == [port |-> port, fastId |-> fastId]

MCSettings ==
    {[tidHex |-> "enabled", antennas |-> <<On(2, "other"), On(1, "enabled")>>],
     [tidHex |-> "enabled", antennas |-> <<On(2, "enabled"), On(1, "other")>>],
     [tidHex |-> "absent", antennas |-> Absent],
     [tidHex |-> "other", antennas |-> <<On(1, "enabled")>>]}
=============================================================================
