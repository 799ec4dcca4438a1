----------------------------- MODULE Ownership ------------------------------
(***************************************************************************)
(* What learned_tag_ownership promises about one tag's assignment, whoever *)
(* acts on it and in whatever order: it is created active, it can only be  *)
(* suspended while active, revocation is final ("Permanently revoke a      *)
(* learned tag assignment", main.rs), only a suspended assignment can be   *)
(* cleared for relearning, the vehicle it names never changes while it     *)
(* exists, and only an active assignment's lease is renewed.               *)
(***************************************************************************)
CONSTANTS Tags, Identities, Actors, NoOwner

VARIABLE owner

Assignment == [identity: Identities, assigned_by: Actors,
               status: {"active", "suspended", "revoked"}, live: BOOLEAN]

Has(t, statuses) == owner[t] # NoOwner /\ owner[t].status \in statuses

OwnershipInit == owner = [t \in Tags |-> NoOwner]

Assign(t) ==
    /\ owner[t] = NoOwner
    /\ \E i \in Identities, a \in Actors :
          owner' = [owner EXCEPT ![t] =
              [identity |-> i, assigned_by |-> a, status |-> "active",
               live |-> TRUE]]

Suspend(t) ==
    /\ Has(t, {"active"})
    /\ owner' = [owner EXCEPT ![t].status = "suspended"]

Revoke(t) ==
    /\ Has(t, {"active", "suspended"})
    /\ owner' = [owner EXCEPT ![t].status = "revoked"]

Forget(t) ==
    /\ Has(t, {"suspended"})
    /\ owner' = [owner EXCEPT ![t] = NoOwner]

Renew(t) ==
    /\ Has(t, {"active"})
    /\ owner' = [owner EXCEPT ![t].live = TRUE]

Lapse(t) ==
    /\ owner[t] # NoOwner
    /\ owner' = [owner EXCEPT ![t].live = FALSE]

OwnershipNext ==
    \E t \in Tags :
        Assign(t) \/ Suspend(t) \/ Revoke(t) \/ Forget(t) \/ Renew(t) \/ Lapse(t)

OwnershipSpec == OwnershipInit /\ [][OwnershipNext]_owner
=============================================================================
