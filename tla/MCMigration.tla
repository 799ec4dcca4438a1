---------------------------- MODULE MCMigration ----------------------------
(***************************************************************************)
(* The service and one command on the databases of every earlier release,  *)
(* and of opens of the present one that died on the way.                   *)
(***************************************************************************)
EXTENDS Migration

CONSTANTS service, command, user, visitor

MCReleases ==
    {cs \in SUBSET Columns :
        /\ "gate.tid" \in cs <=> "gate.tag_key" \notin cs
        /\ "passage.user" \in cs \/ "passage.actor" \in cs}
=============================================================================
