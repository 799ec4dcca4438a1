---------------------------- MODULE LprMatching ----------------------------
(***************************************************************************)
(* match_discovery_passage up to the verdict on a passage: the window of a *)
(* passage, the LPR log of UniFi Access, whose events may be published     *)
(* late, and discovery_lpr_cache, the one reply that is kept for all tags  *)
(* (main.rs).  The store is PassageLog, the log LprLog.                    *)
(*                                                                         *)
(* The reader's clock agrees with the process's here; Intake is about what *)
(* happens when reports wait.  An identity is an (actor, plate) pair.      *)
(***************************************************************************)
EXTENDS PassageLog, LprLog

CONSTANTS
    Window,      \* RFID_DISCOVERY_MATCH_WINDOW_MS
    Poll,        \* RFID_DISCOVERY_POLL_MS
    RetryDelay,  \* DISCOVERY_LPR_RETRY_DELAY
    RetryHorizon,\* DISCOVERY_LPR_RETRY_HORIZON
    MaxHits      \* bound on the events published

\* Config::from_env: the poll interval does not exceed the window.
ASSUME WindowAssumption ==
    /\ Window \in Nat \ {0}
    /\ Poll \in Nat \ {0}
    /\ Poll <= Window
    /\ {RetryDelay, RetryHorizon, MaxHits} \subseteq Nat
    /\ Identities = Actors \X Plates /\ HitTimes \subseteq EventTimes

VARIABLES
    now,         \* the clock
    attempted,   \* discovery_last_attempts: tag key -> time, or None
    looking,     \* the passage being matched, or None
    cache        \* discovery_lpr_cache

matchingVars == <<vars, log, now, attempted, looking, cache>>

MatchingInit ==
    /\ Init /\ LogInit
    /\ now = 0
    /\ attempted = [t \in Tags |-> None]
    /\ looking = None
    /\ cache = None

-----------------------------------------------------------------------------
Earlier(a, b) == IF a < b THEN a ELSE b

\* The locals of match_discovery_passage for a passage and the sighting, or
\* the row, it is called with.
Look(p, started, last) ==
    [passage |-> p, at |-> now, observed |-> last,
     since |-> started - Window, until |-> Earlier(last + Window, now)]

Distance(a, b) == IF a > b THEN a - b ELSE b - a

\* Faulty variant: any young reply will do, wherever its event lies.
CacheServesAnyEvent ==
    /\ looking # None /\ cache # None
    /\ looking.at - cache.fetched < Poll
    /\ Distance(looking.observed, cache.observed) <= Poll

\* cached_correlation is some reply.
CacheServes ==
    /\ looking # None /\ cache # None
    /\ looking.at - cache.fetched < Poll
    /\ Distance(looking.observed, cache.observed) <= Poll
    /\ cache.reply.kind = "Match" => InWindow(cache.reply.timestamp, looking)

\* maybe_learn_discovered_tag.
Sight(t) ==
    /\ looking = None
    /\ attempted[t] # None => now - attempted[t] >= Poll
    /\ attempted' = [attempted EXCEPT ![t] = now]
    /\ RecordSeen(t, now)
    /\ looking' =
          IF seen'.long_dwell \/ seen'.correlation_status = "ambiguous" THEN None
          ELSE Look(seen'.passage_id, tags'[t].session_started_ms, now)
    /\ UNCHANGED <<log, now, cache>>

\* retry_pending_discovery_matches takes up passage p, with its own times.
Retry(p) ==
    /\ looking = None
    /\ p \in DOMAIN passages
    /\ passages[p].correlation_status = "pending" /\ ~passages[p].stationary
    /\ passages[p].last_seen_ms \in now - RetryHorizon .. now - RetryDelay
    /\ looking' = Look(p, passages[p].started_at_ms, passages[p].last_seen_ms)
    /\ UNCHANGED <<vars, log, now, attempted, cache>>

\* The verdict a reply leads to, and what the store makes of it.  What it
\* means for the tag's assignment is in Learning.
Settle(reply) ==
    /\ CASE reply.kind = "NoMatch" -> UNCHANGED vars
         [] reply.kind = "Ambiguous" -> MarkAmbiguous(looking.passage)
         [] reply.kind = "Match" ->
              IF looking.passage \in DOMAIN passages
              THEN RecordMatch(looking.passage, reply.identity, reply.timestamp)
              ELSE UNCHANGED vars   \* an error: the passage is gone
    /\ looking' = None
    /\ UNCHANGED <<log, now, attempted>>

SettleFromCache == CacheServes /\ Settle(cache.reply) /\ UNCHANGED cache

\* The awaited find_lpr_user_match answers.
SettleFromUniFi ==
    /\ looking # None /\ ~CacheServes
    /\ LET reply == LookedUp(log, looking) IN
       /\ Settle(reply)
       /\ cache' = [fetched |-> looking.at, observed |-> looking.observed,
                    reply |-> reply]

\* It fails, or the retry pass is cut off while it waits.
LookupFails ==
    /\ looking # None /\ ~CacheServes
    /\ looking' = None
    /\ UNCHANGED <<vars, log, now, attempted, cache>>

\* The process dies and is started again.
Restart ==
    /\ attempted' = [t \in Tags |-> None]
    /\ cache' = None /\ looking' = None
    /\ UNCHANGED <<vars, log, now>>

\* A cached reply takes no time, so that nothing happens meanwhile.
EventPublished ==
    /\ ~CacheServes
    /\ Len(log) < MaxHits
    /\ \E hit \in Kinds : hit.timestamp <= now /\ Publish(hit)
    /\ UNCHANGED <<vars, now, attempted, looking, cache>>

Tick ==
    /\ ~CacheServes
    /\ now < MaxTime
    /\ now' = now + 1
    /\ UNCHANGED <<vars, log, attempted, looking, cache>>

MatchingNext ==
    \/ \E t \in Tags : Sight(t)
    \/ \E p \in PassageIds : Retry(p)
    \/ SettleFromCache \/ SettleFromUniFi \/ LookupFails
    \/ Restart \/ EventPublished \/ Tick

MatchingSpec == MatchingInit /\ [][MatchingNext]_matchingVars

-----------------------------------------------------------------------------
(* Properties.                                                             *)

\* The verdict does not depend on the order the controller lists the events
\* in, although the scan returns early and keeps running sets: neither that
\* of the lookup under way nor of any other.
OrderDoesNotMatter ==
    (looking # None /\ ~CacheServes => Swappable(log, looking)) /\ EveryLogSwappable

\* "A passage is matched only when its time window contains one successful
\* entry-side plate identity", "Exit-side and directionless events fail
\* closed" (docs/gateway-services.md), in the lookup under way and any other.
\* The code keeps it up to the last whole second of the window: the request
\* cuts until to seconds, and an entry in the rest of it goes unseen.
MatchIsSoleEntry ==
    (looking # None /\ ~CacheServes => SoleEntry(log, looking)) /\ EveryLogSole

\* A matched passage names a vehicle that was let in by the entry side
\* within the passage's own window, although the reply may have been
\* fetched for another tag's and the event published late.
MatchedVehicleCameBy ==
    \A p \in DOMAIN passages : passages[p].correlation_status = "matched" =>
        /\ passages[p].lpr_event_ms > passages[p].started_at_ms - Window
        /\ passages[p].lpr_event_ms <= passages[p].last_seen_ms + Window
        /\ \E k \in DOMAIN log :
              /\ log[k].target = "gate" /\ log[k].direction = "entry"
              /\ log[k].result = "ACCESS"
              /\ <<log[k].actor, log[k].plate>> = passages[p].identity
              /\ log[k].timestamp = passages[p].lpr_event_ms

\* One event at the gate is one vote for a tag: no two passages of a tag are
\* matched by the same one, as long as two windows fit into the gap.  With
\* the defaults they do (10 s and 30 s); from_env does not ask for it.
OneVotePerEvent ==
    2 * Window <= Gap + 1 =>
        \A p, q \in DOMAIN passages :
            /\ p # q /\ passages[p].tag_key = passages[q].tag_key
            /\ passages[p].correlation_status = "matched"
            /\ passages[q].correlation_status = "matched"
            => passages[p].lpr_event_ms # passages[q].lpr_event_ms
=============================================================================
