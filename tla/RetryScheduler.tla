--------------------------- MODULE RetryScheduler ---------------------------
(***************************************************************************)
(* Delayed LPR lookups: once a second run() lists the pending passages and *)
(* looks the due ones up again, inline in the loop that handles the        *)
(* reader's events (main.rs, store.rs).                                    *)
(*                                                                         *)
(* What a lookup does to a passage is in LprMatching; here it settles it   *)
(* or leaves it pending.  The reader's clock agrees with the process's.    *)
(***************************************************************************)
EXTENDS Integers, Sequences, FiniteSets

CONSTANTS
    Passages,     \* passage ids
    Delay,        \* DISCOVERY_LPR_RETRY_DELAY
    Interval,     \* DISCOVERY_LPR_RETRY_INTERVAL
    MaxRetries,   \* DISCOVERY_LPR_MAX_RETRIES
    Horizon,      \* DISCOVERY_LPR_RETRY_HORIZON
    PassTimeout,  \* DISCOVERY_LPR_RETRY_PASS_TIMEOUT
    BatchLimit,   \* DISCOVERY_LPR_RETRY_BATCH
    MaxTime, MaxRestarts,   \* bounds
    None

\* What holds of the constants of main.rs.
ASSUME RetryAssumption ==
    /\ Passages \subseteq Nat /\ IsFiniteSet(Passages)
    /\ None \notin Nat /\ None \notin Seq(Passages)
    /\ {Delay, Interval, MaxRetries, Horizon, PassTimeout, BatchLimit} \subseteq Nat \ {0}
    /\ {MaxTime, MaxRestarts} \subseteq Nat
    /\ Interval <= Delay
    /\ Delay + (MaxRetries - 1) * Interval <= Horizon

VARIABLES
    now,
    lastSeen,    \* discovery_passages.last_seen_ms, or None
    pending,     \* the passages with status pending
    retries,     \* discovery_retry_attempts
    tickDue,     \* timeout_check has a tick to give
    pass,        \* the rows of the pass under way still to be visited, or None
    passBegan,
    looking,     \* the passage whose lookup is awaited, or None
    restarts,
    tries,       \* lookups since the passage was last seen
    once,        \* the passages seen once
    smooth,      \* a pass was run to its end in every second so far
    crowded      \* the list has been cut to BatchLimit

retryVars == <<now, lastSeen, pending, retries, tickDue, pass, passBegan, looking,
               restarts, tries, once, smooth, crowded>>
store == <<lastSeen, pending, tries, once>>

RetryInit ==
    /\ now = 0 /\ passBegan = 0 /\ restarts = 0
    /\ lastSeen = [p \in Passages |-> None]
    /\ pending = {} /\ once = {}
    /\ retries = <<>> /\ pass = None /\ looking = None
    /\ tickDue = TRUE   \* an interval's first tick is immediate
    /\ tries = [p \in Passages |-> 0]
    /\ smooth = TRUE /\ crowded = FALSE

-----------------------------------------------------------------------------
\* handle_event sees the passage's tag, and may settle the passage itself.
Sight(p) ==
    /\ pass = None
    /\ lastSeen[p] = None \/ p \in pending
    /\ lastSeen' = [lastSeen EXCEPT ![p] = now]
    /\ pending' \in {pending \cup {p}, pending \ {p}}
    /\ tries' = [tries EXCEPT ![p] = 0]
    /\ once' = IF lastSeen[p] = None THEN once \cup {p} ELSE once \ {p}
    /\ UNCHANGED <<now, retries, tickDue, pass, passBegan, looking, restarts,
                   smooth, crowded>>

\* pending_discovery_passages without its LIMIT.
Listed ==
    {p \in pending : lastSeen[p] <= now - Delay /\ lastSeen[p] >= now - Horizon}

\* ORDER BY last_seen_ms, id: the one way to list the rows of S in order.
Ordered(S) ==
    {rows \in [1 .. Cardinality(S) -> S] :
        /\ \A p \in S : \E k \in DOMAIN rows : rows[k] = p
        /\ \A j, k \in DOMAIN rows : j < k =>
              \/ lastSeen[rows[j]] < lastSeen[rows[k]]
              \/ lastSeen[rows[j]] = lastSeen[rows[k]] /\ rows[j] < rows[k]}

FirstOf(s, n) == SubSeq(s, 1, IF Len(s) < n THEN Len(s) ELSE n)

\* Faulty variant: attempts are forgotten when the next one may be due.
RememberedForInterval ==
    {p \in DOMAIN retries : now - retries[p].last_attempt < Interval}

\* Faulty variant: attempts are remembered beyond the horizon.
RememberedTooLong ==
    {p \in DOMAIN retries : now - retries[p].last_attempt <= Horizon}

\* retain, on discovery_retry_attempts.
Remembered ==
    {p \in DOMAIN retries : now - retries[p].last_attempt < Horizon}

BeginPass ==
    /\ pass = None /\ tickDue
    /\ tickDue' = FALSE
    /\ \E rows \in Ordered(Listed) : pass' = FirstOf(rows, BatchLimit)
    /\ passBegan' = now
    /\ retries' = [p \in Remembered |-> retries[p]]
    /\ crowded' = (crowded \/ Cardinality(Listed) > BatchLimit)
    /\ UNCHANGED <<now, store, looking, restarts, smooth>>

RetryDue(p) ==
    p \in DOMAIN retries =>
        /\ retries[p].attempts < MaxRetries
        /\ now - retries[p].last_attempt >= Interval

Attempts(p) == IF p \in DOMAIN retries THEN retries[p].attempts + 1 ELSE 1

\* One turn of the loop over the rows, up to the lookup.
VisitRow ==
    /\ pass \notin {None, <<>>} /\ looking = None
    /\ LET p == Head(pass) IN
       /\ pass' = Tail(pass)
       /\ IF RetryDue(p)
          THEN /\ retries' = [q \in DOMAIN retries \cup {p} |->
                     IF q = p THEN [attempts |-> Attempts(p), last_attempt |-> now]
                     ELSE retries[q]]
               /\ looking' = p
               /\ tries' = [tries EXCEPT ![p] = @ + 1]
          ELSE UNCHANGED <<retries, looking, tries>>
    /\ UNCHANGED <<now, lastSeen, pending, once, tickDue, passBegan, restarts,
                   smooth, crowded>>

\* match_discovery_passage returns: no event yet, an error, or a verdict.
LookupReturns ==
    /\ looking # None
    /\ looking' = None
    /\ pending' \in {pending, pending \ {looking}}
    /\ UNCHANGED <<now, lastSeen, retries, tickDue, pass, passBegan, restarts,
                   tries, once, smooth, crowded>>

EndPass ==
    /\ pass = <<>> /\ looking = None
    /\ pass' = None
    /\ UNCHANGED <<now, store, retries, tickDue, passBegan, looking, restarts,
                   smooth, crowded>>

\* tokio::time::timeout drops the pass with the lookup it awaits.
CutPass ==
    /\ looking # None /\ now - passBegan >= PassTimeout
    /\ pass' = None /\ looking' = None
    /\ UNCHANGED <<now, store, retries, tickDue, passBegan, restarts, smooth, crowded>>

\* Another second; the tick of one that was missed is skipped.
NextSecond ==
    /\ now < MaxTime
    /\ looking # None => now - passBegan < PassTimeout
    /\ now' = now + 1
    /\ tickDue' = TRUE
    /\ smooth' = (smooth /\ ~tickDue /\ pass = None)
    /\ UNCHANGED <<store, retries, pass, passBegan, looking, restarts, crowded>>

\* The service is restarted: what is kept in memory is gone.
Restart ==
    /\ restarts < MaxRestarts
    /\ restarts' = restarts + 1
    /\ retries' = <<>> /\ pass' = None /\ looking' = None
    /\ tickDue' = TRUE
    /\ UNCHANGED <<now, store, passBegan, smooth, crowded>>

RetryNext == (\E p \in Passages : Sight(p)) \/ BeginPass \/ VisitRow
        \/ LookupReturns \/ EndPass \/ CutPass \/ NextSecond \/ Restart

RetrySpec == RetryInit /\ [][RetryNext]_retryVars

-----------------------------------------------------------------------------
(* Properties.                                                             *)

\* UniFi is not asked about one passage without end: between two sightings
\* there are at most MaxRetries lookups for each run of the service, even
\* though attempts are forgotten in time.
LookupsAreBounded ==
    \A p \in Passages : tries[p] <= MaxRetries * (restarts + 1)

Expired(p) ==
    p \in pending /\ now > lastSeen[p] + Horizon /\ pass = None

\* As long as the loop is not held up and the list fits into a batch, a
\* passage that is given up was looked up again: MaxRetries times if it was
\* seen once, and at least once after the last sighting although retries
\* between sightings, or a restart, had used up its attempts.
RetriedBeforeExpiry ==
    smooth /\ ~crowded =>
        \A p \in Passages : Expired(p) =>
            tries[p] >= (IF p \in once THEN MaxRetries ELSE 1)
=============================================================================
