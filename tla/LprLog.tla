------------------------------- MODULE LprLog -------------------------------
(***************************************************************************)
(* The door-opening log of UniFi Access as find_lpr_user_match reads it:   *)
(* one page of a window's hits, in whatever order the controller returns   *)
(* them.  The log grows as the plate reader's events are published, some   *)
(* of them late (unifi.rs).                                                *)
(***************************************************************************)
EXTENDS LprCorrelation

CONSTANTS
    Kinds,       \* the hits the controller may publish
    Logs,        \* the logs looked at below
    HitTimes,    \* the times they may carry
    Second,      \* the clock units in a second
    PageSize,    \* SYSTEM_LOGS_PER_PAGE
    Paginated    \* whether the controller says how many hits there are

ASSUME PageAssumption ==
    /\ HitTimes \subseteq Int
    /\ Kinds \subseteq Hits(HitTimes)
    /\ Logs \subseteq Seq(Hits(HitTimes))
    /\ Second \in Nat \ {0}
    /\ PageSize \in Nat \ {0}
    /\ Paginated \in BOOLEAN

VARIABLE log     \* the hits published

LogInit == log = <<>>

Publish(hit) == log' = Append(log, hit)

Windows == {w \in [since: HitTimes, until: HitTimes] : w.since < w.until}

\* DateTime::timestamp: the request carries whole seconds.
WholeSecond(a) == (a \div Second) * Second

\* What the controller lists for a window: the bounds it is sent are cut to
\* whole seconds, so what came in after the last whole second of the window
\* is not listed.  The scan checks the times again, against the window itself.
Within(hit, w) ==
    \/ hit.timestamp = Omitted
    \/ hit.timestamp \in WholeSecond(w.since) .. WholeSecond(w.until)

Asked(hits, w) ==
    LET listed[k \in 0 .. Len(hits)] ==
            IF k = 0 THEN <<>>
            ELSE IF Within(hits[k], w) THEN Append(listed[k - 1], hits[k])
            ELSE listed[k - 1]
    IN  listed[Len(hits)]

\* The page that is returned when it lists more than fits.
Page(hits) == IF Len(hits) <= PageSize THEN hits ELSE SubSeq(hits, 1, PageSize)

\* Faulty variant: a full page is taken for the whole log.
LookedUpFromPage(hits, w) == Correlate(Page(Asked(hits, w)), w, FALSE)

\* Without a total a full page counts as truncated.
Truncated(listed) ==
    IF Paginated THEN Len(listed) > PageSize ELSE Len(Page(listed)) >= PageSize

\* find_lpr_user_match.
LookedUp(hits, w) ==
    LET listed == Asked(hits, w) IN
    IF w.until <= w.since THEN NoMatch
    ELSE Correlate(Page(listed), w, Truncated(listed))

-----------------------------------------------------------------------------
(* Properties.                                                             *)

\* Swapping two neighbours, and so any reordering, does not change the
\* verdict on a window.
Swappable(hits, w) ==
    \A k \in 1 .. Len(hits) - 1 :
        LookedUp([hits EXCEPT ![k] = hits[k + 1], ![k + 1] = hits[k]], w) = LookedUp(hits, w)

EntrySide(hit, w) ==
    /\ hit.provider = "LICENSEPLATE" /\ hit.target # "elsewhere"
    /\ hit.timestamp # Omitted => hit.timestamp > w.since /\ hit.timestamp <= w.until
    /\ hit.direction # "exit" \/ hit.target = "omitted" \/ hit.timestamp = Omitted

\* The part of a window the lookup can answer for.
AskedPart(w) == [since |-> w.since, until |-> WholeSecond(w.until)]

\* If the verdict is a match, every event of the plate reader up to the last
\* whole second of the window that could be an entry is complete and of the
\* vehicle matched, let in or not, and none was left out of the page.
SoleEntry(hits, w) ==
    LET c == LookedUp(hits, w) IN
    c.kind = "Match" =>
        LET entries == {x \in {hits[k] : k \in DOMAIN hits} : EntrySide(x, AskedPart(w))} IN
        /\ Len(Asked(hits, w)) <= PageSize
        /\ \A hit \in entries :
              /\ hit.target = "gate" /\ hit.direction = "entry"
              /\ hit.timestamp # Omitted
              /\ hit.plate = c.identity[2]
              /\ hit.result \in {"ACCESS", "BLOCKED"}
              /\ hit.result = "ACCESS" => hit.actor = c.identity[1]
        /\ \E hit \in entries :
              hit.result = "ACCESS" /\ hit.timestamp = c.timestamp

EveryLogSwappable == \A hits \in Logs, w \in Windows : Swappable(hits, w)
EveryLogSole == \A hits \in Logs, w \in Windows : SoleEntry(hits, w)
=============================================================================
