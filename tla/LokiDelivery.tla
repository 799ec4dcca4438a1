---------------------------- MODULE LokiDelivery ----------------------------
(***************************************************************************)
(* Log records on their way to Loki: the threads that log, each dropping   *)
(* its JournalAndLokiWriter in steps, the bounded channel, and loki_worker *)
(* with its batch, its retries and its last push at shutdown (logging.rs). *)
(*                                                                         *)
(* The journal and Loki are external.  Loki keeps one entry for a record   *)
(* that arrives twice with the same timestamp, so that its log is a set.   *)
(* The counters are atomics that only the metrics read.                    *)
(***************************************************************************)
EXTENDS Integers, Sequences, FiniteSets

CONSTANTS
    Writers,      \* threads that log
    Capacity,     \* LOKI_QUEUE_CAPACITY
    BatchSize,    \* LOKI_BATCH_SIZE
    MaxRetained,  \* LOKI_MAX_RETAINED_EVENTS
    MaxRecords,   \* bound on the records of one thread
    MaxClock      \* bound on the system clock, which may be stepped

ASSUME SizeAssumption ==
    /\ IsFiniteSet(Writers)
    /\ {Capacity, BatchSize, MaxRetained} \subseteq Nat \ {0}
    /\ BatchSize <= MaxRetained
    /\ {MaxRecords, MaxClock} \subseteq Nat

Records == [by: Writers, n: 1 .. MaxRecords]

VARIABLES
    stage,     \* writer -> where its drop is
    written,   \* writer -> how many records it has begun
    journal,   \* the records journald took
    channel,   \* the records in the mpsc channel
    batch,     \* the records the worker retains, stamped
    worker,    \* where loki_worker is
    clock,     \* the last timestamp next_timestamp_ns gave
    stopping,  \* the shutdown signal was sent
    loki,      \* the entries Loki holds
    depth, enqueued, dropped, sent   \* queue_depth and the event totals

counters == <<depth, enqueued, dropped, sent>>
vars == <<stage, written, journal, channel, batch, worker, clock, stopping,
          loki, depth, enqueued, dropped, sent>>

Stages == {"idle", "written", "counted", "queued", "refused", "released"}

\* With a record over the limit in hand, not yet counted as dropped, or
\* counted so but still part of the depth.
OverStates == {"over", "over dropped", "drain over", "drain over dropped"}

\* With the whole batch counted as sent or dropped, but still in the depth.
SettledStates == {"sent", "last settled"}

WorkerStates == {"start", "select", "push", "backoff", "drain", "last push", "returned"}
                \cup OverStates \cup SettledStates
Entries == [record: Records, timestamp: Nat]

TypeOK ==
    /\ stage \in [Writers -> Stages]
    /\ written \in [Writers -> 0 .. MaxRecords]
    /\ journal \subseteq Records
    /\ channel \in Seq(Records)
    /\ batch \in Seq(Entries)
    /\ worker \in WorkerStates
    /\ clock \in Nat
    /\ stopping \in BOOLEAN
    /\ loki \subseteq Entries
    /\ {depth, enqueued, dropped, sent} \subseteq Nat

Init ==
    /\ stage = [w \in Writers |-> "idle"]
    /\ written = [w \in Writers |-> 0]
    /\ journal = {} /\ channel = <<>> /\ batch = <<>> /\ loki = {}
    /\ worker = "start" /\ clock = 0 /\ stopping = FALSE
    /\ depth = 0 /\ enqueued = 0 /\ dropped = 0 /\ sent = 0

-----------------------------------------------------------------------------
(* A thread that logs.                                                     *)

Current(w) == [by |-> w, n |-> written[w]]

Goto(w, s) == stage' = [stage EXCEPT ![w] = s]

\* JournalAndLokiWriter::write, taken by the journal.
Journal(w) ==
    /\ stage[w] = "idle" /\ written[w] < MaxRecords
    /\ written' = [written EXCEPT ![w] = @ + 1]
    /\ journal' = journal \cup {[by |-> w, n |-> written[w] + 1]}
    /\ Goto(w, "written")
    /\ UNCHANGED <<channel, batch, worker, clock, stopping, loki, counters>>

\* journal_failed, or an empty line: nothing is sent.
JournalFails(w) ==
    /\ stage[w] = "idle" /\ written[w] < MaxRecords
    /\ written' = [written EXCEPT ![w] = @ + 1]
    /\ UNCHANGED <<stage, journal, channel, batch, worker, clock, stopping,
                   loki, counters>>

\* A line that is no UTF-8.
Unsendable(w) ==
    /\ stage[w] = "written"
    /\ Goto(w, "idle")
    /\ dropped' = dropped + 1
    /\ UNCHANGED <<written, journal, channel, batch, worker, clock, stopping,
                   loki, depth, enqueued, sent>>

Count(w) ==
    /\ stage[w] = "written"
    /\ Goto(w, "counted")
    /\ depth' = depth + 1
    /\ UNCHANGED <<written, journal, channel, batch, worker, clock, stopping,
                   loki, enqueued, dropped, sent>>

\* try_send fails when the channel is full or its receiver gone.
Offer(w) ==
    /\ stage[w] = "counted"
    /\ IF Len(channel) < Capacity /\ worker # "returned"
       THEN Goto(w, "queued") /\ channel' = Append(channel, Current(w))
       ELSE Goto(w, "refused") /\ UNCHANGED channel
    /\ UNCHANGED <<written, journal, batch, worker, clock, stopping, loki, counters>>

Accepted(w) ==
    /\ stage[w] = "queued"
    /\ Goto(w, "idle")
    /\ enqueued' = enqueued + 1
    /\ UNCHANGED <<written, journal, channel, batch, worker, clock, stopping,
                   loki, depth, dropped, sent>>

\* Faulty variant: a refused record stays counted.
RefusedKept(w) ==
    /\ stage[w] = "refused"
    /\ Goto(w, "released")
    /\ UNCHANGED <<written, journal, channel, batch, worker, clock, stopping,
                   loki, counters>>

\* A record that is not taken leaves the depth, and is then counted.
Refused(w) ==
    /\ stage[w] = "refused"
    /\ Goto(w, "released")
    /\ depth' = depth - 1
    /\ UNCHANGED <<written, journal, channel, batch, worker, clock, stopping,
                   loki, enqueued, dropped, sent>>

CountRefused(w) ==
    /\ stage[w] = "released"
    /\ Goto(w, "idle")
    /\ dropped' = dropped + 1
    /\ UNCHANGED <<written, journal, channel, batch, worker, clock, stopping,
                   loki, depth, enqueued, sent>>

-----------------------------------------------------------------------------
(* loki_worker.                                                            *)

threads == <<stage, written, journal>>

\* The HTTP client is built, or it cannot be and the worker returns.
StartWorker ==
    /\ worker = "start"
    /\ worker' \in {"select", "returned"}
    /\ UNCHANGED <<threads, channel, batch, clock, stopping, loki, counters>>

NextTimestamp(now) == IF now > clock THEN now ELSE clock + 1

\* Faulty variant: the system's clock as it is.
RetainUnclocked(limit, now, kept, over) ==
    IF Len(batch) < limit
    THEN /\ batch' = Append(batch, [record |-> Head(channel), timestamp |-> now])
         /\ worker' = kept
         /\ UNCHANGED clock
    ELSE /\ worker' = over
         /\ UNCHANGED <<batch, clock>>

\* retain_record, on the record just received, up to where it drops one.
Retain(limit, now, kept, over) ==
    IF Len(batch) < limit
    THEN /\ batch' = Append(batch, [record |-> Head(channel),
                                    timestamp |-> NextTimestamp(now)])
         /\ clock' = NextTimestamp(now)
         /\ worker' = kept
    ELSE /\ worker' = over
         /\ UNCHANGED <<batch, clock>>

\* Faulty variant: a record over the limit vanishes without being counted.
DropOverUncounted(from, to) ==
    /\ worker = from
    /\ worker' = to
    /\ UNCHANGED <<threads, channel, batch, clock, stopping, loki, counters>>

\* The rest of it, over the limit: two counters, one after the other.
DropOver(from, to) ==
    /\ worker = from
    /\ worker' = to
    /\ dropped' = dropped + 1
    /\ UNCHANGED <<threads, channel, batch, clock, stopping, loki, depth,
                   enqueued, sent>>

ReleaseOver(from, to) ==
    /\ worker = from
    /\ worker' = to
    /\ depth' = depth - 1
    /\ UNCHANGED <<threads, channel, batch, clock, stopping, loki, enqueued,
                   dropped, sent>>

\* Where the loop goes with n records in the batch.
AfterRecord(n) == IF n >= BatchSize THEN "push" ELSE "select"

Receive ==
    /\ worker = "select" /\ channel # <<>>
    /\ channel' = Tail(channel)
    /\ \E now \in 0 .. MaxClock :
          Retain(MaxRetained, now, AfterRecord(Len(batch) + 1), "over")
    /\ UNCHANGED <<threads, stopping, loki, counters>>

\* Faulty variant: the timer pushes full batches only.
FlushFull ==
    /\ worker = "select" /\ Len(batch) >= BatchSize
    /\ worker' = "push"
    /\ UNCHANGED <<threads, channel, batch, clock, stopping, loki, counters>>

Flush ==
    /\ worker = "select" /\ batch # <<>>
    /\ worker' = "push"
    /\ UNCHANGED <<threads, channel, batch, clock, stopping, loki, counters>>

EntriesOf(s) == {s[k] : k \in DOMAIN s}

\* push_batch, and record_push_attempt up to the sent total, on success.
Push(from, to) ==
    /\ worker = from
    /\ worker' = to
    /\ loki' = loki \cup EntriesOf(batch)
    /\ sent' = sent + Len(batch)
    /\ UNCHANGED <<threads, channel, batch, clock, stopping, depth, enqueued,
                   dropped>>

PushSucceeds == Push("push", "sent")

\* The rest of record_push_attempt, and batch.clear() or the worker's end.
ReleaseBatch(from, to) ==
    /\ worker = from
    /\ worker' = to
    /\ depth' = depth - Len(batch)
    /\ batch' = <<>>
    /\ UNCHANGED <<threads, channel, clock, stopping, loki, enqueued, dropped,
                   sent>>

\* The request is lost, or its answer after Loki has stored the batch.
LokiAfterFailure == loki' = loki \/ loki' = loki \cup EntriesOf(batch)

PushFails ==
    /\ worker = "push"
    /\ worker' = "backoff"
    /\ LokiAfterFailure
    /\ UNCHANGED <<threads, channel, batch, clock, stopping, counters>>

BackoffEnds ==
    /\ worker = "backoff"
    /\ worker' = "select"
    /\ UNCHANGED <<threads, channel, batch, clock, stopping, loki, counters>>

\* LoggingHandle::shutdown, and main's end.
RequestStop ==
    /\ ~stopping
    /\ stopping' = TRUE
    /\ UNCHANGED <<threads, channel, batch, worker, clock, loki, counters>>

\* The shutdown branch of either select!.
NoticeStop ==
    /\ stopping /\ worker \in {"select", "backoff"}
    /\ worker' = "drain"
    /\ UNCHANGED <<threads, channel, batch, clock, stopping, loki, counters>>

FinalLimit == IF Len(batch) > BatchSize THEN Len(batch) ELSE BatchSize

\* finish_loki_worker takes what the channel still holds.
Drain ==
    /\ worker = "drain"
    /\ IF channel # <<>>
       THEN /\ channel' = Tail(channel)
            /\ \E now \in 0 .. MaxClock :
                  Retain(FinalLimit, now, "drain", "drain over")
       ELSE /\ worker' = IF batch = <<>> THEN "returned" ELSE "last push"
            /\ UNCHANGED <<channel, batch, clock>>
    /\ UNCHANGED <<threads, stopping, loki, counters>>

LastPushSucceeds == Push("last push", "last settled")

LastPushFails ==
    /\ worker = "last push"
    /\ worker' = "last settled"
    /\ LokiAfterFailure
    /\ dropped' = dropped + Len(batch)
    /\ UNCHANGED <<threads, channel, batch, clock, stopping, depth, enqueued, sent>>

\* What is left of retain_record and record_push_attempt: the counters of a
\* record over the limit, and the second one of a batch.
SettleOver ==
    \/ DropOver("over", "over dropped")
    \/ ReleaseOver("over dropped", AfterRecord(Len(batch)))
    \/ DropOver("drain over", "drain over dropped")
    \/ ReleaseOver("drain over dropped", "drain")

SettleBatch ==
    ReleaseBatch("sent", "select") \/ ReleaseBatch("last settled", "returned")

Write(w) == \/ Journal(w) \/ JournalFails(w) \/ Unsendable(w) \/ Count(w)
            \/ Offer(w) \/ Accepted(w) \/ Refused(w) \/ CountRefused(w)

Work == \/ StartWorker \/ Receive \/ Flush \/ PushSucceeds \/ PushFails
        \/ BackoffEnds \/ NoticeStop \/ Drain \/ LastPushSucceeds \/ LastPushFails
        \/ SettleOver \/ SettleBatch

Next == (\E w \in Writers : Write(w)) \/ Work \/ RequestStop

Spec == Init /\ [][Next]_vars

\* The worker's task is scheduled and Loki answers now and then.
FairSpec == Spec /\ WF_vars(Work) /\ SF_vars(PushSucceeds)

-----------------------------------------------------------------------------
(* Properties.                                                             *)

At(s) == {w \in Writers : stage[w] = s}

\* The record over the limit the worker is dropping, if any.
InHand == IF worker \in OverStates THEN 1 ELSE 0

\* queue_depth is what is under way, whichever thread is between which two
\* of its steps: a thread that has counted its record and has not yet taken
\* it back, the channel, the record the worker is dropping and the retained
\* batch.  It never goes below zero.
DepthIsUnderWay ==
    depth = Cardinality(At("counted") \cup At("refused"))
            + Len(channel) + Len(batch) + InHand

\* What is counted as sent or dropped and still in the depth.
CountedTwice ==
    IF worker \in SettledStates THEN Len(batch)
    ELSE IF worker \in {"over dropped", "drain over dropped"} THEN 1 ELSE 0

\* Every record the journal took is sent, dropped or under way, and counted
\* as one of these but while it moves from one counter to the next: a refused
\* record is in no counter between two atomics, a batch that is settled and a
\* record over the limit are in two.  What metrics read at another moment adds
\* up, and nothing is lost or counted twice for good.
EveryRecordAccounted ==
    Cardinality(journal) + CountedTwice =
        sent + dropped + depth + Cardinality(At("written") \cup At("released"))

InTransit(r) ==
    \/ \E k \in DOMAIN channel : channel[k] = r
    \/ \E k \in DOMAIN batch : batch[k].record = r

\* Retries are idempotent and keep the order: Loki holds no record twice,
\* no two at one timestamp, and those of one thread in the order it wrote
\* them, although answers are lost, batches are sent again with more records
\* and the system clock is stepped.
LokiLogIsOrdered ==
    \A x, y \in loki :
        /\ x.record = y.record <=> x.timestamp = y.timestamp
        /\ x.record.by = y.record.by /\ x.record.n < y.record.n =>
              x.timestamp < y.timestamp

\* "journald still retains them" (the help of events_dropped): nothing is
\* queued or delivered that the journal did not take.
DeliveredIsJournaled ==
    \A r \in Records : InTransit(r) \/ (\E x \in loki : x.record = r) => r \in journal

\* While the service runs and Loki answers now and then, no record waits
\* for ever, a lone one in a batch that never fills included.
RecordsSettle ==
    \A r \in Records : InTransit(r) ~> (~InTransit(r) \/ worker = "returned")
=============================================================================
