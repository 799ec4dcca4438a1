---------------------------- MODULE ReaderStream ----------------------------
(***************************************************************************)
(* The reader's event stream: stream_events with its reconnections, the    *)
(* line buffer of stream_once, the channel to run()'s loop, and the        *)
(* activity /healthz judges the reader by (impinj.rs, main.rs, web.rs).    *)
(*                                                                         *)
(* The reader is external.  It numbers its events and sends each as two    *)
(* pieces, the second one with the newline; a chunk of the HTTP body holds *)
(* any run of pieces.  It may send lines that are no event, or start one   *)
(* that never ends.  The waits of the backoff are not measured.            *)
(***************************************************************************)
EXTENDS Integers, Sequences, FiniteSets

CONSTANTS
    ChannelSize,  \* 4096 in run()
    MaxLine,      \* MAX_STREAM_LINE_BYTES, in pieces
    StaleAfter,   \* FCR_GATE_HEALTH_STALE_MS
    MaxEvents     \* bound on the events the reader sends

ASSUME StreamAssumption ==
    /\ {ChannelSize, MaxLine, StaleAfter} \subseteq Nat \ {0}
    /\ MaxEvents \in Nat

VARIABLES
    link,      \* where stream_events is
    buffer,    \* stream_once's bytes
    channel,   \* the mpsc channel
    handled,   \* how many events handle_event was given
    misread,   \* an event was given out of order or twice
    age,       \* since last_activity_ms, up to StaleAfter + 1
    reader,    \* the reader: its next event, and what is under way
    whole      \* events that arrived whole on one connection

vars == <<link, buffer, channel, handled, misread, age, reader, whole>>

Links == {"dialing", "requested", "streaming", "backoff", "stopped"}

Init ==
    /\ link = "dialing"
    /\ buffer = <<>> /\ channel = <<>>
    /\ handled = 0 /\ misread = FALSE
    /\ age = StaleAfter + 1   \* there is no activity yet
    /\ reader = [next |-> 1, within |-> "none"]
    /\ whole = 0

-----------------------------------------------------------------------------
(* The reader.                                                             *)

Piece(n, last) == [event |-> n, newline |-> last]

\* The piece the reader may send next, and what it is doing then.
NextPieces(r) ==
    IF r.within = "endless" THEN {<<Piece(0, FALSE), r>>}
    ELSE IF r.within = "event"
         THEN {<<Piece(r.next, TRUE), [next |-> r.next + 1, within |-> "none"]>>}
    ELSE {<<Piece(0, TRUE), r>>, <<Piece(0, FALSE), [r EXCEPT !.within = "endless"]>>}
         \cup IF r.next > MaxEvents THEN {}
              ELSE {<<Piece(r.next, FALSE), [r EXCEPT !.within = "event"]>>}

\* A chunk of one or two pieces, and the reader after it.
Chunks(r) ==
    LET one == {<<<<x[1]>>, x[2]>> : x \in NextPieces(r)}
    IN  one \cup UNION {{<<Append(c[1], x[1]), x[2]>> : x \in NextPieces(c[2])} : c \in one}

-----------------------------------------------------------------------------
(* stream_events.                                                          *)

HasLine == \E k \in DOMAIN buffer : buffer[k].newline

\* The TCP connection is made; or refused, or not made within 10 seconds.
DialSucceeds ==
    /\ link = "dialing"
    /\ link' = "requested"
    /\ UNCHANGED <<buffer, channel, handled, misread, age, reader, whole>>

DialFails ==
    /\ link = "dialing"
    /\ link' = "backoff"
    /\ UNCHANGED <<buffer, channel, handled, misread, age, reader, whole>>

\* Faulty variant: the line begun on the last connection is kept.
OpenStreamKeepingBuffer ==
    /\ link = "requested"
    /\ link' = "streaming"
    /\ age' = 0
    /\ reader' = [reader EXCEPT !.within = "none"]
    /\ UNCHANGED <<buffer, channel, handled, misread, whole>>

\* The response headers arrive: mark_connected.
OpenStream ==
    /\ link = "requested"
    /\ link' = "streaming"
    /\ buffer' = <<>>
    /\ age' = 0
    /\ reader' = [reader EXCEPT !.within = "none"]
    /\ UNCHANGED <<channel, handled, misread, whole>>

RequestFails ==
    /\ link = "requested"
    /\ link' = "backoff"
    /\ UNCHANGED <<buffer, channel, handled, misread, age, reader, whole>>

\* mark_activity, the buffer grows; too long a line ends the connection.
ReceiveChunk ==
    /\ link = "streaming" /\ ~HasLine
    /\ \E c \in Chunks(reader) :
          /\ buffer' = buffer \o c[1]
          /\ reader' = c[2]
    /\ age' = 0
    /\ whole' = reader'.next - 1
    /\ link' = IF Len(buffer') > MaxLine /\ ~HasLine' THEN "backoff" ELSE "streaming"
    /\ UNCHANGED <<channel, handled, misread>>

\* The first line of the buffer and what follows it.
LineEnd ==
    CHOOSE k \in DOMAIN buffer :
        buffer[k].newline /\ \A j \in 1 .. k - 1 : ~buffer[j].newline

Line == SubSeq(buffer, 1, LineEnd)

IsEvent(line) ==
    Len(line) = 2 /\ line[1].event = line[2].event /\ line[1].event # 0

\* One turn of the loop over the lines.  The send waits while the channel
\* is full.
TakeLine ==
    /\ link = "streaming" /\ HasLine
    /\ IsEvent(Line) => Len(channel) < ChannelSize
    /\ buffer' = SubSeq(buffer, LineEnd + 1, Len(buffer))
    /\ channel' = IF IsEvent(Line) THEN Append(channel, Line[1].event) ELSE channel
    /\ UNCHANGED <<link, handled, misread, age, reader, whole>>

\* The stream is closed, fails, or is silent for STREAM_STALL_TIMEOUT.
StreamFails ==
    /\ link = "streaming" /\ ~HasLine
    /\ link' = "backoff"
    /\ UNCHANGED <<buffer, channel, handled, misread, age, reader, whole>>

\* Faulty variant: an attempt to connect counts as activity.
RetryActive ==
    /\ link = "backoff"
    /\ link' = "dialing"
    /\ age' = 0
    /\ UNCHANGED <<buffer, channel, handled, misread, reader, whole>>

\* Faulty variant: the task ends with the connection.
RetryNever ==
    /\ link = "backoff"
    /\ link' = "stopped"
    /\ UNCHANGED <<buffer, channel, handled, misread, age, reader, whole>>

\* The backoff is over.
Retry ==
    /\ link = "backoff"
    /\ link' = "dialing"
    /\ UNCHANGED <<buffer, channel, handled, misread, age, reader, whole>>

\* run() hands an event on.
HandleEvent ==
    /\ channel # <<>>
    /\ channel' = Tail(channel)
    /\ handled' = Head(channel)
    /\ misread' = (misread \/ Head(channel) # handled + 1)
    /\ UNCHANGED <<link, buffer, age, reader, whole>>

Tick ==
    /\ age <= StaleAfter
    /\ age' = age + 1
    /\ UNCHANGED <<link, buffer, channel, handled, misread, reader, whole>>

Next ==
    \/ DialSucceeds \/ DialFails \/ OpenStream \/ RequestFails
    \/ ReceiveChunk \/ TakeLine \/ StreamFails \/ Retry \/ HandleEvent \/ Tick

Spec == Init /\ [][Next]_vars

-----------------------------------------------------------------------------
(* Properties.                                                             *)

\* What /healthz says of the reader.
ReaderOk == age <= StaleAfter

\* Every event that arrived whole on one connection is handed on once and in
\* order, wherever the chunks were cut and the connections broke, however
\* slow the loop is, malformed lines and half an event in between.
WholeLinesAreHandled ==
    /\ ~misread
    /\ \A k \in DOMAIN channel : channel[k] = handled + k
    /\ handled + Len(channel)
         + (IF link = "streaming"
            THEN Cardinality({k \in DOMAIN buffer :
                     buffer[k].newline /\ buffer[k].event # 0}) ELSE 0)
       = whole
=============================================================================
