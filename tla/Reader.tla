------------------------------- MODULE Reader -------------------------------
(***************************************************************************)
(* The service and its reader: run() first has the active preset checked   *)
(* (ReaderPreset), then starts the task that keeps the event stream up and *)
(* takes events from its channel (ReaderStream).  When the process stops,  *)
(* the connection, the line buffer and the channel go with it, and systemd *)
(* starts it over from the checks.                                         *)
(***************************************************************************)
EXTENDS ReaderStream

\* The constants of ReaderPreset.
CONSTANTS Ids, Antennas, Watched, States, Settings, Transient, Absent, MaxEdits

ASSUME ReaderAssumption ==
    /\ Watched \in Antennas
    /\ {Transient, Absent} \cap Ids = {}
    /\ \A s \in States :
          /\ s.interface \in {"IoT", "other"}
          /\ s.status \in {"running", "armed", "idle", "other", "absent"}
          /\ s.profile \in {"inventory", "other", "absent"}
          /\ s.preset \in Ids \cup {Transient}
    /\ \A p \in Settings :
          /\ p.tidHex \in {"enabled", "other", "absent"}
          /\ p.antennas # Absent =>
                /\ p.antennas \in
                      Seq([port: Antennas, fastId: {"enabled", "other", "absent"}])
                /\ \A j, k \in DOMAIN p.antennas :
                      p.antennas[j].port = p.antennas[k].port => j = k

VARIABLES state, presets, service, named, during, edits

Preset == INSTANCE ReaderPreset

presetVars == <<state, presets, service, named, during, edits>>

readerVars == <<vars, presetVars>>

ReaderInit == Init /\ Preset!Init

\* The loop of run() and the stream's task.
Streaming(A) == service = "streaming" /\ A /\ UNCHANGED presetVars

\* The checks before it, and whoever configures the reader.
Checking(A) == A /\ UNCHANGED vars

\* The process dies or is stopped; of the events that have come, those not
\* yet handed on are lost, and counting starts again behind them.
ProcessEnds ==
    /\ Preset!Stop
    /\ link' = "dialing" /\ buffer' = <<>> /\ channel' = <<>>
    /\ handled' = whole
    /\ age' = StaleAfter + 1
    /\ UNCHANGED <<misread, reader, whole>>

ReaderNext ==
    \/ Streaming(DialSucceeds) \/ Streaming(DialFails)
    \/ Streaming(OpenStream) \/ Streaming(RequestFails)
    \/ Streaming(ReceiveChunk) \/ Streaming(TakeLine) \/ Streaming(StreamFails)
    \/ Streaming(Retry) \/ Streaming(HandleEvent) \/ Streaming(Tick)
    \/ Checking(Preset!Begin) \/ Checking(Preset!QueryStatus)
    \/ Checking(Preset!FetchPreset) \/ Checking(Preset!RequestFails)
    \/ Checking(Preset!Configure)
    \/ ProcessEnds

ReaderSpec == ReaderInit /\ [][ReaderNext]_readerVars

\* systemd restarts the service (Restart=on-failure), connection attempts end
\* after 10 seconds and the backoff after 30, and the process's clock runs.
\* Nothing ends a wait for the headers of the response.
FairSpec ==
    /\ ReaderSpec
    /\ WF_readerVars(Checking(Preset!Begin))
    /\ WF_readerVars(Streaming(DialSucceeds) \/ Streaming(DialFails))
    /\ WF_readerVars(Streaming(Retry))
    /\ WF_readerVars(Streaming(Tick))

\* The reader answers now and then, also two requests in a row.
Answers ==
    /\ SF_readerVars(Checking(Preset!QueryStatus))
    /\ SF_readerVars(Checking(Preset!FetchPreset))
    /\ SF_readerVars(Streaming(DialSucceeds))
    /\ SF_readerVars(Streaming(OpenStream))

-----------------------------------------------------------------------------
(* Properties.                                                             *)

StreamsCheckedPreset == Preset!StreamsCheckedPreset

\* From some moment on the service is up and without its stream: then in the
\* end /healthz says so, also of a reader that accepts connections and never
\* answers.
LossIsReported ==
    <>[](service = "streaming" /\ link # "streaming") => <>[]~ReaderOk

\* As long as the active preset does not turn TIDs off and the reader answers
\* now and then, the service comes to stream it, and comes back to it whatever
\* breaks: requests, connections or the process.
SuitablePresetIsStreamed ==
    Answers /\ <>[]Preset!Suitable => []<>(link = "streaming")
=============================================================================
