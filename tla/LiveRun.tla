-------------------------------- MODULE LiveRun --------------------------------
(***************************************************************************)
(* One run of the command "agent" (agent/cli.py): the main thread resolves  *)
(* the agent, starts the API server (insurance_backend/server.py), holds    *)
(* the session (agent/elevenlabs.py) and turns its record into an exit      *)
(* status (agent/run.py).  Beside it run the thread of the ElevenLabs SDK,  *)
(* which opens the microphone, receives and ends with the conversation; the *)
(* thread of the audio library, which calls the SDK with what the           *)
(* microphone hears and, when sending that fails, ends the session itself;  *)
(* and uvicorn's thread.  The person at the terminal may press Ctrl+C at    *)
(* any moment: the exception is raised wherever the main thread is.         *)
(***************************************************************************)
EXTENDS Naturals, Sequences

CONSTANTS
  IdTexts,        \* the texts given as agent ids
  EmptyText,      \* the empty one
  WellFormedIds,  \* the texts that match _AGENT_ID
  Registries,     \* what agents.json may hold
  MaxHangUps      \* a bound on the times Ctrl+C is pressed

ASSUME LiveRunAssumption ==
  /\ WellFormedIds \subseteq IdTexts \ {EmptyText}
  /\ MaxHangUps \in Nat

VARIABLES
  main,      \* where the main thread is
  agent,     \* the resolved agent id, as an optional value
  server,    \* uvicorn: its thread and whether it was asked to exit
  client,    \* LocalApi's connection pool: "none", "open" or "closed"
  sdk,       \* where the SDK's thread is
  service,   \* what the conversation object knows: id, stop flag, ended event
  guard,     \* _GuardedAudio: started and stopped
  mic,       \* the inner audio interface: "off" or "on"
  todo,      \* todo[t]: what thread t has left of ending the session
  ended_by,  \* the local "stopped" of session: end() was entered
  record,    \* conversation_id and stop, as the main thread knows them
  exit,      \* the exit status, as an optional value
  hangups,   \* where the main thread was, and whether audio ran, at each Ctrl+C
  slips,     \* whether stopping the audio ever raised
  stops      \* history: stops[t], how often thread t called the inner stop

liveVars == <<main, agent, server, client, sdk, service, guard, mic, todo, ended_by,
              record, exit, hangups, slips, stops>>
sdkVars == <<sdk, service, guard, mic, todo, slips, stops>>
ownVars == <<agent, server, client, ended_by, record, exit, hangups>>

-----------------------------------------------------------------------------
None == << >>
Some(x) == <<x>>

\* A mistake: any text is taken for an agent id.
resolution_unchecked(text) == Some(text)

resolution(text) == IF text \in WellFormedIds THEN Some(text) ELSE None

\* agents.json must list one agent whose config is a file of agent_configs.
from_registry(registry) ==
  IF registry.kind = "agents" /\ Len(registry.entries) = 1 /\ registry.entries[1].config_safe
    THEN resolution(registry.entries[1].id)
    ELSE None

\* The flag goes before the environment, which goes before agents.json; a source
\* that is there and malformed is not passed over.  An empty flag is there, an
\* empty variable of the environment is not.
resolve_agent_id(registry, flag, env) ==
  IF flag # None THEN resolution(flag[1])
  ELSE IF env \notin {None, Some(EmptyText)} THEN resolution(env[1])
  ELSE from_registry(registry)

Optional(S) == {None} \cup {Some(x) : x \in S}

\* The threads that may end the session: the main one, the SDK's, and the one that
\* the microphone calls back on.
Threads == {"main", "sdk", "audio"}

\* A mistake: the flag is set when the inner audio has stopped.
audio_stop_late == <<"check", "stop", "claim">>

\* What a thread does to stop the audio: the steps of _GuardedAudio.stop.
audio_stop == <<"check", "claim", "stop">>

\* And to end the session: the SDK's end_session stops the audio before it sets its
\* stop flag and calls back.
end_session == audio_stop \o <<"mark">>

\* end() ends the session and stops the audio for itself; a second one is empty.
EndFor(done) == IF done THEN << >> ELSE end_session \o audio_stop

\* A mistake: a session without an id is no failure.
exit_code_lenient(ended) == IF ended.stop = "failed" THEN 1 ELSE 0

exit_code(ended) == IF ~ ended.connected \/ ended.stop = "failed" THEN 1 ELSE 0

LiveInit ==
  /\ main = "resolving"
  /\ agent = None
  /\ server = [thread |-> "none", should_exit |-> FALSE]
  /\ client = "none"
  /\ sdk = "none"
  /\ service = [id |-> FALSE, should_stop |-> FALSE, ended |-> FALSE]
  /\ guard = [started |-> FALSE, stopped |-> FALSE]
  /\ mic = "off"
  /\ todo = [t \in Threads |-> << >>]
  /\ ended_by = FALSE
  /\ record = [connected |-> FALSE, stop |-> "none"]
  /\ exit = None
  /\ hangups = << >>
  /\ slips = FALSE
  /\ stops = [t \in Threads |-> 0]

-----------------------------------------------------------------------------
\* The main thread, before and after the session.

Exit(code) == main' = "exited" /\ exit' = Some(code)

\* The status of a process that an uncaught KeyboardInterrupt ends.
SIGINT == 130

ResolveAgent ==
  /\ main = "resolving"
  /\ \E flag, env \in Optional(IdTexts), registry \in Registries :
       LET found == resolve_agent_id(registry, flag, env) IN
         /\ agent' = found
         /\ IF found = None THEN Exit(1) ELSE main' = "preparing" /\ exit' = exit
  /\ UNCHANGED <<server, client, sdkVars, ended_by, record, hangups>>

\* Without PyAudio there is no audio interface.
AudioMissing ==
  /\ main = "preparing"
  /\ Exit(1)
  /\ UNCHANGED <<agent, server, client, sdkVars, ended_by, record, hangups>>

StartServer ==
  /\ main = "preparing"
  /\ main' = "booting"
  /\ server' = [server EXCEPT !.thread = "binding"]
  /\ UNCHANGED <<agent, client, sdkVars, ended_by, record, exit, hangups>>

\* start_server sees a bound port, and LocalApi opens its client.
ServerStarted ==
  /\ main = "booting"
  /\ server.thread = "bound"
  /\ main' = "starting"
  /\ client' = "open"
  /\ UNCHANGED <<agent, server, sdkVars, ended_by, record, exit, hangups>>

\* Five seconds pass: start_server raises, and nothing tells the thread to stop.
ServerDeadline ==
  /\ main = "booting"
  /\ Exit(1)
  /\ UNCHANGED <<agent, server, client, sdkVars, ended_by, record, hangups>>

\* The with statement is left: the client is closed and the server asked to exit.
LeaveRun ==
  /\ main = "leaving"
  /\ main' = "stopping"
  /\ client' = "closed"
  /\ server' = [server EXCEPT !.should_exit = TRUE]
  /\ UNCHANGED <<agent, sdkVars, ended_by, record, exit, hangups>>

\* What the status is: that of the record, unless an exception unwinds the run.
Status == IF record.stop = "uncaught" THEN SIGINT ELSE exit_code(record)

\* A mistake: the join has no timeout.
ServerJoinedForever ==
  /\ main = "stopping"
  /\ server.thread = "stopped"
  /\ Exit(Status)
  /\ UNCHANGED <<agent, server, client, sdkVars, ended_by, record, hangups>>

\* The join returns when the thread ends, and after five seconds in any case.
ServerJoined ==
  /\ main = "stopping"
  /\ Exit(Status)
  /\ UNCHANGED <<agent, server, client, sdkVars, ended_by, record, hangups>>

ServerBinds ==
  /\ server.thread = "binding"
  /\ server' = [server EXCEPT !.thread = "bound"]
  /\ UNCHANGED <<main, agent, client, sdkVars, ended_by, record, exit, hangups>>

ServerStops ==
  /\ server.thread = "bound" /\ server.should_exit
  /\ server' = [server EXCEPT !.thread = "stopped"]
  /\ UNCHANGED <<main, agent, client, sdkVars, ended_by, record, exit, hangups>>

-----------------------------------------------------------------------------
\* The session, on the main thread.

\* end() is entered; the main thread goes on at place when it is done.
EndThen(place) ==
  /\ main' = place
  /\ ended_by' = TRUE
  /\ todo' = [todo EXCEPT !["main"] = EndFor(ended_by)]

SessionStarted ==
  /\ main = "starting"
  /\ main' = "waiting"
  /\ sdk' = "connecting"
  /\ UNCHANGED <<service, guard, mic, todo, slips, stops, ownVars>>

\* start_session raises, before its thread runs.
SessionNotStarted ==
  /\ main = "starting"
  /\ EndThen("returning")
  /\ record' = [record EXCEPT !.stop = "failed"]
  /\ UNCHANGED <<agent, server, client, sdk, service, guard, mic, exit, hangups, slips, stops>>

\* A mistake: nothing is cleaned up when the session ends by itself.
SessionEndedUncleaned ==
  /\ main = "waiting" /\ sdk = "finished"
  /\ main' = "returning"
  /\ record' = [connected |-> service.id,
                stop |-> IF service.ended THEN "ended" ELSE "dropped"]
  /\ UNCHANGED <<agent, server, client, sdkVars, ended_by, exit, hangups>>

\* wait_for_session_end returns once the SDK's thread is done.
SessionEnded ==
  /\ main = "waiting" /\ sdk = "finished"
  /\ record' = [connected |-> service.id,
                stop |-> IF service.ended THEN "ended" ELSE "dropped"]
  /\ EndThen("returning")
  /\ UNCHANGED <<agent, server, client, sdk, service, guard, mic, exit, hangups, slips, stops>>

\* wait_for_session_end raises.
WaitFails ==
  /\ main = "waiting"
  /\ record' = [record EXCEPT !.stop = "failed"]
  /\ EndThen("ending")
  /\ UNCHANGED <<agent, server, client, sdk, service, guard, mic, exit, hangups, slips, stops>>

\* end() is done: the main thread waits for the session's end again.
WaitAgain ==
  /\ main = "ending" /\ todo["main"] = << >>
  /\ main' = "waiting_again"
  /\ UNCHANGED <<sdkVars, ownVars>>

\* A mistake: the second wait is left out.
HangUpUnjoined ==
  /\ main = "waiting_again"
  /\ record' = [record EXCEPT !.connected = service.id]
  /\ EndThen("returning")
  /\ UNCHANGED <<agent, server, client, sdk, service, guard, mic, exit, hangups, slips, stops>>

HangUpDone ==
  /\ main = "waiting_again" /\ sdk = "finished"
  /\ record' = [record EXCEPT !.connected = service.id]
  /\ EndThen("returning")
  /\ UNCHANGED <<agent, server, client, sdk, service, guard, mic, exit, hangups, slips, stops>>

\* The second wait raises: no id, and a hang-up becomes a failure.
WaitAgainFails ==
  /\ main = "waiting_again"
  /\ record' = [connected |-> FALSE, stop |-> "failed"]
  /\ EndThen("returning")
  /\ UNCHANGED <<agent, server, client, sdk, service, guard, mic, exit, hangups, slips, stops>>

SessionReturns ==
  /\ main = "returning" /\ todo["main"] = << >>
  /\ main' = "leaving"
  /\ UNCHANGED <<sdkVars, ownVars>>

\* Ctrl+C.  Around start_session and the first wait it is caught, but for the steps
\* that lead to them and those from the catch to end(); anywhere else it unwinds the
\* run, through "finally: end()" and the with statement if the main thread is inside
\* them.
HangUp ==
  /\ main # "exited" /\ Len(hangups) < MaxHangUps
  /\ hangups' = Append(hangups, [at |-> main, audio |-> guard.started])
  /\ \/ /\ main \in {"resolving", "preparing", "booting", "stopping"}
        /\ Exit(SIGINT)
        /\ UNCHANGED <<sdk, todo, ended_by, record>>
     \/ /\ main = "starting"
        /\ EndThen("returning")
        /\ sdk' \in {"none", "connecting"}
        /\ record' = [record EXCEPT !.stop = "interrupted"]
        /\ UNCHANGED exit
     \/ /\ main = "waiting"
        /\ EndThen("ending")
        /\ record' = [record EXCEPT !.stop = "interrupted"]
        /\ UNCHANGED <<sdk, exit>>
     \/ /\ main = "ending" /\ todo["main"] = EndFor(FALSE)  \* end() is left to finally
        /\ main' = "returning"
        /\ record' = [record EXCEPT !.stop = "uncaught"]
        /\ UNCHANGED <<sdk, todo, ended_by, exit>>
     \/ /\ main \in {"starting", "ending", "waiting_again", "returning", "leaving"}
        /\ main' = "leaving"
        /\ todo' = [todo EXCEPT !["main"] = << >>]
        /\ record' = [record EXCEPT !.stop = "uncaught"]
        /\ UNCHANGED <<sdk, ended_by, exit>>
  /\ UNCHANGED <<agent, server, client, service, guard, mic, slips, stops>>

-----------------------------------------------------------------------------
\* Ending the session, on any of the three threads.

Todo(t, step) == todo[t] # << >> /\ Head(todo[t]) = step

\* _GuardedAudio.stop looks at its flags; audio that was not marked started, or
\* that is being stopped, is left alone.
CheckAudio(t) ==
  /\ Todo(t, "check")
  /\ todo' = [todo EXCEPT ![t] =
                IF guard.started /\ ~ guard.stopped THEN Tail(@) ELSE Tail(Tail(Tail(@)))]
  /\ UNCHANGED <<main, sdk, service, guard, mic, slips, stops, ownVars>>

ClaimAudio(t) ==
  /\ Todo(t, "claim")
  /\ guard' = [guard EXCEPT !.stopped = TRUE]
  /\ todo' = [todo EXCEPT ![t] = Tail(@)]
  /\ UNCHANGED <<main, sdk, service, mic, slips, stops, ownVars>>

StopAudio(t) ==
  /\ Todo(t, "stop")
  /\ mic' = "off"
  /\ stops' = [stops EXCEPT ![t] = @ + 1]
  /\ todo' = [todo EXCEPT ![t] = Tail(@)]
  /\ UNCHANGED <<main, sdk, service, guard, slips, ownVars>>

\* The inner interface raises: end_session is left unfinished.  On the main
\* thread the exception is suppressed and end() goes on; the SDK's thread dies; and
\* on the microphone's thread it ends the callback.
StopAudioFails(t) ==
  /\ Todo(t, "stop")
  /\ stops' = [stops EXCEPT ![t] = @ + 1]
  /\ slips' = TRUE
  /\ todo' = [todo EXCEPT ![t] = IF t = "main" /\ Len(@) > 1 THEN audio_stop ELSE << >>]
  /\ sdk' = IF t = "sdk" THEN "finished" ELSE sdk
  /\ UNCHANGED <<main, service, guard, mic, ownVars>>

MarkEnded(t) ==
  /\ Todo(t, "mark")
  /\ service' = [service EXCEPT !.should_stop = TRUE, !.ended = TRUE]
  /\ todo' = [todo EXCEPT ![t] = Tail(@)]
  /\ UNCHANGED <<main, sdk, guard, mic, slips, stops, ownVars>>

-----------------------------------------------------------------------------
\* The SDK's thread.

SdkBecomes(place) == sdk' = place /\ UNCHANGED <<main, todo, slips, stops, ownVars>>

Connect ==
  /\ sdk = "connecting"
  /\ \/ SdkBecomes("opening_audio")
     \/ SdkBecomes("finished")
  /\ UNCHANGED <<service, guard, mic>>

\* _GuardedAudio.start: the inner interface starts, then it is marked started.
OpenAudio ==
  /\ sdk = "opening_audio"
  /\ \/ SdkBecomes("marking_audio") /\ mic' = "on"
     \/ SdkBecomes("finished") /\ mic' = mic
  /\ UNCHANGED <<service, guard>>

MarkAudio ==
  /\ sdk = "marking_audio"
  /\ SdkBecomes("talking")
  /\ guard' = [guard EXCEPT !.started = TRUE]
  /\ UNCHANGED <<service, mic>>

\* The service sends the conversation id.
ReceiveId ==
  /\ sdk = "talking" /\ ~ service.id
  /\ SdkBecomes("talking")
  /\ service' = [service EXCEPT !.id = TRUE]
  /\ UNCHANGED <<guard, mic>>

\* The service closes the conversation, or receiving from it fails.
RemoteClose ==
  /\ sdk = "talking"
  /\ sdk' = "closing"
  /\ todo' = [todo EXCEPT !["sdk"] = end_session]
  /\ UNCHANGED <<main, service, guard, mic, slips, stops, ownVars>>

\* The thread ends without a word: wait_for_session_end returns all the same.
SdkDrops ==
  /\ sdk = "talking"
  /\ SdkBecomes("finished")
  /\ UNCHANGED <<service, guard, mic>>

SdkDone ==
  /\ \/ sdk = "talking" /\ service.should_stop
     \/ sdk = "closing" /\ todo["sdk"] = << >>
  /\ SdkBecomes("finished")
  /\ UNCHANGED <<service, guard, mic>>

\* The microphone's thread.  The SDK's callback sends what was heard; when that fails
\* it ends the session, on this thread, whatever the others are doing.  It may fail
\* again at each callback, as long as the microphone is on.
SendFails ==
  /\ mic = "on" /\ todo["audio"] = << >>
  /\ todo' = [todo EXCEPT !["audio"] = end_session]
  /\ UNCHANGED <<main, sdk, service, guard, mic, slips, stops, ownVars>>

-----------------------------------------------------------------------------
Main ==
  \/ ResolveAgent \/ AudioMissing \/ StartServer \/ ServerStarted \/ ServerDeadline
  \/ SessionStarted \/ SessionNotStarted \/ SessionEnded \/ WaitAgain \/ HangUpDone
  \/ SessionReturns \/ LeaveRun \/ ServerJoined

Raises == WaitFails \/ WaitAgainFails

Ending(t) ==
  CheckAudio(t) \/ ClaimAudio(t) \/ StopAudio(t) \/ StopAudioFails(t) \/ MarkEnded(t)

Sdk == Connect \/ OpenAudio \/ MarkAudio \/ ReceiveId \/ RemoteClose \/ SdkDrops \/ SdkDone

Uvicorn == ServerBinds \/ ServerStops

Microphone == SendFails \/ Ending("audio")

LiveNext ==
  Main \/ Raises \/ Ending("main") \/ Ending("sdk") \/ Sdk \/ Microphone \/ Uvicorn \/ HangUp

\* The main thread runs, five seconds pass, and the SDK's thread does what does not
\* depend on the service: connecting fails or succeeds in time, and its loop looks at
\* the stop flag.  Nothing is assumed of uvicorn, the service or the person, nor of the
\* microphone's thread, which stops a stream from inside that stream's callback.
LiveFairness ==
  /\ WF_liveVars(Main)
  /\ WF_liveVars(Ending("main"))
  /\ WF_liveVars(Ending("sdk"))
  /\ WF_liveVars(Connect \/ OpenAudio \/ MarkAudio)
  /\ WF_liveVars(SdkDone)

LiveSpec == LiveInit /\ [][LiveNext]_liveVars
FairLiveSpec == LiveSpec /\ LiveFairness

-----------------------------------------------------------------------------
\* Properties.

\* Where the main thread can be.
Places == {"resolving", "preparing", "booting", "starting", "waiting", "ending",
           "waiting_again", "returning", "leaving", "stopping", "exited"}

\* What is left of ending the session is the end of what its thread had to do.
TodoTypeOK ==
  /\ DOMAIN todo = Threads
  /\ todo["main"] \in
       {<< >>, <<"stop">>, <<"claim", "stop">>, <<"check", "claim", "stop">>,
        <<"mark", "check", "claim", "stop">>, <<"stop", "mark", "check", "claim", "stop">>,
        <<"claim", "stop", "mark", "check", "claim", "stop">>,
        <<"check", "claim", "stop", "mark", "check", "claim", "stop">>}
  /\ \A t \in {"sdk", "audio"} :
       todo[t] \in {<< >>, <<"mark">>, <<"stop", "mark">>, <<"claim", "stop", "mark">>,
                   <<"check", "claim", "stop", "mark">>}

\* Every variable has its type.
LiveTypeOK ==
  /\ main \in Places
  /\ agent \in Optional(WellFormedIds)
  /\ main \notin {"resolving", "exited"} => agent # None
  /\ server \in [thread : {"none", "binding", "bound", "stopped"}, should_exit : BOOLEAN]
  /\ client \in {"none", "open", "closed"}
  /\ sdk \in {"none", "connecting", "opening_audio", "marking_audio", "talking",
              "closing", "finished"}
  /\ service \in [id : BOOLEAN, should_stop : BOOLEAN, ended : BOOLEAN]
  /\ guard \in [started : BOOLEAN, stopped : BOOLEAN]
  /\ mic \in {"off", "on"}
  /\ TodoTypeOK
  /\ ended_by \in BOOLEAN
  /\ hangups \in Seq([at : Places, audio : BOOLEAN])
  /\ slips \in BOOLEAN
  /\ stops \in [Threads -> Nat]
  /\ record \in [connected : BOOLEAN,
                 stop : {"none", "ended", "dropped", "interrupted", "failed", "uncaught"}]
  /\ exit \in Optional({0, 1, SIGINT})
  /\ exit = None <=> main # "exited"

\* The person hung up at most once, and while the session was on.
PlainHangUp == hangups = << >> \/ (Len(hangups) = 1 /\ hangups[1].at = "waiting")

\* Before session returned.
InSession == main \in {"starting", "waiting", "ending", "waiting_again", "returning"}

\* When session has returned the microphone is off, however the conversation
\* ended and whichever thread stopped it; only a Ctrl+C before the audio was
\* marked started, a second one, audio that failed to stop, or a stop that the
\* microphone's own thread claimed and has not finished, for which nobody waits, can
\* leave it on (elevenlabs.py, end and _GuardedAudio).
MicrophoneReleased ==
  ~ InSession /\ mic = "on" =>
    \/ slips \/ record.stop = "failed"
    \/ \E i \in DOMAIN hangups : ~ hangups[i].audio
    \/ ~ PlainHangUp
    \/ Todo("audio", "stop")

\* No thread calls the inner stop twice, though end() stops the audio twice over,
\* stopping may raise, and sends may fail again and again.  _GuardedAudio tests its
\* flags and sets them in two steps, so two threads can both call it; but the main
\* thread and the SDK's only when a hang-up or a failed wait on the one met the
\* conversation's end on the other, for otherwise the main thread begins when the
\* SDK's is done (elevenlabs.py, end and _GuardedAudio.stop).
OneStopEach ==
  /\ \A t \in Threads : stops[t] <= 1
  /\ stops["main"] + stops["sdk"] = 2 => hangups # << >> \/ record.stop = "failed"

\* While the conversation can begin a tool call, the server that answers it is
\* bound and not asked to exit, and the client it is called by is open, in a run
\* that was hung up plainly (cli.py, the order of the with statement; elevenlabs.py,
\* the second wait).  A call that began earlier may still run when the SDK's thread
\* is done, for the SDK runs the handlers on threads of their own.
ToolsAreServed ==
  sdk \in {"connecting", "opening_audio", "marking_audio", "talking", "closing"}
    /\ PlainHangUp /\ record.stop # "failed" =>
      server.thread = "bound" /\ ~ server.should_exit /\ client = "open"

\* A run that exits with 0 held a conversation: the service gave it an id, and it
\* ended, was dropped or was hung up (README: "Setup, connection, or session
\* failures exit with status 1").
ExitIsHonest ==
  exit = Some(0) =>
    /\ service.id
    /\ record.stop = "ended" => service.ended
    /\ record.stop = "interrupted" => hangups # << >>
    /\ sdk = "finished"

\* Where the main thread is tells how far the server, its client, the session and
\* end() have come (cli.py, the with statement around the session).
MainLeads ==
  /\ main \in {"resolving", "preparing"} => server.thread = "none"
  /\ main \in {"resolving", "preparing", "booting"} => ~ server.should_exit
  /\ InSession \/ main = "leaving" =>
       server.thread = "bound" /\ ~ server.should_exit /\ client = "open"
  /\ main \in {"resolving", "preparing", "booting", "starting"} => sdk = "none"
  /\ ended_by => main \in {"ending", "waiting_again", "returning", "leaving", "stopping", "exited"}
  /\ ~ ended_by =>
       \/ main \in {"resolving", "preparing", "booting", "starting", "waiting"}
       \/ main \in {"leaving", "stopping", "exited"} /\ sdk = "none"
  /\ todo["main"] # << >> => ended_by /\ main \in {"ending", "returning"}
  /\ todo["sdk"] # << >> => sdk = "closing"

\* The audio is on only from its start to its stop; only audio that was marked
\* started is stopped, by a thread that claimed it; and claimed audio is off, unless
\* that thread has not come to it (elevenlabs.py, _GuardedAudio).
AudioInOrder ==
  /\ mic = "on" => guard.started \/ sdk = "marking_audio"
  /\ guard.started => sdk \in {"talking", "closing", "finished"}
  /\ guard.stopped => guard.started
  /\ guard.stopped /\ mic = "on" =>
       slips \/ record.stop = "uncaught" \/ \E t \in Threads : Todo(t, "stop")
  /\ \A t \in Threads :
       /\ Todo(t, "claim") => guard.started
       /\ Todo(t, "stop") => guard.stopped

\* A session that ended of itself, or was hung up plainly, with audio: end() meets
\* an SDK thread that is done or has its audio marked started, and until the main
\* thread has looked at the guard and claimed the audio, the microphone may be on.
EndsInOrder ==
  /\ ended_by /\ hangups = << >> /\ record.stop # "failed" => sdk = "finished"
  /\ ended_by /\ PlainHangUp /\ record.stop # "failed"
       /\ (\A i \in DOMAIN hangups : hangups[i].audio) =>
       /\ guard.started \/ sdk = "finished"
       /\ mic = "on" /\ ~ slips => Len(todo["main"]) >= 6 \/ guard.stopped
  /\ main \in {"returning", "leaving", "stopping", "exited"}
       /\ PlainHangUp /\ record.stop # "failed" => sdk \in {"none", "finished"}

\* Whether thread t has found the audio running and is about to stop it.
Stopping(t) == Todo(t, "claim") \/ Todo(t, "stop")

\* A thread that found the audio running had not stopped it; and the main thread,
\* when nothing made it begin early, finds it running only if the SDK's did not.
StopsInOrder ==
  /\ \A t \in Threads :
       /\ stops[t] <= 1
       /\ stops[t] = 1 => guard.stopped
       /\ Stopping(t) => stops[t] = 0
  /\ stops["main"] = 1 => ended_by
  /\ hangups = << >> /\ record.stop # "failed"
       /\ (Stopping("main") \/ stops["main"] = 1) => stops["sdk"] = 0

\* What the main thread recorded is so.
RecordIsTrue ==
  /\ record.connected => service.id /\ sdk = "finished"
  /\ record.stop = "ended" => service.ended
  /\ record.stop = "interrupted" => hangups # << >>
  /\ record.stop = "uncaught" =>
       ~ PlainHangUp /\ main \in {"returning", "leaving", "stopping", "exited"}
  /\ exit = Some(0) => record.connected

\* The inductive invariant of a run.
LiveInv ==
  LiveTypeOK /\ MainLeads /\ AudioInOrder /\ EndsInOrder /\ StopsInOrder /\ RecordIsTrue

\* Hanging up, a failed send or the conversation's own end ends the run, though the
\* server hangs, unless stopping the audio raised before the SDK was told to stop.
RunEnds ==
  (hangups # << >> \/ service.should_stop \/ sdk = "finished") ~> (exit # None \/ slips)

\* The rule of README.md on hanging up: "A normal end, a remote close, and Ctrl+C
\* exit with status 0."  One Ctrl+C, caught by the session, exits with 0.
HangUpExitsZero == exit # None /\ record.stop = "interrupted" => exit = Some(0)
=============================================================================
