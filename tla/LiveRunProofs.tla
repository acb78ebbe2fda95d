----------------------------- MODULE LiveRunProofs -----------------------------
(***************************************************************************)
(* The theorems of LiveRun: whatever the main thread, the SDK's, the        *)
(* microphone's, uvicorn and the person at the terminal do, and in whatever *)
(* order.                                                                   *)
(***************************************************************************)
EXTENDS LiveRun, SequenceTheorems, TLAPS

-----------------------------------------------------------------------------
(* What a thread has left of ending the session.                           *)

\* On the main thread, whose end() goes on to stop the audio for itself.
Left7 == <<"check", "claim", "stop", "mark", "check", "claim", "stop">>
Left6 == <<"claim", "stop", "mark", "check", "claim", "stop">>
Left5 == <<"stop", "mark", "check", "claim", "stop">>
Left4 == <<"mark", "check", "claim", "stop">>
Left3 == <<"check", "claim", "stop">>
Left2 == <<"claim", "stop">>
Left1 == <<"stop">>

\* On the two others.
End4 == <<"check", "claim", "stop", "mark">>
End3 == <<"claim", "stop", "mark">>
End2 == <<"stop", "mark">>
End1 == <<"mark">>

\* What is left of the steps that end a session, one after the other.
LEMMA Lefts ==
  /\ Head(Left7) = "check" /\ Tail(Left7) = Left6
  /\ Head(Left6) = "claim" /\ Tail(Left6) = Left5
  /\ Head(Left5) = "stop"  /\ Tail(Left5) = Left4
  /\ Head(Left4) = "mark"  /\ Tail(Left4) = Left3
  /\ Head(Left3) = "check" /\ Tail(Left3) = Left2
  /\ Head(Left2) = "claim" /\ Tail(Left2) = Left1
  /\ Head(Left1) = "stop"  /\ Tail(Left1) = << >>
  /\ Head(End4) = "check" /\ Tail(End4) = End3
  /\ Head(End3) = "claim" /\ Tail(End3) = End2
  /\ Head(End2) = "stop"  /\ Tail(End2) = End1
  /\ Head(End1) = "mark"  /\ Tail(End1) = << >>
  /\ << >> \notin {Left7, Left6, Left5, Left4, Left3, Left2, Left1, End4, End3, End2, End1}
BY DEF Left7, Left6, Left5, Left4, Left3, Left2, Left1, End4, End3, End2, End1

\* The main thread has claimed the audio, or left it alone, when fewer than six steps
\* are left.
LEMMA LeftLengths ==
  /\ Len(Left7) >= 6 /\ Len(Left6) >= 6
  /\ ~ (Len(Left5) >= 6) /\ ~ (Len(Left4) >= 6) /\ ~ (Len(Left3) >= 6)
  /\ ~ (Len(Left2) >= 6) /\ ~ (Len(Left1) >= 6) /\ ~ (Len(<< >>) >= 6)
BY DEF Left7, Left6, Left5, Left4, Left3, Left2, Left1

\* A sequence is the other two joined when its elements are theirs.
LEMMA Joined ==
  ASSUME NEW S, NEW front \in Seq(S), NEW back \in Seq(S), NEW whole \in Seq(S),
         Len(whole) = Len(front) + Len(back),
         \A i \in 1 .. Len(whole) :
           whole[i] = IF i <= Len(front) THEN front[i] ELSE back[i - Len(front)]
  PROVE  front \o back = whole
BY ConcatProperties, SeqEqual

\* What the threads start with.
LEMMA Ends == /\ EndFor(TRUE) = << >> /\ EndFor(FALSE) = Left7
              /\ end_session = End4 /\ audio_stop = Left3
<1> DEFINE Steps == {"check", "claim", "stop", "mark"}
<1>1. Left3 \in Seq(Steps) /\ End1 \in Seq(Steps) /\ Len(Left3) = 3 /\ Len(End1) = 1
  BY DEF Left3, End1
<1>2. End4 \in Seq(Steps) /\ Len(End4) = 4
  BY DEF End4
<1>3. Left7 \in Seq(Steps) /\ Len(Left7) = 7
  BY DEF Left7
<1> HIDE DEF Steps
<1>4. Left3 \o End1 = End4
  <2>1. \A i \in 1 .. 4 : End4[i] = IF i <= 3 THEN Left3[i] ELSE End1[i - 3]
    BY DEF Left3, End1, End4
  <2>2. /\ Len(End4) = Len(Left3) + Len(End1)
        /\ \A i \in 1 .. Len(End4) :
             End4[i] = IF i <= Len(Left3) THEN Left3[i] ELSE End1[i - Len(Left3)]
    BY <1>1, <1>2, <2>1
  <2> QED
    BY <1>1, <1>2, <2>2, Joined
<1>5. End4 \o Left3 = Left7
  <2>1. \A i \in 1 .. 7 : Left7[i] = IF i <= 4 THEN End4[i] ELSE Left3[i - 4]
    BY DEF Left3, Left7, End4
  <2>2. /\ Len(Left7) = Len(End4) + Len(Left3)
        /\ \A i \in 1 .. Len(Left7) :
             Left7[i] = IF i <= Len(End4) THEN End4[i] ELSE Left3[i - Len(End4)]
    BY <1>1, <1>2, <1>3, <2>1
  <2> QED
    BY <1>1, <1>2, <1>3, <2>2, Joined
<1>6. audio_stop = Left3 /\ end_session = Left3 \o End1
  BY DEF audio_stop, end_session, Left3, End1
<1> QED
  BY <1>4, <1>5, <1>6 DEF EndFor

\* TodoTypeOK, in these names.
TodoTyped ==
  /\ DOMAIN todo = Threads
  /\ todo["main"] \in {<< >>, Left1, Left2, Left3, Left4, Left5, Left6, Left7}
  /\ \A t \in {"sdk", "audio"} : todo[t] \in {<< >>, End1, End2, End3, End4}

\* What is left to do is made of those steps.
LEMMA LeftTyped == LiveTypeOK => TodoTyped
BY DEF LiveTypeOK, TodoTypeOK, TodoTyped, Left7, Left6, Left5, Left4, Left3, Left2, Left1,
       End4, End3, End2, End1

-----------------------------------------------------------------------------
(* Hanging up.                                                             *)

\* What a hang-up records of the moment it falls into.
LEMMA HungUp ==
  ASSUME LiveTypeOK, HangUp
  PROVE  /\ hangups' \in Seq([at : Places, audio : BOOLEAN])
         /\ hangups' # << >>
         /\ PlainHangUp' => hangups = << >> /\ main = "waiting"
         /\ (\A i \in DOMAIN hangups' : hangups'[i].audio) => guard.started
<1> DEFINE Hang == [at : Places, audio : BOOLEAN]
<1>1. PICK last \in Hang : last.at = main /\ last.audio = guard.started
                           /\ hangups' = Append(hangups, last)
  BY DEF HangUp, LiveTypeOK
<1>2. hangups \in Seq(Hang) /\ Len(hangups) \in Nat
  BY DEF LiveTypeOK
<1> HIDE DEF Hang
<1>3. /\ hangups' \in Seq(Hang) /\ Len(hangups') = Len(hangups) + 1
      /\ hangups'[Len(hangups) + 1] = last
      /\ Len(hangups) + 1 \in DOMAIN hangups'
  BY <1>1, <1>2
<1>4. hangups' # << >>
  BY <1>2, <1>3
<1>5. ASSUME PlainHangUp'
      PROVE  hangups = << >> /\ main = "waiting"
  <2>1. Len(hangups) + 1 = 1 /\ hangups'[1].at = "waiting"
    BY <1>3, <1>4, <1>5 DEF PlainHangUp
  <2>2. Len(hangups) = 0
    BY <1>2, <2>1
  <2> QED
    BY <1>1, <1>2, <1>3, <2>1, <2>2
<1>6. (\A i \in DOMAIN hangups' : hangups'[i].audio) => guard.started
  BY <1>1, <1>3
<1> QED
  BY <1>3, <1>4, <1>5, <1>6 DEF Hang

-----------------------------------------------------------------------------
(* Types.                                                                  *)

\* A value is not the absence of one.
LEMMA SomeIsNotNone == \A x : Some(x) # None
BY DEF Some, None

\* An agent id that resolve_agent_id finds is well formed.
LEMMA Resolved ==
  ASSUME NEW registry, NEW flag, NEW env
  PROVE  resolve_agent_id(registry, flag, env) \in Optional(WellFormedIds)
<1>1. \A text : resolution(text) \in Optional(WellFormedIds)
  BY DEF resolution, Optional
<1> QED
  BY <1>1 DEF resolve_agent_id, from_registry, Optional

\* What each step makes of each variable.
LEMMA StepTypes == ASSUME LiveTypeOK, LiveNext PROVE LiveTypeOK'
<1> USE DEF LiveNext, Main, Raises, Ending, Sdk, Uvicorn, ResolveAgent, AudioMissing,
            StartServer, ServerStarted, ServerDeadline, SessionStarted, SessionNotStarted,
            SessionEnded, WaitAgain, HangUpDone, SessionReturns, LeaveRun, ServerJoined,
            WaitFails, WaitAgainFails, CheckAudio, ClaimAudio, StopAudio, StopAudioFails,
            MarkEnded, Connect, OpenAudio, MarkAudio, ReceiveId, RemoteClose, SdkDrops,
            SdkDone, Microphone, SendFails, ServerBinds, ServerStops, HangUp, sdkVars,
            ownVars, Exit, EndThen, SdkBecomes
<1>1. main' \in Places
  BY DEF LiveTypeOK, Places
<1>2. agent' \in Optional(WellFormedIds)
  <2>1. CASE ResolveAgent
    BY <2>1, Resolved
  <2>2. agent' = agent \/ ResolveAgent
    OBVIOUS
  <2> QED
    BY <2>1, <2>2 DEF LiveTypeOK
<1>3. main' \notin {"resolving", "exited"} => agent' # None
  BY DEF LiveTypeOK
<1>4. exit' \in Optional({0, 1, SIGINT})
  <2>1. Status \in {0, 1, SIGINT}
    BY DEF Status, exit_code
  <2> QED
    BY <2>1 DEF LiveTypeOK, Optional
<1>5. exit' = None <=> main' # "exited"
  BY SomeIsNotNone DEF LiveTypeOK
<1>6. server' \in [thread : {"none", "binding", "bound", "stopped"}, should_exit : BOOLEAN]
  BY DEF LiveTypeOK
<1>7. client' \in {"none", "open", "closed"} /\ mic' \in {"off", "on"}
  BY DEF LiveTypeOK
<1>8. sdk' \in {"none", "connecting", "opening_audio", "marking_audio", "talking",
               "closing", "finished"}
  BY DEF LiveTypeOK
<1>9. service' \in [id : BOOLEAN, should_stop : BOOLEAN, ended : BOOLEAN]
  BY DEF LiveTypeOK
<1>10. guard' \in [started : BOOLEAN, stopped : BOOLEAN]
  BY DEF LiveTypeOK
<1>11. TodoTyped'
  <2>1. TodoTyped /\ ended_by \in BOOLEAN
    BY LeftTyped DEF LiveTypeOK
  <2>2. \/ todo' = todo
        \/ todo' = [todo EXCEPT !["main"] = EndFor(ended_by)]
        \/ todo' = [todo EXCEPT !["main"] = << >>]
        \/ \E t \in {"sdk", "audio"} : todo' = [todo EXCEPT ![t] = end_session]
        \/ \E t \in Threads : Ending(t)
    BY DEF Threads
  <2>3. ASSUME NEW t \in Threads,
               CheckAudio(t) \/ ClaimAudio(t) \/ StopAudio(t) \/ MarkEnded(t)
        PROVE  TodoTyped'
    <3>1. \/ todo' = [todo EXCEPT ![t] = Tail(todo[t])]
          \/ /\ Head(todo[t]) = "check"
             /\ todo' = [todo EXCEPT ![t] = Tail(Tail(Tail(todo[t])))]
      BY <2>3 DEF Todo
    <3>2. todo[t] # << >>
      BY <2>3 DEF Todo
    <3>3. CASE t = "main"
      <4>1. /\ Tail(todo[t]) \in {<< >>, Left1, Left2, Left3, Left4, Left5, Left6}
            /\ Head(todo[t]) = "check" => Tail(Tail(Tail(todo[t]))) \in {<< >>, Left4}
        BY <2>1, <3>2, <3>3, Lefts DEF TodoTyped
      <4> QED
        BY <2>1, <3>1, <3>3, <4>1 DEF TodoTyped, Threads
    <3>4. CASE t \in {"sdk", "audio"}
      <4>1. /\ Tail(todo[t]) \in {<< >>, End1, End2, End3}
            /\ Head(todo[t]) = "check" => Tail(Tail(Tail(todo[t]))) = End1
        BY <2>1, <3>2, <3>4, Lefts DEF TodoTyped
      <4> QED
        BY <2>1, <3>1, <3>4, <4>1 DEF TodoTyped, Threads
    <3> QED
      BY <3>3, <3>4 DEF Threads
  <2>4. ASSUME NEW t \in Threads, StopAudioFails(t)
        PROVE  TodoTyped'
    <3>1. \/ todo' = [todo EXCEPT ![t] = << >>]
          \/ t = "main" /\ todo' = [todo EXCEPT ![t] = audio_stop]
      BY <2>4
    <3> QED
      BY <2>1, <3>1, Ends DEF TodoTyped, Threads
  <2> QED
    BY <2>1, <2>2, <2>3, <2>4, Ends DEF TodoTyped, Threads
<1>12. ended_by' \in BOOLEAN /\ slips' \in BOOLEAN
  BY DEF LiveTypeOK
<1>13. record' \in [connected : BOOLEAN,
                    stop : {"none", "ended", "dropped", "interrupted", "failed", "uncaught"}]
  <2>1. \/ record' = record
        \/ \E stop \in {"interrupted", "failed", "uncaught"} :
             record' = [record EXCEPT !.stop = stop]
        \/ record' = [record EXCEPT !.connected = service.id]
        \/ record' = [connected |-> service.id,
                      stop |-> IF service.ended THEN "ended" ELSE "dropped"]
        \/ record' = [connected |-> FALSE, stop |-> "failed"]
    OBVIOUS
  <2>2. record.connected \in BOOLEAN /\ service.id \in BOOLEAN
    BY DEF LiveTypeOK
  <2>3. CASE record' = [record EXCEPT !.connected = service.id]
    BY <2>2, <2>3 DEF LiveTypeOK
  <2>4. CASE record' = [connected |-> service.id,
                        stop |-> IF service.ended THEN "ended" ELSE "dropped"]
    BY <2>2, <2>4
  <2>5. CASE record' = [connected |-> FALSE, stop |-> "failed"]
    BY <2>5
  <2> QED
    BY <2>1, <2>3, <2>4, <2>5 DEF LiveTypeOK
<1>14. hangups' \in Seq([at : Places, audio : BOOLEAN])
  BY HungUp DEF LiveTypeOK
<1>15. stops' \in [Threads -> Nat]
  <2>1. \/ stops' = stops
        \/ \E t \in Threads : stops' = [stops EXCEPT ![t] = @ + 1]
    BY DEF Threads
  <2> QED
    BY <2>1 DEF LiveTypeOK
<1> QED
  BY <1>1, <1>2, <1>3, <1>4, <1>5, <1>6, <1>7, <1>8, <1>9, <1>10, <1>11, <1>12, <1>13, <1>14,
     <1>15
     DEF LiveTypeOK, TodoTypeOK, TodoTyped, Left7, Left6, Left5, Left4, Left3, Left2, Left1,
         End4, End3, End2, End1

-----------------------------------------------------------------------------
(* Ending the session, one step of one thread.                             *)

\* Which steps are left at a step.
LEMMA AtStep ==
  ASSUME TodoTyped, NEW t \in Threads
  PROVE  /\ Todo(t, "check") =>
              todo[t] = Left7 \/ todo[t] = Left3 \/ (t # "main" /\ todo[t] = End4)
         /\ Todo(t, "claim") =>
              todo[t] = Left6 \/ todo[t] = Left2 \/ (t # "main" /\ todo[t] = End3)
         /\ Todo(t, "stop") =>
              todo[t] = Left5 \/ todo[t] = Left1 \/ (t # "main" /\ todo[t] = End2)
         /\ Todo(t, "mark") => todo[t] = Left4 \/ (t # "main" /\ todo[t] = End1)
<1>1. CASE t = "main"
  BY <1>1, Lefts DEF TodoTyped, Todo
<1>2. CASE t # "main"
  <2>1. todo[t] \in {<< >>, End1, End2, End3, End4}
    BY <1>2 DEF TodoTyped, Threads
  <2> QED
    BY <1>2, <2>1, Lefts DEF Todo
<1> QED
  BY <1>1, <1>2

\* What is left at none of the two steps of stopping.
LEMMA NotStopping ==
  ASSUME NEW left, left \in {<< >>, Left7, Left4, Left3, End4, End1}
  PROVE  left # << >> => Head(left) # "claim" /\ Head(left) # "stop"
BY Lefts

\* A thread goes on to "claim" only when it found the audio started and not stopped,
\* stops only what it has claimed, and stops it once.
LEMMA EndingStep ==
  ASSUME LiveTypeOK, NEW t \in Threads, Ending(t)
  PROVE  /\ UNCHANGED <<main, ownVars>>
         /\ todo[t] # << >>
         /\ \A s \in Threads \ {t} : todo'[s] = todo[s]
         /\ Todo(t, "claim")' => guard.started /\ ~ guard.stopped /\ stops' = stops
         /\ Todo(t, "stop")' => guard'.stopped /\ Todo(t, "claim") /\ stops' = stops
         /\ guard'.started = guard.started
         /\ guard.stopped => guard'.stopped
         /\ guard'.stopped /\ ~ guard.stopped => Todo(t, "claim") /\ Todo(t, "stop")'
         /\ Todo(t, "stop") => slips' \/ mic' = "off"
         /\ mic' = mic \/ mic' = "off"
         /\ slips => slips'
         /\ \/ stops' = stops
            \/ Todo(t, "stop") /\ ~ Stopping(t)' /\ stops' = [stops EXCEPT ![t] = @ + 1]
         /\ sdk' = sdk \/ (t = "sdk" /\ sdk' = "finished" /\ todo'[t] = << >>)
         /\ service'.id = service.id
         /\ service.ended => service'.ended
         /\ t = "main" /\ Len(todo[t]) >= 6 =>
              Len(todo'[t]) >= 6 \/ ~ guard.started \/ guard'.stopped
<1>1. TodoTyped
  BY LeftTyped
<1>2. CASE CheckAudio(t)
  <2>1. /\ UNCHANGED <<main, sdk, service, guard, mic, slips, stops, ownVars>>
        /\ \A s \in Threads \ {t} : todo'[s] = todo[s]
        /\ Todo(t, "check") /\ todo[t] # << >> /\ ~ Todo(t, "stop")
    BY <1>1, <1>2 DEF CheckAudio, TodoTyped, Todo
  <2>2. todo[t] = Left7 \/ todo[t] = Left3 \/ (t # "main" /\ todo[t] = End4)
    BY <1>1, <2>1, AtStep
  <2>3. CASE guard.started /\ ~ guard.stopped
    <3>1. todo'[t] = Tail(todo[t])
      BY <1>1, <1>2, <2>3 DEF CheckAudio, TodoTyped
    <3>2. todo'[t] = Left6 \/ todo'[t] = Left2 \/ todo'[t] = End3
      BY <2>2, <3>1, Lefts
    <3>3. ~ Todo(t, "stop")'
      BY <3>2, Lefts DEF Todo
    <3>4. t = "main" /\ Len(todo[t]) >= 6 => Len(todo'[t]) >= 6
      BY <2>2, <3>1, Lefts, LeftLengths
    <3> QED
      BY <2>1, <2>3, <3>3, <3>4
  <2>4. CASE ~ (guard.started /\ ~ guard.stopped)
    <3>1. todo'[t] = Tail(Tail(Tail(todo[t])))
      BY <1>1, <1>2, <2>4 DEF CheckAudio, TodoTyped
    <3>2. todo'[t] = Left4 \/ todo'[t] = << >> \/ todo'[t] = End1
      BY <2>2, <3>1, Lefts
    <3>3. ~ Todo(t, "stop")' /\ ~ Todo(t, "claim")'
      BY <3>2, NotStopping DEF Todo
    <3> QED
      BY <2>1, <2>4, <3>3
  <2> QED
    BY <2>3, <2>4
<1>3. CASE ClaimAudio(t)
  <2>1. /\ Todo(t, "claim") /\ todo'[t] = Tail(todo[t])
        /\ guard'.stopped /\ guard'.started = guard.started
        /\ UNCHANGED <<main, sdk, service, mic, slips, stops, ownVars>>
        /\ \A s \in Threads \ {t} : todo'[s] = todo[s]
    BY <1>1, <1>3 DEF ClaimAudio, TodoTyped, LiveTypeOK
  <2>2. todo'[t] = Left5 \/ todo'[t] = Left1 \/ todo'[t] = End2
    BY <1>1, <2>1, AtStep, Lefts
  <2>3. ~ Todo(t, "claim")' /\ Todo(t, "stop")' /\ todo[t] # << >> /\ ~ Todo(t, "stop")
    BY <2>1, <2>2, Lefts DEF Todo
  <2> QED
    BY <2>1, <2>3
<1>4. CASE StopAudio(t)
  <2>1. /\ Todo(t, "stop") /\ todo[t] # << >> /\ mic' = "off" /\ todo'[t] = Tail(todo[t])
        /\ stops' = [stops EXCEPT ![t] = @ + 1]
        /\ UNCHANGED <<main, sdk, service, guard, slips, ownVars>>
        /\ \A s \in Threads \ {t} : todo'[s] = todo[s]
    BY <1>1, <1>4 DEF StopAudio, Todo, TodoTyped
  <2>2. todo[t] = Left5 \/ todo[t] = Left1 \/ (t # "main" /\ todo[t] = End2)
    BY <1>1, <2>1, AtStep
  <2>3. todo'[t] = Left4 \/ todo'[t] = << >> \/ todo'[t] = End1
    BY <2>1, <2>2, Lefts
  <2>4. ~ Todo(t, "stop")' /\ ~ Todo(t, "claim")'
    BY <2>3, NotStopping DEF Todo
  <2>5. t = "main" => ~ (Len(todo[t]) >= 6)
    BY <2>2, LeftLengths
  <2> QED
    BY <2>1, <2>4, <2>5 DEF Stopping
<1>5. CASE StopAudioFails(t)
  <2>1. todo'[t] \in {<< >>, Left3} /\ (t # "main" => todo'[t] = << >>)
    BY <1>1, <1>5, Ends DEF StopAudioFails, TodoTyped
  <2>2. ~ Todo(t, "stop")' /\ ~ Todo(t, "claim")'
    BY <2>1, NotStopping DEF Todo
  <2>3. t = "main" => ~ (Len(todo[t]) >= 6)
    BY <1>1, <1>5, AtStep, LeftLengths DEF StopAudioFails
  <2>4. /\ Todo(t, "stop") /\ todo[t] # << >> /\ slips'
        /\ stops' = [stops EXCEPT ![t] = @ + 1]
        /\ sdk' = IF t = "sdk" THEN "finished" ELSE sdk
        /\ UNCHANGED <<main, service, guard, mic, ownVars>>
        /\ \A s \in Threads \ {t} : todo'[s] = todo[s]
    BY <1>1, <1>5 DEF StopAudioFails, Todo, TodoTyped
  <2> QED
    BY <2>1, <2>2, <2>3, <2>4 DEF Stopping
<1>6. CASE MarkEnded(t)
  <2>1. todo[t] = Left4 \/ (t # "main" /\ todo[t] = End1)
    BY <1>1, <1>6, AtStep DEF MarkEnded
  <2>2. /\ todo'[t] = Tail(todo[t]) /\ todo[t] # << >> /\ ~ Todo(t, "stop")
        /\ service'.id = service.id /\ service'.ended
        /\ UNCHANGED <<main, sdk, guard, mic, slips, stops, ownVars>>
        /\ \A s \in Threads \ {t} : todo'[s] = todo[s]
    BY <1>1, <1>6 DEF MarkEnded, TodoTyped, Todo, LiveTypeOK
  <2>3. todo'[t] \in {Left3, << >>} /\ (t = "main" => ~ (Len(todo[t]) >= 6))
    BY <2>1, <2>2, Lefts, LeftLengths
  <2>4. ~ Todo(t, "stop")' /\ ~ Todo(t, "claim")'
    BY <2>3, NotStopping DEF Todo
  <2> QED
    BY <2>2, <2>3, <2>4
<1> QED
  BY <1>2, <1>3, <1>4, <1>5, <1>6 DEF Ending

\* Entering end(), on the main thread.
LEMMA Entered ==
  ASSUME LiveTypeOK, NEW place, EndThen(place)
  PROVE  /\ main' = place /\ ended_by'
         /\ \A t \in {"sdk", "audio"} : todo'[t] = todo[t]
         /\ ~ Stopping("main")'
         /\ IF ended_by THEN todo'["main"] = << >> ELSE Len(todo'["main"]) >= 6
<1>1. /\ \A t \in {"sdk", "audio"} : todo'[t] = todo[t]
      /\ todo'["main"] = IF ended_by THEN << >> ELSE Left7
  BY LeftTyped, Ends DEF EndThen, TodoTyped, LiveTypeOK, Threads
<1>2. ~ Stopping("main")'
  BY <1>1, Lefts DEF Todo, Stopping
<1> QED
  BY <1>1, <1>2, LeftLengths DEF EndThen

\* A thread other than the main one begins to end the session.
LEMMA Begun ==
  ASSUME LiveTypeOK, NEW t \in {"sdk", "audio"}, todo' = [todo EXCEPT ![t] = end_session]
  PROVE  /\ \A s \in Threads \ {t} : todo'[s] = todo[s]
         /\ ~ Stopping(t)'
<1>1. todo'[t] = End4 /\ \A s \in Threads \ {t} : todo'[s] = todo[s]
  BY LeftTyped, Ends DEF TodoTyped, Threads
<1> QED
  BY <1>1, Lefts DEF Stopping, Todo

\* Each step but those above leaves the audio as it is stopped or not; and what a
\* thread had to do is lost by a second hang-up only.
LEMMA NotEnding ==
  ASSUME LiveInv, LiveNext, \A t \in Threads : ~ Ending(t)
  PROVE  /\ stops' = stops /\ slips' = slips /\ guard'.stopped = guard.stopped
         /\ ended_by => ended_by'
         /\ hangups' = << >> => hangups = << >>
         /\ hangups' = << >> /\ ended_by /\ record.stop = "failed" => record'.stop = "failed"
         /\ \A t \in Threads :
              \/ todo'[t] = todo[t]
              \/ /\ ~ Stopping(t)'
                 /\ todo[t] = << >> \/ record'.stop = "uncaught"
<1>0. LiveTypeOK /\ MainLeads /\ RecordIsTrue
  BY DEF LiveInv
<1> USE <1>0 DEF sdkVars, ownVars, Exit, SdkBecomes, MainLeads, LiveTypeOK
<1>1. CASE ResolveAgent \/ AudioMissing \/ StartServer \/ ServerStarted \/ ServerDeadline
  BY <1>1 DEF ResolveAgent, AudioMissing, StartServer, ServerStarted, ServerDeadline
<1>2. CASE SessionStarted \/ WaitAgain \/ SessionReturns \/ LeaveRun \/ ServerJoined
  BY <1>2 DEF SessionStarted, WaitAgain, SessionReturns, LeaveRun, ServerJoined
<1>3. CASE SessionNotStarted \/ SessionEnded \/ WaitFails \/ WaitAgainFails \/ HangUpDone
  <2>1. PICK place \in Places : EndThen(place)
    BY <1>3 DEF SessionNotStarted, SessionEnded, WaitFails, WaitAgainFails, HangUpDone, Places
  <2>2. /\ UNCHANGED <<stops, slips, guard, hangups>>
        /\ todo["main"] = << >>
        /\ ended_by /\ record.stop = "failed" => record'.stop = "failed"
    BY <1>3 DEF SessionNotStarted, SessionEnded, WaitFails, WaitAgainFails, HangUpDone
  <2> QED
    BY <2>1, <2>2, Entered DEF Threads
<1>4. CASE Connect \/ OpenAudio \/ MarkAudio \/ ReceiveId \/ SdkDrops \/ SdkDone
  BY <1>4 DEF Connect, OpenAudio, MarkAudio, ReceiveId, SdkDrops, SdkDone
<1>5. CASE RemoteClose
  BY <1>5, Begun DEF RemoteClose
<1>6. CASE SendFails
  BY <1>6, Begun DEF SendFails
<1>7. CASE ServerBinds \/ ServerStops
  BY <1>7 DEF ServerBinds, ServerStops
<1>8. CASE HangUp
  <2>1. hangups' # << >> /\ UNCHANGED <<stops, slips, guard>>
    BY <1>8, HungUp DEF HangUp
  <2>2. CASE main \in {"starting", "waiting"} /\ \E place \in Places : EndThen(place)
    <3>1. todo["main"] = << >>
      BY <2>2
    <3> QED
      BY <2>1, <2>2, <3>1, Entered DEF Threads
  <2>3. CASE todo' = todo /\ ended_by' = ended_by
    BY <2>1, <2>3
  <2>4. CASE /\ todo' = [todo EXCEPT !["main"] = << >>]
             /\ ended_by' = ended_by /\ record'.stop = "uncaught"
    <3>1. todo'["main"] = << >> /\ \A t \in Threads \ {"main"} : todo'[t] = todo[t]
      BY <2>4, LeftTyped DEF TodoTyped, Threads
    <3> QED
      BY <2>1, <2>4, <3>1 DEF Stopping, Todo
  <2> QED
    BY <1>8, <2>2, <2>3, <2>4 DEF HangUp, Places
<1> QED
  BY <1>1, <1>2, <1>3, <1>4, <1>5, <1>6, <1>7, <1>8
     DEF LiveNext, Main, Raises, Sdk, Microphone, Uvicorn, Threads

\* Each step moves the main thread on with the server, the client and the SDK.
LEMMA LeadsStep == ASSUME LiveInv, LiveNext PROVE MainLeads'
<1>0. LiveTypeOK /\ MainLeads /\ AudioInOrder /\ EndsInOrder /\ RecordIsTrue
  BY DEF LiveInv
<1> USE <1>0 DEF LiveTypeOK, sdkVars, ownVars, Exit, SdkBecomes, MainLeads, InSession
<1>1. CASE ResolveAgent
  BY <1>1 DEF ResolveAgent, Todo
<1>2. CASE AudioMissing \/ StartServer \/ ServerStarted \/ ServerDeadline
  BY <1>2 DEF AudioMissing, StartServer, ServerStarted, ServerDeadline, Todo
<1>3. CASE SessionStarted
  BY <1>3 DEF SessionStarted, Todo
<1>4. CASE SessionNotStarted \/ SessionEnded
  BY <1>4, Entered DEF SessionNotStarted, SessionEnded
<1>5. CASE WaitFails \/ WaitAgainFails
  BY <1>5, Entered DEF WaitFails, WaitAgainFails
<1>6. CASE WaitAgain \/ SessionReturns \/ LeaveRun \/ ServerJoined
  BY <1>6 DEF WaitAgain, SessionReturns, LeaveRun, ServerJoined, Todo
<1>7. CASE HangUpDone
  BY <1>7, Entered DEF HangUpDone
<1>8. CASE Connect \/ OpenAudio \/ MarkAudio
  BY <1>8 DEF Connect, OpenAudio, MarkAudio, Todo
<1>9. CASE ReceiveId \/ SdkDrops \/ SdkDone
  BY <1>9 DEF ReceiveId, SdkDrops, SdkDone, Todo
<1>10. CASE RemoteClose \/ SendFails
  BY <1>10, Begun DEF RemoteClose, SendFails, Threads
<1>11. CASE ServerBinds \/ ServerStops
  BY <1>11 DEF ServerBinds, ServerStops, Todo
<1>12. CASE HangUp
  <2>1. /\ server' = server /\ client' = client
        /\ sdk' = sdk \/ (main = "starting" /\ ended_by')
        /\ \/ /\ main \in {"resolving", "preparing", "booting", "stopping"}
              /\ main' = "exited" /\ todo' = todo /\ ended_by' = ended_by
           \/ /\ main \in {"starting", "waiting"}
              /\ main' \in {"returning", "ending"} /\ EndThen(main')
           \/ /\ main = "ending" /\ main' = "returning"
              /\ todo' = todo /\ ended_by' = ended_by
           \/ /\ main \in {"starting", "ending", "waiting_again", "returning", "leaving"}
              /\ main' = "leaving" /\ ended_by' = ended_by
              /\ todo' = [todo EXCEPT !["main"] = << >>]
    BY <1>12 DEF HangUp, EndThen
  <2>2. todo'["sdk"] = todo["sdk"]
    BY <2>1, LeftTyped, Entered DEF TodoTyped, Threads
  <2>3. todo'["main"] # << >> => ended_by' /\ main' \in {"ending", "returning"}
    BY <2>1, LeftTyped, Entered DEF TodoTyped, Threads
  <2>4. ended_by' => main' \in {"ending", "waiting_again", "returning", "leaving", "stopping",
                               "exited"}
    BY <2>1
  <2>5. ~ ended_by' => main' \in {"leaving", "stopping", "exited"} /\ sdk' = "none"
    BY <2>1, Entered
  <2>6. todo'["sdk"] # << >> => sdk' = "closing"
    BY <2>1, <2>2
  <2>7. main' \in {"exited", "returning", "ending", "leaving"}
        /\ (main' # "exited" => server.thread = "bound" /\ ~ server.should_exit
                               /\ client = "open")
    BY <2>1
  <2> QED
    BY <2>1, <2>3, <2>4, <2>5, <2>6, <2>7
<1>13. ASSUME NEW t \in Threads, Ending(t)
      PROVE  MainLeads'
  BY <1>13, EndingStep DEF Threads
<1> QED
  BY <1>1, <1>2, <1>3, <1>4, <1>5, <1>6, <1>7, <1>8, <1>9, <1>10, <1>11, <1>12, <1>13
     DEF LiveNext, Main, Raises, Sdk, Microphone, Uvicorn, Threads

\* Each step leaves the audio and its guard in order.
LEMMA AudioStep == ASSUME LiveInv, LiveNext PROVE AudioInOrder'
<1>0. LiveTypeOK /\ MainLeads /\ AudioInOrder /\ EndsInOrder /\ RecordIsTrue
  BY DEF LiveInv
<1>1. ASSUME NEW t \in Threads, Ending(t)
      PROVE  AudioInOrder'
  <2> USE <1>0 DEF AudioInOrder, MainLeads
  <2>1. (mic = "on" => guard.started \/ sdk = "marking_audio")'
    BY <1>1, EndingStep
  <2>2. (guard.started => sdk \in {"talking", "closing", "finished"})'
    BY <1>1, EndingStep
  <2>3. (guard.stopped => guard.started)'
    BY <1>1, EndingStep
  <2>4. ASSUME guard'.stopped, mic' = "on"
        PROVE  (slips \/ record.stop = "uncaught" \/ \E s \in Threads : Todo(s, "stop"))'
    <3>1. CASE ~ guard.stopped
      BY <1>1, <2>4, <3>1, EndingStep
    <3>2. CASE slips \/ record.stop = "uncaught"
      BY <1>1, <3>2, EndingStep DEF ownVars
    <3>3. ASSUME NEW s \in Threads, Todo(s, "stop")
          PROVE  slips' \/ Todo(s, "stop")'
      <4>1. CASE s = t
        BY <1>1, <2>4, <3>3, <4>1, EndingStep
      <4>2. CASE s # t
        BY <1>1, <3>3, <4>2, EndingStep DEF Todo
      <4> QED
        BY <4>1, <4>2
    <3>4. mic = "on"
      BY <1>1, <2>4, EndingStep
    <3> QED
      BY <3>1, <3>2, <3>3, <3>4
  <2>5. ASSUME NEW s \in Threads
        PROVE  (Todo(s, "claim") => guard.started)' /\ (Todo(s, "stop") => guard.stopped)'
    <3>1. CASE s = t
      BY <1>1, <3>1, EndingStep
    <3>2. CASE s # t
      BY <1>1, <3>2, EndingStep DEF Todo
    <3> QED
      BY <3>1, <3>2
  <2> QED
    BY <2>1, <2>2, <2>3, <2>4, <2>5
<1>2. ASSUME \A t \in Threads : ~ Ending(t)
      PROVE  AudioInOrder'
  <2>1. /\ mic' = mic \/ (mic' = "on" /\ sdk = "opening_audio" /\ sdk' = "marking_audio")
        /\ guard' = guard \/ (guard' = [guard EXCEPT !.started = TRUE] /\ sdk' = "talking")
        /\ sdk = "marking_audio" => sdk' = "marking_audio" \/ guard'.started
        /\ sdk \in {"talking", "closing", "finished"} =>
             sdk' \in {"talking", "closing", "finished"}
    <3> USE <1>0 DEF LiveTypeOK, MainLeads, sdkVars, ownVars, SdkBecomes
    <3>1. CASE Main \/ Raises \/ Uvicorn
      BY <3>1 DEF Main, Raises, Uvicorn, ResolveAgent, AudioMissing, StartServer, ServerStarted,
                  ServerDeadline, SessionStarted, SessionNotStarted, SessionEnded, WaitAgain,
                  HangUpDone, SessionReturns, LeaveRun, ServerJoined, WaitFails,
                  WaitAgainFails, ServerBinds, ServerStops
    <3>2. CASE Sdk \/ SendFails
      BY <3>2 DEF Sdk, Connect, OpenAudio, MarkAudio, ReceiveId, RemoteClose, SdkDrops,
                  SdkDone, SendFails
    <3>3. CASE HangUp
      BY <3>3 DEF HangUp
    <3> QED
      BY <1>2, <3>1, <3>2, <3>3 DEF LiveNext, Microphone, Threads
  <2>2. /\ slips' = slips /\ guard'.stopped = guard.stopped
        /\ \A t \in Threads :
             \/ todo'[t] = todo[t]
             \/ ~ Stopping(t)' /\ (todo[t] = << >> \/ record'.stop = "uncaught")
    BY <1>2, NotEnding
  <2>3. record.stop = "uncaught" => record'.stop = "uncaught"
    BY <1>0, <1>2 DEF RecordIsTrue, LiveNext, Main, Raises, Uvicorn, Sdk, Microphone, ResolveAgent,
         AudioMissing, StartServer, ServerStarted, ServerDeadline, SessionStarted,
         SessionNotStarted, SessionEnded, WaitAgain, HangUpDone, SessionReturns, LeaveRun,
         ServerJoined, WaitFails, WaitAgainFails, ServerBinds, ServerStops, Connect, OpenAudio,
         MarkAudio, ReceiveId, RemoteClose, SdkDrops, SdkDone, SendFails, HangUp, Threads,
         sdkVars, ownVars, SdkBecomes, LiveTypeOK
  <2>4. guard.started => guard'.started
    BY <1>0, <2>1 DEF LiveTypeOK
  <2>5. /\ mic' = "on" => guard'.started \/ sdk' = "marking_audio"
        /\ guard'.started => sdk' \in {"talking", "closing", "finished"}
        /\ guard'.stopped => guard'.started
    BY <1>0, <2>1, <2>2, <2>4 DEF AudioInOrder, LiveTypeOK
  <2>6. guard'.stopped /\ mic' = "on" =>
          (slips \/ record.stop = "uncaught" \/ \E t \in Threads : Todo(t, "stop"))'
    <3>1. SUFFICES ASSUME guard'.stopped, mic' = "on", record'.stop # "uncaught", ~ slips'
                   PROVE  \E t \in Threads : Todo(t, "stop")'
      OBVIOUS
    <3>2. guard.stopped /\ mic = "on" /\ ~ slips /\ record.stop # "uncaught"
      BY <1>0, <2>1, <2>2, <2>3, <3>1 DEF AudioInOrder
    <3>3. PICK t \in Threads : Todo(t, "stop")
      BY <1>0, <3>2 DEF AudioInOrder
    <3>4. todo'[t] = todo[t]
      BY <2>2, <3>1, <3>3 DEF Todo
    <3> QED
      BY <3>3, <3>4 DEF Todo
  <2>7. ASSUME NEW t \in Threads
        PROVE  (Todo(t, "claim") => guard.started)' /\ (Todo(t, "stop") => guard.stopped)'
    BY <1>0, <2>2, <2>4 DEF AudioInOrder, Stopping, Todo
  <2> QED
    BY <2>5, <2>6, <2>7 DEF AudioInOrder
<1> QED
  BY <1>1, <1>2

\* However the session ends, it ends in order.
LEMMA EndsStep == ASSUME LiveInv, LiveNext PROVE EndsInOrder'
<1>0. LiveTypeOK /\ MainLeads /\ AudioInOrder /\ EndsInOrder /\ RecordIsTrue
  BY DEF LiveInv
<1> USE <1>0 DEF LiveTypeOK, sdkVars, ownVars, Exit, SdkBecomes, AudioInOrder, MainLeads,
                 EndsInOrder, PlainHangUp, InSession
<1>1. CASE ResolveAgent
  BY <1>1 DEF ResolveAgent, Todo
<1>2. CASE AudioMissing \/ StartServer \/ ServerStarted \/ ServerDeadline
  BY <1>2 DEF AudioMissing, StartServer, ServerStarted, ServerDeadline, Todo
<1>3. CASE SessionStarted
  BY <1>3 DEF SessionStarted, Todo
<1>4. CASE SessionNotStarted \/ SessionEnded
  BY <1>4, Entered DEF SessionNotStarted, SessionEnded
<1>5. CASE WaitFails \/ WaitAgainFails
  BY <1>5, Entered DEF WaitFails, WaitAgainFails
<1>6. CASE WaitAgain \/ SessionReturns \/ LeaveRun \/ ServerJoined
  BY <1>6 DEF WaitAgain, SessionReturns, LeaveRun, ServerJoined, Todo
<1>7. CASE HangUpDone
  BY <1>7, Entered DEF HangUpDone
<1>8. CASE Connect \/ OpenAudio \/ MarkAudio
  BY <1>8 DEF Connect, OpenAudio, MarkAudio, Todo
<1>9. CASE ReceiveId \/ SdkDrops \/ SdkDone
  BY <1>9 DEF ReceiveId, SdkDrops, SdkDone, Todo
<1>10. CASE RemoteClose \/ SendFails
  BY <1>10, Begun DEF RemoteClose, SendFails, Threads
<1>11. CASE ServerBinds \/ ServerStops
  BY <1>11 DEF ServerBinds, ServerStops, Todo
<1>12. CASE HangUp
  <2>1. /\ hangups' # << >>
        /\ PlainHangUp' => hangups = << >> /\ main = "waiting"
        /\ (\A i \in DOMAIN hangups' : hangups'[i].audio) => guard.started
    BY <1>12, HungUp
  <2>2. guard' = guard /\ mic' = mic /\ slips' = slips
    BY <1>12 DEF HangUp
  <2>3. CASE main = "waiting"
    <3>1. EndThen("ending") /\ sdk' = sdk
      BY <1>12, <2>3 DEF HangUp
    <3> QED
      BY <2>1, <2>2, <2>3, <3>1, Entered
  <2>4. CASE main # "waiting"
    BY <2>1, <2>4
  <2> QED
    BY <2>3, <2>4
<1>13. ASSUME NEW t \in Threads, Ending(t)
      PROVE  EndsInOrder'
  <2>1. /\ UNCHANGED <<main, ended_by, hangups, record>> /\ PlainHangUp' = PlainHangUp
        /\ sdk = "finished" => sdk' = "finished"
    BY <1>13, EndingStep
  <2>2. (ended_by /\ hangups = << >> /\ record.stop # "failed" => sdk = "finished")'
    BY <2>1
  <2>3. (ended_by /\ PlainHangUp /\ record.stop # "failed"
          /\ (\A i \in DOMAIN hangups : hangups[i].audio) =>
          /\ guard.started \/ sdk = "finished"
          /\ mic = "on" /\ ~ slips => Len(todo["main"]) >= 6 \/ guard.stopped)'
    BY <1>13, <2>1, EndingStep DEF Threads
  <2>4. (main \in {"returning", "leaving", "stopping", "exited"}
          /\ PlainHangUp /\ record.stop # "failed" => sdk \in {"none", "finished"})'
    BY <1>13, <2>1, EndingStep
  <2> QED
    BY <2>2, <2>3, <2>4
<1> QED
  BY <1>1, <1>2, <1>3, <1>4, <1>5, <1>6, <1>7, <1>8, <1>9, <1>10, <1>11, <1>12, <1>13
     DEF LiveNext, Main, Raises, Sdk, Microphone, Uvicorn, Threads

\* No thread finds the audio running that it has stopped.
LEMMA StopsStep == ASSUME LiveInv, LiveNext PROVE StopsInOrder'
<1>0. LiveTypeOK /\ MainLeads /\ AudioInOrder /\ EndsInOrder /\ StopsInOrder
  BY DEF LiveInv
<1>1. ASSUME \A t \in Threads : ~ Ending(t)
      PROVE  StopsInOrder'
  <2>1. /\ stops' = stops /\ guard'.stopped = guard.stopped
        /\ ended_by => ended_by'
        /\ hangups' = << >> => hangups = << >>
        /\ hangups' = << >> /\ ended_by /\ record.stop = "failed" => record'.stop = "failed"
    BY <1>1, NotEnding
  <2>2. \A t \in Threads : Stopping(t)' => Stopping(t)
    BY <1>1, NotEnding DEF Stopping, Todo
  <2>3. Stopping("main") => ended_by
    BY <1>0 DEF MainLeads, Stopping, Todo
  <2> QED
    BY <1>0, <2>1, <2>2, <2>3 DEF StopsInOrder, Threads
<1>2. ASSUME NEW t \in Threads, Ending(t)
      PROVE  StopsInOrder'
  <2>1. /\ UNCHANGED <<main, ended_by, hangups, record>>
        /\ todo[t] # << >>
        /\ \A s \in Threads \ {t} : todo'[s] = todo[s]
        /\ Todo(t, "claim")' => guard.started /\ ~ guard.stopped /\ stops' = stops
        /\ Todo(t, "stop")' => guard'.stopped /\ Todo(t, "claim") /\ stops' = stops
        /\ guard.stopped => guard'.stopped
        /\ \/ stops' = stops
           \/ Todo(t, "stop") /\ ~ Stopping(t)' /\ stops'[t] = stops[t] + 1
        /\ \A s \in Threads \ {t} : stops'[s] = stops[s]
    BY <1>0, <1>2, EndingStep DEF ownVars, LiveTypeOK
  <2>2. ASSUME NEW s \in Threads
        PROVE  /\ stops'[s] <= 1
               /\ stops'[s] = 1 => guard'.stopped
               /\ Stopping(s)' => stops'[s] = 0
    <3>1. stops[s] \in Nat
      BY <1>0 DEF LiveTypeOK
    <3>2. CASE s # t
      BY <1>0, <2>1, <3>1, <3>2 DEF StopsInOrder, Stopping, Todo
    <3>3. CASE s = t /\ stops' = stops
      BY <1>0, <2>1, <3>1, <3>3 DEF StopsInOrder, Stopping
    <3>4. CASE s = t /\ stops' # stops
      <4>1. stops[s] = 0 /\ stops'[s] = 1 /\ ~ Stopping(s)' /\ guard.stopped
        BY <1>0, <2>1, <3>4 DEF StopsInOrder, Stopping, AudioInOrder
      <4> QED
        BY <2>1, <4>1
    <3> QED
      BY <3>2, <3>3, <3>4
  <2>3. Stopping("main") => ended_by
    BY <1>0 DEF MainLeads, Stopping, Todo
  <2>4. stops'["main"] = 1 => ended_by'
    <3>1. CASE stops'["main"] = stops["main"]
      BY <1>0, <2>1, <3>1 DEF StopsInOrder
    <3>2. CASE stops'["main"] # stops["main"]
      <4>1. t = "main"
        BY <2>1, <3>2 DEF Threads
      <4> QED
        BY <2>1, <2>3, <3>2, <4>1 DEF Stopping
    <3> QED
      BY <3>1, <3>2
  <2>5. ASSUME hangups' = << >>, record'.stop # "failed",
               Stopping("main")' \/ stops'["main"] = 1
        PROVE  stops'["sdk"] = 0
    <3>1. hangups = << >> /\ record.stop # "failed"
      BY <2>1, <2>5
    <3>2. CASE t = "main"
      <4>1. stops'["sdk"] = stops["sdk"]
        BY <2>1, <3>2 DEF Threads
      <4>2. CASE Stopping("main") \/ stops["main"] = 1
        BY <1>0, <3>1, <4>1, <4>2 DEF StopsInOrder
      <4>3. CASE ~ Stopping("main") /\ stops["main"] # 1
        <5>1. Todo("main", "claim")'
          BY <2>1, <2>5, <3>2, <4>3 DEF Stopping
        <5>2. ~ guard.stopped
          BY <2>1, <3>2, <5>1
        <5>3. stops["sdk"] \in Nat /\ stops["sdk"] <= 1 /\ stops["sdk"] # 1
          BY <1>0, <5>2 DEF StopsInOrder, LiveTypeOK, Threads
        <5> QED
          BY <4>1, <5>3
      <4> QED
        BY <4>2, <4>3
    <3>3. CASE t # "main"
      <4>1. Stopping("main") \/ stops["main"] = 1
        BY <2>1, <2>5, <3>3 DEF Stopping, Todo, Threads
      <4>2. stops["sdk"] = 0 /\ ended_by
        BY <1>0, <2>3, <3>1, <4>1 DEF StopsInOrder
      <4>3. sdk = "finished"
        BY <1>0, <3>1, <4>2 DEF EndsInOrder
      <4>4. t # "sdk"
        BY <1>0, <2>1, <4>3 DEF MainLeads
      <4> QED
        BY <2>1, <4>2, <4>4 DEF Threads
    <3> QED
      BY <3>2, <3>3
  <2> QED
    BY <2>2, <2>4, <2>5 DEF StopsInOrder
<1> QED
  BY <1>1, <1>2

\* What is recorded of the session, and the status, stay true.
LEMMA RecordStep == ASSUME LiveInv, LiveNext PROVE RecordIsTrue'
<1>0. LiveTypeOK /\ MainLeads /\ AudioInOrder /\ EndsInOrder /\ RecordIsTrue
  BY DEF LiveInv
<1> USE <1>0 DEF LiveTypeOK, sdkVars, ownVars, Exit, SdkBecomes, MainLeads, RecordIsTrue,
                 Some, None, SIGINT, exit_code, Status, InSession, PlainHangUp
<1>1. CASE ResolveAgent
  <2>1. /\ UNCHANGED <<record, service, sdk, hangups>> /\ main = "resolving"
        /\ exit' = exit \/ exit' = Some(1)
    BY <1>1 DEF ResolveAgent
  <2>2. record.stop # "uncaught" /\ sdk = "none"
    BY <2>1
  <2>3. Some(0)[1] = 0 /\ Some(1)[1] = 1
    OBVIOUS
  <2>4. Some(1) # Some(0)
    BY <2>3
  <2>5. exit # Some(0)
    BY <2>2
  <2> QED
    BY <2>1, <2>2, <2>4, <2>5
<1>2. CASE AudioMissing \/ StartServer \/ ServerStarted \/ ServerDeadline
  BY <1>2 DEF AudioMissing, StartServer, ServerStarted, ServerDeadline, Todo
<1>3. CASE SessionStarted
  BY <1>3 DEF SessionStarted, Todo
<1>4. CASE SessionNotStarted \/ SessionEnded
  BY <1>4, Entered DEF SessionNotStarted, SessionEnded
<1>5. CASE WaitFails \/ WaitAgainFails
  <2>1. CASE WaitFails
    BY <2>1, Entered DEF WaitFails
  <2>2. CASE WaitAgainFails
    BY <2>2, Entered DEF WaitAgainFails
  <2> QED
    BY <1>5, <2>1, <2>2
<1>6. CASE WaitAgain \/ SessionReturns \/ LeaveRun \/ ServerJoined
  BY <1>6 DEF WaitAgain, SessionReturns, LeaveRun, ServerJoined, Todo
<1>7. CASE HangUpDone
  BY <1>7, Entered DEF HangUpDone
<1>8. CASE Connect \/ OpenAudio \/ MarkAudio
  BY <1>8 DEF Connect, OpenAudio, MarkAudio, Todo
<1>9. CASE ReceiveId \/ SdkDrops \/ SdkDone
  BY <1>9 DEF ReceiveId, SdkDrops, SdkDone, Todo
<1>10. CASE RemoteClose \/ SendFails
  BY <1>10, Begun DEF RemoteClose, SendFails, Threads
<1>11. CASE ServerBinds \/ ServerStops
  BY <1>11 DEF ServerBinds, ServerStops, Todo
<1>12. CASE HangUp
  <2>1. /\ hangups' # << >> /\ service' = service /\ record'.connected = record.connected
        /\ PlainHangUp' => hangups = << >> /\ main = "waiting"
    BY <1>12, HungUp DEF HangUp
  <2>2. sdk = "finished" => sdk' = "finished"
    BY <1>12 DEF HangUp
  <2>3. exit' = exit \/ exit' = Some(SIGINT)
    BY <1>12 DEF HangUp, EndThen
  <2>4. record'.stop = "uncaught" =>
          main # "waiting" /\ main' \in {"returning", "leaving", "stopping", "exited"}
    BY <1>12 DEF HangUp, EndThen
  <2>5. record'.stop = "ended" => record.stop = "ended"
    BY <1>12 DEF HangUp
  <2> QED
    BY <2>1, <2>2, <2>3, <2>4, <2>5
<1>13. ASSUME NEW t \in Threads, Ending(t)
      PROVE  RecordIsTrue'
  BY <1>13, EndingStep
<1> QED
  BY <1>1, <1>2, <1>3, <1>4, <1>5, <1>6, <1>7, <1>8, <1>9, <1>10, <1>11, <1>12, <1>13
     DEF LiveNext, Main, Raises, Sdk, Microphone, Uvicorn, Threads

-----------------------------------------------------------------------------
(* The invariant.                                                          *)

\* The invariant holds at the start of the command.
LEMMA LiveStart == LiveInit => LiveInv
<1> SUFFICES ASSUME LiveInit PROVE LiveInv
  OBVIOUS
<1> USE DEF LiveInit
<1>1. LiveTypeOK
  <2>1. hangups \in Seq([at : Places, audio : BOOLEAN])
    OBVIOUS
  <2>2. agent \in Optional(WellFormedIds) /\ exit \in Optional({0, 1, SIGINT})
    BY DEF Optional
  <2>3. main \in Places /\ (exit = None <=> main # "exited")
    BY DEF Places
  <2> QED
    BY <2>1, <2>2, <2>3 DEF LiveTypeOK, TodoTypeOK, Threads
<1>2. MainLeads /\ AudioInOrder /\ RecordIsTrue
  BY SomeIsNotNone DEF MainLeads, AudioInOrder, RecordIsTrue, InSession, Todo, Threads
<1>3. EndsInOrder /\ StopsInOrder
  BY DEF EndsInOrder, StopsInOrder, Stopping, Todo, Threads
<1> QED
  BY <1>1, <1>2, <1>3 DEF LiveInv

\* A step that changes nothing keeps it.
LEMMA LiveStutter == LiveInv /\ UNCHANGED liveVars => LiveInv'
BY DEF LiveInv, LiveTypeOK, TodoTypeOK, MainLeads, AudioInOrder, EndsInOrder, StopsInOrder,
       Stopping, RecordIsTrue, PlainHangUp, InSession, Todo, Optional, liveVars

\* Whatever the three threads, uvicorn, the service and the person at the terminal
\* do, what holds of a run between two steps goes on holding (cli.py, elevenlabs.py).
THEOREM LiveInductive == LiveSpec => []LiveInv
<1>1. LiveInit => LiveInv
  BY LiveStart
<1>2. LiveInv /\ [LiveNext]_liveVars => LiveInv'
  <2>1. LiveInv /\ LiveNext => LiveInv'
    BY StepTypes, LeadsStep, AudioStep, EndsStep, StopsStep, RecordStep DEF LiveInv
  <2> QED
    BY <2>1, LiveStutter
<1> QED
  BY <1>1, <1>2, PTL DEF LiveSpec

\* Once session has returned the microphone is off, but for the exceptions the
\* property names, however the threads interleave (elevenlabs.py, end and
\* _GuardedAudio).
THEOREM MicrophoneOff == LiveSpec => []MicrophoneReleased
<1>1. LiveInv => MicrophoneReleased
  <2> SUFFICES ASSUME LiveInv, ~ InSession, mic = "on", ~ slips, record.stop # "failed",
                      \A i \in DOMAIN hangups : hangups[i].audio, PlainHangUp
               PROVE  Todo("audio", "stop")
    BY DEF MicrophoneReleased
  <2>1. todo["main"] = << >>
    BY DEF LiveInv, MainLeads, InSession
  <2>2. ended_by
    BY DEF LiveInv, LiveTypeOK, MainLeads, AudioInOrder, InSession
  <2>3. guard.stopped
    BY <2>1, <2>2, LeftLengths DEF LiveInv, EndsInOrder
  <2>4. PICK t \in Threads : Todo(t, "stop")
    BY <2>3 DEF LiveInv, AudioInOrder, RecordIsTrue
  <2>5. sdk \in {"none", "finished"}
    BY DEF LiveInv, EndsInOrder, InSession, MainLeads, AudioInOrder, LiveTypeOK, Places
  <2>6. todo["sdk"] = << >>
    BY <2>5 DEF LiveInv, MainLeads
  <2> QED
    BY <2>1, <2>4, <2>6 DEF Todo, Threads
<1> QED
  BY <1>1, LiveInductive, PTL

\* No thread stops the inner audio twice, whichever of them end the session and
\* however often; and the main thread and the SDK's both stop it only in a run that was
\* hung up or whose wait failed (elevenlabs.py, end and _GuardedAudio.stop).
THEOREM OneStopPerThread == LiveSpec => []OneStopEach
<1>1. LiveInv => OneStopEach
  <2> SUFFICES ASSUME LiveInv, stops["main"] + stops["sdk"] = 2, hangups = << >>
               PROVE  record.stop = "failed"
    BY DEF LiveInv, StopsInOrder, OneStopEach
  <2>1. \A t \in Threads : stops[t] \in Nat /\ stops[t] <= 1
    BY DEF LiveInv, LiveTypeOK, StopsInOrder
  <2>2. stops["main"] = 1 /\ stops["sdk"] = 1
    BY <2>1 DEF Threads
  <2> QED
    BY <2>2 DEF LiveInv, StopsInOrder
<1> QED
  BY <1>1, LiveInductive, PTL

\* The server outlives the conversation in a run that was hung up plainly (cli.py,
\* the with statement; elevenlabs.py, the second wait).
THEOREM ServedThroughout == LiveSpec => []ToolsAreServed
<1>1. LiveInv => ToolsAreServed
  BY DEF LiveInv, MainLeads, EndsInOrder, ToolsAreServed, InSession, LiveTypeOK, Places
<1> QED
  BY <1>1, LiveInductive, PTL

\* Exit status 0 means that a conversation was held (run.py, exit_code; cli.py).
THEOREM ExitTrue == LiveSpec => []ExitIsHonest
<1>1. LiveInv => ExitIsHonest
  BY DEF LiveInv, RecordIsTrue, ExitIsHonest
<1> QED
  BY <1>1, LiveInductive, PTL
=============================================================================
