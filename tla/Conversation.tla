----------------------------- MODULE Conversation -----------------------------
(***************************************************************************)
(* What a conversation of an agent with the servicing API comes to, threads *)
(* and requests left out.  Each tool call has its effect once or never, at  *)
(* one moment after the agent made it, and what the agent hears of it is    *)
(* what was true at that moment.  A call that the agent hears has failed    *)
(* may still have its effect, later, unheard.                               *)
(***************************************************************************)
EXTENDS AtomicServicing

VARIABLE heard  \* heard[c]: what the agent has of tool call c, a client of the API

talkVars == <<atomicVars, heard>>

\* A call has ended for the agent, with an answer or with an error.
Ended(call, answer) == [step |-> "done", call |-> call, answer |-> answer]

TalkInit ==
  /\ AtomicInit
  /\ heard = [c \in Clients |-> [step |-> "unmade"]]

\* The agent makes the call, once.  One that the API will refuse unread asks nothing.
Make(c, call) ==
  /\ heard[c].step = "unmade"
  /\ heard' = [heard EXCEPT ![c] = [step |-> "waiting", call |-> call]]
  /\ Ask(c, call) \/ UNCHANGED atomicVars

\* The agent hears that a call failed: it could not be made, it was refused, or the
\* agent waits for it no more.  What was asked stays asked.
Fail(c, call) ==
  /\ heard[c].step = "unmade" \/ (heard[c].step = "waiting" /\ heard[c].call = call)
  /\ heard' = [heard EXCEPT ![c] = Ended(call, None)]
  /\ UNCHANGED atomicVars

\* The one moment of a call.
TakeEffect(c) ==
  /\ \/ Refuse(c) \/ Look(c) \/ ReadOut(c) \/ NoIdLeft(c)
     \/ Take(c) \/ HearAgain(c) \/ NoNumberLeft(c)
  /\ UNCHANGED heard

\* The answer arrives, for an agent that still waits.
Arrive(c) ==
  /\ Hear(c)
  /\ LET result == client[c].result
         answer == IF result.kind = "server_error" THEN None ELSE Some(result)
     IN heard' = [heard EXCEPT ![c] =
                    IF @.step = "waiting" THEN Ended(@.call, answer) ELSE @]

\* A call that failed has no effect after all.
Vanish(c) ==
  /\ heard[c].step = "done"
  /\ client[c].step = "called"
  /\ client' = [client EXCEPT ![c] = [step |-> "idle"]]
  /\ UNCHANGED <<policies, offers, now, heard>>

TalkNext ==
  \/ \E c \in Clients :
       \/ \E call \in Calls : Make(c, call) \/ Fail(c, call)
       \/ TakeEffect(c) \/ Arrive(c) \/ Vanish(c)
  \/ Environs /\ UNCHANGED heard

TalkSpec == TalkInit /\ [][TalkNext]_talkVars
=============================================================================
