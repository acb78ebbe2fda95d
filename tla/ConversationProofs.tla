-------------------------- MODULE ConversationProofs --------------------------
(***************************************************************************)
(* ToolCalls implements Conversation: whatever happens to requests, each    *)
(* tool call has its effect once or never.  The API's part of each step is  *)
(* what AtomicProofs shows of a thread; here the thread gives way to the    *)
(* tool call that it runs.                                                  *)
(***************************************************************************)
EXTENDS ToolCallsProofs, AtomicProofs

\* The API's view and the agent's view of the tool calls.
KnownRequests == [c \in ToolCallIds |-> KnownRequest(c)]
KnownReports == [c \in ToolCallIds |-> KnownReport(c)]

TalkStep == [Talk!TalkNext]_(Talk!talkVars)

-----------------------------------------------------------------------------
(* What is known of one tool call.                                         *)

\* A call that a thread runs is known as that thread is.
LEMMA CarriedIs ==
  ASSUME RequestsRunOnce, NEW w \in Workers, NEW c \in ToolCallIds, carries[w] = Some(c)
  PROVE  wire[c] = "running" /\ KnownRequest(c) = KnownCall(w)
<1>1. wire[c] = "running" /\ \A v \in Workers : carries[v] = Some(c) => v = w
  BY DEF RequestsRunOnce
<1>2. (CHOOSE v \in Workers : carries[v] = Some(c)) = w
  BY <1>1
<1> QED
  BY <1>1, <1>2 DEF KnownRequest

\* A call that is neither on its way nor run is not asked.
LEMMA UnaskedIs ==
  ASSUME RequestsRunOnce, NEW c \in ToolCallIds, wire[c] \notin {"sent", "running"}
  PROVE  KnownRequest(c) = Idle
BY DEF RequestsRunOnce, KnownRequest

\* Requests that did not move are known alike.
LEMMA RequestsSame ==
  ASSUME wire' = wire, carries' = carries, task' = task,
         \A c \in ToolCallIds : wire[c] = "sent" => tool'[c].call = tool[c].call
  PROVE  KnownRequests' = KnownRequests
<1>1. \A w : KnownCall(w)' = KnownCall(w)
  BY DEF KnownCall
<1>2. \A c \in ToolCallIds : KnownRequest(c)' = KnownRequest(c)
  BY <1>1 DEF KnownRequest
<1> QED
  BY <1>2 DEF KnownRequests

\* A call that stayed where it was, and whose thread did, is known alike.
LEMMA RequestKept ==
  ASSUME NEW c \in ToolCallIds, wire'[c] = wire[c], tool'[c].call = tool[c].call,
         \A w \in Workers : carries'[w] = Some(c) <=> carries[w] = Some(c),
         \A w \in Workers : carries[w] = Some(c) => task'[w] = task[w]
  PROVE  KnownRequest(c)' = KnownRequest(c)
<1>1. (CHOOSE w \in Workers : carries'[w] = Some(c)) = (CHOOSE w \in Workers : carries[w] = Some(c))
  OBVIOUS
<1>2. ASSUME \E w \in Workers : carries[w] = Some(c)
      PROVE  LET w == CHOOSE w \in Workers : carries[w] = Some(c) IN task'[w] = task[w]
  BY <1>2
<1> QED
  BY <1>1, <1>2 DEF KnownRequest, KnownCall

\* One call moved, for the API and for the agent.
LEMMA RequestMoved ==
  ASSUME NEW c \in ToolCallIds,
         \A d \in ToolCallIds : d # c => KnownRequest(d)' = KnownRequest(d)
  PROVE  KnownRequests' = [KnownRequests EXCEPT ![c] = KnownRequest(c)']
BY DEF KnownRequests

\* The same for what the agent has.
LEMMA ReportMoved ==
  ASSUME NEW c \in ToolCallIds, \A d \in ToolCallIds : d # c => tool'[d] = tool[d]
  PROVE  KnownReports' = [KnownReports EXCEPT ![c] = KnownReport(c)']
<1>1. \A d \in ToolCallIds : d # c => KnownReport(d)' = KnownReport(d)
  BY DEF KnownReport
<1> QED
  BY <1>1 DEF KnownReports

\* A call that the agent heard has failed.
LEMMA FailedIs ==
  ASSUME NEW c \in ToolCallIds, NEW call, NEW outcome, outcome.status # 200,
         tool[c] = Done(call, outcome)
  PROVE  KnownReport(c) = [step |-> "done", call |-> call, answer |-> None]
BY DEF KnownReport, Done

\* Steps of the agent alone.
LEMMA OffersSame ==
  ASSUME UNCHANGED vars
  PROVE  KnownOffers' = KnownOffers /\ policies' = policies /\ now' = now
BY OffersKept DEF vars, BeingReplaced

-----------------------------------------------------------------------------
(* The steps of the agent and of the network.                              *)

\* The agent hears of a failure, and nothing else happens.
LEMMA TalkFails ==
  ASSUME NEW c \in ToolCallIds, NEW call \in Call, UNCHANGED vars,
         KnownRequests' = KnownRequests,
         tool[c].step = "unmade" \/ (tool[c].step = "waiting" /\ tool[c].call = call),
         KnownReports' = [KnownReports EXCEPT ![c] =
                            [step |-> "done", call |-> call, answer |-> None]]
  PROVE  TalkStep
<1>1. \/ KnownReports[c].step = "unmade"
      \/ KnownReports[c].step = "waiting" /\ KnownReports[c].call = call
  BY DEF KnownReports, KnownReport
<1>2. Talk!Ended(call, Talk!None) = [step |-> "done", call |-> call, answer |-> None]
  BY DEF Talk!Ended, Talk!None, None
<1>3. Talk!Fail(c, call)
  BY <1>1, <1>2, OffersSame
     DEF Talk!Fail, Talk!atomicVars, KnownReports, KnownRequests, KnownOffers
<1> QED
  BY <1>3 DEF TalkStep, Talk!TalkNext

\* A step that neither the API nor the agent can see.
LEMMA TalkStutter ==
  ASSUME policies' = policies, now' = now, KnownOffers' = KnownOffers,
         KnownRequests' = KnownRequests, KnownReports' = KnownReports
  PROVE  TalkStep
BY DEF TalkStep, Talk!talkVars, Talk!atomicVars, KnownOffers, KnownRequests, KnownReports


\* What a tool call that is neither asked nor run shows, when it fails.
LEMMA FailureShown ==
  ASSUME ToolInv, NEW c \in ToolCallIds, NEW call \in Call, NEW outcome, outcome.status # 200,
         tool[c].step = "unmade" \/ (tool[c].step = "waiting" /\ tool[c].call = call),
         tool' = [tool EXCEPT ![c] = Done(call, outcome)]
  PROVE  /\ KnownReports' = [KnownReports EXCEPT ![c] =
                               [step |-> "done", call |-> call, answer |-> None]]
         /\ \A d \in ToolCallIds : wire[d] # "nowhere" => tool'[d].call = tool[d].call
<1>1. /\ tool'[c] = Done(call, outcome)
      /\ \A d \in ToolCallIds : d # c => tool'[d] = tool[d]
  BY ToolMoved DEF ToolInv
<1>2. KnownReport(c)' = [step |-> "done", call |-> call, answer |-> None]
  BY <1>1 DEF KnownReport, Done
<1>3. wire[c] # "nowhere" => tool[c].step # "unmade"
  BY DEF ToolInv, RequestsRunOnce
<1> QED
  BY <1>1, <1>2, <1>3, ReportMoved DEF Done

\* A call that cannot be planned fails.
LEMMA TalkUnplannable ==
  ASSUME ToolInv, NEW c \in ToolCallIds, CallUnplannable(c)
  PROVE  TalkStep
<1>1. PICK call \in Call, given \in ArgumentSets :
        tool' = [tool EXCEPT ![c] = Done(call, CallFailed(plan_failure(call.op, given)[1]))]
  BY DEF CallUnplannable
<1> DEFINE reason == plan_failure(call.op, given)[1]
<1>2. tool[c].step = "unmade" /\ wire' = wire /\ carries' = carries /\ UNCHANGED vars
  BY DEF CallUnplannable, IsNext, Unmade
<1>3. CallFailed(reason).status # 200
  BY DEF CallFailed
<1>4. KnownRequests' = KnownRequests
  BY <1>1, <1>2, <1>3, FailureShown, RequestsSame DEF vars
<1> QED
  BY <1>1, <1>2, <1>3, <1>4, FailureShown, TalkFails

\* A call that is given up fails, and stays asked.
LEMMA TalkGiveUp ==
  ASSUME ToolInv, NEW c \in ToolCallIds, GiveUp(c)
  PROVE  TalkStep
<1>1. PICK call \in Call : call = tool[c].call
  BY DEF GiveUp, ToolInv, ToolTypeOK
<1>2. /\ tool' = [tool EXCEPT ![c] = Done(call, CallFailed("connection"))]
      /\ tool[c].step = "waiting" /\ wire' = wire /\ carries' = carries /\ UNCHANGED vars
  BY <1>1 DEF GiveUp
<1>3. CallFailed("connection").status # 200
  BY DEF CallFailed
<1>4. KnownRequests' = KnownRequests
  BY <1>1, <1>2, <1>3, FailureShown, RequestsSame DEF vars
<1> QED
  BY <1>1, <1>2, <1>3, <1>4, FailureShown, TalkFails

\* A malformed body that is refused was not asked: the call fails, if it did not
\* before.
LEMMA TalkRefuseBody ==
  ASSUME ToolInv, NEW c \in ToolCallIds, RefuseBody(c)
  PROVE  TalkStep
<1>1. /\ ToolTypeOK /\ RequestsRunOnce /\ wire[c] = "sent_malformed"
      /\ wire' = [wire EXCEPT ![c] = "answered"] /\ carries' = carries /\ UNCHANGED vars
      /\ Deliver(c, HttpExchange(422, None))
  BY DEF ToolInv, RefuseBody
<1>2. wire'[c] = "answered" /\ \A d \in ToolCallIds : d # c => wire'[d] = wire[d]
  BY <1>1 DEF ToolTypeOK
<1>3. \A w \in Workers : carries[w] # Some(c)
  BY <1>1 DEF RequestsRunOnce
<1>4. \A d \in ToolCallIds : d # c => tool'[d] = tool[d]
  BY <1>1, Delivered
<1>5. KnownRequests' = KnownRequests
  <2>1. KnownRequest(c)' = KnownRequest(c)
    BY <1>1, <1>2, <1>3 DEF KnownRequest
  <2>2. \A d \in ToolCallIds : d # c => KnownRequest(d)' = KnownRequest(d)
    BY <1>1, <1>2, <1>4, RequestKept DEF vars
  <2> QED
    BY <2>1, <2>2 DEF KnownRequests
<1>6. CASE tool[c].step = "waiting"
  <2>1. PICK call \in Call : call = tool[c].call
    BY <1>1, <1>6 DEF ToolTypeOK
  <2>2. tool' = [tool EXCEPT ![c] = Done(call, HttpExchange(422, None))]
    BY <1>1, <1>6, <2>1 DEF Deliver
  <2>3. HttpExchange(422, None).status # 200
    BY DEF HttpExchange
  <2> QED
    BY <1>1, <1>5, <1>6, <2>1, <2>2, <2>3, FailureShown, TalkFails
<1>7. CASE tool[c].step # "waiting"
  <2>1. tool'[c] = tool[c]
    BY <1>1, <1>7, Delivered
  <2>2. \A d \in ToolCallIds : tool'[d] = tool[d]
    BY <1>4, <2>1
  <2>3. KnownReports' = KnownReports
    BY <2>2 DEF KnownReports, KnownReport
  <2> QED
    BY <1>1, <1>5, <2>3, OffersSame, TalkStutter
<1> QED
  BY <1>6, <1>7

\* A request that is sent is asked; one that is malformed is not.
LEMMA TalkPlanned ==
  ASSUME ToolInv, NEW c \in ToolCallIds, CallPlanned(c)
  PROVE  TalkStep
<1>1. PICK call \in Call, place \in {"sent", "sent_malformed"} :
        /\ tool' = [tool EXCEPT ![c] = [step |-> "waiting", call |-> call]]
        /\ wire' = [wire EXCEPT ![c] = place]
  BY DEF CallPlanned
<1>2. /\ ToolTypeOK /\ RequestsRunOnce /\ tool[c].step = "unmade"
      /\ carries' = carries /\ UNCHANGED vars
  BY DEF ToolInv, CallPlanned, IsNext, Unmade
<1>3. wire[c] = "nowhere" /\ \A w \in Workers : carries[w] # Some(c)
  BY <1>2 DEF RequestsRunOnce
<1>4. /\ tool'[c] = [step |-> "waiting", call |-> call] /\ wire'[c] = place
      /\ \A d \in ToolCallIds : d # c => tool'[d] = tool[d] /\ wire'[d] = wire[d]
  BY <1>1, <1>2 DEF ToolTypeOK
<1>5. KnownReport(c) = tool[c] /\ KnownReport(c)' = [step |-> "waiting", call |-> call]
  BY <1>2, <1>4 DEF KnownReport
<1>6. KnownReports' = [KnownReports EXCEPT ![c] = [step |-> "waiting", call |-> call]]
  BY <1>4, <1>5, ReportMoved
<1>7. KnownRequest(c) = Idle
  BY <1>2, <1>3, UnaskedIs
<1>8. KnownRequest(c)' = IF place = "sent" THEN [step |-> "called", call |-> call] ELSE Idle
  BY <1>2, <1>3, <1>4 DEF KnownRequest
<1>9. \A d \in ToolCallIds : d # c => KnownRequest(d)' = KnownRequest(d)
  BY <1>2, <1>4, RequestKept DEF vars
<1>10. KnownRequests' = [KnownRequests EXCEPT ![c] = KnownRequest(c)']
  BY <1>9, RequestMoved
<1>11. place = "sent" => Talk!Ask(c, call)
  BY <1>2, <1>7, <1>8, <1>10, OffersSame DEF Talk!Ask, Idle, KnownRequests, KnownOffers
<1>12. place # "sent" => UNCHANGED Talk!atomicVars
  <2>1. place # "sent" => KnownRequests' = KnownRequests
    BY <1>7, <1>8, <1>10 DEF KnownRequests
  <2> QED
    BY <1>2, <2>1, OffersSame DEF Talk!atomicVars, KnownRequests, KnownOffers
<1>13. KnownReports[c].step = "unmade"
  BY <1>2, <1>5 DEF KnownReports
<1>14. Talk!Make(c, call)
  BY <1>6, <1>11, <1>12, <1>13 DEF Talk!Make, KnownReports
<1> QED
  BY <1>14 DEF TalkStep, Talk!TalkNext

\* A request that is lost is asked no more.
LEMMA TalkLose ==
  ASSUME ToolInv, NEW c \in ToolCallIds, LoseRequest(c)
  PROVE  TalkStep
<1>1. /\ ToolTypeOK /\ RequestsRunOnce /\ tool[c].step = "done"
      /\ wire[c] \in {"sent", "sent_malformed"} /\ wire' = [wire EXCEPT ![c] = "lost"]
      /\ tool' = tool /\ carries' = carries /\ UNCHANGED vars
  BY DEF ToolInv, LoseRequest
<1>2. wire'[c] = "lost" /\ \A d \in ToolCallIds : d # c => wire'[d] = wire[d]
  BY <1>1 DEF ToolTypeOK
<1>3. \A w \in Workers : carries[w] # Some(c)
  BY <1>1 DEF RequestsRunOnce
<1>4. KnownReports' = KnownReports
  BY <1>1 DEF KnownReports, KnownReport
<1>5. KnownRequest(c)' = Idle
  BY <1>1, <1>2, <1>3 DEF KnownRequest
<1>6. \A d \in ToolCallIds : d # c => KnownRequest(d)' = KnownRequest(d)
  BY <1>1, <1>2, RequestKept DEF vars
<1>7. KnownRequests' = [KnownRequests EXCEPT ![c] = Idle]
  BY <1>5, <1>6, RequestMoved
<1>8. CASE wire[c] = "sent"
  <2>1. KnownRequests[c].step = "called"
    BY <1>8 DEF KnownRequests, KnownRequest
  <2>2. KnownReports[c].step = "done"
    BY <1>1 DEF KnownReports, KnownReport
  <2>3. Talk!Vanish(c)
    BY <1>1, <1>4, <1>7, <2>1, <2>2, OffersSame
       DEF Talk!Vanish, Idle, KnownRequests, KnownReports, KnownOffers
  <2> QED
    BY <2>3 DEF TalkStep, Talk!TalkNext
<1>9. CASE wire[c] = "sent_malformed"
  <2>1. KnownRequest(c) = Idle
    BY <1>1, <1>9, UnaskedIs
  <2>2. KnownRequests' = KnownRequests
    BY <1>7, <2>1 DEF KnownRequests
  <2> QED
    BY <1>1, <1>4, <2>2, OffersSame, TalkStutter
<1> QED
  BY <1>1, <1>8, <1>9

-----------------------------------------------------------------------------
(* The steps of the API.                                                   *)

\* A request that a thread takes is asked as before.
LEMMA TalkTake ==
  ASSUME ToolInv, NEW w \in Workers, NEW c \in ToolCallIds, TakeRequest(w, c)
  PROVE  TalkStep
<1> DEFINE t == [step |-> "called", call |-> tool[c].call]
<1>1. TypeOK /\ ToolTypeOK /\ RequestsRunOnce
  BY DEF ToolInv, IInv
<1>2. /\ wire[c] = "sent" /\ tool' = tool /\ wire' = [wire EXCEPT ![c] = "running"]
      /\ carries' = [carries EXCEPT ![w] = Some(c)]
      /\ task[w] = Idle /\ task' = [task EXCEPT ![w] = t]
      /\ proposals' = proposals /\ policies' = policies /\ now' = now
  BY DEF TakeRequest, Receive, store
<1>3. task[w].step = "idle" /\ t.step = "called" /\ carries[w] = None
  BY <1>1, <1>2 DEF Idle, RequestsRunOnce
<1>4. KnownOffers' = KnownOffers
  BY <1>1, <1>2, <1>3, ReplacedKept, OffersKept
<1>5. /\ carries'[w] = Some(c) /\ wire'[c] = "running" /\ task'[w] = t
      /\ \A v \in Workers : v # w => carries'[v] = carries[v] /\ task'[v] = task[v]
      /\ \A d \in ToolCallIds : d # c => wire'[d] = wire[d]
  BY <1>1, <1>2 DEF ToolTypeOK, TypeOK
<1>6. KnownRequest(c)' = KnownRequest(c)
  <2>1. \A v \in Workers : carries[v] # Some(c)
    BY <1>1, <1>2 DEF RequestsRunOnce
  <2>2. (CHOOSE v \in Workers : carries'[v] = Some(c)) = w
    BY <1>5, <2>1
  <2>3. KnownRequest(c)' = KnownCall(w)'
    BY <1>5, <2>2 DEF KnownRequest
  <2>4. KnownCall(w)' = t
    BY <1>3, <1>5 DEF KnownCall
  <2> QED
    BY <1>2, <2>3, <2>4 DEF KnownRequest
<1>7. ASSUME NEW d \in ToolCallIds, d # c
      PROVE  KnownRequest(d)' = KnownRequest(d)
  <2>1. \A v \in Workers : carries'[v] = Some(d) <=> carries[v] = Some(d)
    BY <1>3, <1>5, <1>7, Optionals
  <2>2. \A v \in Workers : carries[v] = Some(d) => task'[v] = task[v]
    BY <1>3, <1>5, Optionals
  <2> QED
    BY <1>2, <1>5, <1>7, <2>1, <2>2, RequestKept
<1>8. KnownRequests' = KnownRequests
  BY <1>6, <1>7 DEF KnownRequests
<1>9. KnownReports' = KnownReports
  BY <1>2 DEF KnownReports, KnownReport
<1> QED
  BY <1>2, <1>4, <1>8, <1>9, TalkStutter

\* An answer that is sent arrives, or finds nobody waiting.
LEMMA TalkAnswer ==
  ASSUME ToolInv, NEW w \in Workers, SendAnswer(w)
  PROVE  TalkStep
<1>1. TypeOK /\ ToolTypeOK /\ RequestsRunOnce
  BY DEF ToolInv, IInv
<1>2. PICK result \in Result : result = task[w].result
  BY <1>1, TaskForms DEF TypeOK, SendAnswer, Respond
<1>3. PICK c \in ToolCallIds :
        /\ carries[w] = Some(c) /\ wire' = [wire EXCEPT ![c] = "answered"]
        /\ Deliver(c, Exchange(result))
  BY <1>2 DEF SendAnswer
<1>4. /\ task[w].step = "returned" /\ task' = [task EXCEPT ![w] = Idle]
      /\ carries' = [carries EXCEPT ![w] = None]
      /\ proposals' = proposals /\ policies' = policies /\ now' = now
  BY DEF SendAnswer, Respond, store
<1>5. Idle.step # "proposing" /\ Idle = [step |-> "idle"]
  BY DEF Idle
<1>6. KnownOffers' = KnownOffers
  BY <1>1, <1>4, <1>5, ReplacedKept, OffersKept
<1>7. /\ carries'[w] = None /\ wire'[c] = "answered"
      /\ \A v \in Workers : v # w => carries'[v] = carries[v] /\ task'[v] = task[v]
      /\ \A d \in ToolCallIds : d # c => wire'[d] = wire[d]
  BY <1>1, <1>3, <1>4 DEF ToolTypeOK, TypeOK
<1>8. KnownRequest(c) = task[w]
  BY <1>1, <1>3, <1>4, CarriedIs DEF KnownCall
<1>9. KnownRequest(c)' = [step |-> "idle"]
  <2>1. \A v \in Workers : carries'[v] # Some(c)
    BY <1>1, <1>3, <1>7, Optionals DEF RequestsRunOnce
  <2> QED
    BY <1>5, <1>7, <2>1 DEF KnownRequest
<1>10. \A d \in ToolCallIds : d # c => tool'[d] = tool[d]
  BY <1>1, <1>3, Delivered
<1>11. ASSUME NEW d \in ToolCallIds, d # c
       PROVE  KnownRequest(d)' = KnownRequest(d)
  <2>1. \A v \in Workers : carries'[v] = Some(d) <=> carries[v] = Some(d)
    BY <1>3, <1>7, <1>11, Optionals
  <2>2. \A v \in Workers : carries[v] = Some(d) => task'[v] = task[v]
    BY <1>3, <1>7, <1>11, Optionals
  <2> QED
    BY <1>7, <1>10, <1>11, <2>1, <2>2, RequestKept
<1>12. KnownRequests' = [KnownRequests EXCEPT ![c] = [step |-> "idle"]]
  BY <1>9, <1>11, RequestMoved
<1> DEFINE answer == IF result.kind = "server_error" THEN None ELSE Some(result)
           shown == IF tool[c].step = "waiting"
                      THEN [step |-> "done", call |-> tool[c].call, answer |-> answer]
                      ELSE KnownReport(c)
<1>13. KnownReport(c)' = shown
  <2>1. result.kind = "server_error" <=> result = ServerError
    BY DEF Result, PolicyFound, ConfirmationReady, Applied, Rejected, ServerError
  <2>2. CASE tool[c].step = "waiting"
    <3>1. tool'[c] = Done(tool[c].call, Exchange(result))
      BY <1>1, <1>3, <2>2, Delivered
    <3>2. KnownReport(c)' = [step |-> "done", call |-> tool[c].call,
            answer |-> IF Exchange(result).status = 200 THEN Some(Exchange(result).result)
                       ELSE None]
      BY <3>1 DEF KnownReport, Done
    <3>3. (IF Exchange(result).status = 200 THEN Some(Exchange(result).result) ELSE None) = answer
      BY <2>1 DEF Exchange, HttpExchange
    <3> QED
      BY <2>2, <3>2, <3>3
  <2>3. CASE tool[c].step # "waiting"
    BY <1>1, <1>3, <2>3, Delivered DEF KnownReport
  <2> QED
    BY <2>2, <2>3
<1>14. KnownReports' = [KnownReports EXCEPT ![c] = shown]
  BY <1>10, <1>13, ReportMoved
<1>15. Talk!Hear(c)
  BY <1>4, <1>6, <1>8, <1>12 DEF Talk!Hear, KnownRequests, KnownOffers
<1>16. KnownReports[c] = KnownReport(c) /\ KnownRequests[c].result = result
  BY <1>2, <1>8 DEF KnownReports, KnownRequests
<1>17. shown = IF KnownReports[c].step = "waiting"
                 THEN Talk!Ended(KnownReports[c].call,
                        IF KnownRequests[c].result.kind = "server_error"
                          THEN Talk!None ELSE Talk!Some(KnownRequests[c].result))
                 ELSE KnownReports[c]
  <2>1. KnownReports[c].step = "waiting" <=> tool[c].step = "waiting"
    BY <1>16 DEF KnownReport
  <2>2. tool[c].step = "waiting" => KnownReports[c].call = tool[c].call
    BY <1>16 DEF KnownReport
  <2> QED
    BY <1>16, <2>1, <2>2 DEF Talk!Ended, Talk!None, Talk!Some, None, Some
<1> HIDE DEF shown, answer
<1>18. Talk!Arrive(c)
  BY <1>14, <1>15, <1>17 DEF Talk!Arrive, KnownReports, KnownRequests
<1> QED
  BY <1>18 DEF TalkStep, Talk!TalkNext

\* The two abstract specifications read the same values in the same state.
LEMMA SameReadings ==
  /\ \A call : Talk!Subject(call) = Atomic!Subject(call)
  /\ \A change : Talk!Acceptable(change) <=> Atomic!Acceptable(change)
  /\ \A t : Talk!calendar_date(t) = Atomic!calendar_date(t)
  /\ \A change : Talk!format_readback(change) = Atomic!format_readback(change)
  /\ Talk!FreshIds = Atomic!FreshIds /\ Talk!FreshNumbers = Atomic!FreshNumbers
  /\ \A p : Talk!Withdrawn(p) = Atomic!Withdrawn(p)
  /\ \A fate, change : Talk!Offer(fate, change) = Atomic!Offer(fate, change)
  /\ \A answer : Talk!Taken(answer) = Atomic!Taken(answer)
  /\ Talk!PolicyStatus = Atomic!PolicyStatus
<1>1. \A call : Talk!Subject(call) = Atomic!Subject(call)
  BY DEF Talk!Subject, Atomic!Subject, Talk!parse_vin, Atomic!parse_vin, Talk!None, Atomic!None,
         Talk!Some, Atomic!Some, Talk!parse_effective_date, Atomic!parse_effective_date
<1>2. \A t : Talk!calendar_date(t) = Atomic!calendar_date(t)
  BY DEF Talk!calendar_date, Atomic!calendar_date
<1>3. \A change : Talk!Acceptable(change) <=> Atomic!Acceptable(change)
  BY DEF Talk!Acceptable, Atomic!Acceptable, Talk!Covers, Atomic!Covers,
         Talk!calendar_date, Atomic!calendar_date
<1>4. \A change : Talk!format_readback(change) = Atomic!format_readback(change)
  BY DEF Talk!format_readback, Atomic!format_readback
<1>5. Talk!FreshIds = Atomic!FreshIds /\ Talk!FreshNumbers = Atomic!FreshNumbers
  BY DEF Talk!FreshIds, Atomic!FreshIds, Talk!FreshNumbers, Atomic!FreshNumbers,
         Talk!Unknown, Atomic!Unknown
<1>6. \A p : Talk!Withdrawn(p) = Atomic!Withdrawn(p)
  BY DEF Talk!Withdrawn, Atomic!Withdrawn, Talk!WaitingOn, Atomic!WaitingOn, Talk!Offer,
         Atomic!Offer
<1>7. /\ \A fate, change : Talk!Offer(fate, change) = Atomic!Offer(fate, change)
      /\ \A answer : Talk!Taken(answer) = Atomic!Taken(answer)
      /\ Talk!PolicyStatus = Atomic!PolicyStatus
  BY DEF Talk!Offer, Atomic!Offer, Talk!Taken, Atomic!Taken, Talk!PolicyStatus,
         Atomic!PolicyStatus
<1> QED
  BY <1>1, <1>2, <1>3, <1>4, <1>5, <1>6, <1>7

\* They refuse a call for the same reasons.
LEMMA SameRefusals ==
  \A call : Talk!TrueRefusals(call) = Atomic!TrueRefusals(call)
<1>1. \A call : Talk!TrueCodes(call) = Atomic!TrueCodes(call)
  BY DEF Talk!TrueCodes, Atomic!TrueCodes, Talk!RejectionCode, Atomic!RejectionCode,
         Talk!About, Atomic!About, Talk!Subject, Atomic!Subject, Talk!Covers, Atomic!Covers,
         Talk!parse_vin, Atomic!parse_vin, Talk!None, Atomic!None, Talk!Some, Atomic!Some,
         Talk!parse_effective_date, Atomic!parse_effective_date, Talk!Unknown, Atomic!Unknown
<1>2. \A code : Talk!rejected(code) = Atomic!rejected(code)
  BY DEF Talk!rejected, Atomic!rejected, Talk!recovery_for, Atomic!recovery_for,
         Talk!None, Atomic!None
<1>3. \A today : Talk!rejected_past(today) = Atomic!rejected_past(today)
  BY DEF Talk!rejected_past, Atomic!rejected_past, Talk!recovery_for, Atomic!recovery_for,
         Talk!Some, Atomic!Some
<1> QED
  BY <1>1, <1>2, <1>3, SameReadings DEF Talk!TrueRefusals, Atomic!TrueRefusals

\* A thread's effect as a client of AtomicServicing.
Effect(w) ==
  \/ Atomic!Refuse(w) \/ Atomic!Look(w) \/ Atomic!ReadOut(w) \/ Atomic!NoIdLeft(w)
  \/ Atomic!Take(w) \/ Atomic!HearAgain(w) \/ Atomic!NoNumberLeft(w)

\* A thread w that runs tool call c, before and after a step.
Runs(w, c) ==
  /\ KnownRequests[c] = KnownCalls[w]
  /\ KnownRequests' = [KnownRequests EXCEPT ![c] = KnownCalls'[w]]

\* What the thread gets, the tool call gets.
LEMMA GetsSame ==
  ASSUME NEW w \in Workers, NEW c \in ToolCallIds, Runs(w, c), NEW result, Atomic!Get(w, result)
  PROVE  Talk!Get(c, result)
<1>1. KnownCalls' = [KnownCalls EXCEPT ![w] =
        [step |-> "returned", call |-> KnownCalls[w].call, result |-> result]]
  BY DEF Atomic!Get, KnownCalls
<1>2. KnownCalls'[w] = [step |-> "returned", call |-> KnownRequests[c].call, result |-> result]
  BY <1>1 DEF KnownCalls, Runs
<1>3. KnownRequests' = [KnownRequests EXCEPT ![c] =
        [step |-> "returned", call |-> KnownRequests[c].call, result |-> result]]
  BY <1>2 DEF Runs
<1> QED
  BY <1>3 DEF Talk!Get, KnownRequests

\* What the thread is asked, the tool call asks.
LEMMA AsksSame ==
  ASSUME NEW w \in Workers, NEW c \in ToolCallIds, Runs(w, c)
  PROVE  \A op : Atomic!Asking(w, op) => Talk!Asking(c, op)
BY DEF Runs, Atomic!Asking, Talk!Asking, KnownCalls, KnownRequests

\* The thread's effect is the tool call's.
LEMMA EffectMoves ==
  ASSUME NEW w \in Workers, NEW c \in ToolCallIds, Runs(w, c), Effect(w),
         KnownReports' = KnownReports
  PROVE  Talk!TakeEffect(c)
<1>0. KnownRequests[c] = KnownCalls[w]
  BY DEF Runs
<1>1. CASE Atomic!Refuse(w)
  <2>1. Talk!Refuse(c)
    BY <1>0, <1>1, GetsSame, SameRefusals DEF Atomic!Refuse, Talk!Refuse, KnownCalls, KnownRequests
  <2> QED
    BY <2>1 DEF Talk!TakeEffect, KnownReports
<1>2. CASE Atomic!Look(w)
  <2>1. Talk!Look(c)
    BY <1>0, <1>2, GetsSame, AsksSame, SameReadings
       DEF Atomic!Look, Talk!Look, KnownCalls, KnownRequests
  <2> QED
    BY <2>1 DEF Talk!TakeEffect, KnownReports
<1>3. CASE Atomic!ReadOut(w)
  <2>1. Talk!ReadOut(c)
    BY <1>0, <1>3, GetsSame, AsksSame, SameReadings
       DEF Atomic!ReadOut, Talk!ReadOut, KnownCalls, KnownRequests
  <2> QED
    BY <2>1 DEF Talk!TakeEffect, KnownReports
<1>4. CASE Atomic!NoIdLeft(w)
  <2>1. Talk!NoIdLeft(c)
    BY <1>0, <1>4, GetsSame, AsksSame, SameReadings
       DEF Atomic!NoIdLeft, Talk!NoIdLeft, KnownCalls, KnownRequests
  <2> QED
    BY <2>1 DEF Talk!TakeEffect, KnownReports
<1>5. CASE Atomic!Take(w)
  <2>1. Talk!Take(c)
    BY <1>0, <1>5, GetsSame, AsksSame, SameReadings
       DEF Atomic!Take, Talk!Take, KnownCalls, KnownRequests
  <2> QED
    BY <2>1 DEF Talk!TakeEffect, KnownReports
<1>6. CASE Atomic!HearAgain(w)
  <2>1. Talk!HearAgain(c)
    BY <1>0, <1>6, GetsSame, AsksSame
       DEF Atomic!HearAgain, Talk!HearAgain, KnownCalls, KnownRequests
  <2> QED
    BY <2>1 DEF Talk!TakeEffect, KnownReports
<1>7. CASE Atomic!NoNumberLeft(w)
  <2>1. Talk!NoNumberLeft(c)
    BY <1>0, <1>7, GetsSame, AsksSame, SameReadings
       DEF Atomic!NoNumberLeft, Talk!NoNumberLeft, KnownCalls, KnownRequests
  <2> QED
    BY <2>1 DEF Talk!TakeEffect, KnownReports
<1> QED
  BY <1>1, <1>2, <1>3, <1>4, <1>5, <1>6, <1>7 DEF Effect

\* An effect or an arrival shows in the client whose it is, so a step that leaves the
\* other clients alone, and starts with w waiting, is w's effect or nobody's.
LEMMA WhoseStep ==
  ASSUME NEW w \in Workers, AtomicStep, KnownCalls[w].step = "called",
         \A v \in Workers : v # w => KnownCalls'[v] = KnownCalls[v]
  PROVE  \/ Effect(w)
         \/ Atomic!Environs
         \/ UNCHANGED <<policies, now, KnownOffers, KnownCalls>>
<1>1. ASSUME NEW v \in Workers, NEW result, Atomic!Get(v, result), KnownCalls[v].step = "called"
      PROVE  v = w
  <2>1. KnownCalls' = [KnownCalls EXCEPT ![v] =
          [step |-> "returned", call |-> KnownCalls[v].call, result |-> result]]
    BY <1>1 DEF Atomic!Get, KnownCalls
  <2>2. KnownCalls'[v].step = "returned"
    BY <2>1 DEF KnownCalls
  <2> QED
    BY <1>1, <2>2
<1>2. ASSUME NEW v \in Workers, Effect(v)
      PROVE  v = w
  <2>1. KnownCalls[v].step = "called" /\ \E result : Atomic!Get(v, result)
    BY <1>2 DEF Effect, Atomic!Refuse, Atomic!Look, Atomic!ReadOut, Atomic!NoIdLeft, Atomic!Take,
                Atomic!HearAgain, Atomic!NoNumberLeft, Atomic!Asking, KnownCalls
  <2> QED
    BY <1>1, <2>1
<1>3. ASSUME NEW v \in Workers, NEW call, Atomic!Ask(v, call)
      PROVE  FALSE
  <2>1. /\ KnownCalls[v].step = "idle"
        /\ KnownCalls' = [KnownCalls EXCEPT ![v] = [step |-> "called", call |-> call]]
    BY <1>3 DEF Atomic!Ask, KnownCalls
  <2>2. KnownCalls'[v].step = "called"
    BY <2>1 DEF KnownCalls
  <2> QED
    BY <2>1, <2>2
<1>4. ASSUME NEW v \in Workers, Atomic!Hear(v)
      PROVE  FALSE
  <2>1. /\ KnownCalls[v].step = "returned"
        /\ KnownCalls' = [KnownCalls EXCEPT ![v] = [step |-> "idle"]]
    BY <1>4 DEF Atomic!Hear, KnownCalls
  <2>2. KnownCalls'[v].step = "idle"
    BY <2>1 DEF KnownCalls
  <2> QED
    BY <2>1, <2>2
<1> QED
  BY <1>2, <1>3, <1>4
     DEF AtomicStep, Atomic!AtomicNext, Atomic!atomicVars, Effect, KnownOffers, KnownCalls

\* What surrounds the API surrounds the conversation.
LEMMA TalkEnvirons ==
  ASSUME Atomic!Environs, KnownRequests' = KnownRequests, KnownReports' = KnownReports
  PROVE  TalkStep
<1>1. Talk!Environs
  BY SameReadings DEF Atomic!Environs, Talk!Environs, KnownRequests
<1> QED
  BY <1>1 DEF TalkStep, Talk!TalkNext, KnownReports

\* A thread that runs moves the tool call that it runs.
LEMMA TalkRun ==
  ASSUME ToolInv, HeldFromCall, NEW w \in Workers, Run(w), UNCHANGED toolVars
  PROVE  TalkStep
<1>1. /\ TypeOK /\ ToolTypeOK /\ RequestsRunOnce /\ IInv
      /\ tool' = tool /\ wire' = wire /\ carries' = carries
  BY DEF ToolInv, IInv, toolVars
<1>2. AtomicStep
  BY <1>1, AtomicMoves DEF Next
<1>3. /\ task[w].step \in {"called", "proposing", "applying"}
      /\ \A v \in Workers : v # w => task'[v] = task[v]
  BY <1>1, RunKeepsCall
     DEF Run, Lookup, ProposeRefused, ProposeChecked, ProposeStored, ProposeRaised,
         CommitAnswered, CommitChecked, CommitStored, CommitRaised, Enters
<1>4. PICK c \in ToolCallIds : carries[w] = Some(c)
  BY <1>1, <1>3 DEF ToolTypeOK, RequestsRunOnce, Idle
<1>5. KnownCalls[w].step = "called" /\ \A v \in Workers : v # w => KnownCalls'[v] = KnownCalls[v]
  <2>1. \A v \in Workers : v # w => KnownCall(v)' = KnownCall(v)
    BY <1>3 DEF KnownCall
  <2> QED
    BY <1>1, <1>3, <2>1, ClientWaits DEF KnownCalls
<1>6. KnownReports' = KnownReports
  BY <1>1 DEF KnownReports, KnownReport
<1>7. Runs(w, c)
  <2>1. KnownRequest(c) = KnownCall(w)
    BY <1>1, <1>4, CarriedIs
  <2>2. RequestsRunOnce'
    BY RunStep DEF ToolInv
  <2>3. KnownRequest(c)' = KnownCall(w)'
    <3>1. (CHOOSE v \in Workers : carries[v] = Some(c)) = w /\ wire[c] = "running"
      BY <1>1, <1>4 DEF RequestsRunOnce
    <3> QED
      BY <1>1, <1>4, <3>1 DEF KnownRequest
  <2>4. ASSUME NEW d \in ToolCallIds, d # c
        PROVE  KnownRequest(d)' = KnownRequest(d)
    <3>1. \A v \in Workers : carries[v] = Some(d) => task'[v] = task[v]
      BY <1>3, <1>4, <2>4, Optionals
    <3> QED
      BY <1>1, <3>1, RequestKept
  <2> QED
    BY <2>1, <2>3, <2>4, RequestMoved DEF Runs, KnownRequests, KnownCalls
<1>8. CASE Effect(w)
  BY <1>6, <1>7, <1>8, EffectMoves DEF TalkStep, Talk!TalkNext
<1>9. CASE Atomic!Environs
  <2>1. KnownCalls' = KnownCalls
    BY <1>9 DEF Atomic!Environs, KnownCalls
  <2>2. KnownRequests' = KnownRequests
    BY <1>7, <2>1 DEF Runs, KnownRequests
  <2> QED
    BY <1>6, <1>9, <2>2, TalkEnvirons
<1>10. CASE UNCHANGED <<policies, now, KnownOffers, KnownCalls>>
  <2>1. KnownRequests' = KnownRequests
    BY <1>7, <1>10 DEF Runs, KnownRequests
  <2> QED
    BY <1>6, <1>10, <2>1, TalkStutter
<1> QED
  BY <1>2, <1>5, <1>8, <1>9, <1>10, WhoseStep

\* The clock and the standings, or nothing at all.
LEMMA TalkSurroundings ==
  ASSUME ToolInv, Environment \/ UNCHANGED vars, UNCHANGED toolVars
  PROVE  TalkStep
<1>1. /\ task' = task /\ proposals' = proposals
      /\ tool' = tool /\ wire' = wire /\ carries' = carries
  BY DEF Environment, Tick, ReplaceStatus, vars, store, toolVars
<1>2. KnownRequests' = KnownRequests /\ KnownReports' = KnownReports
  BY <1>1, RequestsSame DEF KnownReports, KnownReport
<1>3. KnownOffers' = KnownOffers
  BY <1>1, OffersKept DEF BeingReplaced
<1>4. CASE Tick
  BY <1>2, <1>3, <1>4 DEF Tick, store, TalkStep, Talk!TalkNext, Talk!Environs,
                          KnownRequests, KnownReports, KnownOffers
<1>5. ASSUME NEW p \in OnFile, NEW status \in PolicyStatus, ReplaceStatus(p, status)
      PROVE  TalkStep
  <2>1. policies' = [policies EXCEPT ![p].status = status] /\ now' = now
    BY <1>5, OnePolicy DEF ReplaceStatus, ToolInv, IInv, TypeOK
  <2> QED
    BY <1>2, <1>3, <2>1, SameValues, SameReadings
       DEF TalkStep, Talk!TalkNext, Talk!Environs, KnownRequests, KnownReports, KnownOffers
<1>6. CASE UNCHANGED vars
  BY <1>2, <1>3, <1>6, TalkStutter DEF vars
<1> QED
  BY <1>4, <1>5, <1>6 DEF Environment

-----------------------------------------------------------------------------
(* The theorem.                                                            *)

\* Before the first call nothing is asked and nothing was heard.
LEMMA TalkStart == ToolInit => Talk!TalkInit
<1> SUFFICES ASSUME ToolInit PROVE Talk!TalkInit
  OBVIOUS
<1>1. /\ Init /\ tool = [c \in ToolCallIds |-> Unmade]
      /\ wire = [c \in ToolCallIds |-> "nowhere"] /\ carries = [w \in Workers |-> None]
  BY DEF ToolInit
<1>2. KnownRequests = [c \in ToolCallIds |-> [step |-> "idle"]]
  <2>1. \A c \in ToolCallIds : KnownRequest(c) = [step |-> "idle"]
    BY <1>1, Optionals DEF KnownRequest, Idle
  <2> QED
    BY <2>1 DEF KnownRequests
<1>3. KnownReports = [c \in ToolCallIds |-> [step |-> "unmade"]]
  <2>1. \A c \in ToolCallIds : KnownReport(c) = [step |-> "unmade"]
    BY <1>1 DEF KnownReport, Unmade
  <2> QED
    BY <2>1 DEF KnownReports
<1>4. \A id \in ProposalIds : KnownOffer(id) = [fate |-> "unknown"]
  BY <1>1 DEF Init, Absent, KnownOffer
<1>5. Talk!AtomicInit
  BY <1>1, <1>2, <1>4 DEF Init, Talk!AtomicInit, Talk!Unknown, KnownRequests
<1> QED
  BY <1>3, <1>5 DEF Talk!TalkInit, KnownReports

\* Every step of a conversation is one of Conversation, or a stutter.
LEMMA TalkMoves == ToolInv /\ HeldFromCall /\ [ToolNext]_allVars => TalkStep
<1> SUFFICES ASSUME ToolInv, HeldFromCall, [ToolNext]_allVars PROVE TalkStep
  OBVIOUS
<1>1. CASE UNCHANGED allVars
  BY <1>1, TalkSurroundings DEF allVars
<1> QED
  BY <1>1, TalkUnplannable, TalkPlanned, TalkRefuseBody, TalkGiveUp, TalkLose, TalkTake,
     TalkAnswer, TalkRun, TalkSurroundings DEF ToolNext

\* However requests are delayed, given up, refused or lost, each tool call has its
\* effect once or never, at one moment after it was made, and what the agent hears was
\* true at that moment.
THEOREM CountedOnce == ToolSpec => CallsCountOnce
<1>1. ToolSpec => []HeldFromCall
  BY Conversing, WritesOwnCall, PTL
<1> QED
  BY <1>1, TalkStart, TalkMoves, ToolInductive, PTL
     DEF ToolSpec, CallsCountOnce, Talk!TalkSpec, TalkStep
=============================================================================
