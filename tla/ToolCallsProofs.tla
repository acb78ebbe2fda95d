---------------------------- MODULE ToolCallsProofs ----------------------------
(***************************************************************************)
(* What the agent hears is true, and stays true: the theorems of ToolCalls. *)
(* Every step of a conversation is a step of the servicing API or leaves    *)
(* it alone, so the invariant of Servicing carries over; the rest is that a *)
(* request runs on one thread and that its answer outlives the thread.      *)
(***************************************************************************)
EXTENDS ToolCalls, ServicingProofs

\* Optional values: none is some, and some of one is some of that one alone.
LEMMA Optionals == /\ \A x : Some(x) # None
                   /\ \A x, y : Some(x) = Some(y) => x = y
<1>1. \A x : Some(x)[1] = x
  BY DEF Some
<1> QED
  BY <1>1 DEF Some, None

-----------------------------------------------------------------------------
(* A conversation is a run of the servicing API.                           *)

\* A thread that runs keeps its call, and is not free.
LEMMA RunKeepsCall ==
  ASSUME TypeOK, NEW w \in Workers, Run(w)
  PROVE  /\ task[w].step # "idle" /\ task'[w].step # "idle"
         /\ task'[w].call = task[w].call
         /\ \A v \in Workers : v # w => task'[v] = task[v]
<1>1. ASSUME NEW result, task' = [task EXCEPT ![w] = Returned(task[w].call, result)]
      PROVE  /\ task'[w].step # "idle" /\ task'[w].call = task[w].call
             /\ \A v \in Workers : v # w => task'[v] = task[v]
  BY <1>1 DEF TypeOK, Returned
<1>2. CASE \/ Lookup(w) \/ ProposeRefused(w) \/ ProposeStored(w) \/ ProposeRaised(w)
           \/ CommitAnswered(w) \/ CommitStored(w) \/ CommitRaised(w)
  <2>1. PICK result : task' = [task EXCEPT ![w] = Returned(task[w].call, result)]
    BY <1>2 DEF Lookup, ProposeRefused, ProposeStored, ProposeRaised, CommitAnswered,
                CommitStored, CommitRaised, Answer
  <2>2. task[w].step # "idle"
    BY <1>2 DEF Lookup, ProposeRefused, ProposeStored, ProposeRaised, CommitAnswered,
                CommitStored, CommitRaised, Enters
  <2> QED
    BY <1>1, <2>1, <2>2
<1>3. CASE ProposeChecked(w) \/ CommitChecked(w)
  BY <1>3 DEF TypeOK, ProposeChecked, CommitChecked, Enters
<1> QED
  BY <1>2, <1>3 DEF Run

\* The request that a thread takes is for a call of the API.
LEMMA TakenCall ==
  ASSUME ToolTypeOK, RequestsRunOnce, NEW w \in Workers, NEW c \in ToolCallIds,
         TakeRequest(w, c)
  PROVE  tool[c].call \in Call /\ Receive(w, tool[c].call)
BY DEF ToolTypeOK, RequestsRunOnce, TakeRequest

\* A step of the conversation is one of the API, or leaves it alone.
LEMMA StepServes ==
  ASSUME ToolTypeOK, RequestsRunOnce, [ToolNext]_allVars
  PROVE  [Next]_vars
<1>1. ASSUME NEW c \in ToolCallIds, NEW w \in Workers, TakeRequest(w, c)
      PROVE  Next
  BY <1>1, TakenCall DEF Next
<1>2. ASSUME NEW w \in Workers, SendAnswer(w)
      PROVE  Next
  BY <1>2 DEF SendAnswer, Next
<1>3. ASSUME NEW c \in ToolCallIds,
             \/ CallUnplannable(c) \/ CallPlanned(c) \/ RefuseBody(c)
             \/ GiveUp(c) \/ LoseRequest(c)
      PROVE  UNCHANGED vars
  BY <1>3 DEF CallUnplannable, CallPlanned, RefuseBody, GiveUp, LoseRequest
<1>4. CASE UNCHANGED allVars
  BY <1>4 DEF allVars
<1> QED
  BY <1>1, <1>2, <1>3, <1>4 DEF ToolNext, Next

-----------------------------------------------------------------------------
(* The types.                                                              *)

\* One call moved.
LEMMA ToolMoved ==
  ASSUME ToolTypeOK, NEW c \in ToolCallIds, NEW t, tool' = [tool EXCEPT ![c] = t]
  PROVE  /\ DOMAIN tool' = ToolCallIds
         /\ tool'[c] = t
         /\ \A d \in ToolCallIds : d # c => tool'[d] = tool[d]
BY DEF ToolTypeOK

\* An exchange moves the call of a client that waits for it, and no other.
LEMMA Delivered ==
  ASSUME ToolTypeOK, NEW c \in ToolCallIds, NEW exchange, Deliver(c, exchange)
  PROVE  /\ DOMAIN tool' = ToolCallIds
         /\ tool[c].step = "waiting" => tool'[c] = Done(tool[c].call, exchange)
         /\ tool[c].step # "waiting" => tool'[c] = tool[c]
         /\ \A d \in ToolCallIds : d # c => tool'[d] = tool[d]
BY DEF ToolTypeOK, Deliver

\* What one call must be for all to keep their types.
WellTyped(t) ==
  /\ t.step \in {"unmade", "waiting", "done"}
  /\ t.step # "unmade" => t.call \in Call
  /\ t.step = "done" =>
       /\ t.outcome.status \in {0, 200, 422, 500}
       /\ t.outcome.status = 200 => t.outcome.result \in Result

\* A step of one tool call keeps the types.
LEMMA TypesKept ==
  ASSUME ToolTypeOK, NEW c \in ToolCallIds, DOMAIN tool' = ToolCallIds, WellTyped(tool'[c]),
         \A d \in ToolCallIds : d # c => tool'[d] = tool[d],
         NEW place \in {"nowhere", "sent", "sent_malformed", "running", "answered", "lost"},
         wire' = [wire EXCEPT ![c] = place] \/ wire' = wire,
         carries' \in [Workers -> {None} \cup {Some(d) : d \in ToolCallIds}]
  PROVE  ToolTypeOK'
<1>1. \A d \in ToolCallIds : WellTyped(tool'[d])
  BY DEF ToolTypeOK, WellTyped
<1>2. wire' \in [ToolCallIds -> {"nowhere", "sent", "sent_malformed", "running",
                                 "answered", "lost"}]
  BY DEF ToolTypeOK
<1> QED
  BY <1>1, <1>2 DEF ToolTypeOK, WellTyped

\* The outcomes a call can have.
LEMMA DoneTyped ==
  ASSUME NEW call \in Call
  PROVE  /\ \A reason : WellTyped(Done(call, CallFailed(reason)))
         /\ WellTyped(Done(call, HttpExchange(422, None)))
         /\ \A result \in Result : WellTyped(Done(call, Exchange(result)))
BY DEF WellTyped, Done, CallFailed, HttpExchange, Exchange

\* The invariant holds before the first call.
LEMMA InitTool == ToolInit => ToolInv
<1> SUFFICES ASSUME ToolInit PROVE ToolInv
  OBVIOUS
<1>1. IInv
  BY InitIInv DEF ToolInit
<1>2. ToolTypeOK /\ OutcomesStand
  BY DEF ToolInit, ToolTypeOK, OutcomesStand, Unmade
<1>3. RequestsRunOnce
  BY Optionals DEF ToolInit, Init, RequestsRunOnce
<1> QED
  BY <1>1, <1>2, <1>3 DEF ToolInv

-----------------------------------------------------------------------------
(* What a call was told stays true.                                        *)

\* OutcomesStand of one call.
OutcomeStands(c) ==
  tool[c].step = "done" /\ tool[c].outcome.status = 200 =>
    Stands(tool[c].call, tool[c].outcome.result)

\* What a tool call was told stays true.
LEMMA OutcomeKept ==
  ASSUME IInv, [Next]_vars, ToolTypeOK, NEW c \in ToolCallIds, OutcomeStands(c),
         tool'[c] = tool[c]
  PROVE  OutcomeStands(c)'
<1> SUFFICES ASSUME tool[c].step = "done", tool[c].outcome.status = 200
             PROVE  Stands(tool[c].call, tool[c].outcome.result)'
  BY DEF OutcomeStands
<1>1. PICK call \in Call, result \in Result :
        call = tool[c].call /\ result = tool[c].outcome.result
  BY DEF ToolTypeOK
<1>2. Stands(call, result)
  BY <1>1 DEF OutcomeStands
<1>3. Stands(call, result)'
  BY <1>2, StepBinds, StandsKept
<1> QED
  BY <1>1, <1>3

\* All outcomes stand when that of the one call that moved does.
LEMMA OutcomesKept ==
  ASSUME ToolInv, [Next]_vars, NEW c \in ToolCallIds,
         \A d \in ToolCallIds : d # c => tool'[d] = tool[d],
         tool'[c] = tool[c] \/ OutcomeStands(c)'
  PROVE  OutcomesStand'
<1> SUFFICES ASSUME NEW d \in ToolCallIds PROVE OutcomeStands(d)'
  BY DEF OutcomesStand, OutcomeStands
<1>1. IInv /\ ToolTypeOK /\ OutcomeStands(d)
  BY DEF ToolInv, OutcomesStand, OutcomeStands
<1> QED
  BY <1>1, OutcomeKept

-----------------------------------------------------------------------------
(* A request runs once.                                                    *)

\* Steps that start and end no request.
LEMMA RequestsKept ==
  ASSUME RequestsRunOnce, ToolTypeOK, carries' = carries,
         \A w \in Workers : /\ task'[w] = Idle <=> task[w] = Idle
                            /\ task[w] # Idle => task'[w].call = task[w].call,
         \A c \in ToolCallIds :
           /\ wire[c] = "running" => wire'[c] = "running"
           /\ wire[c] = "running" => tool'[c].call = tool[c].call
           /\ wire'[c] # "nowhere" => tool'[c].step # "unmade"
  PROVE  RequestsRunOnce'
<1>1. \A w \in Workers : carries'[w] = None <=> task'[w] = Idle
  BY DEF RequestsRunOnce
<1>2. ASSUME NEW w \in Workers, NEW c \in ToolCallIds, carries'[w] = Some(c)
      PROVE  /\ wire'[c] = "running" /\ task'[w].call = tool'[c].call
             /\ \A v \in Workers : carries'[v] = Some(c) => v = w
  <2>1. wire[c] = "running" /\ task[w].call = tool[c].call /\ task[w] # Idle
    BY <1>2, Optionals DEF RequestsRunOnce
  <2> QED
    BY <1>2, <2>1 DEF RequestsRunOnce
<1> QED
  BY <1>1, <1>2 DEF RequestsRunOnce

\* The agent's and the network's steps, which leave the API alone.
LEMMA ClientStep ==
  ASSUME ToolInv, NEW c \in ToolCallIds, UNCHANGED vars, carries' = carries,
         DOMAIN tool' = ToolCallIds, WellTyped(tool'[c]),
         \A d \in ToolCallIds : d # c => tool'[d] = tool[d],
         NEW place \in {"nowhere", "sent", "sent_malformed", "running", "answered", "lost"},
         wire' = [wire EXCEPT ![c] = place] \/ wire' = wire,
         wire[c] = "running" => wire' = wire /\ tool'[c].call = tool[c].call,
         wire'[c] # "nowhere" => tool'[c].step # "unmade",
         tool'[c] = tool[c] \/ tool'[c].step # "done" \/ tool'[c].outcome.status # 200
  PROVE  ToolInv'
<1>1. IInv /\ ToolTypeOK /\ RequestsRunOnce
  BY DEF ToolInv
<1>2. IInv'
  BY <1>1, StepIInv
<1>3. ToolTypeOK'
  <2>1. carries' \in [Workers -> {None} \cup {Some(d) : d \in ToolCallIds}]
    BY <1>1 DEF ToolTypeOK
  <2> QED
    BY <1>1, <2>1, TypesKept
<1>4. RequestsRunOnce'
  <2>1. \A d \in ToolCallIds : d # c => wire'[d] = wire[d]
    BY <1>1 DEF ToolTypeOK
  <2>2. task' = task
    BY DEF vars
  <2>3. \A d \in ToolCallIds :
          /\ wire[d] = "running" => wire'[d] = "running"
          /\ wire[d] = "running" => tool'[d].call = tool[d].call
          /\ wire'[d] # "nowhere" => tool'[d].step # "unmade"
    BY <1>1, <2>1 DEF RequestsRunOnce
  <2> QED
    BY <1>1, <2>2, <2>3, RequestsKept
<1>5. OutcomesStand'
  <2>1. tool'[c] = tool[c] \/ OutcomeStands(c)'
    BY DEF OutcomeStands
  <2> QED
    BY <2>1, OutcomesKept
<1> QED
  BY <1>2, <1>3, <1>4, <1>5 DEF ToolInv

\* A call that cannot be planned keeps the invariant.
LEMMA CallUnplannableStep ==
  ASSUME ToolInv, NEW c \in ToolCallIds, CallUnplannable(c)
  PROVE  ToolInv'
<1>1. PICK call \in Call, given \in ArgumentSets :
        tool' = [tool EXCEPT ![c] = Done(call, CallFailed(plan_failure(call.op, given)[1]))]
  BY DEF CallUnplannable
<1> DEFINE reason == plan_failure(call.op, given)[1]
<1>2. ToolTypeOK /\ tool[c].step = "unmade" /\ wire' = wire /\ carries' = carries /\ UNCHANGED vars
  BY DEF ToolInv, CallUnplannable, IsNext, Unmade
<1>3. /\ DOMAIN tool' = ToolCallIds /\ tool'[c] = Done(call, CallFailed(reason))
      /\ \A d \in ToolCallIds : d # c => tool'[d] = tool[d]
  BY <1>1, <1>2, ToolMoved
<1>4. wire[c] = "nowhere"
  BY <1>2 DEF ToolInv, RequestsRunOnce
<1>5. WellTyped(tool'[c])
  BY <1>3, DoneTyped
<1>6. tool'[c].step = "done" /\ tool'[c].outcome.status = 0
  BY <1>3 DEF Done, CallFailed
<1> QED
  BY <1>2, <1>3, <1>4, <1>5, <1>6, ClientStep

\* So does a request that is sent,
LEMMA CallPlannedStep ==
  ASSUME ToolInv, NEW c \in ToolCallIds, CallPlanned(c)
  PROVE  ToolInv'
<1>1. PICK call \in Call, place \in {"sent", "sent_malformed"} :
        /\ tool' = [tool EXCEPT ![c] = [step |-> "waiting", call |-> call]]
        /\ wire' = [wire EXCEPT ![c] = place]
  BY DEF CallPlanned
<1>2. ToolTypeOK /\ tool[c].step = "unmade" /\ carries' = carries /\ UNCHANGED vars
  BY DEF ToolInv, CallPlanned, IsNext, Unmade
<1>3. /\ DOMAIN tool' = ToolCallIds /\ tool'[c] = [step |-> "waiting", call |-> call]
      /\ \A d \in ToolCallIds : d # c => tool'[d] = tool[d]
  BY <1>1, <1>2, ToolMoved
<1>4. wire[c] = "nowhere"
  BY <1>2 DEF ToolInv, RequestsRunOnce
<1>5. WellTyped(tool'[c]) /\ tool'[c].step = "waiting"
  BY <1>3 DEF WellTyped
<1> QED
  BY <1>1, <1>2, <1>3, <1>4, <1>5, ClientStep

\* a malformed body that is refused,
LEMMA RefuseBodyStep ==
  ASSUME ToolInv, NEW c \in ToolCallIds, RefuseBody(c)
  PROVE  ToolInv'
<1>1. /\ ToolTypeOK /\ RequestsRunOnce /\ wire[c] = "sent_malformed"
      /\ wire' = [wire EXCEPT ![c] = "answered"] /\ carries' = carries /\ UNCHANGED vars
      /\ Deliver(c, HttpExchange(422, None))
  BY DEF ToolInv, RefuseBody
<1>2. /\ DOMAIN tool' = ToolCallIds
      /\ tool[c].step = "waiting" => tool'[c] = Done(tool[c].call, HttpExchange(422, None))
      /\ tool[c].step # "waiting" => tool'[c] = tool[c]
      /\ \A d \in ToolCallIds : d # c => tool'[d] = tool[d]
  BY <1>1, Delivered
<1>3. tool[c].step # "unmade" /\ tool[c].call \in Call
  BY <1>1 DEF RequestsRunOnce, ToolTypeOK
<1>4. WellTyped(tool'[c]) /\ tool'[c].step # "unmade"
  BY <1>1, <1>2, <1>3, DoneTyped DEF ToolTypeOK, WellTyped, Done
<1>5. tool'[c] = tool[c] \/ tool'[c].outcome.status # 200
  BY <1>2 DEF Done, HttpExchange
<1> QED
  BY <1>1, <1>2, <1>4, <1>5, ClientStep

\* a client that gives up,
LEMMA GiveUpStep ==
  ASSUME ToolInv, NEW c \in ToolCallIds, GiveUp(c)
  PROVE  ToolInv'
<1>1. /\ ToolTypeOK /\ tool[c].step = "waiting" /\ tool[c].call \in Call
      /\ wire' = wire /\ carries' = carries /\ UNCHANGED vars
      /\ tool' = [tool EXCEPT ![c] = Done(tool[c].call, CallFailed("connection"))]
  BY DEF ToolInv, ToolTypeOK, GiveUp
<1>2. /\ DOMAIN tool' = ToolCallIds
      /\ tool'[c] = Done(tool[c].call, CallFailed("connection"))
      /\ \A d \in ToolCallIds : d # c => tool'[d] = tool[d]
  BY <1>1, ToolMoved
<1>3. /\ WellTyped(tool'[c]) /\ tool'[c].step = "done" /\ tool'[c].call = tool[c].call
      /\ tool'[c].outcome.status = 0
  BY <1>1, <1>2, DoneTyped DEF Done, CallFailed
<1> QED
  BY <1>1, <1>2, <1>3, ClientStep

\* a given-up request that is lost,
LEMMA LoseRequestStep ==
  ASSUME ToolInv, NEW c \in ToolCallIds, LoseRequest(c)
  PROVE  ToolInv'
<1>1. /\ ToolTypeOK /\ tool[c].step = "done" /\ wire[c] \in {"sent", "sent_malformed"}
      /\ wire' = [wire EXCEPT ![c] = "lost"] /\ tool' = tool
      /\ carries' = carries /\ UNCHANGED vars
  BY DEF ToolInv, LoseRequest
<1>2. WellTyped(tool'[c])
  BY <1>1 DEF ToolTypeOK, WellTyped
<1>3. DOMAIN tool' = ToolCallIds
  BY <1>1 DEF ToolTypeOK
<1> QED
  BY <1>1, <1>2, <1>3, ClientStep

\* The server's steps.
LEMMA TakeRequestStep ==
  ASSUME ToolInv, NEW w \in Workers, NEW c \in ToolCallIds, TakeRequest(w, c)
  PROVE  ToolInv'
<1>1. IInv /\ TypeOK /\ ToolTypeOK /\ RequestsRunOnce
  BY DEF ToolInv, IInv
<1>2. /\ wire[c] = "sent" /\ tool' = tool /\ wire' = [wire EXCEPT ![c] = "running"]
      /\ carries' = [carries EXCEPT ![w] = Some(c)]
      /\ task[w] = Idle /\ task' = [task EXCEPT ![w] = [step |-> "called", call |-> tool[c].call]]
  BY DEF TakeRequest, Receive
<1>3. [Next]_vars
  BY <1>1, TakenCall DEF Next
<1>4. IInv'
  BY <1>1, <1>3, StepIInv
<1>5. ToolTypeOK'
  BY <1>1, <1>2 DEF ToolTypeOK
<1>6. RequestsRunOnce'
  <2>1. /\ task'[w].step = "called" /\ task'[w].call = tool'[c].call
        /\ \A v \in Workers : v # w => task'[v] = task[v]
    BY <1>1, <1>2 DEF TypeOK
  <2>2. carries'[w] = Some(c) /\ \A v \in Workers : v # w => carries'[v] = carries[v]
    BY <1>1, <1>2 DEF ToolTypeOK
  <2>3. wire'[c] = "running" /\ \A d \in ToolCallIds : d # c => wire'[d] = wire[d]
    BY <1>1, <1>2 DEF ToolTypeOK
  <2>4. \A v \in Workers : carries[v] # Some(c)
    BY <1>1, <1>2 DEF RequestsRunOnce
  <2>5. \A v \in Workers : carries'[v] = None <=> task'[v] = Idle
    BY <1>1, <2>1, <2>2, Optionals DEF RequestsRunOnce, Idle
  <2>6. ASSUME NEW v \in Workers, NEW d \in ToolCallIds, carries'[v] = Some(d)
        PROVE  /\ wire'[d] = "running" /\ task'[v].call = tool'[d].call
               /\ \A u \in Workers : carries'[u] = Some(d) => u = v
    <3>1. CASE v = w
      BY <2>1, <2>2, <2>3, <2>4, <2>6, <3>1, Optionals
    <3>2. CASE v # w
      <4>1. carries[v] = Some(d) /\ d # c
        BY <2>2, <2>4, <2>6, <3>2
      <4> QED
        BY <1>1, <1>2, <2>1, <2>2, <2>3, <3>2, <4>1, Optionals DEF RequestsRunOnce
    <3> QED
      BY <3>1, <3>2
  <2>7. \A d \in ToolCallIds : wire'[d] # "nowhere" => tool'[d].step # "unmade"
    BY <1>1, <1>2, <2>3 DEF RequestsRunOnce
  <2> QED
    BY <2>5, <2>6, <2>7 DEF RequestsRunOnce
<1>7. OutcomesStand'
  BY <1>2, <1>3, OutcomesKept
<1> QED
  BY <1>4, <1>5, <1>6, <1>7 DEF ToolInv

\* an answer that is sent, heard or not,
LEMMA SendAnswerStep ==
  ASSUME ToolInv, NEW w \in Workers, SendAnswer(w)
  PROVE  ToolInv'
<1>1. IInv /\ TypeOK /\ ToolTypeOK /\ RequestsRunOnce
  BY DEF ToolInv, IInv
<1>2. PICK result \in Result : result = task[w].result
  BY <1>1, TaskForms DEF TypeOK, SendAnswer, Respond
<1>3. PICK c \in ToolCallIds :
        /\ carries[w] = Some(c) /\ wire' = [wire EXCEPT ![c] = "answered"]
        /\ Deliver(c, Exchange(result))
  BY <1>2 DEF SendAnswer
<1>4. /\ task[w].step = "returned" /\ task' = [task EXCEPT ![w] = Idle]
      /\ carries' = [carries EXCEPT ![w] = None] /\ proposals' = proposals
  BY DEF SendAnswer, Respond, store
<1>5. wire[c] = "running" /\ task[w].call = tool[c].call /\ tool[c].step # "unmade"
  BY <1>1, <1>3 DEF RequestsRunOnce
<1>6. [Next]_vars
  BY DEF SendAnswer, Next
<1>7. IInv'
  BY <1>1, <1>6, StepIInv
<1>8. /\ DOMAIN tool' = ToolCallIds
      /\ tool[c].step = "waiting" => tool'[c] = Done(tool[c].call, Exchange(result))
      /\ tool[c].step # "waiting" => tool'[c] = tool[c]
      /\ \A d \in ToolCallIds : d # c => tool'[d] = tool[d]
  BY <1>1, <1>3, Delivered
<1>9. ToolTypeOK'
  <2>1. tool[c].call \in Call
    BY <1>1, <1>5 DEF ToolTypeOK
  <2>2. WellTyped(tool'[c])
    BY <1>1, <1>8, <2>1, DoneTyped DEF ToolTypeOK, WellTyped
  <2>3. carries' \in [Workers -> {None} \cup {Some(d) : d \in ToolCallIds}]
    BY <1>1, <1>4 DEF ToolTypeOK
  <2> QED
    BY <1>1, <1>3, <1>8, <2>2, <2>3, TypesKept
<1>10. \A d \in ToolCallIds : tool'[d].call = tool[d].call
                               /\ (tool[d].step # "unmade" => tool'[d].step # "unmade")
  BY <1>8 DEF Done
<1>11. RequestsRunOnce'
  <2>1. task'[w] = Idle /\ \A v \in Workers : v # w => task'[v] = task[v]
    BY <1>1, <1>4 DEF TypeOK
  <2>2. carries'[w] = None /\ \A v \in Workers : v # w => carries'[v] = carries[v]
    BY <1>1, <1>4 DEF ToolTypeOK
  <2>3. wire'[c] = "answered" /\ \A d \in ToolCallIds : d # c => wire'[d] = wire[d]
    BY <1>1, <1>3 DEF ToolTypeOK
  <2>4. \A v \in Workers : carries'[v] = None <=> task'[v] = Idle
    BY <1>1, <2>1, <2>2 DEF RequestsRunOnce
  <2>5. ASSUME NEW v \in Workers, NEW d \in ToolCallIds, carries'[v] = Some(d)
        PROVE  /\ wire'[d] = "running" /\ task'[v].call = tool'[d].call
               /\ \A u \in Workers : carries'[u] = Some(d) => u = v
    <3>1. v # w /\ carries[v] = Some(d)
      BY <2>2, <2>5, Optionals
    <3>2. d # c
      BY <1>1, <1>3, <3>1 DEF RequestsRunOnce
    <3> QED
      BY <1>1, <1>10, <2>1, <2>2, <2>3, <3>1, <3>2, Optionals DEF RequestsRunOnce
  <2>6. \A d \in ToolCallIds : wire'[d] # "nowhere" => tool'[d].step # "unmade"
    BY <1>1, <1>5, <1>10, <2>3 DEF RequestsRunOnce
  <2> QED
    BY <2>4, <2>5, <2>6 DEF RequestsRunOnce
<1>12. OutcomesStand'
  <2>1. Stands(tool[c].call, result)
    BY <1>1, <1>2, <1>4, <1>5 DEF IInv, AnswersStand, AnswerStands
  <2>2. PICK call : call = tool[c].call
    OBVIOUS
  <2>3. Stands(call, result)'
    BY <1>4, <2>1, <2>2 DEF Stands
  <2>4. ASSUME tool[c].step = "waiting"
        PROVE  OutcomeStands(c)'
    <3>1. tool'[c] = Done(call, Exchange(result))
      BY <1>8, <2>2, <2>4
    <3>2. CASE result = ServerError
      BY <3>1, <3>2 DEF OutcomeStands, Done, Exchange, HttpExchange
    <3>3. CASE result # ServerError
      <4>1. tool'[c].call = call /\ tool'[c].outcome.result = result
        BY <3>1, <3>3 DEF Done, Exchange, HttpExchange
      <4> QED
        BY <2>3, <4>1 DEF OutcomeStands
    <3> QED
      BY <3>2, <3>3
  <2> QED
    BY <1>6, <1>8, <2>4, OutcomesKept
<1> QED
  BY <1>7, <1>9, <1>11, <1>12 DEF ToolInv

\* Steps inside the API, and of its surroundings.
LEMMA ServerStep ==
  ASSUME ToolInv, UNCHANGED toolVars, [Next]_vars,
         \A w \in Workers : /\ task'[w] = Idle <=> task[w] = Idle
                            /\ task[w] # Idle => task'[w].call = task[w].call
  PROVE  ToolInv'
<1>1. IInv /\ ToolTypeOK /\ RequestsRunOnce /\ OutcomesStand
  BY DEF ToolInv
<1>2. tool' = tool /\ wire' = wire /\ carries' = carries
  BY DEF toolVars
<1>3. IInv'
  BY <1>1, StepIInv
<1>4. ToolTypeOK'
  BY <1>1, <1>2 DEF ToolTypeOK
<1>5. RequestsRunOnce'
  <2>1. \A c \in ToolCallIds : wire'[c] # "nowhere" => tool'[c].step # "unmade"
    BY <1>1, <1>2 DEF RequestsRunOnce
  <2> QED
    BY <1>1, <1>2, <2>1, RequestsKept
<1>6. OutcomesStand'
  <2>1. \A c \in ToolCallIds : OutcomeStands(c)'
    BY <1>1, <1>2, OutcomeKept DEF OutcomesStand, OutcomeStands
  <2> QED
    BY <2>1 DEF OutcomesStand, OutcomeStands
<1> QED
  BY <1>3, <1>4, <1>5, <1>6 DEF ToolInv

\* a thread of the server that runs its call,
LEMMA RunStep ==
  ASSUME ToolInv, NEW w \in Workers, Run(w), UNCHANGED toolVars
  PROVE  ToolInv'
<1>1. TypeOK /\ TypeOK'
  BY StepType DEF ToolInv, IInv, Next
<1>2. /\ task[w].step # "idle" /\ task'[w].step # "idle" /\ task'[w].call = task[w].call
      /\ \A v \in Workers : v # w => task'[v] = task[v]
  BY <1>1, RunKeepsCall
<1>3. \A v \in Workers : /\ task'[v] = Idle <=> task[v] = Idle
                         /\ task[v] # Idle => task'[v].call = task[v].call
  BY <1>2 DEF Idle
<1>4. [Next]_vars
  BY DEF Next
<1> QED
  BY <1>3, <1>4, ServerStep

\* and a clock or an operator that moves.
LEMMA SurroundingsStep ==
  ASSUME ToolInv, Environment \/ UNCHANGED vars, UNCHANGED toolVars
  PROVE  ToolInv'
<1>1. task' = task
  BY DEF Environment, Tick, ReplaceStatus, vars
<1>2. [Next]_vars
  BY DEF Next
<1> QED
  BY <1>1, <1>2, ServerStep

\* Every step keeps the invariant.
LEMMA StepToolInv == ToolInv /\ [ToolNext]_allVars => ToolInv'
BY CallUnplannableStep, CallPlannedStep, RefuseBodyStep, GiveUpStep, LoseRequestStep,
   TakeRequestStep, SendAnswerStep, RunStep, SurroundingsStep
   DEF ToolNext, allVars

-----------------------------------------------------------------------------
(* The theorems.                                                           *)

\* A request runs once, for the client that made it, and what the agent was told
\* stays so, in every reachable state of a conversation.
THEOREM ToolInductive == ToolSpec => []ToolInv
BY InitTool, StepToolInv, PTL DEF ToolSpec

\* Every variable of a conversation has its type.
THEOREM ToolTypeCorrect == ToolSpec => []ToolTypeOK
BY ToolInductive, PTL DEF ToolInv

\* A conversation is a run of the servicing API, whatever its client retries or
\* gives up: what is proved of Spec holds of it.
THEOREM Conversing == ToolSpec => Spec
<1>1. ToolInv /\ [ToolNext]_allVars => [Next]_vars
  BY StepServes DEF ToolInv
<1>2. ToolInit => Init
  BY DEF ToolInit
<1> QED
  BY <1>1, <1>2, ToolInductive, PTL DEF ToolSpec, Spec

\* What is reported applied is what is on file.
LEMMA ReportedOnFile ==
  ASSUME ToolInv, NEW c \in ToolCallIds, Hears(c, "applied")
  PROVE  /\ Heard(c) \in Applied /\ Heard(c).proposal_id \in ProposalIds
         /\ proposals[Heard(c).proposal_id] = [state |-> "applied", result |-> Heard(c)]
<1>1. Heard(c) \in Result /\ Stands(tool[c].call, Heard(c)) /\ Heard(c).kind = "applied"
  BY DEF ToolInv, ToolTypeOK, OutcomesStand, Hears, Heard
<1>2. Heard(c) \in Applied
  BY <1>1 DEF Result, PolicyFound, ConfirmationReady, Rejected, ServerError
<1> QED
  BY <1>1, <1>2 DEF Stands, Applied

\* Answers that are all true of one store agree.
LEMMA ReportsAgreeNow == ToolInv => ReportsAgree
<1> SUFFICES ASSUME ToolInv, NEW c \in ToolCallIds, Hears(c, "applied")
             PROVE  /\ \E i \in DOMAIN policies[Heard(c).change.policy_number].vehicles :
                         policies[Heard(c).change.policy_number].vehicles[i]
                           = [vin |-> Heard(c).change.vin,
                              effective_date |-> Heard(c).change.effective_date]
                    /\ \A d \in ToolCallIds :
                         /\ Hears(d, "applied") /\ Heard(d).proposal_id = Heard(c).proposal_id
                              => Heard(d) = Heard(c)
                         /\ Hears(d, "confirmation_ready")
                              /\ Heard(d).proposal_id = Heard(c).proposal_id
                              => Heard(d).readback = format_readback(Heard(c).change)
  BY DEF ReportsAgree
<1>1. PICK applied \in Applied : applied = Heard(c)
  BY ReportedOnFile
<1>2. PICK id \in ProposalIds :
        id = applied.proposal_id /\ proposals[id] = [state |-> "applied", result |-> applied]
  BY <1>1, ReportedOnFile
<1>3. \E i \in DOMAIN policies[applied.change.policy_number].vehicles :
        policies[applied.change.policy_number].vehicles[i]
          = [vin |-> applied.change.vin, effective_date |-> applied.change.effective_date]
  BY <1>2 DEF ToolInv, IInv, BooksBalance, EveryConfirmationCovered, IsApplied, AppliedVehicle
<1>4. ASSUME NEW d \in ToolCallIds, Hears(d, "applied"), Heard(d).proposal_id = id
      PROVE  Heard(d) = applied
  <2>1. proposals[id] = [state |-> "applied", result |-> Heard(d)]
    BY <1>4, ReportedOnFile
  <2> QED
    BY <1>2, <2>1
<1>5. ASSUME NEW d \in ToolCallIds, Hears(d, "confirmation_ready"), Heard(d).proposal_id = id
      PROVE  Heard(d).readback = format_readback(applied.change)
  <2>1. Stands(tool[d].call, Heard(d)) /\ Heard(d).kind = "confirmation_ready"
    BY <1>5 DEF ToolInv, OutcomesStand, Hears, Heard
  <2> QED
    BY <1>2, <1>5, <2>1 DEF Stands
<1> QED
  BY <1>1, <1>2, <1>3, <1>4, <1>5

\* Two tool calls that report the same proposal applied report it alike, with the
\* change that was read back, and the vehicle is on the policy.
THEOREM ReportsTrue == ToolSpec => []ReportsAgree
BY ToolInductive, ReportsAgreeNow, PTL

\* What the agent was told is superseded is never applied.
THEOREM SupersededStays == ToolSpec => []SupersededIsFinal
<1>1. ToolInv => SupersededIsFinal
  BY DEF ToolInv, OutcomesStand, Stands, SupersededIsFinal, Hears, Heard, IsApplied
<1> QED
  BY <1>1, ToolInductive, PTL
=============================================================================
