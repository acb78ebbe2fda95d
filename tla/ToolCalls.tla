------------------------------- MODULE ToolCalls -------------------------------
(***************************************************************************)
(* The path of a tool call: the agent's client (agent/local_api.py) plans a *)
(* request, sends it and waits at most ten seconds; the server             *)
(* (insurance_backend/http.py) validates the body, hands the call to a      *)
(* thread and sends the answer; the handler (agent/elevenlabs.py) turns the *)
(* exchange into what the agent hears.  A call whose client gave up still   *)
(* runs, now or later, or never.                                            *)
(***************************************************************************)
EXTENDS Servicing

CONSTANTS
  MaxToolCalls,   \* a bound on the tool calls of a conversation
  Tools,          \* the operations the agent calls
  ArgumentSets,   \* the sets of parameter names the agent may pass
  GuessedIds,     \* the proposal ids the agent may commit unheard
  BodyValues      \* "strings", and "others" where a body value may be no string

ASSUME ToolCallsAssumption ==
  /\ MaxToolCalls \in Nat
  /\ \A given \in ArgumentSets : given \subseteq STRING
  /\ Tools \subseteq {"lookup", "propose", "commit"}
  /\ GuessedIds \subseteq ProposalIds
  /\ BodyValues \subseteq {"strings", "others"}

\* The tool calls, in the order the agent makes them.
ToolCallIds == 1 .. MaxToolCalls

VARIABLES
  tool,      \* tool[c]: the call as its client sees it
  wire,      \* wire[c]: where the request is
  carries    \* carries[w]: the tool call thread w runs, as an optional value

toolVars == <<tool, wire, carries>>
allVars == <<vars, toolVars>>

-----------------------------------------------------------------------------
\* Route.path_params and Route.body_fields of ROUTES.
path_params(op) ==
  IF op = "commit" THEN {"proposal_id"} ELSE {"policy_number"}

body_fields(op) ==
  IF op = "propose" THEN {"vin", "effective_date"} ELSE {}

\* plan_call: None when the arguments make a request, otherwise the reason they
\* do not.  The id the service adds to every call is no argument.
plan_failure(op, given) ==
  LET arguments == given \ {"tool_call_id"}
      expected == path_params(op) \cup body_fields(op)
  IN IF expected \ arguments # {} THEN Some("missing_parameter")
     ELSE IF arguments \ expected # {} THEN Some("unexpected_parameter")
     ELSE None

CallFailed(reason) == [status |-> 0, reason |-> reason]

HttpExchange(status, result) == [status |-> status, result |-> result]

\* A mistake: rejections are answered 409.
ExchangeConflict(result) ==
  IF result.kind = "rejected"
    THEN HttpExchange(409, result)
    ELSE HttpExchange(200, result)

\* The status of a call that ran: business rejections are 200 as well.
Exchange(result) ==
  IF result = ServerError
    THEN HttpExchange(500, ServerError)
    ELSE HttpExchange(200, result)

Unmade == [step |-> "unmade"]

Done(call, outcome) == [step |-> "done", call |-> call, outcome |-> outcome]

\* A client that still waits takes the exchange; one that gave up never sees it.
Deliver(c, exchange) ==
  tool' = [tool EXCEPT ![c] =
             IF @.step = "waiting" THEN Done(@.call, exchange) ELSE @]

\* result_for_agent: the agent hears the result of a 200 exchange, and an error
\* otherwise.
Hears(c, kind) ==
  /\ tool[c].step = "done"
  /\ tool[c].outcome.status = 200
  /\ tool[c].outcome.result.kind = kind

Heard(c) == tool[c].outcome.result

\* The calls an agent can make: what the caller says it may say in any order, a
\* proposal id it has from an answer.
Sayable(call) ==
  /\ call.op \in Tools
  /\ call.op = "commit" =>
       \/ call.proposal_id \in GuessedIds
       \/ \E c \in ToolCallIds :
            Hears(c, "confirmation_ready") /\ Heard(c).proposal_id = call.proposal_id

-----------------------------------------------------------------------------
ToolInit ==
  /\ Init
  /\ tool = [c \in ToolCallIds |-> Unmade]
  /\ wire = [c \in ToolCallIds |-> "nowhere"]
  /\ carries = [w \in Workers |-> None]

IsNext(c) ==
  /\ tool[c] = Unmade
  /\ \A earlier \in 1 .. c - 1 : tool[earlier] # Unmade

\* The agent calls a tool with parameters that do not fit its route: no request
\* is sent.
CallUnplannable(c) ==
  /\ IsNext(c)
  /\ \E call \in Call, given \in ArgumentSets :
       /\ Sayable(call)
       /\ plan_failure(call.op, given) # None
       /\ tool' = [tool EXCEPT ![c] =
                     Done(call, CallFailed(plan_failure(call.op, given)[1]))]
  /\ UNCHANGED <<vars, wire, carries>>

\* The agent calls a tool and the request is sent.  Values of the path become
\* text; a value of the body that is no string travels as it is.
CallPlanned(c) ==
  /\ IsNext(c)
  /\ \E call \in Call, given \in ArgumentSets, values \in BodyValues :
       /\ Sayable(call)
       /\ plan_failure(call.op, given) = None
       /\ body_fields(call.op) = {} => values = "strings"
       /\ tool' = [tool EXCEPT ![c] = [step |-> "waiting", call |-> call]]
       /\ wire' = [wire EXCEPT ![c] = IF values = "strings" THEN "sent" ELSE "sent_malformed"]
  /\ UNCHANGED <<vars, carries>>

\* The body does not fit its model: the server answers 422 and no call runs.
RefuseBody(c) ==
  /\ wire[c] = "sent_malformed"
  /\ wire' = [wire EXCEPT ![c] = "answered"]
  /\ Deliver(c, HttpExchange(422, None))
  /\ UNCHANGED <<vars, carries>>

\* The server hands the request to a free thread.
TakeRequest(w, c) ==
  /\ wire[c] = "sent"
  /\ Receive(w, tool[c].call)
  /\ carries' = [carries EXCEPT ![w] = Some(c)]
  /\ wire' = [wire EXCEPT ![c] = "running"]
  /\ UNCHANGED tool

\* The thread's answer goes back.
SendAnswer(w) ==
  /\ Respond(w)
  /\ \E c \in ToolCallIds :
       /\ carries[w] = Some(c)
       /\ wire' = [wire EXCEPT ![c] = "answered"]
       /\ Deliver(c, Exchange(task[w].result))
  /\ carries' = [carries EXCEPT ![w] = None]

\* A mistake: a call that timed out is sent again.
GiveUp_resends(c) ==
  /\ tool[c].step = "waiting"
  /\ wire[c] = "running"
  /\ wire' = [wire EXCEPT ![c] = "sent"]
  /\ UNCHANGED <<vars, tool, carries>>

\* Ten seconds pass, or the connection breaks: the client reports a failed
\* call, wherever the request is.
GiveUp(c) ==
  /\ tool[c].step = "waiting"
  /\ tool' = [tool EXCEPT ![c] = Done(@.call, CallFailed("connection"))]
  /\ UNCHANGED <<vars, wire, carries>>

\* A request whose client gave up may never reach the server.
LoseRequest(c) ==
  /\ tool[c].step = "done"
  /\ wire[c] \in {"sent", "sent_malformed"}
  /\ wire' = [wire EXCEPT ![c] = "lost"]
  /\ UNCHANGED <<vars, tool, carries>>

ToolNext ==
  \/ \E c \in ToolCallIds :
       \/ CallUnplannable(c) \/ CallPlanned(c) \/ RefuseBody(c)
       \/ GiveUp(c) \/ LoseRequest(c)
       \/ \E w \in Workers : TakeRequest(w, c)
  \/ \E w \in Workers : SendAnswer(w) \/ (Run(w) /\ UNCHANGED toolVars)
  \/ Environment /\ UNCHANGED toolVars

\* The event loop serves its queue and every thread of the pool is scheduled.
\* Nothing is assumed of the agent, the clock, or the order in which the lock
\* is given.
ToolFairness ==
  /\ \A c \in ToolCallIds :
       /\ WF_allVars(RefuseBody(c))
       /\ WF_allVars(\E w \in Workers : TakeRequest(w, c))
  /\ \A w \in Workers :
       /\ WF_allVars(Run(w) /\ UNCHANGED toolVars)
       /\ WF_allVars(SendAnswer(w))

ToolSpec == ToolInit /\ [][ToolNext]_allVars
FairToolSpec == ToolSpec /\ ToolFairness

-----------------------------------------------------------------------------
\* Properties.

ToolTypeOK ==
  /\ DOMAIN tool = ToolCallIds
  /\ \A c \in ToolCallIds :
       /\ tool[c].step \in {"unmade", "waiting", "done"}
       /\ tool[c].step # "unmade" => tool[c].call \in Call
       /\ tool[c].step = "done" =>
            /\ tool[c].outcome.status \in {0, 200, 422, 500}
            /\ tool[c].outcome.status = 200 => tool[c].outcome.result \in Result
  /\ wire \in [ToolCallIds -> {"nowhere", "sent", "sent_malformed", "running",
                               "answered", "lost"}]
  /\ carries \in [Workers -> {None} \cup {Some(c) : c \in ToolCallIds}]

\* A request that the server took runs on one thread, as the call its client
\* made, whether that client still waits or not, and a thread that runs a call
\* runs it for a request (http.py, the handlers of create_app).
RequestsRunOnce ==
  /\ \A w \in Workers : carries[w] = None <=> task[w] = Idle
  /\ \A w \in Workers, c \in ToolCallIds :
       carries[w] = Some(c) =>
         /\ wire[c] = "running"
         /\ task[w].call = tool[c].call
         /\ \A v \in Workers : carries[v] = Some(c) => v = w
  /\ \A c \in ToolCallIds : wire[c] # "nowhere" => tool[c].step # "unmade"

\* What the agent was told of a proposal is still so, however long ago and in
\* whatever order the answers came: an applied result is the one on file, a
\* readback is of the change on file, superseded is for good (elevenlabs.py,
\* result_for_agent).
OutcomesStand ==
  \A c \in ToolCallIds :
    tool[c].step = "done" /\ tool[c].outcome.status = 200 =>
      Stands(tool[c].call, tool[c].outcome.result)

\* The inductive invariant of a conversation.
ToolInv == IInv /\ ToolTypeOK /\ RequestsRunOnce /\ OutcomesStand

\* Whatever was retried, given up or answered late, two tool calls that report
\* the same proposal applied report it alike, with the change the agent read
\* back, and the vehicle is on the policy (README: "Repeated commit requests
\* return the same applied result").
ReportsAgree ==
  \A c \in ToolCallIds :
    Hears(c, "applied") =>
      LET applied == Heard(c) IN
        /\ \E i \in DOMAIN policies[applied.change.policy_number].vehicles :
             policies[applied.change.policy_number].vehicles[i]
               = [vin |-> applied.change.vin,
                  effective_date |-> applied.change.effective_date]
        /\ \A d \in ToolCallIds :
             /\ Hears(d, "applied") /\ Heard(d).proposal_id = applied.proposal_id
                  => Heard(d) = applied
             /\ Hears(d, "confirmation_ready")
                  /\ Heard(d).proposal_id = applied.proposal_id
                  => Heard(d).readback = format_readback(applied.change)

\* A proposal the agent was told is superseded is applied by no other call, a
\* given-up one that runs late included.
SupersededIsFinal ==
  \A c \in ToolCallIds :
    Hears(c, "rejected") /\ Heard(c).code = "proposal_superseded" =>
      ~ IsApplied(tool[c].call.proposal_id)

\* What the API has of a tool call: a request on its way or waiting for the lock is
\* asked, whoever still waits for its answer.
KnownRequest(c) ==
  IF wire[c] = "sent" THEN [step |-> "called", call |-> tool[c].call]
  ELSE IF \E w \in Workers : carries[w] = Some(c)
    THEN KnownCall(CHOOSE w \in Workers : carries[w] = Some(c))
  ELSE Idle

\* What the agent has of a tool call: a result, or an error (result_for_agent).
KnownReport(c) ==
  IF tool[c].step # "done" THEN tool[c]
  ELSE [step |-> "done", call |-> tool[c].call,
        answer |-> IF tool[c].outcome.status = 200 THEN Some(tool[c].outcome.result) ELSE None]

\* The promise of Conversation.
Talk ==
  INSTANCE Conversation WITH
    Clients <- ToolCallIds,
    Calls   <- Call,
    offers  <- [id \in ProposalIds |-> KnownOffer(id)],
    client  <- [c \in ToolCallIds |-> KnownRequest(c)],
    heard   <- [c \in ToolCallIds |-> KnownReport(c)]

\* However requests are delayed, given up, refused or lost, each tool call has its
\* effect at one moment after it was made, once or never, and what the agent hears
\* was true at that moment, which came before it heard (local_api.py, execute;
\* elevenlabs.py, result_for_agent).
CallsCountOnce == Talk!TalkSpec

\* Every request that was sent is answered or lost with its connection: no call,
\* a failed one included, leaves another waiting for the lock for ever.
EveryRequestEnds ==
  \A c \in ToolCallIds :
    wire[c] \in {"sent", "sent_malformed"} ~> wire[c] \in {"answered", "lost"}

\* The rule of knowledge/policy-servicing-rules.md on recovery: "`escalate` means
\* stop changing the policy, state that no change was applied".  When a call on
\* a policy is answered so, no call reported a change and none is still out, no
\* change was made to it.
EscalationIsTrue ==
  (\A c \in ToolCallIds : tool[c].step # "waiting" /\ ~ Hears(c, "applied")) =>
    \A c \in ToolCallIds :
      Hears(c, "rejected") /\ Heard(c).recovery = "escalate"
        /\ tool[c].call.op = "propose" =>
          policies[tool[c].call.policy_number].vehicles
            = Fixture[tool[c].call.policy_number].vehicles
=============================================================================
