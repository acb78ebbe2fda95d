------------------------------- MODULE Servicing -------------------------------
(***************************************************************************)
(* The servicing API: insurance_backend/servicing.py over the Store of     *)
(* store.py.  Each worker is a thread of the server's pool that runs one   *)
(* call of lookup, propose or commit.  A call runs under the store's lock; *)
(* one that changes the store takes two steps, the first from taking the   *)
(* lock to the last check, the second from there to giving the lock back,  *)
(* so the clock may move, and every other actor act, between them.         *)
(***************************************************************************)
EXTENDS Domain, Sequences

CONSTANTS
  OnFile,               \* the policy numbers of the fixture file
  Fixture,              \* the policy loaded for each of them
  Workers,              \* the threads that run calls
  Nobody,               \* holds the lock when no thread does
  ProposalIds,          \* the ids next_proposal_id can return
  ConfirmationNumbers   \* the numbers next_confirmation_number can return

Policy ==
  [policy_number : OnFile, status : PolicyStatus, vehicles : Seq(Vehicle)]

ASSUME FixtureAssumption ==
  /\ OnFile \subseteq PolicyNumbers
  /\ Fixture \in [OnFile -> Policy]
  /\ \A p \in OnFile :
       /\ Fixture[p].policy_number = p
       /\ \A i, j \in DOMAIN Fixture[p].vehicles :
            Fixture[p].vehicles[i].vin = Fixture[p].vehicles[j].vin => i = j

ASSUME WorkersAssumption == Nobody \notin Workers

VARIABLES
  policies,    \* Store._policies
  proposals,   \* Store._proposals; an id not in the dictionary is Absent
  now,         \* what clock.now() returns
  lock,        \* the thread inside "with self._lock", or Nobody
  task         \* what each worker is doing

vars == <<policies, proposals, now, lock, task>>
store == <<policies, proposals>>

-----------------------------------------------------------------------------
Call ==
  [op : {"lookup"}, policy_number : PolicyNumbers]
    \cup [op : {"propose"}, policy_number : PolicyNumbers,
          vin_raw : RawVins, date_raw : RawDates]
    \cup [op : {"commit"}, proposal_id : ProposalIds]

Applied ==
  [kind : {"applied"}, proposal_id : ProposalIds,
   confirmation_number : ConfirmationNumbers, change : Change, applied_at : Instants]

Absent == [state |-> "absent"]

PendingProposal ==
  [state : {"pending"}, proposal_id : ProposalIds, change : Change, readback : Readback]

SupersededProposal ==
  [state : {"superseded"}, proposal_id : ProposalIds, change : Change, readback : Readback]

AppliedProposal == [state : {"applied"}, result : Applied]

Proposal == PendingProposal \cup SupersededProposal \cup AppliedProposal

PolicyFound ==
  [kind : {"policy_found"}, policy_number : OnFile, vehicles : Seq(Vehicle),
   earliest_effective_date : Int]

ConfirmationReady ==
  [kind : {"confirmation_ready"}, proposal_id : ProposalIds, change : Change,
   readback : Readback]

Rejected ==
  [kind : {"rejected"}, code : RejectionCode,
   recovery : {"ask_caller_again", "escalate"}, api_date : Seq(Int)]

\* An exception left the call: the server answers with status 500.
ServerError == [kind |-> "server_error"]

Result == PolicyFound \cup ConfirmationReady \cup Applied \cup Rejected \cup {ServerError}

Task ==
  [step : {"idle"}]
    \cup [step : {"called"}, call : Call]
    \cup [step : {"proposing"}, call : Call, change : Change, prior : SUBSET ProposalIds]
    \cup [step : {"applying"}, call : Call, pending : PendingProposal, policy : Policy]
    \cup [step : {"returned"}, call : Call, result : Result]

Idle == [step |-> "idle"]

Returned(call, result) == [step |-> "returned", call |-> call, result |-> result]

-----------------------------------------------------------------------------
\* What the calls read from the store.

on_policy(policy, vin) == \E i \in DOMAIN policy.vehicles : policy.vehicles[i].vin = vin

IsPendingFor(id, policy_number) ==
  /\ proposals[id].state = "pending"
  /\ proposals[id].change.policy_number = policy_number

\* pending_for_policy raises when it meets a second one.
TwoPending(policy_number) ==
  \E a, b \in ProposalIds :
    a # b /\ IsPendingFor(a, policy_number) /\ IsPendingFor(b, policy_number)

\* A mistake: an id source that may repeat itself.
RepeatedIds == ProposalIds

UnusedIds == {id \in ProposalIds : proposals[id].state = "absent"}

UsedConfirmations ==
  {proposals[id].result.confirmation_number :
     id \in {i \in ProposalIds : proposals[i].state = "applied"}}

UnusedConfirmations == ConfirmationNumbers \ UsedConfirmations

\* A mistake: the earlier proposal keeps waiting.
superseded_never(pending) == pending

superseded(pending) ==
  [state |-> "superseded", proposal_id |-> pending.proposal_id,
   change |-> pending.change, readback |-> pending.readback]

\* What lookup returns.
lookup(policy_number) ==
  IF policy_number \notin OnFile THEN rejected("policy_not_found")
  ELSE IF policies[policy_number].status = "cancelled" THEN rejected("policy_cancelled")
  ELSE [kind |-> "policy_found",
        policy_number |-> policies[policy_number].policy_number,
        vehicles |-> policies[policy_number].vehicles,
        earliest_effective_date |-> calendar_date(now)]

\* The answer propose returns before it changes anything; None when it goes on.
propose_refusal(policy_number, vin_raw, date_raw) ==
  LET vin == parse_vin(vin_raw)
      effective == parse_effective_date(date_raw)
      today == calendar_date(now)
  IN IF vin = None THEN Some(rejected("invalid_vin"))
     ELSE IF effective = None THEN Some(rejected("invalid_effective_date"))
     ELSE IF effective[1] < today THEN Some(rejected_past(today))
     ELSE IF policy_number \notin OnFile THEN Some(rejected("policy_not_found"))
     ELSE IF not_amendable(policies[policy_number]) # None
       THEN not_amendable(policies[policy_number])
     ELSE IF on_policy(policies[policy_number], vin[1])
       THEN Some(rejected("vehicle_already_on_policy"))
     ELSE IF TwoPending(policy_number) THEN Some(ServerError)
     ELSE None

\* The checks commit makes again on a pending proposal.
apply_refusal(change) ==
  LET today == calendar_date(now)
  IN IF change.policy_number \notin OnFile THEN Some(rejected("policy_not_found"))
     ELSE IF not_amendable(policies[change.policy_number]) # None
       THEN not_amendable(policies[change.policy_number])
     ELSE IF change.effective_date < today THEN Some(rejected_past(today))
     ELSE IF on_policy(policies[change.policy_number], change.vin)
       THEN Some(rejected("vehicle_already_on_policy"))
     ELSE None

\* The answer commit returns without changing anything; None when it goes on.
commit_answer(id) ==
  CASE proposals[id].state = "absent" -> Some(rejected("proposal_not_found"))
    [] proposals[id].state = "applied" -> Some(proposals[id].result)
    [] proposals[id].state = "superseded" -> Some(rejected("proposal_superseded"))
    [] proposals[id].state = "pending" -> apply_refusal(proposals[id].change)

-----------------------------------------------------------------------------
Init ==
  /\ policies = Fixture
  /\ proposals = [id \in ProposalIds |-> Absent]
  /\ now \in Instants
  /\ lock = Nobody
  /\ task = [w \in Workers |-> Idle]

\* The server hands a call to a free thread.
Receive(w, call) ==
  /\ task[w] = Idle
  /\ task' = [task EXCEPT ![w] = [step |-> "called", call |-> call]]
  /\ UNCHANGED <<store, now, lock>>

\* A mistake: a store whose transaction takes no lock.
EntersUnlocked(w, op) ==
  /\ task[w].step = "called"
  /\ task[w].call.op = op

\* A thread whose call is an op takes the lock.
Enters(w, op) ==
  /\ task[w].step = "called"
  /\ task[w].call.op = op
  /\ lock = Nobody

\* A call that changes nothing takes the lock and gives it back in one step.
Answer(w, result) ==
  /\ task' = [task EXCEPT ![w] = Returned(task[w].call, result)]
  /\ UNCHANGED <<store, now, lock>>

Lookup(w) ==
  /\ Enters(w, "lookup")
  /\ Answer(w, lookup(task[w].call.policy_number))

ProposeRefused(w) ==
  /\ Enters(w, "propose")
  /\ LET call == task[w].call
         refusal == propose_refusal(call.policy_number, call.vin_raw, call.date_raw)
     IN /\ refusal # None
        /\ Answer(w, refusal[1])

\* All checks passed: the policy's pending proposal, if any, is superseded.
ProposeChecked(w) ==
  /\ Enters(w, "propose")
  /\ LET call == task[w].call
         change == [policy_number  |-> policies[call.policy_number].policy_number,
                    vin            |-> parse_vin(call.vin_raw)[1],
                    effective_date |-> parse_effective_date(call.date_raw)[1]]
         prior == {id \in ProposalIds : IsPendingFor(id, call.policy_number)}
     IN /\ propose_refusal(call.policy_number, call.vin_raw, call.date_raw) = None
        /\ proposals' = [id \in ProposalIds |->
                           IF IsPendingFor(id, call.policy_number)
                             THEN superseded(proposals[id])
                             ELSE proposals[id]]
        /\ task' = [task EXCEPT ![w] =
                      [step |-> "proposing", call |-> call, change |-> change,
                       prior |-> prior]]
  /\ lock' = w
  /\ UNCHANGED <<policies, now>>

\* The new proposal is stored under an id not used before.
ProposeStored(w) ==
  /\ task[w].step = "proposing"
  /\ \E id \in UnusedIds :
       LET change == task[w].change
           readback == format_readback(change)
       IN /\ proposals' = [proposals EXCEPT ![id] =
                             [state |-> "pending", proposal_id |-> id,
                              change |-> change, readback |-> readback]]
          /\ task' = [task EXCEPT ![w] = Returned(task[w].call,
                        [kind |-> "confirmation_ready", proposal_id |-> id,
                         change |-> change, readback |-> readback])]
  /\ lock' = Nobody
  /\ UNCHANGED <<policies, now>>

\* A mistake: the exception leaves the lock taken.
ProposeRaisedLocked(w) ==
  /\ task[w].step = "proposing"
  /\ UnusedIds = {}
  /\ task' = [task EXCEPT ![w] = Returned(task[w].call, ServerError)]
  /\ UNCHANGED <<store, now, lock>>

\* An id source that has no id left (ScriptedIds) raises; what was superseded stays so.
ProposeRaised(w) ==
  /\ task[w].step = "proposing"
  /\ UnusedIds = {}
  /\ task' = [task EXCEPT ![w] = Returned(task[w].call, ServerError)]
  /\ lock' = Nobody
  /\ UNCHANGED <<store, now>>

CommitAnswered(w) ==
  /\ Enters(w, "commit")
  /\ LET answer == commit_answer(task[w].call.proposal_id)
     IN /\ answer # None
        /\ Answer(w, answer[1])

CommitChecked(w) ==
  /\ Enters(w, "commit")
  /\ commit_answer(task[w].call.proposal_id) = None
  /\ LET pending == proposals[task[w].call.proposal_id]
     IN task' = [task EXCEPT ![w] =
                   [step |-> "applying", call |-> task[w].call, pending |-> pending,
                    policy |-> policies[pending.change.policy_number]]]
  /\ lock' = w
  /\ UNCHANGED <<store, now>>

\* The policy read at the check gains the vehicle, and the proposal keeps the
\* result for every later commit.
CommitStored(w) ==
  /\ task[w].step = "applying"
  /\ \E number \in UnusedConfirmations :
       LET pending == task[w].pending
           change == pending.change
           policy == task[w].policy
           vehicle == [vin |-> change.vin, effective_date |-> change.effective_date]
           updated == [policy EXCEPT !.vehicles = Append(@, vehicle)]
           applied == [kind |-> "applied", proposal_id |-> pending.proposal_id,
                       confirmation_number |-> number, change |-> change,
                       applied_at |-> now]
       IN /\ policies' = [policies EXCEPT ![policy.policy_number] = updated]
          /\ proposals' = [proposals EXCEPT ![pending.proposal_id] =
                             [state |-> "applied", result |-> applied]]
          /\ task' = [task EXCEPT ![w] = Returned(task[w].call, applied)]
  /\ lock' = Nobody
  /\ UNCHANGED now

CommitRaised(w) ==
  /\ task[w].step = "applying"
  /\ UnusedConfirmations = {}
  /\ task' = [task EXCEPT ![w] = Returned(task[w].call, ServerError)]
  /\ lock' = Nobody
  /\ UNCHANGED <<store, now>>

\* The server sends the answer and the thread is free again.
Respond(w) ==
  /\ task[w].step = "returned"
  /\ task' = [task EXCEPT ![w] = Idle]
  /\ UNCHANGED <<store, now, lock>>

\* The clock reads another instant: a wall clock may be set back, and the
\* suite's clock is moved by days.
Tick ==
  /\ now' \in Instants
  /\ now' # now
  /\ UNCHANGED <<store, lock, task>>

\* A mistake: the standing changes outside any transaction.
ReplaceStatusUnlocked(p, status) ==
  /\ policies' = [policies EXCEPT ![p] = [@ EXCEPT !.status = status]]
  /\ UNCHANGED <<proposals, now, lock, task>>

\* The suite changes a policy's standing inside a transaction of its own.
ReplaceStatus(p, status) ==
  /\ lock = Nobody
  /\ policies' = [policies EXCEPT ![p] = [@ EXCEPT !.status = status]]
  /\ UNCHANGED <<proposals, now, lock, task>>

Run(w) ==
  \/ Lookup(w)
  \/ ProposeRefused(w) \/ ProposeChecked(w) \/ ProposeStored(w) \/ ProposeRaised(w)
  \/ CommitAnswered(w) \/ CommitChecked(w) \/ CommitStored(w) \/ CommitRaised(w)

Environment ==
  \/ Tick
  \/ \E p \in OnFile, status \in PolicyStatus : ReplaceStatus(p, status)

Next ==
  \/ \E w \in Workers :
       \/ \E call \in Call : Receive(w, call)
       \/ Run(w)
       \/ Respond(w)
  \/ Environment

Spec == Init /\ [][Next]_vars

-----------------------------------------------------------------------------
\* Properties.

\* Every variable has its type.
TypeOK ==
  /\ policies \in [OnFile -> Policy]
  /\ proposals \in [ProposalIds -> Proposal \cup {Absent}]
  /\ now \in Instants
  /\ lock \in Workers \cup {Nobody}
  /\ task \in [Workers -> Task]

\* A policy never has two pending proposals, so pending_for_policy never
\* raises, whatever calls overlap (store.py, pending_for_policy).
AtMostOnePending == \A p \in PolicyNumbers : ~ TwoPending(p)

\* No car is on a policy twice, in whatever case callers spelled its VIN and
\* however proposals and commits overlap (servicing.py, the two VIN checks).
NoVehicleTwice ==
  \A p \in OnFile :
    \A i, j \in DOMAIN policies[p].vehicles :
      Upper[policies[p].vehicles[i].vin] = Upper[policies[p].vehicles[j].vin] => i = j

\* A change that was read out and waits for a yes is for a car the policy does
\* not cover, so a commit is never answered vehicle_already_on_policy.
PendingNotCovered ==
  \A p \in OnFile, id \in ProposalIds :
    IsPendingFor(id, p) => ~ on_policy(policies[p], proposals[id].change.vin)

IsApplied(id) == proposals[id].state = "applied"

AppliedVehicle(id) ==
  [vin |-> proposals[id].result.change.vin,
   effective_date |-> proposals[id].result.change.effective_date]

\* Every vehicle that was not in the fixture is there because of an applied
\* proposal, with that proposal's VIN and date.
EveryVehicleConfirmed ==
  \A p \in OnFile :
    \A i \in DOMAIN policies[p].vehicles :
      \/ /\ i \in DOMAIN Fixture[p].vehicles
         /\ policies[p].vehicles[i] = Fixture[p].vehicles[i]
      \/ \E id \in ProposalIds :
           /\ IsApplied(id)
           /\ proposals[id].result.change.policy_number = p
           /\ policies[p].vehicles[i] = AppliedVehicle(id)

\* Every applied proposal has its vehicle on its policy, and no two share a
\* vehicle or a confirmation number.
EveryConfirmationCovered ==
  \A id \in ProposalIds :
    IsApplied(id) =>
      LET p == proposals[id].result.change.policy_number IN
        /\ p \in OnFile
        /\ \E i \in DOMAIN policies[p].vehicles :
             policies[p].vehicles[i] = AppliedVehicle(id)
        /\ \A other \in ProposalIds :
             IsApplied(other) /\ other # id =>
               /\ proposals[other].result.confirmation_number
                    # proposals[id].result.confirmation_number
               /\ \/ proposals[other].result.change.policy_number # p
                  \/ proposals[other].result.change.vin # proposals[id].result.change.vin

\* The two dictionaries of the store agree: applied proposals and added
\* vehicles are in one-to-one correspondence (servicing.py, _apply_pending
\* writes both).
BooksBalance == EveryVehicleConfirmed /\ EveryConfirmationCovered

\* What the result of a call says of the proposal it is about.
Stands(call, result) ==
  /\ result.kind = "applied" =>
       /\ result.proposal_id = call.proposal_id
       /\ proposals[result.proposal_id] = [state |-> "applied", result |-> result]
  /\ result.kind = "confirmation_ready" =>
       LET proposal == proposals[result.proposal_id]
       IN /\ proposal.state # "absent"
          /\ proposal.state = "applied" => proposal.result.change = result.change
          /\ proposal.state # "applied" =>
               proposal.change = result.change /\ proposal.readback = result.readback
          /\ result.readback = format_readback(result.change)
  /\ result.kind = "rejected" =>
       (result.code = "proposal_superseded" =>
          call.op = "commit" /\ proposals[call.proposal_id].state = "superseded")

AnswerStands(w) == Stands(task[w].call, task[w].result)

\* What an answer says of a proposal is still so when the caller hears it,
\* whatever ran in between: an applied result is the one on file, so repeated
\* commits agree; a readback is of the change on file; superseded is for good.
AnswersStand == \A w \in Workers : task[w].step = "returned" => AnswerStands(w)

\* What became of a proposal from one state to the next: nothing; it is new and
\* waits; or it waited and was superseded or applied, with the change and the
\* readback it was stored with.
Becomes(before, after) ==
  \/ after = before
  \/ before.state = "absent" /\ after.state = "pending"
  \/ before.state = "pending" /\ after = superseded(before)
  \/ /\ before.state = "pending"
     /\ after.state = "applied"
     /\ after.result.proposal_id = before.proposal_id
     /\ after.result.change = before.change

\* A proposal binds its change for good: no step edits a stored change or
\* readback, revives a superseded proposal or rewrites an applied result
\* (README: "The proposal binds the server-authored readback to the exact
\* change").
ChangeIsBound ==
  [][\A id \in ProposalIds : Becomes(proposals[id], proposals'[id])]_proposals

\* What a thread inside the lock found at its checks is still so when it writes:
\* only the holder is past its checks, and the policy and proposals it read have
\* not moved (store.py, transaction).
InsideTheLock ==
  \A w \in Workers :
    /\ lock = w <=> task[w].step \in {"proposing", "applying"}
    /\ task[w].step = "proposing" =>
         LET change == task[w].change
             p == change.policy_number
         IN /\ p \in OnFile
            /\ policies[p].status = "active"
            /\ ~ on_policy(policies[p], change.vin)
            /\ \A id \in ProposalIds : ~ IsPendingFor(id, p)
    /\ task[w].step = "applying" =>
         LET pending == task[w].pending
             p == pending.change.policy_number
         IN /\ p \in OnFile
            /\ task[w].policy = policies[p]
            /\ task[w].call.proposal_id = pending.proposal_id
            /\ proposals[pending.proposal_id] = pending
            /\ policies[p].status = "active"
            /\ ~ on_policy(policies[p], pending.change.vin)

\* Every record sits under its own key, and every readback is of its change.
KeysMatch ==
  /\ \A p \in OnFile : policies[p].policy_number = p
  /\ \A id \in ProposalIds :
       /\ proposals[id].state \in {"pending", "superseded"} =>
            /\ proposals[id].proposal_id = id
            /\ proposals[id].readback = format_readback(proposals[id].change)
       /\ IsApplied(id) => proposals[id].result.proposal_id = id

\* The inductive invariant: the store is sound and the lock protects what its
\* holder has read.
IInv ==
  /\ TypeOK
  /\ KeysMatch
  /\ InsideTheLock
  /\ AtMostOnePending
  /\ NoVehicleTwice
  /\ PendingNotCovered
  /\ BooksBalance
  /\ AnswersStand

\* The changes of policy p that wait for a yes.
WaitingChanges(p) ==
  {proposals[id].change : id \in {i \in ProposalIds : IsPendingFor(i, p)}}

\* The promise of VehicleLedger: one change waits per policy, and a vehicle is
\* added by the acceptance of that change alone, to an active policy.
Ledger ==
  INSTANCE VehicleLedger WITH
    Changes <- Change,
    status  <- [p \in OnFile |-> policies[p].status],
    cover   <- [p \in OnFile |-> policies[p].vehicles],
    offered <- [p \in OnFile |-> WaitingChanges(p)]

LedgerKept == Ledger!Spec

\* What a call inside the lock is about to write is what its own caller asked for
\* and was not past at some reading of the clock; the proposals it replaces are
\* superseded (servicing.py, propose and commit).
HeldFromCall ==
  \A w \in Workers :
    LET call == task[w].call
        NotPast(change) ==
          \E reading \in Instants : change.effective_date >= calendar_date(reading)
    IN /\ task[w].step = "proposing" =>
            /\ call.op = "propose"
            /\ Some(task[w].change.vin) = parse_vin(call.vin_raw)
            /\ Some(task[w].change.effective_date) = parse_effective_date(call.date_raw)
            /\ task[w].change.policy_number = call.policy_number
            /\ NotPast(task[w].change)
            /\ \A id \in task[w].prior :
                 /\ proposals[id].state = "superseded"
                 /\ proposals[id].change.policy_number = call.policy_number
       /\ task[w].step = "applying" =>
            call.op = "commit" /\ NotPast(task[w].pending.change)

\* A thread that holds the lock has yet to store the proposal that replaces id.
BeingReplaced(id) ==
  \E w \in Workers : task[w].step = "proposing" /\ id \in task[w].prior

\* What a client knows of a proposal.  Until the thread that holds the lock has
\* stored the new proposal, the prior one still waits.
KnownOffer(id) ==
  LET proposal == proposals[id]
  IN CASE proposal.state = "absent" -> [fate |-> "unknown"]
       [] proposal.state = "applied" -> [fate |-> "taken", answer |-> proposal.result]
       [] OTHER -> [fate |-> IF proposal.state = "pending" \/ BeingReplaced(id)
                               THEN "waiting" ELSE "withdrawn",
                    change |-> proposal.change]

\* A call under the lock has had no effect yet that another client can see.
KnownCall(w) ==
  IF task[w].step \in {"proposing", "applying"}
    THEN [step |-> "called", call |-> task[w].call]
    ELSE task[w]

\* The promise of AtomicServicing: each call takes effect at one moment.
Atomic ==
  INSTANCE AtomicServicing WITH
    Clients <- Workers,
    Calls   <- Call,
    offers  <- [id \in ProposalIds |-> KnownOffer(id)],
    client  <- [w \in Workers |-> KnownCall(w)]

\* Whatever calls overlap, they answer and act as if they came one after the
\* other, each at a moment between its arrival and its answer; a proposal that
\* fails half-way acts as one that only withdrew the prior one.
CallsAreAtomic == Atomic!AtomicSpec

\* The rule of knowledge/policy-servicing-rules.md on dates: "The API rejects any
\* date earlier than its calendar date in America/New_York".  A vehicle is then
\* never effective before the New York day on which the API says it was applied.
AppliedNotBackdated ==
  \A id \in ProposalIds :
    IsApplied(id) =>
      proposals[id].result.change.effective_date
        >= calendar_date(proposals[id].result.applied_at)
=============================================================================
