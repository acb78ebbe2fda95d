---------------------------- MODULE ServicingProofs ----------------------------
(***************************************************************************)
(* What holds of Servicing for every fixture, every number of threads and  *)
(* every set of texts, ids and clock readings.                             *)
(***************************************************************************)
EXTENDS Servicing, TLAPS

-----------------------------------------------------------------------------
(* What the pure operators return.                                         *)

\* parse_vin: a VIN or nothing.
LEMMA ParsedVin ==
  ASSUME NEW raw \in RawVins, parse_vin(raw) # None
  PROVE  parse_vin(raw)[1] \in VinShaped
BY DEF parse_vin, None, Some

\* parse_effective_date: a day a text can name, or nothing.
LEMMA ParsedDate ==
  ASSUME NEW raw \in RawDates, parse_effective_date(raw) # None
  PROVE  parse_effective_date(raw)[1] \in Days
BY DEF parse_effective_date, None, Some, Days

\* calendar_date: a day of New York.
LEMMA Today == ASSUME NEW t \in Instants PROVE calendar_date(t) \in Int
BY DatesAssumption DEF calendar_date

\* rejected builds a rejection from each code.
LEMMA RejectedType ==
  /\ \A code \in RejectionCode : rejected(code) \in Rejected
  /\ \A d \in Int : rejected_past(d) \in Rejected
BY DEF rejected, rejected_past, Rejected, RejectionCode, recovery_for, None, Some

LEMMA ReadbackType == ASSUME NEW change \in Change PROVE format_readback(change) \in Readback
BY DEF format_readback, Readback, Change

\* A policy refuses amendment with policy_cancelled, or not at all.
LEMMA NotAmendable ==
  ASSUME NEW policy
  PROVE  /\ not_amendable(policy) = None <=> policy.status = "active"
         /\ not_amendable(policy) # None => not_amendable(policy)[1] \in Rejected
BY RejectedType DEF not_amendable, None, Some, RejectionCode

\* propose refuses with a result, and goes on only with a valid car and day for a
\* policy on file that is active, does not cover the car and has not two pending.
LEMMA ProposeRefusal ==
  ASSUME TypeOK, NEW p \in PolicyNumbers, NEW v \in RawVins, NEW d \in RawDates
  PROVE  /\ propose_refusal(p, v, d) # None => propose_refusal(p, v, d)[1] \in Result
         /\ propose_refusal(p, v, d) = None =>
              /\ p \in OnFile
              /\ policies[p].status = "active"
              /\ parse_vin(v) # None
              /\ parse_effective_date(d) # None
              /\ ~ on_policy(policies[p], parse_vin(v)[1])
<1>1. calendar_date(now) \in Int
  BY Today DEF TypeOK
<1>2. /\ rejected("invalid_vin") \in Result
      /\ rejected("invalid_effective_date") \in Result
      /\ rejected_past(calendar_date(now)) \in Result
      /\ rejected("policy_not_found") \in Result
      /\ rejected("vehicle_already_on_policy") \in Result
      /\ ServerError \in Result
  BY <1>1, RejectedType DEF Result, RejectionCode
<1>3. \A x : not_amendable(x) # None => not_amendable(x)[1] \in Result
  BY NotAmendable DEF Result
<1>4. \A x : Some(x) # None /\ Some(x)[1] = x
  BY DEF Some, None
<1> QED
  BY <1>2, <1>3, <1>4, NotAmendable DEF propose_refusal

\* commit answers with a result, and goes on only with a pending proposal whose
\* policy is on file, active and without the car.
LEMMA CommitAnswer ==
  ASSUME TypeOK, NEW id \in ProposalIds
  PROVE  /\ commit_answer(id) # None => commit_answer(id)[1] \in Result
         /\ commit_answer(id) = None =>
              /\ proposals[id] \in PendingProposal
              /\ proposals[id].change.policy_number \in OnFile
              /\ policies[proposals[id].change.policy_number].status = "active"
              /\ ~ on_policy(policies[proposals[id].change.policy_number],
                              proposals[id].change.vin)
<1>1. calendar_date(now) \in Int
  BY Today DEF TypeOK
<1>2. /\ rejected("proposal_not_found") \in Result
      /\ rejected("proposal_superseded") \in Result
      /\ rejected_past(calendar_date(now)) \in Result
      /\ rejected("policy_not_found") \in Result
      /\ rejected("vehicle_already_on_policy") \in Result
  BY <1>1, RejectedType DEF Result, RejectionCode
<1>3. \A x : not_amendable(x) # None => not_amendable(x)[1] \in Result
  BY NotAmendable DEF Result
<1>4. \A x : Some(x) # None /\ Some(x)[1] = x
  BY DEF Some, None
<1>5. proposals[id] \in Proposal \cup {Absent}
  BY DEF TypeOK
<1>6. CASE proposals[id].state = "absent"
  BY <1>2, <1>4, <1>6 DEF commit_answer
<1>7. CASE proposals[id].state = "superseded"
  BY <1>2, <1>4, <1>7 DEF commit_answer
<1>8. CASE proposals[id].state = "applied"
  <2>1. proposals[id].result \in Result
    BY <1>5, <1>8 DEF Proposal, PendingProposal, SupersededProposal, AppliedProposal,
                      Absent, Result
  <2> QED
    BY <1>4, <1>8, <2>1 DEF commit_answer
<1>9. CASE proposals[id].state = "pending"
  <2>1. proposals[id] \in PendingProposal
    BY <1>5, <1>9 DEF Proposal, PendingProposal, SupersededProposal, AppliedProposal, Absent
  <2>2. commit_answer(id) = apply_refusal(proposals[id].change)
    BY <1>9 DEF commit_answer
  <2> QED
    BY <1>2, <1>3, <1>4, <2>1, <2>2, NotAmendable DEF apply_refusal
<1> QED
  BY <1>5, <1>6, <1>7, <1>8, <1>9
     DEF Proposal, PendingProposal, SupersededProposal, AppliedProposal, Absent

\* lookup returns a result.
LEMMA LookupType ==
  ASSUME TypeOK, NEW p \in PolicyNumbers
  PROVE  lookup(p) \in Result
<1>1. calendar_date(now) \in Int
  BY Today DEF TypeOK
<1>2. rejected("policy_not_found") \in Result /\ rejected("policy_cancelled") \in Result
  BY RejectedType DEF Result, RejectionCode
<1> QED
  BY <1>1, <1>2 DEF lookup, TypeOK, Policy, Result, PolicyFound

-----------------------------------------------------------------------------
(* The forms of a call and of a task.                                      *)

LEMMA CallForms ==
  ASSUME NEW call \in Call
  PROVE  /\ call.op = "lookup" => call.policy_number \in PolicyNumbers
         /\ call.op = "propose" => /\ call.policy_number \in PolicyNumbers
                                   /\ call.vin_raw \in RawVins
                                   /\ call.date_raw \in RawDates
         /\ call.op = "commit" => call.proposal_id \in ProposalIds
BY DEF Call

LEMMA TaskForms ==
  ASSUME NEW t \in Task
  PROVE  /\ t = Idle <=> t.step = "idle"
         /\ t.step # "idle" => t.call \in Call
         /\ t.step = "proposing" => t.change \in Change /\ t.prior \subseteq ProposalIds
         /\ t.step = "applying" => t.pending \in PendingProposal /\ t.policy \in Policy
         /\ t.step = "returned" => t.result \in Result
<1> DEFINE I == [step : {"idle"}]
           C == [step : {"called"}, call : Call]
           P == [step : {"proposing"}, call : Call, change : Change,
                 prior : SUBSET ProposalIds]
           A == [step : {"applying"}, call : Call, pending : PendingProposal, policy : Policy]
           R == [step : {"returned"}, call : Call, result : Result]
<1>1. t \in I \/ t \in C \/ t \in P \/ t \in A \/ t \in R
  BY DEF Task
<1> QED
  BY <1>1 DEF Idle

LEMMA TasksOfForm ==
  /\ Idle \in Task
  /\ \A call \in Call : [step |-> "called", call |-> call] \in Task
  /\ \A call \in Call, result \in Result : Returned(call, result) \in Task
  /\ \A call \in Call, change \in Change, prior \in SUBSET ProposalIds :
       [step |-> "proposing", call |-> call, change |-> change, prior |-> prior] \in Task
  /\ \A call \in Call, pending \in PendingProposal, policy \in Policy :
       [step |-> "applying", call |-> call, pending |-> pending, policy |-> policy] \in Task
BY DEF Task, Idle, Returned

-----------------------------------------------------------------------------
(* The type invariant, action by action.                                   *)

\* A call that is answered without a change keeps the types.
LEMMA AnswerType ==
  ASSUME TypeOK, NEW w \in Workers, task[w].step # "idle",
         NEW result \in Result, Answer(w, result)
  PROVE  TypeOK'
<1>1. task[w].call \in Call
  BY TaskForms DEF TypeOK
<1>2. Returned(task[w].call, result) \in Task
  BY <1>1, TasksOfForm
<1> QED
  BY <1>2 DEF Answer, store, TypeOK

LEMMA ReceiveType ==
  ASSUME TypeOK, NEW w \in Workers, NEW call \in Call, Receive(w, call)
  PROVE  TypeOK'
<1>1. [step |-> "called", call |-> call] \in Task
  BY TasksOfForm
<1> QED
  BY <1>1 DEF Receive, store, TypeOK

LEMMA LookupStepType ==
  ASSUME TypeOK, NEW w \in Workers, Lookup(w)
  PROVE  TypeOK'
<1>1. task[w].call \in Call /\ task[w].call.op = "lookup" /\ task[w].step # "idle"
  BY TaskForms DEF TypeOK, Lookup, Enters
<1>2. lookup(task[w].call.policy_number) \in Result
  BY <1>1, CallForms, LookupType
<1> QED
  BY <1>1, <1>2, AnswerType DEF Lookup

LEMMA ProposeRefusedType ==
  ASSUME TypeOK, NEW w \in Workers, ProposeRefused(w)
  PROVE  TypeOK'
<1> DEFINE call == task[w].call
           refusal == propose_refusal(call.policy_number, call.vin_raw, call.date_raw)
<1>1. call \in Call /\ call.op = "propose" /\ task[w].step # "idle"
  BY TaskForms DEF TypeOK, ProposeRefused, Enters
<1>2. refusal # None /\ Answer(w, refusal[1])
  BY DEF ProposeRefused
<1>3. refusal[1] \in Result
  BY <1>1, <1>2, CallForms, ProposeRefusal
<1> HIDE DEF refusal
<1> QED
  BY <1>1, <1>2, <1>3, AnswerType

\* A superseded proposal keeps its parts.
LEMMA SupersededType ==
  ASSUME NEW pending \in PendingProposal
  PROVE  superseded(pending) \in SupersededProposal
BY DEF superseded, PendingProposal, SupersededProposal

\* The proposals that wait on policy p, which a new proposal replaces.
PriorOf(p) == {id \in ProposalIds : IsPendingFor(id, p)}

\* What ProposeChecked stores and remembers.
LEMMA ProposeCheckedFacts ==
  ASSUME TypeOK, NEW w \in Workers, ProposeChecked(w)
  PROVE  /\ lock = Nobody /\ lock' = w
         /\ policies' = policies /\ now' = now
         /\ task[w].step = "called" /\ task[w].call \in Call
         /\ \E change \in Change :
              /\ change.policy_number \in OnFile
              /\ change.policy_number = policies[task[w].call.policy_number].policy_number
              /\ task[w].call.policy_number \in OnFile
              /\ policies[task[w].call.policy_number].status = "active"
              /\ ~ on_policy(policies[task[w].call.policy_number], change.vin)
              /\ task' = [task EXCEPT ![w] =
                            [step |-> "proposing", call |-> task[w].call,
                             change |-> change,
                             prior |-> PriorOf(task[w].call.policy_number)]]
         /\ proposals' = [id \in ProposalIds |->
                            IF IsPendingFor(id, task[w].call.policy_number)
                              THEN superseded(proposals[id])
                              ELSE proposals[id]]
<1> DEFINE call == task[w].call
           change == [policy_number  |-> policies[call.policy_number].policy_number,
                      vin            |-> parse_vin(call.vin_raw)[1],
                      effective_date |-> parse_effective_date(call.date_raw)[1]]
<1>1. call \in Call /\ call.op = "propose" /\ task[w].step = "called" /\ lock = Nobody
  BY TaskForms DEF TypeOK, ProposeChecked, Enters
<1>2. /\ call.policy_number \in PolicyNumbers
      /\ call.vin_raw \in RawVins /\ call.date_raw \in RawDates
  BY <1>1, CallForms
<1>3. /\ call.policy_number \in OnFile
      /\ policies[call.policy_number].status = "active"
      /\ parse_vin(call.vin_raw) # None
      /\ parse_effective_date(call.date_raw) # None
      /\ ~ on_policy(policies[call.policy_number], parse_vin(call.vin_raw)[1])
  BY <1>2, ProposeRefusal DEF ProposeChecked
<1>4. change.vin \in VinShaped /\ change.effective_date \in Days
  BY <1>2, <1>3, ParsedVin, ParsedDate
<1>5. change.policy_number \in OnFile
  BY <1>3 DEF TypeOK, Policy
<1>6. change \in Change
  BY <1>4, <1>5, FixtureAssumption DEF Change
<1>7. /\ lock' = w /\ policies' = policies /\ now' = now
      /\ task' = [task EXCEPT ![w] = [step |-> "proposing", call |-> call, change |-> change,
                                      prior |-> PriorOf(call.policy_number)]]
      /\ proposals' = [id \in ProposalIds |->
                         IF IsPendingFor(id, call.policy_number)
                           THEN superseded(proposals[id])
                           ELSE proposals[id]]
  BY DEF ProposeChecked, PriorOf
<1>8. change.vin = parse_vin(call.vin_raw)[1]
      /\ change.policy_number = policies[call.policy_number].policy_number
  OBVIOUS
<1> HIDE DEF change
<1> QED
  BY <1>1, <1>3, <1>5, <1>6, <1>7, <1>8

LEMMA ProposeCheckedType ==
  ASSUME TypeOK, NEW w \in Workers, ProposeChecked(w)
  PROVE  TypeOK'
<1>1. PICK change \in Change :
        task' = [task EXCEPT ![w] = [step |-> "proposing", call |-> task[w].call,
                                     change |-> change,
                                     prior |-> PriorOf(task[w].call.policy_number)]]
  BY ProposeCheckedFacts
<1>2. [step |-> "proposing", call |-> task[w].call, change |-> change,
       prior |-> PriorOf(task[w].call.policy_number)] \in Task
  BY ProposeCheckedFacts, TasksOfForm DEF PriorOf
<1>3. task' \in [Workers -> Task]
  BY <1>1, <1>2 DEF TypeOK
<1>4. ASSUME NEW id \in ProposalIds
      PROVE  proposals'[id] \in Proposal \cup {Absent}
  <2>1. CASE IsPendingFor(id, task[w].call.policy_number)
    <3>1. proposals[id] \in PendingProposal
      BY <2>1 DEF IsPendingFor, TypeOK, Proposal, SupersededProposal, AppliedProposal,
                  PendingProposal, Absent
    <3> QED
      BY <2>1, <3>1, SupersededType, ProposeCheckedFacts DEF Proposal
  <2>2. CASE ~ IsPendingFor(id, task[w].call.policy_number)
    BY <2>2, ProposeCheckedFacts DEF TypeOK
  <2> QED
    BY <2>1, <2>2
<1>5. proposals' \in [ProposalIds -> Proposal \cup {Absent}]
  BY <1>4, ProposeCheckedFacts
<1> QED
  BY <1>3, <1>5, ProposeCheckedFacts DEF TypeOK

LEMMA ProposeStoredType ==
  ASSUME TypeOK, NEW w \in Workers, ProposeStored(w)
  PROVE  TypeOK'
<1> DEFINE change == task[w].change
           readback == format_readback(change)
<1>1. change \in Change /\ task[w].call \in Call
  BY TaskForms DEF TypeOK, ProposeStored
<1>2. readback \in Readback
  BY <1>1, ReadbackType
<1>3. PICK id \in UnusedIds :
        /\ proposals' = [proposals EXCEPT ![id] =
                           [state |-> "pending", proposal_id |-> id,
                            change |-> change, readback |-> readback]]
        /\ task' = [task EXCEPT ![w] = Returned(task[w].call,
                      [kind |-> "confirmation_ready", proposal_id |-> id,
                       change |-> change, readback |-> readback])]
  BY DEF ProposeStored
<1>4. id \in ProposalIds
  BY DEF UnusedIds
<1>5. [state |-> "pending", proposal_id |-> id, change |-> change, readback |-> readback]
        \in Proposal
  BY <1>1, <1>2, <1>4 DEF Proposal, PendingProposal
<1>6. [kind |-> "confirmation_ready", proposal_id |-> id, change |-> change,
       readback |-> readback] \in Result
  BY <1>1, <1>2, <1>4 DEF Result, ConfirmationReady
<1>7. task' \in [Workers -> Task]
  BY <1>1, <1>3, <1>6, TasksOfForm DEF TypeOK
<1> QED
  BY <1>3, <1>5, <1>7 DEF TypeOK, ProposeStored

\* A call that raises keeps the types.
LEMMA RaisedType ==
  ASSUME TypeOK, NEW w \in Workers, ProposeRaised(w) \/ CommitRaised(w)
  PROVE  TypeOK'
<1>1. task[w].call \in Call
  BY TaskForms DEF TypeOK, ProposeRaised, CommitRaised
<1>2. Returned(task[w].call, ServerError) \in Task
  BY <1>1, TasksOfForm DEF Result
<1> QED
  BY <1>2 DEF TypeOK, ProposeRaised, CommitRaised, store

LEMMA CommitAnsweredType ==
  ASSUME TypeOK, NEW w \in Workers, CommitAnswered(w)
  PROVE  TypeOK'
<1> DEFINE answer == commit_answer(task[w].call.proposal_id)
<1>1. task[w].call \in Call /\ task[w].call.op = "commit" /\ task[w].step # "idle"
  BY TaskForms DEF TypeOK, CommitAnswered, Enters
<1>2. answer # None /\ Answer(w, answer[1])
  BY DEF CommitAnswered
<1>3. answer[1] \in Result
  BY <1>1, <1>2, CallForms, CommitAnswer
<1> HIDE DEF answer
<1> QED
  BY <1>1, <1>2, <1>3, AnswerType

\* What CommitChecked remembers.
LEMMA CommitCheckedFacts ==
  ASSUME TypeOK, NEW w \in Workers, CommitChecked(w)
  PROVE  /\ lock = Nobody /\ lock' = w
         /\ policies' = policies /\ proposals' = proposals /\ now' = now
         /\ task[w].step = "called" /\ task[w].call \in Call
         /\ task[w].call.proposal_id \in ProposalIds
         /\ \E pending \in PendingProposal :
              /\ pending = proposals[task[w].call.proposal_id]
              /\ pending.change.policy_number \in OnFile
              /\ policies[pending.change.policy_number].status = "active"
              /\ ~ on_policy(policies[pending.change.policy_number], pending.change.vin)
              /\ task' = [task EXCEPT ![w] =
                            [step |-> "applying", call |-> task[w].call, pending |-> pending,
                             policy |-> policies[pending.change.policy_number]]]
<1>1. /\ task[w].call \in Call /\ task[w].call.op = "commit"
      /\ task[w].step = "called" /\ lock = Nobody
  BY TaskForms DEF TypeOK, CommitChecked, Enters
<1>2. task[w].call.proposal_id \in ProposalIds
  BY <1>1, CallForms
<1>3. commit_answer(task[w].call.proposal_id) = None
  BY DEF CommitChecked
<1>4. /\ lock' = w /\ policies' = policies /\ proposals' = proposals /\ now' = now
      /\ task' = [task EXCEPT ![w] =
           [step |-> "applying", call |-> task[w].call,
            pending |-> proposals[task[w].call.proposal_id],
            policy |-> policies[proposals[task[w].call.proposal_id].change.policy_number]]]
  BY DEF CommitChecked, store
<1> QED
  BY <1>1, <1>2, <1>3, <1>4, CommitAnswer

LEMMA CommitCheckedType ==
  ASSUME TypeOK, NEW w \in Workers, CommitChecked(w)
  PROVE  TypeOK'
<1>1. PICK pending \in PendingProposal :
        /\ pending.change.policy_number \in OnFile
        /\ task' = [task EXCEPT ![w] =
                      [step |-> "applying", call |-> task[w].call, pending |-> pending,
                       policy |-> policies[pending.change.policy_number]]]
  BY CommitCheckedFacts
<1>2. policies[pending.change.policy_number] \in Policy
  BY <1>1 DEF TypeOK
<1>3. task' \in [Workers -> Task]
  BY <1>1, <1>2, CommitCheckedFacts, TasksOfForm DEF TypeOK
<1> QED
  BY <1>3, CommitCheckedFacts DEF TypeOK

\* A policy with other vehicles is the same policy otherwise.
LEMMA WithVehicles ==
  ASSUME NEW policy \in Policy, NEW vehicles
  PROVE  [policy EXCEPT !.vehicles = vehicles]
           = [policy_number |-> policy.policy_number, status |-> policy.status,
              vehicles |-> vehicles]
BY DEF Policy

LEMMA AppendVehicle ==
  ASSUME NEW vehicles \in Seq(Vehicle), NEW vehicle \in Vehicle
  PROVE  Append(vehicles, vehicle) \in Seq(Vehicle)
OBVIOUS

\* What CommitStored writes.
LEMMA CommitStoredFacts ==
  ASSUME TypeOK, NEW w \in Workers, CommitStored(w)
  PROVE  /\ task[w].step = "applying" /\ task[w].call \in Call
         /\ task[w].pending \in PendingProposal /\ task[w].policy \in Policy
         /\ lock' = Nobody /\ now' = now
         /\ \E applied \in Applied :
              /\ applied.proposal_id = task[w].pending.proposal_id
              /\ applied.change = task[w].pending.change
              /\ applied.confirmation_number \in UnusedConfirmations
              /\ applied.kind = "applied"
              /\ proposals' = [proposals EXCEPT ![task[w].pending.proposal_id] =
                                 [state |-> "applied", result |-> applied]]
              /\ task' = [task EXCEPT ![w] = Returned(task[w].call, applied)]
         /\ policies' = [policies EXCEPT ![task[w].policy.policy_number] =
              [policy_number |-> task[w].policy.policy_number,
               status |-> task[w].policy.status,
               vehicles |-> Append(task[w].policy.vehicles,
                              [vin |-> task[w].pending.change.vin,
                               effective_date |-> task[w].pending.change.effective_date])]]
<1> DEFINE pending == task[w].pending
           policy == task[w].policy
           vehicle == [vin |-> pending.change.vin,
                       effective_date |-> pending.change.effective_date]
           updated == [policy EXCEPT !.vehicles = Append(@, vehicle)]
           applied(number) == [kind |-> "applied", proposal_id |-> pending.proposal_id,
                       confirmation_number |-> number, change |-> pending.change,
                       applied_at |-> now]
<1>1. /\ task[w].step = "applying" /\ task[w].call \in Call
      /\ pending \in PendingProposal /\ policy \in Policy
  BY TaskForms DEF TypeOK, CommitStored
<1>2. PICK number \in UnusedConfirmations :
        /\ policies' = [policies EXCEPT ![policy.policy_number] = updated]
        /\ proposals' = [proposals EXCEPT ![pending.proposal_id] =
                            [state |-> "applied", result |-> applied(number)]]
        /\ task' = [task EXCEPT ![w] = Returned(task[w].call, applied(number))]
  BY DEF CommitStored
<1>3. updated = [policy_number |-> policy.policy_number, status |-> policy.status,
                 vehicles |-> Append(policy.vehicles, vehicle)]
  BY <1>1, WithVehicles
<1>4. applied(number) \in Applied
  BY <1>1 DEF Applied, PendingProposal, UnusedConfirmations, TypeOK
<1>5. lock' = Nobody /\ now' = now
  BY DEF CommitStored
<1>6. /\ applied(number).proposal_id = pending.proposal_id
      /\ applied(number).change = pending.change
      /\ applied(number).confirmation_number = number
      /\ applied(number).kind = "applied"
  OBVIOUS
<1> HIDE DEF updated, applied, vehicle
<1> QED
  BY <1>1, <1>2, <1>3, <1>4, <1>5, <1>6 DEF vehicle

LEMMA CommitStoredType ==
  ASSUME TypeOK, NEW w \in Workers, CommitStored(w)
  PROVE  TypeOK'
<1>1. PICK applied \in Applied :
        /\ proposals' = [proposals EXCEPT ![task[w].pending.proposal_id] =
                           [state |-> "applied", result |-> applied]]
        /\ task' = [task EXCEPT ![w] = Returned(task[w].call, applied)]
  BY CommitStoredFacts
<1>2. task' \in [Workers -> Task]
  BY <1>1, CommitStoredFacts, TasksOfForm DEF TypeOK, Result
<1>3. proposals' \in [ProposalIds -> Proposal \cup {Absent}]
  <2>1. [state |-> "applied", result |-> applied] \in Proposal
    BY DEF Proposal, AppliedProposal
  <2> QED
    BY <1>1, <2>1 DEF TypeOK
<1>4. policies' \in [OnFile -> Policy]
  <2>1. [vin |-> task[w].pending.change.vin,
         effective_date |-> task[w].pending.change.effective_date] \in Vehicle
    BY CommitStoredFacts DEF PendingProposal, Change, Vehicle
  <2>2. Append(task[w].policy.vehicles,
               [vin |-> task[w].pending.change.vin,
                effective_date |-> task[w].pending.change.effective_date]) \in Seq(Vehicle)
    BY <2>1, AppendVehicle, CommitStoredFacts DEF Policy
  <2>3. [policy_number |-> task[w].policy.policy_number,
         status |-> task[w].policy.status,
         vehicles |-> Append(task[w].policy.vehicles,
                        [vin |-> task[w].pending.change.vin,
                         effective_date |-> task[w].pending.change.effective_date])]
          \in Policy
    BY <2>2, CommitStoredFacts DEF Policy
  <2> QED
    BY <2>3, CommitStoredFacts DEF TypeOK
<1> QED
  BY <1>2, <1>3, <1>4, CommitStoredFacts DEF TypeOK

LEMMA RespondType ==
  ASSUME TypeOK, NEW w \in Workers, Respond(w)
  PROVE  TypeOK'
BY TasksOfForm DEF Respond, store, TypeOK

LEMMA EnvironmentType ==
  ASSUME TypeOK, Environment
  PROVE  TypeOK'
<1>1. CASE Tick
  BY <1>1 DEF Tick, store, TypeOK
<1>2. ASSUME NEW p \in OnFile, NEW status \in PolicyStatus, ReplaceStatus(p, status)
      PROVE  TypeOK'
  <2>1. [policies[p] EXCEPT !.status = status] \in Policy
    BY DEF TypeOK, Policy
  <2> QED
    BY <1>2, <2>1 DEF ReplaceStatus, TypeOK
<1> QED
  BY <1>1, <1>2 DEF Environment

LEMMA InitType == Init => TypeOK
BY FixtureAssumption, TasksOfForm DEF Init, TypeOK

LEMMA StepType == TypeOK /\ [Next]_vars => TypeOK'
<1> SUFFICES ASSUME TypeOK, [Next]_vars PROVE TypeOK'
  OBVIOUS
<1>1. CASE UNCHANGED vars
  BY <1>1 DEF vars, TypeOK
<1>2. ASSUME NEW w \in Workers, NEW call \in Call, Receive(w, call)
      PROVE  TypeOK'
  BY <1>2, ReceiveType
<1>3. ASSUME NEW w \in Workers, Run(w)
      PROVE  TypeOK'
  BY <1>3, LookupStepType, ProposeRefusedType, ProposeCheckedType, ProposeStoredType,
     RaisedType, CommitAnsweredType, CommitCheckedType, CommitStoredType DEF Run
<1>4. ASSUME NEW w \in Workers, Respond(w)
      PROVE  TypeOK'
  BY <1>4, RespondType
<1>5. CASE Environment
  BY <1>5, EnvironmentType
<1> QED
  BY <1>1, <1>2, <1>3, <1>4, <1>5 DEF Next

\* Every variable has its type, whatever calls the threads run and in whatever
\* order: a stored vehicle is always a folded VIN with a day a caller can name.
THEOREM TypeCorrect == Spec => []TypeOK
BY InitType, StepType, PTL DEF Spec

-----------------------------------------------------------------------------
(* The inductive invariant.  First what the store's part of it says when    *)
(* the store does not move.                                                *)

\* The parts of IInv that read the store alone.
StoreSound ==
  /\ KeysMatch /\ AtMostOnePending /\ NoVehicleTwice /\ PendingNotCovered /\ BooksBalance

LEMMA StoreUnmoved ==
  ASSUME StoreSound, policies' = policies, proposals' = proposals
  PROVE  StoreSound'
BY DEF StoreSound, KeysMatch, AtMostOnePending, TwoPending, IsPendingFor, NoVehicleTwice,
       PendingNotCovered, on_policy, BooksBalance, EveryVehicleConfirmed,
       EveryConfirmationCovered, IsApplied, AppliedVehicle

\* What a result says stays so when proposals move only as Becomes allows.
LEMMA StandsKept ==
  ASSUME NEW call \in Call, NEW result \in Result, Stands(call, result),
         \A id \in ProposalIds : Becomes(proposals[id], proposals'[id])
  PROVE  Stands(call, result)'
<1>1. ASSUME result.kind = "applied"
      PROVE  /\ result.proposal_id = call.proposal_id
             /\ proposals'[result.proposal_id] = [state |-> "applied", result |-> result]
  <2>1. /\ result.proposal_id = call.proposal_id
        /\ proposals[result.proposal_id] = [state |-> "applied", result |-> result]
    BY <1>1 DEF Stands
  <2>2. result.proposal_id \in ProposalIds
    BY <1>1 DEF Result, PolicyFound, ConfirmationReady, Applied, Rejected, ServerError
  <2> QED
    BY <2>1, <2>2 DEF Becomes
<1>2. ASSUME result.kind = "confirmation_ready"
      PROVE  LET proposal == proposals'[result.proposal_id]
             IN /\ proposal.state # "absent"
                /\ proposal.state = "applied" => proposal.result.change = result.change
                /\ proposal.state # "applied" =>
                     proposal.change = result.change /\ proposal.readback = result.readback
                /\ result.readback = format_readback(result.change)
  <2> DEFINE before == proposals[result.proposal_id]
             after == proposals'[result.proposal_id]
  <2>1. /\ before.state # "absent"
        /\ before.state = "applied" => before.result.change = result.change
        /\ before.state # "applied" =>
             before.change = result.change /\ before.readback = result.readback
        /\ result.readback = format_readback(result.change)
    BY <1>2 DEF Stands
  <2>2. result.proposal_id \in ProposalIds
    BY <1>2 DEF Result, PolicyFound, ConfirmationReady, Applied, Rejected, ServerError
  <2>3. Becomes(before, after)
    BY <2>2
  <2> HIDE DEF before, after
  <2>4. /\ after.state # "absent"
        /\ after.state = "applied" => after.result.change = result.change
        /\ after.state # "applied" =>
             after.change = result.change /\ after.readback = result.readback
    BY <2>1, <2>3 DEF Becomes, superseded
  <2> QED
    BY <2>1, <2>4 DEF after
<1>3. ASSUME result.kind = "rejected", result.code = "proposal_superseded"
      PROVE  call.op = "commit" /\ proposals'[call.proposal_id].state = "superseded"
  <2>1. call.op = "commit" /\ proposals[call.proposal_id].state = "superseded"
    BY <1>3 DEF Stands
  <2>2. call.proposal_id \in ProposalIds
    BY <2>1, CallForms
  <2> QED
    BY <2>1, <2>2 DEF Becomes
<1> QED
  BY <1>1, <1>2, <1>3 DEF Stands

\* So does a thread's answer, until it is sent.
LEMMA AnswerKept ==
  ASSUME TypeOK, NEW v \in Workers, task[v].step = "returned", AnswerStands(v),
         task'[v] = task[v],
         \A id \in ProposalIds : Becomes(proposals[id], proposals'[id])
  PROVE  AnswerStands(v)'
<1>1. PICK call \in Call, result \in Result : call = task[v].call /\ result = task[v].result
  BY TaskForms DEF TypeOK
<1>2. Stands(call, result)'
  BY <1>1, StandsKept DEF AnswerStands
<1> QED
  BY <1>1, <1>2 DEF AnswerStands

\* Answers given before stay true when no proposal moves but as Becomes allows,
\* and the threads' tasks but w's stay the same.
LEMMA OthersStand ==
  ASSUME TypeOK, AnswersStand, NEW w \in Workers, NEW t,
         \A id \in ProposalIds : Becomes(proposals[id], proposals'[id]),
         task' = [task EXCEPT ![w] = t],
         t.step = "returned" => AnswerStands(w)'
  PROVE  AnswersStand'
<1> SUFFICES ASSUME NEW v \in Workers, task'[v].step = "returned"
             PROVE  AnswerStands(v)'
  BY DEF AnswersStand
<1>1. CASE v = w
  BY <1>1 DEF TypeOK
<1>2. CASE v # w
  <2>1. task'[v] = task[v]
    BY <1>2 DEF TypeOK
  <2> QED
    BY <2>1, AnswerKept DEF AnswersStand
<1> QED
  BY <1>1, <1>2

\* A step that moves neither store nor lock, and whose thread is outside the lock
\* before and after, keeps InsideTheLock.
LEMMA OutsideQuiet ==
  ASSUME TypeOK, InsideTheLock, NEW w \in Workers, NEW t,
         task' = [task EXCEPT ![w] = t],
         task[w].step \notin {"proposing", "applying"},
         t.step \notin {"proposing", "applying"},
         policies' = policies, proposals' = proposals, lock' = lock
  PROVE  InsideTheLock'
<1> SUFFICES ASSUME NEW v \in Workers
             PROVE  /\ lock' = v <=> task'[v].step \in {"proposing", "applying"}
                    /\ task'[v].step \in {"proposing", "applying"} => task'[v] = task[v]
  BY DEF InsideTheLock, on_policy, IsPendingFor
<1>1. CASE v = w
  BY <1>1 DEF TypeOK, InsideTheLock
<1>2. CASE v # w
  BY <1>2 DEF TypeOK, InsideTheLock
<1> QED
  BY <1>1, <1>2

-----------------------------------------------------------------------------
(* The steps that move neither the store nor the lock.                     *)

LEMMA QuietStep ==
  ASSUME IInv, TypeOK', NEW w \in Workers, NEW t,
         task' = [task EXCEPT ![w] = t],
         task[w].step \notin {"proposing", "applying"},
         t.step \notin {"proposing", "applying"},
         policies' = policies, proposals' = proposals, lock' = lock,
         t.step = "returned" => AnswerStands(w)'
  PROVE  IInv'
<1>1. StoreSound'
  BY StoreUnmoved DEF IInv, StoreSound
<1>2. InsideTheLock'
  BY OutsideQuiet DEF IInv
<1>3. AnswersStand'
  <2>1. \A id \in ProposalIds : Becomes(proposals[id], proposals'[id])
    BY DEF Becomes
  <2> QED
    BY <2>1, OthersStand DEF IInv
<1> QED
  BY <1>1, <1>2, <1>3 DEF IInv, StoreSound

LEMMA ReceiveStep ==
  ASSUME IInv, NEW w \in Workers, NEW call \in Call, Receive(w, call)
  PROVE  IInv'
<1> DEFINE t == [step |-> "called", call |-> call]
<1>1. TypeOK'
  BY ReceiveType DEF IInv
<1>2. task' = [task EXCEPT ![w] = t] /\ t.step = "called" /\ task[w].step = "idle"
  BY DEF Receive, Idle
<1>3. policies' = policies /\ proposals' = proposals /\ lock' = lock
  BY DEF Receive, store
<1> HIDE DEF t
<1> QED
  BY <1>1, <1>2, <1>3, QuietStep

LEMMA RespondStep ==
  ASSUME IInv, NEW w \in Workers, Respond(w)
  PROVE  IInv'
<1>1. TypeOK'
  BY RespondType DEF IInv
<1>2. task' = [task EXCEPT ![w] = Idle] /\ Idle.step = "idle" /\ task[w].step = "returned"
  BY DEF Respond, Idle
<1>3. policies' = policies /\ proposals' = proposals /\ lock' = lock
  BY DEF Respond, store
<1> QED
  BY <1>1, <1>2, <1>3, QuietStep

\* A call answered without a change, by a true answer.
LEMMA AnswerStep ==
  ASSUME IInv, TypeOK', NEW w \in Workers, NEW result,
         task[w].step = "called", Answer(w, result),
         task'[w] = Returned(task[w].call, result) => AnswerStands(w)'
  PROVE  IInv'
<1> DEFINE t == Returned(task[w].call, result)
<1>1. task' = [task EXCEPT ![w] = t] /\ t.step = "returned"
  BY DEF Answer, Returned
<1>2. task'[w] = t
  BY <1>1 DEF IInv, TypeOK
<1>3. policies' = policies /\ proposals' = proposals /\ lock' = lock
  BY DEF Answer, store
<1> HIDE DEF t
<1> QED
  BY <1>1, <1>2, <1>3, QuietStep DEF t

\* An answer that names no proposal stands whatever the store is.
LEMMA UnboundAnswer ==
  ASSUME NEW w \in Workers, NEW result, NEW call,
         task'[w] = Returned(call, result),
         result.kind \notin {"applied", "confirmation_ready"},
         result.kind = "rejected" => result.code # "proposal_superseded"
  PROVE  AnswerStands(w)'
BY DEF AnswerStands, Stands, Returned

LEMMA LookupStep ==
  ASSUME IInv, NEW w \in Workers, Lookup(w)
  PROVE  IInv'
<1> DEFINE result == lookup(task[w].call.policy_number)
<1>1. TypeOK'
  BY LookupStepType DEF IInv
<1>2. task[w].step = "called" /\ Answer(w, result)
  BY DEF Lookup, Enters
<1>3. /\ result.kind \notin {"applied", "confirmation_ready"}
      /\ result.kind = "rejected" => result.code # "proposal_superseded"
  BY DEF lookup, rejected
<1> HIDE DEF result
<1> QED
  BY <1>1, <1>2, <1>3, UnboundAnswer, AnswerStep

\* propose never answers proposal_superseded, nor with a proposal it did not make.
LEMMA RefusalUnbound ==
  ASSUME NEW p, NEW v, NEW d, propose_refusal(p, v, d) # None
  PROVE  LET result == propose_refusal(p, v, d)[1]
         IN /\ result.kind \notin {"applied", "confirmation_ready"}
            /\ result.kind = "rejected" => result.code # "proposal_superseded"
<1>1. \A x : Some(x) # None /\ Some(x)[1] = x
  BY DEF Some, None
<1>2. \A policy : not_amendable(policy) # None =>
        not_amendable(policy)[1] = rejected("policy_cancelled")
  BY <1>1 DEF not_amendable
<1>3. \A code : rejected(code).kind = "rejected" /\ rejected(code).code = code
  BY DEF rejected
<1>4. \A day : rejected_past(day).kind = "rejected"
                /\ rejected_past(day).code = "effective_date_in_past"
  BY DEF rejected_past
<1>5. ServerError.kind = "server_error"
  BY DEF ServerError
<1> DEFINE refusal == propose_refusal(p, v, d)
<1>6. \/ refusal = Some(rejected("invalid_vin"))
      \/ refusal = Some(rejected("invalid_effective_date"))
      \/ refusal = Some(rejected_past(calendar_date(now)))
      \/ refusal = Some(rejected("policy_not_found"))
      \/ refusal = not_amendable(policies[p])
      \/ refusal = Some(rejected("vehicle_already_on_policy"))
      \/ refusal = Some(ServerError)
      \/ refusal = None
  BY Zenon DEF propose_refusal
<1>7. refusal # None
  OBVIOUS
<1> HIDE DEF refusal
<1>8. \/ \E code \in {"invalid_vin", "invalid_effective_date", "policy_not_found",
                     "policy_cancelled", "vehicle_already_on_policy"} :
           refusal[1] = rejected(code)
      \/ refusal[1] = rejected_past(calendar_date(now))
      \/ refusal[1] = ServerError
  BY <1>1, <1>2, <1>6, <1>7
<1>9. /\ refusal[1].kind \notin {"applied", "confirmation_ready"}
      /\ refusal[1].kind = "rejected" => refusal[1].code # "proposal_superseded"
  BY <1>3, <1>4, <1>5, <1>8
<1> QED
  BY <1>9 DEF refusal

LEMMA ProposeRefusedStep ==
  ASSUME IInv, NEW w \in Workers, ProposeRefused(w)
  PROVE  IInv'
<1> DEFINE call == task[w].call
           refusal == propose_refusal(call.policy_number, call.vin_raw, call.date_raw)
<1>1. TypeOK'
  BY ProposeRefusedType DEF IInv
<1>2. task[w].step = "called" /\ refusal # None /\ Answer(w, refusal[1])
  BY DEF ProposeRefused, Enters
<1>3. /\ refusal[1].kind \notin {"applied", "confirmation_ready"}
      /\ refusal[1].kind = "rejected" => refusal[1].code # "proposal_superseded"
  BY <1>2, RefusalUnbound
<1> HIDE DEF refusal
<1> QED
  BY <1>1, <1>2, <1>3, UnboundAnswer, AnswerStep

\* What commit answers without a change is on file: the applied result, or that
\* the proposal is superseded; every other answer names no proposal's fate.
LEMMA CommitAnswerTrue ==
  ASSUME IInv, NEW id \in ProposalIds, commit_answer(id) # None
  PROVE  LET result == commit_answer(id)[1]
         IN /\ result.kind = "applied" =>
                 /\ result.proposal_id = id
                 /\ proposals[id] = [state |-> "applied", result |-> result]
            /\ result.kind # "confirmation_ready"
            /\ result.kind = "rejected" /\ result.code = "proposal_superseded" =>
                 proposals[id].state = "superseded"
<1> DEFINE result == commit_answer(id)[1]
<1>1. \A x : Some(x) # None /\ Some(x)[1] = x
  BY DEF Some, None
<1>2. \A policy : not_amendable(policy) # None =>
        not_amendable(policy)[1] = rejected("policy_cancelled")
  BY <1>1 DEF not_amendable
<1>3. \A code : rejected(code).kind = "rejected" /\ rejected(code).code = code
  BY DEF rejected
<1>4. \A day : rejected_past(day).kind = "rejected"
                /\ rejected_past(day).code = "effective_date_in_past"
  BY DEF rejected_past
<1>5. proposals[id] \in Proposal \cup {Absent}
  BY DEF IInv, TypeOK
<1>6. CASE proposals[id].state = "absent"
  BY <1>1, <1>3, <1>6 DEF commit_answer
<1>7. CASE proposals[id].state = "superseded"
  BY <1>1, <1>3, <1>7 DEF commit_answer
<1>8. CASE proposals[id].state = "applied"
  <2>1. proposals[id] \in AppliedProposal
    BY <1>5, <1>8 DEF Proposal, PendingProposal, SupersededProposal, Absent, AppliedProposal
  <2>2. result = proposals[id].result
    BY <1>1, <1>8 DEF commit_answer
  <2>3. result.proposal_id = id /\ result.kind = "applied"
    BY <1>8, <2>1, <2>2 DEF IInv, KeysMatch, IsApplied, AppliedProposal, Applied
  <2>4. proposals[id] = [state |-> "applied", result |-> result]
    BY <2>1, <2>2 DEF AppliedProposal
  <2> HIDE DEF result
  <2>5. result = commit_answer(id)[1]
    BY DEF result
  <2> QED
    BY <2>3, <2>4, <2>5
<1>9. CASE proposals[id].state = "pending"
  <2>1. commit_answer(id) = apply_refusal(proposals[id].change)
    BY <1>9 DEF commit_answer
  <2> QED
    BY <1>1, <1>2, <1>3, <1>4, <2>1 DEF apply_refusal
<1> QED
  BY <1>5, <1>6, <1>7, <1>8, <1>9
     DEF Proposal, PendingProposal, SupersededProposal, AppliedProposal, Absent

LEMMA CommitAnsweredStep ==
  ASSUME IInv, NEW w \in Workers, CommitAnswered(w)
  PROVE  IInv'
<1> DEFINE call == task[w].call
           answer == commit_answer(call.proposal_id)
<1>1. TypeOK'
  BY CommitAnsweredType DEF IInv
<1>2. task[w].step = "called" /\ call.op = "commit" /\ answer # None /\ Answer(w, answer[1])
  BY DEF CommitAnswered, Enters
<1>3. call.proposal_id \in ProposalIds
  <2>1. call \in Call
    BY <1>2, TaskForms DEF IInv, TypeOK
  <2> QED
    BY <1>2, <2>1, CallForms
<1>4. /\ answer[1].kind = "applied" =>
           /\ answer[1].proposal_id = call.proposal_id
           /\ proposals[call.proposal_id] = [state |-> "applied", result |-> answer[1]]
      /\ answer[1].kind # "confirmation_ready"
      /\ answer[1].kind = "rejected" /\ answer[1].code = "proposal_superseded" =>
           proposals[call.proposal_id].state = "superseded"
  BY <1>2, <1>3, CommitAnswerTrue
<1>5. proposals' = proposals
  BY <1>2 DEF Answer, store
<1> HIDE DEF answer
<1>6. task'[w] = Returned(call, answer[1]) => AnswerStands(w)'
  BY <1>2, <1>4, <1>5 DEF AnswerStands, Stands, Returned
<1> QED
  BY <1>1, <1>2, <1>6, AnswerStep

-----------------------------------------------------------------------------
(* Taking the lock and giving it back.                                     *)

\* The holder alone is past its checks; when it leaves, nobody is.
LEMMA LeavesLock ==
  ASSUME TypeOK, InsideTheLock, NEW w \in Workers,
         task[w].step \in {"proposing", "applying"},
         task'[w].step = "returned",
         \A v \in Workers : v # w => task'[v] = task[v],
         lock' = Nobody
  PROVE  InsideTheLock'
<1>1. lock = w
  BY DEF InsideTheLock
<1> SUFFICES ASSUME NEW v \in Workers
             PROVE  lock' # v /\ task'[v].step \notin {"proposing", "applying"}
  BY DEF InsideTheLock
<1>2. lock' # v
  BY WorkersAssumption
<1>3. CASE v = w
  BY <1>2, <1>3
<1>4. CASE v # w
  BY <1>1, <1>2, <1>4 DEF InsideTheLock
<1> QED
  BY <1>3, <1>4

\* A thread enters a free lock: it alone is past its checks.
LEMMA EntersLock ==
  ASSUME TypeOK, InsideTheLock, NEW w \in Workers, NEW t,
         lock = Nobody, lock' = w, task' = [task EXCEPT ![w] = t],
         t.step \in {"proposing", "applying"}
  PROVE  /\ task'[w] = t
         /\ \A v \in Workers :
              /\ lock' = v <=> task'[v].step \in {"proposing", "applying"}
              /\ v # w => task'[v].step \notin {"proposing", "applying"}
<1>1. task'[w] = t
  BY DEF TypeOK
<1> SUFFICES ASSUME NEW v \in Workers
             PROVE  /\ lock' = v <=> task'[v].step \in {"proposing", "applying"}
                    /\ v # w => task'[v].step \notin {"proposing", "applying"}
  BY <1>1
<1>2. CASE v = w
  BY <1>1, <1>2
<1>3. CASE v # w
  <2>1. lock # v
    BY WorkersAssumption
  <2> QED
    BY <1>3, <2>1 DEF TypeOK, InsideTheLock
<1> QED
  BY <1>2, <1>3

LEMMA RaisedStep ==
  ASSUME IInv, NEW w \in Workers, ProposeRaised(w) \/ CommitRaised(w)
  PROVE  IInv'
<1> DEFINE t == Returned(task[w].call, ServerError)
<1>1. TypeOK'
  BY RaisedType DEF IInv
<1>2. /\ task[w].step \in {"proposing", "applying"}
      /\ task' = [task EXCEPT ![w] = t] /\ lock' = Nobody
      /\ policies' = policies /\ proposals' = proposals
  BY DEF ProposeRaised, CommitRaised, store
<1>3. t.step = "returned" /\ t.step \notin {"proposing", "applying"}
  BY DEF Returned
<1>4. AnswerStands(w)'
  <2>1. task'[w] = t
    BY <1>2 DEF IInv, TypeOK
  <2> QED
    BY <2>1, UnboundAnswer DEF ServerError
<1> HIDE DEF t
<1>5. InsideTheLock'
  <2>1. TypeOK /\ InsideTheLock
    BY DEF IInv
  <2>2. task'[w].step = "returned" /\ \A v \in Workers : v # w => task'[v] = task[v]
    BY <1>2, <1>3, <2>1 DEF TypeOK
  <2> QED
    BY <1>2, <2>1, <2>2, LeavesLock
<1>6. StoreSound'
  BY <1>2, StoreUnmoved DEF IInv, StoreSound
<1>7. AnswersStand'
  <2>1. \A id \in ProposalIds : Becomes(proposals[id], proposals'[id])
    BY <1>2 DEF Becomes
  <2> QED
    BY <1>2, <1>4, <2>1, OthersStand DEF IInv
<1> QED
  BY <1>1, <1>5, <1>6, <1>7 DEF IInv, StoreSound

-----------------------------------------------------------------------------
(* propose.                                                                *)

\* The books balance as long as the policies and the applied proposals stay.
LEMMA AppliedUnmoved ==
  ASSUME BooksBalance, policies' = policies,
         \A id \in ProposalIds :
           /\ proposals'[id].state = "applied" <=> proposals[id].state = "applied"
           /\ proposals[id].state = "applied" => proposals'[id] = proposals[id]
  PROVE  BooksBalance'
<1>1. ASSUME NEW p \in OnFile, NEW i \in DOMAIN policies[p].vehicles
      PROVE  \/ /\ i \in DOMAIN Fixture[p].vehicles
                /\ policies[p].vehicles[i] = Fixture[p].vehicles[i]
             \/ \E id \in ProposalIds :
                  /\ proposals'[id].state = "applied"
                  /\ proposals'[id].result.change.policy_number = p
                  /\ policies[p].vehicles[i] =
                       [vin |-> proposals'[id].result.change.vin,
                        effective_date |-> proposals'[id].result.change.effective_date]
  <2>1. CASE \E id \in ProposalIds :
               /\ IsApplied(id)
               /\ proposals[id].result.change.policy_number = p
               /\ policies[p].vehicles[i] = AppliedVehicle(id)
    BY <2>1 DEF IsApplied, AppliedVehicle
  <2> QED
    BY <2>1 DEF BooksBalance, EveryVehicleConfirmed
<1>2. EveryVehicleConfirmed'
  BY <1>1 DEF EveryVehicleConfirmed, IsApplied, AppliedVehicle
<1>3. ASSUME NEW id \in ProposalIds, proposals[id].state = "applied"
      PROVE  LET p == proposals[id].result.change.policy_number IN
               /\ p \in OnFile
               /\ \E i \in DOMAIN policies[p].vehicles :
                    policies[p].vehicles[i] = AppliedVehicle(id)
               /\ \A other \in ProposalIds :
                    IsApplied(other) /\ other # id =>
                      /\ proposals[other].result.confirmation_number
                           # proposals[id].result.confirmation_number
                      /\ \/ proposals[other].result.change.policy_number # p
                         \/ proposals[other].result.change.vin
                              # proposals[id].result.change.vin
  BY <1>3 DEF BooksBalance, EveryConfirmationCovered, IsApplied
<1>4. EveryConfirmationCovered'
  BY <1>3 DEF EveryConfirmationCovered, IsApplied, AppliedVehicle
<1> QED
  BY <1>2, <1>4 DEF BooksBalance

\* Superseding keeps the store sound.
LEMMA Superseding ==
  ASSUME TypeOK, StoreSound, policies' = policies,
         \A id \in ProposalIds :
           \/ proposals'[id] = proposals[id]
           \/ /\ proposals[id].state = "pending"
              /\ proposals'[id] = superseded(proposals[id])
  PROVE  StoreSound'
<1>1. ASSUME NEW id \in ProposalIds
      PROVE  /\ proposals'[id].state = "applied" <=> proposals[id].state = "applied"
             /\ proposals[id].state = "applied" => proposals'[id] = proposals[id]
             /\ proposals'[id].state = "pending" => proposals'[id] = proposals[id]
  <2>1. CASE proposals'[id] = proposals[id]
    BY <2>1
  <2>2. CASE /\ proposals[id].state = "pending"
             /\ proposals'[id] = superseded(proposals[id])
    BY <2>2 DEF superseded
  <2> QED
    BY <2>1, <2>2
<1>2. ASSUME NEW id \in ProposalIds
      PROVE  /\ proposals'[id].state \in {"pending", "superseded"} =>
                  /\ proposals'[id].proposal_id = id
                  /\ proposals'[id].readback = format_readback(proposals'[id].change)
             /\ proposals'[id].state = "applied" => proposals'[id].result.proposal_id = id
  <2>1. CASE proposals'[id] = proposals[id]
    BY <2>1 DEF StoreSound, KeysMatch, IsApplied
  <2>2. CASE /\ proposals[id].state = "pending"
             /\ proposals'[id] = superseded(proposals[id])
    <3>1. proposals[id].proposal_id = id
          /\ proposals[id].readback = format_readback(proposals[id].change)
      BY <2>2 DEF StoreSound, KeysMatch
    <3> QED
      BY <2>2, <3>1 DEF superseded
  <2> QED
    BY <2>1, <2>2
<1>3. KeysMatch'
  BY <1>2 DEF StoreSound, KeysMatch, IsApplied
<1>4. AtMostOnePending'
  BY <1>1 DEF StoreSound, AtMostOnePending, TwoPending, IsPendingFor
<1>5. NoVehicleTwice'
  BY DEF StoreSound, NoVehicleTwice
<1>6. PendingNotCovered'
  BY <1>1 DEF StoreSound, PendingNotCovered, on_policy, IsPendingFor
<1>7. BooksBalance'
  BY <1>1, AppliedUnmoved DEF StoreSound
<1> QED
  BY <1>3, <1>4, <1>5, <1>6, <1>7 DEF StoreSound

LEMMA ProposeCheckedStep ==
  ASSUME IInv, NEW w \in Workers, ProposeChecked(w)
  PROVE  IInv'
<1> DEFINE call == task[w].call
           p == call.policy_number
<1>1. TypeOK'
  BY ProposeCheckedType DEF IInv
<1>2. /\ lock = Nobody /\ lock' = w /\ policies' = policies
      /\ proposals' = [id \in ProposalIds |->
                         IF IsPendingFor(id, p) THEN superseded(proposals[id])
                                                ELSE proposals[id]]
  BY ProposeCheckedFacts DEF IInv
<1>3. PICK change \in Change :
        /\ p \in OnFile
        /\ change.policy_number = policies[p].policy_number
        /\ policies[p].status = "active"
        /\ ~ on_policy(policies[p], change.vin)
        /\ task' = [task EXCEPT ![w] =
                      [step |-> "proposing", call |-> call, change |-> change,
                       prior |-> PriorOf(p)]]
  BY ProposeCheckedFacts DEF IInv
<1>4. change.policy_number = p
  BY <1>3 DEF IInv, KeysMatch
<1>5. \A id \in ProposalIds :
        \/ proposals'[id] = proposals[id]
        \/ /\ proposals[id].state = "pending"
           /\ proposals'[id] = superseded(proposals[id])
  BY <1>2 DEF IsPendingFor
<1>6. StoreSound'
  BY <1>2, <1>5, Superseding DEF IInv, StoreSound
<1>7. AnswersStand'
  <2>1. \A id \in ProposalIds : Becomes(proposals[id], proposals'[id])
    BY <1>5 DEF Becomes
  <2>2. [step |-> "proposing", call |-> call, change |-> change,
         prior |-> PriorOf(p)].step # "returned"
    OBVIOUS
  <2> QED
    BY <1>3, <2>1, <2>2, OthersStand DEF IInv
<1>8. InsideTheLock'
  <2>1. /\ task'[w] = [step |-> "proposing", call |-> call, change |-> change,
                       prior |-> PriorOf(p)]
        /\ \A v \in Workers :
             /\ lock' = v <=> task'[v].step \in {"proposing", "applying"}
             /\ v # w => task'[v].step \notin {"proposing", "applying"}
    BY <1>2, <1>3, EntersLock DEF IInv
  <2>2. ASSUME NEW id \in ProposalIds
        PROVE  ~ (proposals'[id].state = "pending" /\ proposals'[id].change.policy_number = p)
    BY <1>2 DEF IsPendingFor, superseded
  <2>3. ~ on_policy(policies'[p], change.vin)
    BY <1>2, <1>3
  <2>4. ASSUME NEW v \in Workers
        PROVE  /\ task'[v].step # "applying"
               /\ task'[v].step = "proposing" => task'[v].change = change
    BY <2>1
  <2>5. ASSUME NEW v \in Workers, task'[v].step = "proposing"
        PROVE  /\ task'[v].change.policy_number = p
               /\ p \in OnFile
               /\ policies'[p].status = "active"
               /\ ~ on_policy(policies'[p], task'[v].change.vin)
               /\ \A id \in ProposalIds :
                    ~ (proposals'[id].state = "pending" /\ proposals'[id].change.policy_number = p)
    BY <1>2, <1>3, <1>4, <2>2, <2>3, <2>4, <2>5
  <2>6. \A v \in Workers : lock' = v <=> task'[v].step \in {"proposing", "applying"}
    BY <2>1
  <2> QED
    BY <2>4, <2>5, <2>6 DEF InsideTheLock, on_policy, IsPendingFor
<1> QED
  BY <1>1, <1>6, <1>7, <1>8 DEF IInv, StoreSound

\* A new proposal for a policy with none pending, of a car it does not cover,
\* keeps the store sound.
LEMMA Proposing ==
  ASSUME TypeOK, StoreSound, NEW id \in UnusedIds, NEW change \in Change,
         policies' = policies,
         proposals' = [proposals EXCEPT ![id] =
                         [state |-> "pending", proposal_id |-> id, change |-> change,
                          readback |-> format_readback(change)]],
         change.policy_number \in OnFile,
         ~ on_policy(policies[change.policy_number], change.vin),
         \A other \in ProposalIds : ~ IsPendingFor(other, change.policy_number)
  PROVE  StoreSound'
<1>0. id \in ProposalIds /\ proposals[id].state = "absent"
  BY DEF UnusedIds
<1>1. /\ proposals'[id] = [state |-> "pending", proposal_id |-> id, change |-> change,
                            readback |-> format_readback(change)]
      /\ \A other \in ProposalIds : other # id => proposals'[other] = proposals[other]
  BY <1>0 DEF TypeOK
<1>2. \A other \in ProposalIds :
        /\ proposals'[other].state = "applied" <=> proposals[other].state = "applied"
        /\ proposals[other].state = "applied" => proposals'[other] = proposals[other]
  BY <1>0, <1>1
<1>3. ASSUME NEW other \in ProposalIds, NEW p,
             proposals'[other].state = "pending",
             proposals'[other].change.policy_number = p
      PROVE  \/ other = id /\ p = change.policy_number
             \/ other # id /\ p # change.policy_number /\ IsPendingFor(other, p)
  BY <1>0, <1>1, <1>3 DEF IsPendingFor
<1>4. KeysMatch'
  <2> SUFFICES ASSUME NEW other \in ProposalIds
               PROVE  /\ proposals'[other].state \in {"pending", "superseded"} =>
                           /\ proposals'[other].proposal_id = other
                           /\ proposals'[other].readback
                                = format_readback(proposals'[other].change)
                      /\ proposals'[other].state = "applied" =>
                           proposals'[other].result.proposal_id = other
    BY DEF StoreSound, KeysMatch, IsApplied
  <2>1. CASE other = id
    BY <1>1, <2>1
  <2>2. CASE other # id
    BY <1>1, <2>2 DEF StoreSound, KeysMatch, IsApplied
  <2> QED
    BY <2>1, <2>2
<1>5. AtMostOnePending'
  BY <1>3 DEF StoreSound, AtMostOnePending, TwoPending, IsPendingFor
<1>6. NoVehicleTwice'
  BY DEF StoreSound, NoVehicleTwice
<1>7. PendingNotCovered'
  <2> SUFFICES ASSUME NEW p \in OnFile, NEW other \in ProposalIds,
                      proposals'[other].state = "pending",
                      proposals'[other].change.policy_number = p
               PROVE  ~ on_policy(policies[p], proposals'[other].change.vin)
    BY DEF PendingNotCovered, IsPendingFor, on_policy
  <2>1. CASE other = id
    BY <1>1, <1>3, <2>1
  <2>2. CASE other # id
    BY <1>1, <1>3, <2>2 DEF StoreSound, PendingNotCovered
  <2> QED
    BY <2>1, <2>2
<1>8. BooksBalance'
  BY <1>2, AppliedUnmoved DEF StoreSound
<1> QED
  BY <1>4, <1>5, <1>6, <1>7, <1>8 DEF StoreSound

LEMMA ProposeStoredStep ==
  ASSUME IInv, NEW w \in Workers, ProposeStored(w)
  PROVE  IInv'
<1> DEFINE call == task[w].call
           change == task[w].change
           result(id) == [kind |-> "confirmation_ready", proposal_id |-> id,
                          change |-> change, readback |-> format_readback(change)]
<1>1. TypeOK'
  BY ProposeStoredType DEF IInv
<1>2. /\ task[w].step = "proposing" /\ lock' = Nobody /\ policies' = policies
  BY DEF ProposeStored
<1>3. PICK id \in UnusedIds :
        /\ proposals' = [proposals EXCEPT ![id] =
                           [state |-> "pending", proposal_id |-> id,
                            change |-> change, readback |-> format_readback(change)]]
        /\ task' = [task EXCEPT ![w] = Returned(call, result(id))]
  BY DEF ProposeStored
<1>4. id \in ProposalIds /\ proposals[id].state = "absent"
  BY DEF UnusedIds
<1>5. change \in Change
  BY <1>2, TaskForms DEF IInv, TypeOK
<1>6. /\ change.policy_number \in OnFile
      /\ ~ on_policy(policies[change.policy_number], change.vin)
      /\ \A other \in ProposalIds : ~ IsPendingFor(other, change.policy_number)
  BY <1>2 DEF IInv, InsideTheLock
<1>7. StoreSound'
  BY <1>2, <1>3, <1>5, <1>6, Proposing DEF IInv, StoreSound
<1>8. /\ proposals'[id] = [state |-> "pending", proposal_id |-> id, change |-> change,
                            readback |-> format_readback(change)]
      /\ \A other \in ProposalIds : other # id => proposals'[other] = proposals[other]
  BY <1>3, <1>4 DEF IInv, TypeOK
<1>9. AnswerStands(w)'
  <2>1. task'[w] = Returned(call, result(id))
    BY <1>3 DEF IInv, TypeOK
  <2> QED
    BY <1>8, <2>1 DEF AnswerStands, Stands, Returned
<1>10. AnswersStand'
  <2>1. \A other \in ProposalIds : Becomes(proposals[other], proposals'[other])
    BY <1>4, <1>8 DEF Becomes
  <2> QED
    BY <1>3, <1>9, <2>1, OthersStand DEF IInv
<1>11. InsideTheLock'
  <2>1. TypeOK /\ InsideTheLock
    BY DEF IInv
  <2>2. Returned(call, result(id)).step = "returned"
    BY DEF Returned
  <2>3. task'[w].step = "returned" /\ \A v \in Workers : v # w => task'[v] = task[v]
    BY <1>3, <2>1, <2>2 DEF TypeOK
  <2> QED
    BY <1>2, <2>1, <2>3, LeavesLock
<1> QED
  BY <1>1, <1>7, <1>10, <1>11 DEF IInv, StoreSound

-----------------------------------------------------------------------------
(* commit.                                                                 *)

LEMMA CommitCheckedStep ==
  ASSUME IInv, NEW w \in Workers, CommitChecked(w)
  PROVE  IInv'
<1> DEFINE call == task[w].call
<1>1. TypeOK'
  BY CommitCheckedType DEF IInv
<1>2. /\ lock = Nobody /\ lock' = w
      /\ policies' = policies /\ proposals' = proposals
      /\ call.proposal_id \in ProposalIds
  BY CommitCheckedFacts DEF IInv
<1>3. PICK pending \in PendingProposal :
        /\ pending = proposals[call.proposal_id]
        /\ pending.change.policy_number \in OnFile
        /\ policies[pending.change.policy_number].status = "active"
        /\ ~ on_policy(policies[pending.change.policy_number], pending.change.vin)
        /\ task' = [task EXCEPT ![w] =
                      [step |-> "applying", call |-> call, pending |-> pending,
                       policy |-> policies[pending.change.policy_number]]]
  BY CommitCheckedFacts DEF IInv
<1>4. pending.proposal_id = call.proposal_id
  BY <1>2, <1>3 DEF IInv, KeysMatch, PendingProposal
<1>5. StoreSound'
  BY <1>2, StoreUnmoved DEF IInv, StoreSound
<1> DEFINE t == [step |-> "applying", call |-> call, pending |-> pending,
                 policy |-> policies[pending.change.policy_number]]
<1>6. t.step = "applying"
  OBVIOUS
<1>7. AnswersStand'
  <2>1. \A id \in ProposalIds : Becomes(proposals[id], proposals'[id])
    BY <1>2 DEF Becomes
  <2> HIDE DEF t
  <2>2. task' = [task EXCEPT ![w] = t]
    BY <1>3 DEF t
  <2> QED
    BY <1>6, <2>1, <2>2, OthersStand DEF IInv
<1>8. InsideTheLock'
  <2>1. /\ task'[w] = t
        /\ \A v \in Workers :
             /\ lock' = v <=> task'[v].step \in {"proposing", "applying"}
             /\ v # w => task'[v].step \notin {"proposing", "applying"}
    BY <1>2, <1>3, <1>6, EntersLock DEF IInv
  <2>2. ASSUME NEW v \in Workers
        PROVE  /\ task'[v].step # "proposing"
               /\ task'[v].step = "applying" => task'[v] = t
    BY <2>1
  <2>3. /\ t.pending.change.policy_number \in OnFile
        /\ t.policy = policies'[t.pending.change.policy_number]
        /\ t.call.proposal_id = t.pending.proposal_id
        /\ proposals'[t.pending.proposal_id] = t.pending
        /\ policies'[t.pending.change.policy_number].status = "active"
        /\ ~ on_policy(policies'[t.pending.change.policy_number], t.pending.change.vin)
    BY <1>2, <1>3, <1>4
  <2>4. \A v \in Workers : lock' = v <=> task'[v].step \in {"proposing", "applying"}
    BY <2>1
  <2> HIDE DEF t
  <2> QED
    BY <2>2, <2>3, <2>4 DEF InsideTheLock, on_policy
<1> QED
  BY <1>1, <1>5, <1>7, <1>8 DEF IInv, StoreSound

LEMMA Appended ==
  ASSUME NEW vehicles \in Seq(Vehicle), NEW vehicle \in Vehicle
  PROVE  LET longer == Append(vehicles, vehicle)
             last == Len(vehicles) + 1
         IN /\ \A i \in DOMAIN vehicles : i \in DOMAIN longer /\ longer[i] = vehicles[i]
            /\ last \in DOMAIN longer /\ longer[last] = vehicle
            /\ \A i \in DOMAIN longer : i \in DOMAIN vehicles \/ i = last
OBVIOUS

\* A waiting change of a car its policy does not cover is applied: the store
\* stays sound.
LEMMA Applying ==
  ASSUME TypeOK, StoreSound, NEW id \in ProposalIds, NEW p \in OnFile, NEW applied \in Applied,
         proposals[id].state = "pending", proposals[id].change.policy_number = p,
         applied.proposal_id = id, applied.change = proposals[id].change,
         applied.confirmation_number \in UnusedConfirmations,
         ~ on_policy(policies[p], applied.change.vin),
         policies'[p].policy_number = p,
         policies'[p].vehicles = Append(policies[p].vehicles,
                                   [vin |-> applied.change.vin,
                                    effective_date |-> applied.change.effective_date]),
         \A q \in OnFile : q # p => policies'[q] = policies[q],
         proposals'[id] = [state |-> "applied", result |-> applied],
         \A other \in ProposalIds : other # id => proposals'[other] = proposals[other]
  PROVE  StoreSound'
<1> DEFINE vehicle == [vin |-> applied.change.vin,
                       effective_date |-> applied.change.effective_date]
           before == policies[p].vehicles
           after == policies'[p].vehicles
           last == Len(before) + 1
<1>1. /\ applied.change \in Change /\ vehicle \in Vehicle
      /\ before \in Seq(Vehicle)
  BY DEF Applied, Change, Vehicle, TypeOK, Policy
<1>2. /\ \A i \in DOMAIN before : i \in DOMAIN after /\ after[i] = before[i]
      /\ last \in DOMAIN after /\ after[last] = vehicle
      /\ \A i \in DOMAIN after : i \in DOMAIN before \/ i = last
  BY <1>1, Appended
<1>3. \A i \in DOMAIN before : before[i] \in Vehicle
  BY <1>1
<1>4. \A i \in DOMAIN before : before[i].vin # vehicle.vin
  BY DEF on_policy
<1>5. /\ proposals'[id].state = "applied" /\ proposals'[id].result = applied
  OBVIOUS
<1>6. p \in PolicyNumbers
  BY FixtureAssumption
<1> HIDE DEF vehicle, before, after, last
<1>7. KeysMatch'
  <2>1. \A q \in OnFile : policies'[q].policy_number = q
    BY DEF StoreSound, KeysMatch
  <2>2. ASSUME NEW other \in ProposalIds
        PROVE  /\ proposals'[other].state \in {"pending", "superseded"} =>
                    /\ proposals'[other].proposal_id = other
                    /\ proposals'[other].readback
                         = format_readback(proposals'[other].change)
               /\ proposals'[other].state = "applied" =>
                    proposals'[other].result.proposal_id = other
    <3>1. CASE other = id
      BY <1>5, <3>1
    <3>2. CASE other # id
      BY <3>2 DEF StoreSound, KeysMatch, IsApplied
    <3> QED
      BY <3>1, <3>2
  <2> QED
    BY <2>1, <2>2 DEF KeysMatch, IsApplied
<1>8. ASSUME NEW other \in ProposalIds, proposals'[other].state = "pending"
      PROVE  /\ other # id /\ proposals'[other] = proposals[other]
             /\ proposals[other].change.policy_number # p
  <2>1. other # id /\ proposals'[other] = proposals[other]
    BY <1>5, <1>8
  <2>2. ~ TwoPending(p)
    BY <1>6 DEF StoreSound, AtMostOnePending
  <2> QED
    BY <1>8, <2>1, <2>2 DEF TwoPending, IsPendingFor
<1>9. AtMostOnePending'
  BY <1>8 DEF StoreSound, AtMostOnePending, TwoPending, IsPendingFor
<1>10. PendingNotCovered'
  <2> SUFFICES ASSUME NEW q \in OnFile, NEW other \in ProposalIds,
                      proposals'[other].state = "pending",
                      proposals'[other].change.policy_number = q
               PROVE  ~ on_policy(policies'[q], proposals'[other].change.vin)
    BY DEF PendingNotCovered, IsPendingFor, on_policy
  <2>1. q # p /\ proposals'[other] = proposals[other]
    BY <1>8
  <2> QED
    BY <2>1 DEF StoreSound, PendingNotCovered, IsPendingFor
<1>11. NoVehicleTwice'
  <2>1. ASSUME NEW i \in DOMAIN after, NEW j \in DOMAIN after,
               Upper[after[i].vin] = Upper[after[j].vin]
        PROVE  i = j
    <3>1. \A k \in DOMAIN before : before[k].vin \in VinShaped
      BY <1>3 DEF Vehicle
    <3>2. vehicle.vin \in VinShaped
      BY <1>1 DEF Vehicle
    <3>3. \A k \in DOMAIN before : Upper[before[k].vin] # Upper[vehicle.vin]
      BY <1>4, <3>1, <3>2, TextsAssumption
    <3>4. CASE i \in DOMAIN before /\ j \in DOMAIN before
      BY <1>2, <2>1, <3>4 DEF StoreSound, NoVehicleTwice, before
    <3>5. CASE i = last \/ j = last
      BY <1>2, <2>1, <3>3, <3>5
    <3> QED
      BY <1>2, <3>4, <3>5
  <2>2. \A q \in OnFile : q # p => policies'[q].vehicles = policies[q].vehicles
    OBVIOUS
  <2>3. ASSUME NEW q \in OnFile,
               NEW i \in DOMAIN policies'[q].vehicles, NEW j \in DOMAIN policies'[q].vehicles,
               Upper[policies'[q].vehicles[i].vin] = Upper[policies'[q].vehicles[j].vin]
        PROVE  i = j
    <3>1. CASE q = p
      BY <2>1, <2>3, <3>1 DEF after
    <3>2. CASE q # p
      BY <2>2, <2>3, <3>2 DEF StoreSound, NoVehicleTwice
    <3> QED
      BY <3>1, <3>2
  <2> QED
    BY <2>3 DEF NoVehicleTwice
<1>12. EveryVehicleConfirmed'
  <2> DEFINE confirmed(q, v, other) ==
               /\ proposals'[other].state = "applied"
               /\ proposals'[other].result.change.policy_number = q
               /\ v = [vin |-> proposals'[other].result.change.vin,
                       effective_date |-> proposals'[other].result.change.effective_date]
             listed(q, v, i) == i \in DOMAIN Fixture[q].vehicles /\ v = Fixture[q].vehicles[i]
  <2>1. ASSUME NEW q \in OnFile, NEW i \in DOMAIN policies[q].vehicles
        PROVE  \/ listed(q, policies[q].vehicles[i], i)
               \/ \E other \in ProposalIds : confirmed(q, policies[q].vehicles[i], other)
    <3>1. CASE listed(q, policies[q].vehicles[i], i)
      BY <3>1
    <3>2. CASE \E other \in ProposalIds :
                 /\ IsApplied(other)
                 /\ proposals[other].result.change.policy_number = q
                 /\ policies[q].vehicles[i] = AppliedVehicle(other)
      <4>1. PICK other \in ProposalIds :
                 /\ IsApplied(other)
                 /\ proposals[other].result.change.policy_number = q
                 /\ policies[q].vehicles[i] = AppliedVehicle(other)
        BY <3>2
      <4>2. other # id /\ proposals'[other] = proposals[other]
        BY <4>1 DEF IsApplied
      <4>3. confirmed(q, policies[q].vehicles[i], other)
        BY <4>1, <4>2 DEF IsApplied, AppliedVehicle
      <4> QED
        BY <4>3
    <3> QED
      BY <3>1, <3>2 DEF StoreSound, BooksBalance, EveryVehicleConfirmed
  <2>2. confirmed(p, vehicle, id)
    BY <1>5 DEF vehicle
  <2>3. ASSUME NEW q \in OnFile, NEW i \in DOMAIN policies'[q].vehicles
        PROVE  \/ listed(q, policies'[q].vehicles[i], i)
               \/ \E other \in ProposalIds : confirmed(q, policies'[q].vehicles[i], other)
    <3> HIDE DEF confirmed, listed
    <3>1. CASE q # p
      BY <2>1, <3>1
    <3>2. CASE q = p /\ i \in DOMAIN before
      <4>1. policies'[q].vehicles[i] = policies[q].vehicles[i] /\ i \in DOMAIN policies[q].vehicles
        BY <1>2, <3>2 DEF before, after
      <4> QED
        BY <2>1, <4>1
    <3>3. CASE q = p /\ i = last
      BY <1>2, <2>2, <3>3 DEF after
    <3> QED
      BY <1>2, <3>1, <3>2, <3>3 DEF after
  <2> QED
    BY <2>3 DEF EveryVehicleConfirmed, IsApplied, AppliedVehicle
<1>13. EveryConfirmationCovered'
  <2> DEFINE policyOf(other) == proposals'[other].result.change.policy_number
             number(other) == proposals'[other].result.confirmation_number
             car(other) == proposals'[other].result.change.vin
             day(other) == proposals'[other].result.change.effective_date
  <2>1. ASSUME NEW other \in ProposalIds, other # id, proposals'[other].state = "applied"
        PROVE  /\ policyOf(other) \in OnFile
               /\ \E i \in DOMAIN policies[policyOf(other)].vehicles :
                    policies[policyOf(other)].vehicles[i]
                      = [vin |-> car(other), effective_date |-> day(other)]
               /\ number(other) # applied.confirmation_number
               /\ \A third \in ProposalIds :
                    third # id /\ proposals'[third].state = "applied" /\ third # other =>
                      /\ number(third) # number(other)
                      /\ policyOf(third) # policyOf(other) \/ car(third) # car(other)
    <3>1. proposals'[other] = proposals[other] /\ IsApplied(other)
      BY <2>1 DEF IsApplied
    <3>2. number(other) \in UsedConfirmations
      BY <3>1 DEF UsedConfirmations, IsApplied
    <3>3. number(other) # applied.confirmation_number
      BY <3>2 DEF UnusedConfirmations
    <3>4. ASSUME NEW third \in ProposalIds, third # id,
                 proposals'[third].state = "applied", third # other
          PROVE  /\ number(third) # number(other)
                 /\ policyOf(third) # policyOf(other) \/ car(third) # car(other)
      <4>1. proposals'[third] = proposals[third] /\ IsApplied(third)
        BY <3>4 DEF IsApplied
      <4> QED
        BY <3>1, <3>4, <4>1 DEF StoreSound, BooksBalance, EveryConfirmationCovered
    <3>5. /\ policyOf(other) \in OnFile
          /\ \E i \in DOMAIN policies[policyOf(other)].vehicles :
               policies[policyOf(other)].vehicles[i]
                 = [vin |-> car(other), effective_date |-> day(other)]
      BY <3>1 DEF StoreSound, BooksBalance, EveryConfirmationCovered, AppliedVehicle
    <3> QED
      BY <3>3, <3>4, <3>5
  <2>2. /\ policyOf(id) = p /\ number(id) = applied.confirmation_number
        /\ car(id) = vehicle.vin /\ [vin |-> car(id), effective_date |-> day(id)] = vehicle
    BY <1>5 DEF vehicle
  <2> HIDE DEF policyOf, number, car, day
  <2>3. ASSUME NEW other \in ProposalIds, other # id, proposals'[other].state = "applied"
        PROVE  policyOf(other) # p \/ car(other) # vehicle.vin
    <3> SUFFICES ASSUME policyOf(other) = p PROVE car(other) # vehicle.vin
      OBVIOUS
    <3>1. PICK i \in DOMAIN before :
            before[i] = [vin |-> car(other), effective_date |-> day(other)]
      BY <2>1, <2>3 DEF before
    <3>2. before[i].vin = car(other)
      BY <3>1
    <3> QED
      BY <1>4, <3>1, <3>2
  <2>4. ASSUME NEW other \in ProposalIds, proposals'[other].state = "applied"
        PROVE  /\ policyOf(other) \in OnFile
               /\ \E i \in DOMAIN policies'[policyOf(other)].vehicles :
                    policies'[policyOf(other)].vehicles[i]
                      = [vin |-> car(other), effective_date |-> day(other)]
               /\ \A third \in ProposalIds :
                    proposals'[third].state = "applied" /\ third # other =>
                      /\ number(third) # number(other)
                      /\ policyOf(third) # policyOf(other) \/ car(third) # car(other)
    <3>1. CASE other = id
      BY <1>2, <2>1, <2>2, <2>3, <3>1 DEF after
    <3>2. CASE other # id
      <4>1. \E i \in DOMAIN policies'[policyOf(other)].vehicles :
              policies'[policyOf(other)].vehicles[i]
                = [vin |-> car(other), effective_date |-> day(other)]
        <5>1. PICK i \in DOMAIN policies[policyOf(other)].vehicles :
                policies[policyOf(other)].vehicles[i]
                  = [vin |-> car(other), effective_date |-> day(other)]
          BY <2>1, <2>4, <3>2
        <5>2. CASE policyOf(other) = p
          BY <1>2, <5>1, <5>2 DEF before, after
        <5>3. CASE policyOf(other) # p
          BY <2>1, <2>4, <3>2, <5>1, <5>3
        <5> QED
          BY <5>2, <5>3
      <4>2. ASSUME NEW third \in ProposalIds,
                   proposals'[third].state = "applied", third # other
            PROVE  /\ number(third) # number(other)
                   /\ policyOf(third) # policyOf(other) \/ car(third) # car(other)
        <5>1. CASE third = id
          BY <2>1, <2>2, <2>3, <2>4, <3>2, <5>1
        <5>2. CASE third # id
          BY <2>1, <2>4, <3>2, <4>2, <5>2
        <5> QED
          BY <5>1, <5>2
      <4> QED
        BY <2>1, <2>4, <3>2, <4>1, <4>2
    <3> QED
      BY <3>1, <3>2
  <2> QED
    BY <2>4 DEF EveryConfirmationCovered, IsApplied, AppliedVehicle, policyOf, number, car, day
<1> QED
  BY <1>7, <1>9, <1>10, <1>11, <1>12, <1>13 DEF StoreSound, BooksBalance

LEMMA CommitStoredStep ==
  ASSUME IInv, NEW w \in Workers, CommitStored(w)
  PROVE  IInv'
<1> DEFINE call == task[w].call
           pending == task[w].pending
           id == pending.proposal_id
           p == pending.change.policy_number
<1>1. TypeOK /\ TypeOK' /\ StoreSound /\ InsideTheLock /\ AnswersStand
  BY CommitStoredType DEF IInv, StoreSound
<1>2. /\ task[w].step = "applying" /\ call \in Call
      /\ pending \in PendingProposal /\ task[w].policy \in Policy
      /\ lock' = Nobody
      /\ policies' = [policies EXCEPT ![task[w].policy.policy_number] =
           [policy_number |-> task[w].policy.policy_number,
            status |-> task[w].policy.status,
            vehicles |-> Append(task[w].policy.vehicles,
                           [vin |-> pending.change.vin,
                            effective_date |-> pending.change.effective_date])]]
  BY <1>1, CommitStoredFacts
<1>3. PICK applied \in Applied :
        /\ applied.proposal_id = id
        /\ applied.change = pending.change
        /\ applied.confirmation_number \in UnusedConfirmations
        /\ applied.kind = "applied"
        /\ proposals' = [proposals EXCEPT ![id] = [state |-> "applied", result |-> applied]]
        /\ task' = [task EXCEPT ![w] = Returned(call, applied)]
  BY <1>1, CommitStoredFacts
<1>4. /\ p \in OnFile /\ task[w].policy = policies[p]
      /\ call.proposal_id = id
      /\ proposals[id] = pending
      /\ ~ on_policy(policies[p], pending.change.vin)
  BY <1>1, <1>2 DEF InsideTheLock
<1>5. pending.state = "pending" /\ id \in ProposalIds
  BY <1>2 DEF PendingProposal
<1>6. policies[p].policy_number = p
  BY <1>1, <1>4 DEF StoreSound, KeysMatch
<1>7. /\ policies'[p] = [policy_number |-> p, status |-> policies[p].status,
                          vehicles |-> Append(policies[p].vehicles,
                             [vin |-> pending.change.vin,
                              effective_date |-> pending.change.effective_date])]
      /\ \A q \in OnFile : q # p => policies'[q] = policies[q]
  BY <1>1, <1>2, <1>4, <1>6 DEF TypeOK
<1>8. /\ proposals'[id] = [state |-> "applied", result |-> applied]
      /\ \A other \in ProposalIds : other # id => proposals'[other] = proposals[other]
  BY <1>1, <1>3, <1>5 DEF TypeOK
<1>9. task'[w] = Returned(call, applied) /\ \A v \in Workers : v # w => task'[v] = task[v]
  BY <1>1, <1>3 DEF TypeOK
<1>10. StoreSound'
  <2>1. proposals[id].state = "pending" /\ proposals[id].change.policy_number = p
    BY <1>4, <1>5
  <2>2. /\ applied.change = proposals[id].change
        /\ ~ on_policy(policies[p], applied.change.vin)
    BY <1>3, <1>4
  <2>3. policies'[p].policy_number = p
    BY <1>7
  <2>4. policies'[p].vehicles = Append(policies[p].vehicles,
                                  [vin |-> pending.change.vin,
                                   effective_date |-> pending.change.effective_date])
    <3> DEFINE longer == Append(policies[p].vehicles,
                           [vin |-> pending.change.vin,
                            effective_date |-> pending.change.effective_date])
    <3>1. policies'[p] = [policy_number |-> p, status |-> policies[p].status,
                          vehicles |-> longer]
      BY <1>7
    <3> HIDE DEF longer
    <3>2. policies'[p].vehicles = longer
      BY <3>1
    <3> QED
      BY <3>2 DEF longer
  <2>5. pending.change = applied.change
    BY <1>3
  <2> HIDE DEF id, p, pending
  <2> QED
    BY <1>1, <1>3, <1>4, <1>5, <1>7, <1>8, <2>1, <2>2, <2>3, <2>4, <2>5, Applying
<1>11. AnswersStand'
  <2>1. ASSUME NEW other \in ProposalIds
        PROVE  Becomes(proposals[other], proposals'[other])
    <3>1. CASE other = id
      BY <1>3, <1>4, <1>5, <1>8, <3>1 DEF Becomes
    <3>2. CASE other # id
      BY <1>8, <3>2 DEF Becomes
    <3> QED
      BY <3>1, <3>2
  <2>2. AnswerStands(w)'
    <3>1. task'[w].call = call /\ task'[w].result = applied
      BY <1>9 DEF Returned
    <3> QED
      BY <1>3, <1>4, <1>8, <3>1 DEF AnswerStands, Stands
  <2> QED
    BY <1>1, <1>3, <2>1, <2>2, OthersStand
<1>12. InsideTheLock'
  <2>1. task'[w].step = "returned"
    BY <1>9 DEF Returned
  <2> QED
    BY <1>1, <1>2, <1>9, <2>1, LeavesLock
<1> QED
  BY <1>1, <1>10, <1>11, <1>12 DEF IInv, StoreSound

-----------------------------------------------------------------------------
(* The environment, and the invariance.                                    *)

\* The standing of a policy is no part of what makes the store sound.
LEMMA StandingMoved ==
  ASSUME StoreSound, proposals' = proposals,
         \A p \in OnFile : /\ policies'[p].policy_number = policies[p].policy_number
                           /\ policies'[p].vehicles = policies[p].vehicles
  PROVE  StoreSound'
<1>1. KeysMatch'
  BY DEF StoreSound, KeysMatch, IsApplied
<1>2. AtMostOnePending'
  BY DEF StoreSound, AtMostOnePending, TwoPending, IsPendingFor
<1>3. NoVehicleTwice'
  BY DEF StoreSound, NoVehicleTwice
<1>4. PendingNotCovered'
  BY DEF StoreSound, PendingNotCovered, IsPendingFor, on_policy
<1>5. EveryVehicleConfirmed'
  BY DEF StoreSound, BooksBalance, EveryVehicleConfirmed, IsApplied, AppliedVehicle
<1>6. EveryConfirmationCovered'
  BY DEF StoreSound, BooksBalance, EveryConfirmationCovered, IsApplied, AppliedVehicle
<1> QED
  BY <1>1, <1>2, <1>3, <1>4, <1>5, <1>6 DEF StoreSound, BooksBalance

LEMMA EnvironmentStep ==
  ASSUME IInv, Environment
  PROVE  IInv'
<1>1. TypeOK /\ TypeOK' /\ StoreSound /\ InsideTheLock /\ AnswersStand
  BY EnvironmentType DEF IInv, StoreSound
<1>2. task' = task /\ lock' = lock /\ proposals' = proposals
  BY DEF Environment, Tick, ReplaceStatus, store
<1>3. AnswersStand'
  <2> SUFFICES ASSUME NEW v \in Workers, task'[v].step = "returned"
               PROVE  AnswerStands(v)'
    BY DEF AnswersStand
  <2> QED
    BY <1>1, <1>2 DEF AnswersStand, AnswerStands, Stands
<1>4. CASE Tick
  <2>1. policies' = policies
    BY <1>4 DEF Tick, store
  <2>2. InsideTheLock'
    BY <1>1, <1>2, <2>1 DEF InsideTheLock, IsPendingFor, on_policy
  <2> QED
    BY <1>1, <1>2, <1>3, <2>1, <2>2, StoreUnmoved DEF IInv, StoreSound
<1>5. ASSUME NEW p \in OnFile, NEW status \in PolicyStatus, ReplaceStatus(p, status)
      PROVE  IInv'
  <2>1. /\ lock = Nobody
        /\ policies' = [policies EXCEPT ![p] = [@ EXCEPT !.status = status]]
    BY <1>5 DEF ReplaceStatus
  <2>2. policies[p] \in Policy
    BY <1>1 DEF TypeOK
  <2>3. ASSUME NEW q \in OnFile
        PROVE  /\ policies'[q].policy_number = policies[q].policy_number
               /\ policies'[q].vehicles = policies[q].vehicles
    <3>1. CASE q = p
      BY <1>1, <2>1, <2>2, <3>1 DEF TypeOK, Policy
    <3>2. CASE q # p
      BY <1>1, <2>1, <3>2 DEF TypeOK
    <3> QED
      BY <3>1, <3>2
  <2>4. \A v \in Workers : lock' # v /\ task'[v].step \notin {"proposing", "applying"}
    BY <1>1, <1>2, <2>1, WorkersAssumption DEF InsideTheLock
  <2>5. InsideTheLock'
    BY <2>4 DEF InsideTheLock
  <2> QED
    BY <1>1, <1>2, <1>3, <2>3, <2>5, StandingMoved DEF IInv, StoreSound
<1> QED
  BY <1>4, <1>5 DEF Environment

LEMMA InitIInv == Init => IInv
<1> SUFFICES ASSUME Init PROVE IInv
  OBVIOUS
<1>1. TypeOK
  BY InitType
<1>2. /\ policies = Fixture
      /\ \A id \in ProposalIds : proposals[id].state = "absent"
      /\ lock = Nobody
      /\ \A w \in Workers : task[w].step = "idle"
  BY DEF Init, Absent, Idle
<1>3. KeysMatch
  BY <1>2, FixtureAssumption DEF KeysMatch, IsApplied
<1>4. InsideTheLock
  BY <1>2, WorkersAssumption DEF InsideTheLock
<1>5. AtMostOnePending /\ PendingNotCovered
  BY <1>2 DEF AtMostOnePending, TwoPending, PendingNotCovered, IsPendingFor
<1>6. NoVehicleTwice
  <2> SUFFICES ASSUME NEW p \in OnFile, NEW i \in DOMAIN policies[p].vehicles,
                      NEW j \in DOMAIN policies[p].vehicles,
                      Upper[policies[p].vehicles[i].vin] = Upper[policies[p].vehicles[j].vin]
               PROVE  i = j
    BY DEF NoVehicleTwice
  <2>1. policies[p].vehicles \in Seq(Vehicle)
    BY <1>1 DEF TypeOK, Policy
  <2>2. policies[p].vehicles[i].vin \in VinShaped /\ policies[p].vehicles[j].vin \in VinShaped
    <3>1. policies[p].vehicles[i] \in Vehicle /\ policies[p].vehicles[j] \in Vehicle
      BY <2>1
    <3> QED
      BY <3>1 DEF Vehicle
  <2>3. policies[p].vehicles[i].vin = policies[p].vehicles[j].vin
    BY <2>2, TextsAssumption
  <2> QED
    BY <1>2, <2>3, FixtureAssumption
<1>7. BooksBalance
  BY <1>2 DEF BooksBalance, EveryVehicleConfirmed, EveryConfirmationCovered, IsApplied
<1>8. AnswersStand
  BY <1>2 DEF AnswersStand
<1> QED
  BY <1>1, <1>3, <1>4, <1>5, <1>6, <1>7, <1>8 DEF IInv

LEMMA StepIInv == IInv /\ [Next]_vars => IInv'
<1> SUFFICES ASSUME IInv, [Next]_vars PROVE IInv'
  OBVIOUS
<1>1. CASE UNCHANGED vars
  <2>1. TypeOK'
    BY StepType DEF IInv
  <2>2. StoreSound'
    BY <1>1, StoreUnmoved DEF IInv, StoreSound, vars
  <2>3. InsideTheLock'
    BY <1>1 DEF IInv, vars, InsideTheLock, IsPendingFor, on_policy
  <2>4. AnswersStand'
    BY <1>1 DEF IInv, vars, AnswersStand, AnswerStands, Stands
  <2> QED
    BY <2>1, <2>2, <2>3, <2>4 DEF IInv, StoreSound
<1>2. ASSUME NEW w \in Workers, NEW call \in Call, Receive(w, call)
      PROVE  IInv'
  BY <1>2, ReceiveStep
<1>3. ASSUME NEW w \in Workers, Run(w)
      PROVE  IInv'
  BY <1>3, LookupStep, ProposeRefusedStep, ProposeCheckedStep, ProposeStoredStep,
     RaisedStep, CommitAnsweredStep, CommitCheckedStep, CommitStoredStep DEF Run
<1>4. ASSUME NEW w \in Workers, Respond(w)
      PROVE  IInv'
  BY <1>4, RespondStep
<1>5. CASE Environment
  BY <1>5, EnvironmentStep
<1> QED
  BY <1>1, <1>2, <1>3, <1>4, <1>5 DEF Next

\* The store is sound and the lock protects what its holder has read, in every
\* reachable state.
THEOREM Inductive == Spec => []IInv
BY InitIInv, StepIInv, PTL DEF Spec

\* pending_for_policy never finds a second pending proposal, however many
\* threads propose and commit at once.
THEOREM OnePending == Spec => []AtMostOnePending
<1>1. IInv => AtMostOnePending
  BY DEF IInv
<1> QED
  BY <1>1, Inductive, PTL

\* What a thread found at its checks still holds when it writes.
THEOREM LockProtects == Spec => []InsideTheLock
<1>1. IInv => InsideTheLock
  BY DEF IInv
<1> QED
  BY <1>1, Inductive, PTL

\* No policy covers one car twice, whatever case its VIN was said in.
THEOREM NoDuplicateCover == Spec => []NoVehicleTwice
<1>1. IInv => NoVehicleTwice
  BY DEF IInv
<1> QED
  BY <1>1, Inductive, PTL

\* A change that waits for a yes is of a car its policy does not cover.
THEOREM WaitingIsNew == Spec => []PendingNotCovered
<1>1. IInv => PendingNotCovered
  BY DEF IInv
<1> QED
  BY <1>1, Inductive, PTL

\* Added vehicles and applied proposals are in one-to-one correspondence.
THEOREM Balanced == Spec => []BooksBalance
<1>1. IInv => BooksBalance
  BY DEF IInv
<1> QED
  BY <1>1, Inductive, PTL

\* An answer is still true of its proposal when it is sent.
THEOREM AnswersTrue == Spec => []AnswersStand
<1>1. IInv => AnswersStand
  BY DEF IInv
<1> QED
  BY <1>1, Inductive, PTL

-----------------------------------------------------------------------------
(* A stored change is bound.                                               *)

LEMMA StepBinds ==
  ASSUME IInv, [Next]_vars, NEW id \in ProposalIds
  PROVE  Becomes(proposals[id], proposals'[id])
<1>1. TypeOK /\ KeysMatch /\ InsideTheLock
  BY DEF IInv
<1>2. ASSUME NEW w \in Workers, ProposeChecked(w)
      PROVE  Becomes(proposals[id], proposals'[id])
  <2>1. \/ proposals'[id] = proposals[id]
        \/ proposals[id].state = "pending" /\ proposals'[id] = superseded(proposals[id])
    BY <1>1, <1>2, ProposeCheckedFacts DEF IsPendingFor
  <2> QED
    BY <2>1 DEF Becomes
<1>3. ASSUME NEW w \in Workers, ProposeStored(w)
      PROVE  Becomes(proposals[id], proposals'[id])
  <2>1. PICK new \in UnusedIds :
          proposals' = [proposals EXCEPT ![new] =
                          [state |-> "pending", proposal_id |-> new,
                           change |-> task[w].change,
                           readback |-> format_readback(task[w].change)]]
    BY <1>3 DEF ProposeStored
  <2>2. CASE id = new
    BY <1>1, <2>1, <2>2 DEF UnusedIds, Becomes, TypeOK
  <2>3. CASE id # new
    BY <1>1, <2>1, <2>3 DEF Becomes, TypeOK
  <2> QED
    BY <2>2, <2>3
<1>4. ASSUME NEW w \in Workers, CommitStored(w)
      PROVE  Becomes(proposals[id], proposals'[id])
  <2>1. PICK applied \in Applied :
          /\ applied.proposal_id = task[w].pending.proposal_id
          /\ applied.change = task[w].pending.change
          /\ proposals' = [proposals EXCEPT ![task[w].pending.proposal_id] =
                             [state |-> "applied", result |-> applied]]
    BY <1>1, <1>4, CommitStoredFacts
  <2>2. /\ proposals[task[w].pending.proposal_id] = task[w].pending
        /\ task[w].pending \in PendingProposal
    BY <1>1, <1>4, CommitStoredFacts DEF InsideTheLock
  <2>3. CASE id = task[w].pending.proposal_id
    BY <1>1, <2>1, <2>2, <2>3 DEF Becomes, TypeOK, PendingProposal
  <2>4. CASE id # task[w].pending.proposal_id
    BY <1>1, <2>1, <2>4 DEF Becomes, TypeOK
  <2> QED
    BY <2>3, <2>4
<1>5. CASE proposals' = proposals
  BY <1>5 DEF Becomes
<1>6. \/ proposals' = proposals
      \/ \E w \in Workers : ProposeChecked(w) \/ ProposeStored(w) \/ CommitStored(w)
  BY DEF Next, vars, Receive, Run, Respond, Environment, Tick, ReplaceStatus, store,
         Lookup, ProposeRefused, ProposeRaised, CommitAnswered, CommitChecked,
         CommitRaised, Answer
<1> QED
  BY <1>2, <1>3, <1>4, <1>5, <1>6

\* No step edits a stored change or readback, revives a superseded proposal or
\* rewrites an applied result.
THEOREM Bound == Spec => ChangeIsBound
<1>1. IInv /\ [Next]_vars =>
        [\A id \in ProposalIds : Becomes(proposals[id], proposals'[id])]_proposals
  BY StepBinds
<1> QED
  BY <1>1, Inductive, PTL DEF Spec, ChangeIsBound

-----------------------------------------------------------------------------
(* The store implements the vehicle ledger.                                *)

\* WaitingChanges(p) after a step, where the proposals that wait for p are told.
LEMMA WaitingAfter ==
  ASSUME NEW p \in OnFile, NEW S \in SUBSET ProposalIds,
         \A id \in ProposalIds :
           proposals'[id].state = "pending" /\ proposals'[id].change.policy_number = p
             <=> id \in S
  PROVE  WaitingChanges(p)' = {proposals'[id].change : id \in S}
<1>1. {i \in ProposalIds : IsPendingFor(i, p)}' = S
  BY DEF IsPendingFor
<1> QED
  BY <1>1 DEF WaitingChanges

\* The waiting changes of a policy stay when its waiting proposals do.
LEMMA WaitingKept ==
  ASSUME NEW p \in OnFile,
         \A id \in ProposalIds :
           /\ proposals'[id].state = "pending" /\ proposals'[id].change.policy_number = p
                <=> IsPendingFor(id, p)
           /\ IsPendingFor(id, p) => proposals'[id] = proposals[id]
  PROVE  WaitingChanges(p)' = WaitingChanges(p)
<1> DEFINE S == {i \in ProposalIds : IsPendingFor(i, p)}
<1>1. {i \in ProposalIds : IsPendingFor(i, p)}' = S
  BY DEF IsPendingFor
<1>2. \A id \in S : proposals'[id].change = proposals[id].change
  OBVIOUS
<1>3. {proposals'[id].change : id \in S} = {proposals[id].change : id \in S}
  BY <1>2
<1> QED
  BY <1>1, <1>3 DEF WaitingChanges

\* A step that moves no policy and no waiting change is a stutter of the ledger.
LEMMA LedgerStutter ==
  ASSUME policies' = policies, \A p \in OnFile : WaitingChanges(p)' = WaitingChanges(p)
  PROVE  UNCHANGED Ledger!ledgerVars
BY DEF Ledger!ledgerVars

LEMMA LedgerInit == Init => Ledger!Init
<1> SUFFICES ASSUME Init PROVE Ledger!Init
  OBVIOUS
<1>1. \A p \in OnFile : WaitingChanges(p) = {}
  BY DEF Init, WaitingChanges, IsPendingFor, Absent
<1> QED
  BY <1>1 DEF Init, Ledger!Init

\* Superseding withdraws the change that waits, if one does.
LEMMA LedgerProposeChecked ==
  ASSUME IInv, NEW w \in Workers, ProposeChecked(w)
  PROVE  [Ledger!Next]_(Ledger!ledgerVars)
<1>1. TypeOK
  BY DEF IInv
<1>2. PICK p \in OnFile : p = task[w].call.policy_number
  BY <1>1, ProposeCheckedFacts
<1>3. /\ policies' = policies /\ policies[p].status = "active"
      /\ proposals' = [id \in ProposalIds |->
                         IF IsPendingFor(id, p) THEN superseded(proposals[id])
                                                ELSE proposals[id]]
  BY <1>1, <1>2, ProposeCheckedFacts
<1>4. \A id \in ProposalIds :
        IF IsPendingFor(id, p) THEN proposals'[id].state = "superseded"
                               ELSE proposals'[id] = proposals[id]
  BY <1>3 DEF superseded
<1>5. ASSUME NEW q \in OnFile, q # p
      PROVE  WaitingChanges(q)' = WaitingChanges(q)
  BY <1>4, <1>5, WaitingKept DEF IsPendingFor
<1>6. WaitingChanges(p)' = {}
  <2>1. {i \in ProposalIds : IsPendingFor(i, p)}' = {}
    BY <1>4 DEF IsPendingFor
  <2> QED
    BY <2>1 DEF WaitingChanges
<1>7. CASE WaitingChanges(p) = {}
  BY <1>3, <1>5, <1>6, <1>7, LedgerStutter
<1>8. CASE WaitingChanges(p) # {}
  <2>1. Ledger!Withdraw(p)
    BY <1>3, <1>5, <1>6, <1>8 DEF Ledger!Withdraw
  <2> QED
    BY <2>1 DEF Ledger!Next
<1> QED
  BY <1>7, <1>8

\* Storing a proposal offers its change.
LEMMA LedgerProposeStored ==
  ASSUME IInv, NEW w \in Workers, ProposeStored(w)
  PROVE  [Ledger!Next]_(Ledger!ledgerVars)
<1>1. TypeOK /\ InsideTheLock /\ task[w].step = "proposing" /\ policies' = policies
  BY DEF IInv, ProposeStored
<1>2. PICK change \in Change : change = task[w].change
  BY <1>1, TaskForms DEF TypeOK
<1>3. PICK p \in OnFile : p = change.policy_number
  BY <1>1, <1>2 DEF InsideTheLock
<1>4. /\ policies[p].status = "active"
      /\ ~ on_policy(policies[p], change.vin)
      /\ \A id \in ProposalIds : ~ IsPendingFor(id, p)
  BY <1>1, <1>2, <1>3 DEF InsideTheLock
<1>5. PICK new \in UnusedIds :
        proposals' = [proposals EXCEPT ![new] =
                        [state |-> "pending", proposal_id |-> new,
                         change |-> change, readback |-> format_readback(change)]]
  BY <1>2 DEF ProposeStored
<1>6. /\ new \in ProposalIds /\ proposals[new].state = "absent"
      /\ proposals'[new].state = "pending" /\ proposals'[new].change = change
      /\ \A id \in ProposalIds : id # new => proposals'[id] = proposals[id]
  BY <1>1, <1>5 DEF UnusedIds, TypeOK
<1>7. ASSUME NEW q \in OnFile, q # p
      PROVE  WaitingChanges(q)' = WaitingChanges(q)
  BY <1>3, <1>6, <1>7, WaitingKept DEF IsPendingFor
<1>8. WaitingChanges(p) = {}
  BY <1>4 DEF WaitingChanges
<1>9. WaitingChanges(p)' = {change}
  <2>1. {i \in ProposalIds : IsPendingFor(i, p)}' = {new}
    BY <1>3, <1>4, <1>6 DEF IsPendingFor
  <2> QED
    BY <1>6, <2>1 DEF WaitingChanges
<1>10. Ledger!Offer(p, change)
  BY <1>1, <1>3, <1>4, <1>7, <1>8, <1>9 DEF Ledger!Offer, Ledger!Covered, on_policy
<1> QED
  BY <1>10 DEF Ledger!Next

\* Applying a proposal accepts its change.
LEMMA LedgerCommitStored ==
  ASSUME IInv, NEW w \in Workers, CommitStored(w)
  PROVE  [Ledger!Next]_(Ledger!ledgerVars)
<1>1. TypeOK /\ InsideTheLock /\ KeysMatch /\ AtMostOnePending /\ task[w].step = "applying"
  BY DEF IInv, CommitStored
<1>2. PICK pending \in PendingProposal : pending = task[w].pending
  BY <1>1, TaskForms DEF TypeOK
<1>3. PICK change \in Change : change = pending.change
  BY DEF PendingProposal
<1>4. PICK p \in OnFile : p = change.policy_number
  BY <1>1, <1>2, <1>3 DEF InsideTheLock
<1>5. PICK id \in ProposalIds : id = pending.proposal_id
  BY DEF PendingProposal
<1>6. /\ task[w].policy = policies[p] /\ proposals[id] = pending
      /\ policies[p].status = "active" /\ ~ on_policy(policies[p], change.vin)
  BY <1>1, <1>2, <1>3, <1>4, <1>5 DEF InsideTheLock
<1>7. IsPendingFor(id, p) /\ \A other \in ProposalIds : IsPendingFor(other, p) => other = id
  <2>1. IsPendingFor(id, p)
    BY <1>3, <1>4, <1>6 DEF IsPendingFor, PendingProposal
  <2>2. ~ TwoPending(p)
    BY <1>1, FixtureAssumption DEF AtMostOnePending
  <2> QED
    BY <2>1, <2>2 DEF TwoPending
<1> DEFINE longer == Append(policies[p].vehicles,
                       [vin |-> change.vin, effective_date |-> change.effective_date])
<1>8. policies' = [policies EXCEPT ![p] =
                     [policy_number |-> p, status |-> policies[p].status, vehicles |-> longer]]
  <2>1. task[w].policy.policy_number = p
    BY <1>1, <1>6 DEF KeysMatch
  <2> QED
    BY <1>1, <1>2, <1>3, <1>6, <2>1, CommitStoredFacts
<1>9. PICK applied : proposals' = [proposals EXCEPT ![id] =
                                    [state |-> "applied", result |-> applied]]
  BY <1>1, <1>2, <1>5, CommitStoredFacts
<1>10. /\ proposals'[id].state = "applied"
       /\ \A other \in ProposalIds : other # id => proposals'[other] = proposals[other]
  BY <1>1, <1>9 DEF TypeOK
<1>11. ASSUME NEW q \in OnFile, q # p
       PROVE  WaitingChanges(q)' = WaitingChanges(q)
  BY <1>3, <1>4, <1>6, <1>10, <1>11, WaitingKept DEF IsPendingFor
<1>12. WaitingChanges(p) = {change}
  <2>1. {i \in ProposalIds : IsPendingFor(i, p)} = {id}
    BY <1>7
  <2> QED
    BY <1>3, <1>6, <2>1 DEF WaitingChanges
<1>13. WaitingChanges(p)' = {}
  <2>1. {i \in ProposalIds : IsPendingFor(i, p)}' = {}
    BY <1>7, <1>10 DEF IsPendingFor
  <2> QED
    BY <2>1 DEF WaitingChanges
<1> HIDE DEF longer
<1>14. /\ policies'[p].status = policies[p].status /\ policies'[p].vehicles = longer
       /\ \A q \in OnFile : q # p => policies'[q] = policies[q]
  BY <1>1, <1>8 DEF TypeOK
<1>15. Ledger!Accept(p, change)
  BY <1>6, <1>11, <1>12, <1>13, <1>14 DEF longer, Ledger!Accept, Ledger!Covered, on_policy
<1> QED
  BY <1>15 DEF Ledger!Next

\* A change of standing outside any call restates the policy.
LEMMA LedgerReplaceStatus ==
  ASSUME IInv, NEW p \in OnFile, NEW status \in PolicyStatus, ReplaceStatus(p, status)
  PROVE  [Ledger!Next]_(Ledger!ledgerVars)
<1>1. TypeOK /\ policies[p] \in Policy
  BY DEF IInv, TypeOK
<1>2. proposals' = proposals /\ policies' = [policies EXCEPT ![p] = [@ EXCEPT !.status = status]]
  BY DEF ReplaceStatus
<1>3. /\ policies'[p].status = status /\ policies'[p].vehicles = policies[p].vehicles
      /\ \A q \in OnFile : q # p => policies'[q] = policies[q]
  BY <1>1, <1>2 DEF TypeOK, Policy
<1>4. \A q \in OnFile : WaitingChanges(q)' = WaitingChanges(q)
  BY <1>2 DEF WaitingChanges, IsPendingFor
<1>5. Ledger!Restate(p, status)
  BY <1>3, <1>4 DEF Ledger!Restate
<1> QED
  BY <1>5 DEF Ledger!Next, PolicyStatus

LEMMA LedgerStep == IInv /\ [Next]_vars => [Ledger!Next]_(Ledger!ledgerVars)
<1> SUFFICES ASSUME IInv, [Next]_vars PROVE [Ledger!Next]_(Ledger!ledgerVars)
  OBVIOUS
<1>1. CASE store' = store
  <2>1. policies' = policies /\ proposals' = proposals
    BY <1>1 DEF store
  <2>2. \A p \in OnFile : WaitingChanges(p)' = WaitingChanges(p)
    BY <2>1 DEF WaitingChanges, IsPendingFor
  <2> QED
    BY <2>1, <2>2, LedgerStutter
<1>2. \/ store' = store
      \/ \E w \in Workers : ProposeChecked(w) \/ ProposeStored(w) \/ CommitStored(w)
      \/ \E p \in OnFile, status \in PolicyStatus : ReplaceStatus(p, status)
  BY DEF Next, vars, Receive, Run, Respond, Environment, Tick, store,
         Lookup, ProposeRefused, ProposeRaised, CommitAnswered, CommitChecked,
         CommitRaised, Answer
<1> QED
  BY <1>1, <1>2, LedgerProposeChecked, LedgerProposeStored, LedgerCommitStored,
     LedgerReplaceStatus

\* The servicing API implements the vehicle ledger: at most one change waits on a
\* policy, and a vehicle is added by the acceptance of that change alone, once,
\* to an active policy that does not cover it.
THEOREM Implements == Spec => LedgerKept
BY LedgerInit, LedgerStep, Inductive, PTL DEF Spec, LedgerKept, Ledger!Spec
=============================================================================
