----------------------------- MODULE AtomicProofs -----------------------------
(***************************************************************************)
(* Servicing implements AtomicServicing: however its threads interleave,   *)
(* each call takes effect at one moment.  First the invariant that speaks  *)
(* of what a thread holds inside the lock, then the steps, one by one.     *)
(***************************************************************************)
EXTENDS ServicingProofs

-----------------------------------------------------------------------------
(* What a thread holds inside the lock.                                    *)

\* A date that propose takes is not before today.
LEMMA ProposeNotPast ==
  ASSUME NEW p, NEW v, NEW d, propose_refusal(p, v, d) = None,
         now \in Instants, parse_effective_date(d)[1] \in Int
  PROVE  parse_effective_date(d)[1] >= calendar_date(now)
<1>1. \A x : Some(x) # None
  BY DEF Some, None
<1>2. ~ (parse_effective_date(d)[1] < calendar_date(now))
  BY <1>1 DEF propose_refusal
<1> QED
  BY <1>2, Today

\* Nor is the date of a change that commit goes on with.
LEMMA CommitNotPast ==
  ASSUME TypeOK, NEW id \in ProposalIds, commit_answer(id) = None
  PROVE  proposals[id].change.effective_date >= calendar_date(now)
<1>1. \A x : Some(x) # None
  BY DEF Some, None
<1>2. proposals[id] \in PendingProposal
  BY CommitAnswer
<1>3. apply_refusal(proposals[id].change) = None
  BY <1>2 DEF commit_answer, PendingProposal
<1>4. ~ (proposals[id].change.effective_date < calendar_date(now))
  BY <1>1, <1>3 DEF apply_refusal, not_amendable
<1>5. proposals[id].change.effective_date \in Int
  BY <1>2, DatesAssumption DEF PendingProposal, Change, Days
<1> QED
  BY <1>4, <1>5, Today DEF TypeOK

\* A pair of an optional value.
LEMMA SomeParsed ==
  /\ \A raw \in RawVins : parse_vin(raw) # None => parse_vin(raw) = Some(parse_vin(raw)[1])
  /\ \A raw \in RawDates :
       parse_effective_date(raw) # None
         => parse_effective_date(raw) = Some(parse_effective_date(raw)[1])
BY DEF parse_vin, parse_effective_date, Some, None

\* HeldFromCall of one thread.
Held(w) ==
  LET call == task[w].call
      NotPast(change) ==
        \E reading \in Instants : change.effective_date >= calendar_date(reading)
  IN /\ task[w].step = "proposing" =>
          /\ call.op = "propose"
          /\ Some(task[w].change.vin) = parse_vin(call.vin_raw)
          /\ Some(task[w].change.effective_date) = parse_effective_date(call.date_raw)
          /\ task[w].change.policy_number = call.policy_number
          /\ NotPast(task[w].change)
          /\ \A id \in task[w].prior :
               /\ proposals[id].state = "superseded"
               /\ proposals[id].change.policy_number = call.policy_number
     /\ task[w].step = "applying" =>
          call.op = "commit" /\ NotPast(task[w].pending.change)

\* HeldFromCall, thread by thread.
LEMMA HeldByAll == HeldFromCall <=> \A w \in Workers : Held(w)
BY DEF HeldFromCall, Held

\* What a thread holds stays so while its task does: superseded is for good.
LEMMA HeldKept ==
  ASSUME IInv, [Next]_vars, NEW w \in Workers, Held(w), task'[w] = task[w]
  PROVE  Held(w)'
<1>1. task[w] \in Task
  BY DEF IInv, TypeOK
<1>2. ASSUME task[w].step = "proposing", NEW id \in task[w].prior,
             proposals[id].state = "superseded"
      PROVE  proposals'[id] = proposals[id]
  <2>1. id \in ProposalIds
    BY <1>1, <1>2, TaskForms
  <2>2. Becomes(proposals[id], proposals'[id])
    BY <2>1, StepBinds
  <2> QED
    BY <1>2, <2>2 DEF Becomes
<1> QED
  BY <1>2 DEF Held

\* The step with which a proposal enters the lock.
LEMMA HeldProposeChecked ==
  ASSUME IInv, NEW w \in Workers, ProposeChecked(w)
  PROVE  Held(w)'
<1> DEFINE call == task[w].call
           p == call.policy_number
           change == [policy_number  |-> policies[p].policy_number,
                      vin            |-> parse_vin(call.vin_raw)[1],
                      effective_date |-> parse_effective_date(call.date_raw)[1]]
<1>1. TypeOK /\ KeysMatch /\ task[w] \in Task /\ now \in Instants
  BY DEF IInv, TypeOK
<1>2. call \in Call /\ call.op = "propose"
  BY <1>1, TaskForms DEF ProposeChecked, Enters
<1>3. p \in PolicyNumbers /\ call.vin_raw \in RawVins /\ call.date_raw \in RawDates
  BY <1>2, CallForms
<1>4. propose_refusal(p, call.vin_raw, call.date_raw) = None
  BY DEF ProposeChecked
<1>5. p \in OnFile /\ parse_vin(call.vin_raw) # None /\ parse_effective_date(call.date_raw) # None
  BY <1>1, <1>3, <1>4, ProposeRefusal
<1>6. change.policy_number = p
  BY <1>1, <1>5 DEF KeysMatch
<1>7. /\ Some(change.vin) = parse_vin(call.vin_raw)
      /\ Some(change.effective_date) = parse_effective_date(call.date_raw)
  BY <1>3, <1>5, SomeParsed
<1>8. change.effective_date >= calendar_date(now)
  <2>1. parse_effective_date(call.date_raw)[1] \in Int
    BY <1>3, <1>5, ParsedDate, DatesAssumption DEF Days
  <2> QED
    BY <1>1, <1>4, <2>1, ProposeNotPast
<1>9. task'[w] = [step |-> "proposing", call |-> call, change |-> change, prior |-> PriorOf(p)]
  BY <1>1 DEF ProposeChecked, PriorOf, TypeOK
<1>10. ASSUME NEW id \in PriorOf(p)
       PROVE  /\ proposals'[id].state = "superseded"
              /\ proposals'[id].change.policy_number = p
  <2>1. proposals'[id] = superseded(proposals[id]) /\ IsPendingFor(id, p)
    BY <1>1, ProposeCheckedFacts DEF PriorOf
  <2> QED
    BY <2>1 DEF superseded, IsPendingFor
<1> HIDE DEF change
<1> QED
  BY <1>1, <1>2, <1>6, <1>7, <1>8, <1>9, <1>10 DEF Held

\* The step with which a commit enters the lock.
LEMMA HeldCommitChecked ==
  ASSUME IInv, NEW w \in Workers, CommitChecked(w)
  PROVE  Held(w)'
<1>1. TypeOK /\ now \in Instants
  BY DEF IInv, TypeOK
<1>2. /\ task[w].call.proposal_id \in ProposalIds
      /\ commit_answer(task[w].call.proposal_id) = None
      /\ task[w].call.op = "commit"
  BY <1>1, CommitCheckedFacts DEF CommitChecked, Enters
<1>3. proposals[task[w].call.proposal_id].change.effective_date >= calendar_date(now)
  BY <1>1, <1>2, CommitNotPast
<1>4. task'[w] = [step |-> "applying", call |-> task[w].call,
                  pending |-> proposals[task[w].call.proposal_id],
                  policy |-> policies[proposals[task[w].call.proposal_id].change.policy_number]]
  BY <1>1 DEF CommitChecked, TypeOK
<1> QED
  BY <1>1, <1>2, <1>3, <1>4 DEF Held

\* A step leaves a thread's task alone, or puts it outside the lock, or is one of
\* the two that enter it.
LEMMA TaskMoves ==
  ASSUME TypeOK, [Next]_vars, NEW w \in Workers
  PROVE  \/ task'[w] = task[w]
         \/ task'[w].step \notin {"proposing", "applying"}
         \/ ProposeChecked(w)
         \/ CommitChecked(w)
<1>1. CASE task' = task
  BY <1>1
<1>2. ASSUME NEW v \in Workers, NEW t, task' = [task EXCEPT ![v] = t],
             t.step \notin {"proposing", "applying"}
      PROVE  task'[w] = task[w] \/ task'[w].step \notin {"proposing", "applying"}
  BY <1>2 DEF TypeOK
<1>3. ASSUME NEW v \in Workers, ProposeChecked(v) \/ CommitChecked(v), v # w
      PROVE  task'[w] = task[w]
  BY <1>3 DEF TypeOK, ProposeChecked, CommitChecked
<1>4. ASSUME NEW v \in Workers, NEW call \in Call, Receive(v, call)
      PROVE  task'[w] = task[w] \/ task'[w].step \notin {"proposing", "applying"}
  <2>1. task' = [task EXCEPT ![v] = [step |-> "called", call |-> call]]
    BY <1>4 DEF Receive
  <2> QED
    BY <1>2, <2>1
<1>5. ASSUME NEW v \in Workers,
             \/ Lookup(v) \/ ProposeRefused(v) \/ ProposeStored(v) \/ ProposeRaised(v)
             \/ CommitAnswered(v) \/ CommitStored(v) \/ CommitRaised(v)
      PROVE  task'[w] = task[w] \/ task'[w].step \notin {"proposing", "applying"}
  <2>1. PICK result : task' = [task EXCEPT ![v] = Returned(task[v].call, result)]
    BY <1>5 DEF Lookup, ProposeRefused, ProposeStored, ProposeRaised, CommitAnswered,
                CommitStored, CommitRaised, Answer
  <2>2. Returned(task[v].call, result).step \notin {"proposing", "applying"}
    BY DEF Returned
  <2> QED
    BY <1>2, <2>1, <2>2
<1>6. ASSUME NEW v \in Workers, Respond(v)
      PROVE  task'[w] = task[w] \/ task'[w].step \notin {"proposing", "applying"}
  <2>1. task' = [task EXCEPT ![v] = Idle] /\ Idle.step \notin {"proposing", "applying"}
    BY <1>6 DEF Respond, Idle
  <2> QED
    BY <1>2, <2>1
<1>7. CASE Environment \/ UNCHANGED vars
  BY <1>1, <1>7 DEF Environment, Tick, ReplaceStatus, vars
<1> QED
  BY <1>3, <1>4, <1>5, <1>6, <1>7 DEF Next, Run

\* At first no thread holds anything.
LEMMA InitHeld == Init => HeldFromCall
BY DEF Init, Idle, HeldFromCall

\* No step lets a thread hold what its own call did not name.
LEMMA StepHeld ==
  ASSUME IInv, HeldFromCall, [Next]_vars
  PROVE  HeldFromCall'
<1> SUFFICES ASSUME NEW w \in Workers PROVE Held(w)'
  BY HeldByAll DEF HeldFromCall, Held
<1>1. TypeOK /\ Held(w)
  BY HeldByAll DEF IInv
<1>2. CASE task'[w] = task[w]
  BY <1>1, <1>2, HeldKept
<1>3. CASE task'[w].step \notin {"proposing", "applying"}
  BY <1>3 DEF Held
<1> QED
  BY <1>1, <1>2, <1>3, TaskMoves, HeldProposeChecked, HeldCommitChecked

\* What a thread writes is what its own caller asked for, and the proposals it
\* replaces wait no more, whatever the other threads do.
THEOREM WritesOwnCall == Spec => []HeldFromCall
<1>1. IInv /\ HeldFromCall /\ [Next]_vars => HeldFromCall'
  BY StepHeld
<1> QED
  BY <1>1, InitHeld, Inductive, PTL DEF Spec

-----------------------------------------------------------------------------
(* The state as the clients know it.                                       *)

\* The two modules compute the same values: both extend Domain.
LEMMA SameValues ==
  /\ Atomic!None = None
  /\ \A raw : Atomic!parse_vin(raw) = parse_vin(raw)
  /\ \A raw : Atomic!parse_effective_date(raw) = parse_effective_date(raw)
  /\ \A t : Atomic!calendar_date(t) = calendar_date(t)
  /\ \A change : Atomic!format_readback(change) = format_readback(change)
  /\ \A code : Atomic!rejected(code) = rejected(code)
  /\ \A today : Atomic!rejected_past(today) = rejected_past(today)
  /\ Atomic!RejectionCode = RejectionCode
  /\ Atomic!PolicyStatus = PolicyStatus
BY DEF Atomic!None, None, Atomic!Some, Some, Atomic!parse_vin, parse_vin,
       Atomic!parse_effective_date, parse_effective_date, Atomic!calendar_date,
       calendar_date, Atomic!format_readback, format_readback, Atomic!recovery_for,
       recovery_for, Atomic!rejected, rejected, Atomic!rejected_past, rejected_past,
       Atomic!RejectionCode, RejectionCode, Atomic!PolicyStatus, PolicyStatus

\* The offers and the clients of AtomicServicing.
KnownOffers == [id \in ProposalIds |-> KnownOffer(id)]
KnownCalls == [w \in Workers |-> KnownCall(w)]

\* Without a holder of the lock no proposal is being replaced.
LEMMA NobodyReplaces ==
  ASSUME InsideTheLock, lock = Nobody, NEW id
  PROVE  ~ BeingReplaced(id)
BY WorkersAssumption DEF InsideTheLock, BeingReplaced

\* What is being replaced is in the hands of the thread inside the lock.
LEMMA OnlyHolderReplaces ==
  ASSUME InsideTheLock, NEW w \in Workers, lock = w, NEW id
  PROVE  BeingReplaced(id) <=> task[w].step = "proposing" /\ id \in task[w].prior
BY DEF InsideTheLock, BeingReplaced

\* What a known offer is, by the state of its proposal.
LEMMA OfferForms ==
  ASSUME TypeOK, NEW id \in ProposalIds
  PROVE  /\ proposals[id].state = "absent" => KnownOffer(id) = [fate |-> "unknown"]
         /\ proposals[id].state = "applied" =>
              KnownOffer(id) = [fate |-> "taken", answer |-> proposals[id].result]
         /\ proposals[id].state = "pending" =>
              KnownOffer(id) = [fate |-> "waiting", change |-> proposals[id].change]
         /\ proposals[id].state = "superseded" =>
              KnownOffer(id) = [fate |-> IF BeingReplaced(id) THEN "waiting" ELSE "withdrawn",
                                change |-> proposals[id].change]
         /\ proposals[id].state \in {"absent", "applied", "pending", "superseded"}
<1>1. proposals[id].state \in {"absent", "applied", "pending", "superseded"}
  BY DEF TypeOK, Proposal, PendingProposal, SupersededProposal, AppliedProposal, Absent
<1> QED
  BY <1>1 DEF KnownOffer

\* A proposal that did not move, and is replaced or not as before, is known alike.
LEMMA OfferKept ==
  ASSUME NEW id \in ProposalIds, proposals'[id] = proposals[id],
         BeingReplaced(id)' <=> BeingReplaced(id)
  PROVE  KnownOffer(id)' = KnownOffer(id)
BY DEF KnownOffer

\* The offers stay if the proposals do and nobody begins or ends a replacement.
LEMMA OffersKept ==
  ASSUME proposals' = proposals, \A id \in ProposalIds : BeingReplaced(id)' <=> BeingReplaced(id)
  PROVE  KnownOffers' = KnownOffers
BY OfferKept DEF KnownOffers

\* A thread that is not proposing, before or after, replaces nothing.
LEMMA ReplacedKept ==
  ASSUME TypeOK, NEW w \in Workers, NEW t, task' = [task EXCEPT ![w] = t],
         task[w].step # "proposing", t.step # "proposing", NEW id
  PROVE  BeingReplaced(id)' <=> BeingReplaced(id)
<1>1. \A v \in Workers : task'[v] = IF v = w THEN t ELSE task[v]
  BY DEF TypeOK
<1> QED
  BY <1>1 DEF BeingReplaced

\* One thread moved.
LEMMA CallsMoved ==
  ASSUME TypeOK, NEW w \in Workers, NEW t, task' = [task EXCEPT ![w] = t]
  PROVE  KnownCalls' = [KnownCalls EXCEPT ![w] =
                          IF t.step \in {"proposing", "applying"}
                            THEN [step |-> "called", call |-> t.call] ELSE t]
<1>1. \A v \in Workers : task'[v] = IF v = w THEN t ELSE task[v]
  BY DEF TypeOK
<1>2. \A v \in Workers : KnownCall(v)' =
        IF v = w THEN (IF t.step \in {"proposing", "applying"}
                         THEN [step |-> "called", call |-> t.call] ELSE t)
                 ELSE KnownCall(v)
  BY <1>1 DEF KnownCall
<1> QED
  BY <1>2 DEF KnownCalls

\* A thread whose call runs is a client that waits for that call.
LEMMA ClientWaits ==
  ASSUME NEW w \in Workers, task[w].step \in {"called", "proposing", "applying"},
         TypeOK
  PROVE  KnownCalls[w].step = "called" /\ KnownCalls[w].call = task[w].call
BY DEF KnownCalls, KnownCall

\* A call that has just arrived is a record of nothing else.
LEMMA CalledForm ==
  ASSUME NEW t \in Task, t.step = "called"
  PROVE  t = [step |-> "called", call |-> t.call]
<1> DEFINE C == [step : {"called"}, call : Call]
<1>1. t \in C
  BY DEF Task
<1> QED
  BY <1>1

\* The thread's answer is the client's.
LEMMA ClientGets ==
  ASSUME TypeOK, NEW w \in Workers, task[w].step \in {"called", "proposing", "applying"},
         NEW result, task' = [task EXCEPT ![w] = Returned(task[w].call, result)]
  PROVE  Atomic!Get(w, result)
<1>1. KnownCalls' = [KnownCalls EXCEPT ![w] = Returned(task[w].call, result)]
  BY CallsMoved DEF Returned
<1> QED
  BY <1>1, ClientWaits DEF Atomic!Get, KnownCalls, Returned

\* An answer given without a change of the store moves the client alone.
LEMMA AnswerKeepsOffers ==
  ASSUME TypeOK, NEW w \in Workers, task[w].step = "called", NEW result, Answer(w, result)
  PROVE  KnownOffers' = KnownOffers /\ policies' = policies /\ now' = now /\ Atomic!Get(w, result)
<1>1. task' = [task EXCEPT ![w] = Returned(task[w].call, result)]
      /\ proposals' = proposals /\ policies' = policies /\ now' = now
  BY DEF Answer, store
<1>2. Returned(task[w].call, result).step # "proposing"
  BY DEF Returned
<1>3. KnownOffers' = KnownOffers
  BY <1>1, <1>2, ReplacedKept, OffersKept
<1> QED
  BY <1>1, <1>3, ClientGets

-----------------------------------------------------------------------------
(* Refusals are true.                                                      *)

\* A refusal by a code is true if the code is.
LEMMA TrueCodeRefuses ==
  ASSUME NEW call, NEW code \in Atomic!TrueCodes(call)
  PROVE  rejected(code) \in Atomic!TrueRefusals(call)
BY SameValues DEF Atomic!TrueRefusals

\* A refusal of a past date is true if the date is past now.
LEMMA PastRefuses ==
  ASSUME NEW call, NEW change \in Atomic!Subject(call),
         change.effective_date < calendar_date(now)
  PROVE  rejected_past(calendar_date(now)) \in Atomic!TrueRefusals(call)
BY SameValues DEF Atomic!TrueRefusals

\* The change that a proposal's texts name.
LEMMA ProposeSubject ==
  ASSUME NEW call \in Call, call.op = "propose",
         NEW vin \in VinShaped, Some(vin) = parse_vin(call.vin_raw),
         NEW day \in Days, Some(day) = parse_effective_date(call.date_raw)
  PROVE  Atomic!Subject(call) =
           {[policy_number |-> call.policy_number, vin |-> vin, effective_date |-> day]}
<1>1. Some(vin) # None /\ Some(vin)[1] = vin /\ Some(day) # None /\ Some(day)[1] = day
  BY DEF Some, None
<1>2. /\ {Atomic!parse_vin(call.vin_raw)} \ {Atomic!None} = {Some(vin)}
      /\ {Atomic!parse_effective_date(call.date_raw)} \ {Atomic!None} = {Some(day)}
  BY <1>1, SameValues
<1>3. Atomic!Subject(call) =
        {[policy_number |-> call.policy_number, vin |-> v[1], effective_date |-> d[1]] :
           v \in {Some(vin)}, d \in {Some(day)}}
  BY <1>2 DEF Atomic!Subject
<1> QED
  BY <1>1, <1>3

\* The change that a commit is about, while it waits.
LEMMA CommitSubject ==
  ASSUME TypeOK, NEW call \in Call, call.op = "commit",
         proposals[call.proposal_id].state = "pending"
  PROVE  Atomic!Subject(call) = {proposals[call.proposal_id].change}
<1> DEFINE id == call.proposal_id
<1>1. id \in ProposalIds
  BY CallForms
<1>2. KnownOffers[id].fate = "waiting" /\ KnownOffers[id].change = proposals[id].change
  BY <1>1, OfferForms DEF KnownOffers
<1>3. {i \in {id} : KnownOffers[i].fate = "waiting"} = {id}
  BY <1>2
<1>4. Atomic!Subject(call) =
        {KnownOffers[i].change : i \in {j \in {id} : KnownOffers[j].fate = "waiting"}}
  BY DEF Atomic!Subject, KnownOffers
<1> QED
  BY <1>2, <1>3, <1>4

\* lookup refuses with a reason that is true.
LEMMA LookupRefusalTrue ==
  ASSUME TypeOK, NEW call \in Call, call.op = "lookup",
         ~ (call.policy_number \in OnFile /\ policies[call.policy_number].status = "active")
  PROVE  lookup(call.policy_number) \in Atomic!TrueRefusals(call)
<1>1. Atomic!About(call) = {call.policy_number}
  BY DEF Atomic!About
<1>2. CASE call.policy_number \notin OnFile
  <2>1. "policy_not_found" \in Atomic!TrueCodes(call)
    BY <1>1, <1>2, SameValues DEF Atomic!TrueCodes, RejectionCode
  <2> QED
    BY <1>2, <2>1, TrueCodeRefuses DEF lookup
<1>3. CASE call.policy_number \in OnFile
  <2>1. policies[call.policy_number].status = "cancelled"
    BY <1>3 DEF TypeOK, Policy, PolicyStatus
  <2>2. "policy_cancelled" \in Atomic!TrueCodes(call)
    BY <1>1, <1>3, <2>1, SameValues DEF Atomic!TrueCodes, RejectionCode
  <2> QED
    BY <1>3, <2>1, <2>2, TrueCodeRefuses DEF lookup
<1> QED
  BY <1>2, <1>3

\* propose refuses with a reason that is true; pending_for_policy never raises.
LEMMA ProposeRefusalTrue ==
  ASSUME IInv, NEW call \in Call, call.op = "propose",
         propose_refusal(call.policy_number, call.vin_raw, call.date_raw) # None
  PROVE  propose_refusal(call.policy_number, call.vin_raw, call.date_raw)[1]
           \in Atomic!TrueRefusals(call)
<1> DEFINE p == call.policy_number
           vin == parse_vin(call.vin_raw)
           day == parse_effective_date(call.date_raw)
           refusal == propose_refusal(p, call.vin_raw, call.date_raw)
           change == [policy_number |-> p, vin |-> vin[1], effective_date |-> day[1]]
<1>1. TypeOK /\ p \in PolicyNumbers /\ call.vin_raw \in RawVins /\ call.date_raw \in RawDates
  BY CallForms DEF IInv
<1>2. \A x : Some(x) # None /\ Some(x)[1] = x
  BY DEF Some, None
<1>3. Atomic!About(call) = {p}
  BY DEF Atomic!About
<1>4. CASE vin = None
  <2>1. "invalid_vin" \in Atomic!TrueCodes(call)
    BY <1>4, SameValues DEF Atomic!TrueCodes, RejectionCode
  <2> QED
    BY <1>2, <1>4, <2>1, TrueCodeRefuses DEF propose_refusal
<1>5. CASE vin # None /\ day = None
  <2>1. "invalid_effective_date" \in Atomic!TrueCodes(call)
    BY <1>5, SameValues DEF Atomic!TrueCodes, RejectionCode
  <2> QED
    BY <1>2, <1>5, <2>1, TrueCodeRefuses DEF propose_refusal
<1>6. CASE vin # None /\ day # None
  <2>1. Atomic!Subject(call) = {change}
    BY <1>1, <1>6, SomeParsed, ParsedVin, ParsedDate, ProposeSubject
  <2>2. CASE day[1] < calendar_date(now)
    <3>1. refusal[1] = rejected_past(calendar_date(now))
      BY <1>2, <1>6, <2>2 DEF propose_refusal
    <3> QED
      BY <2>1, <2>2, <3>1, PastRefuses
  <2>3. CASE ~ (day[1] < calendar_date(now)) /\ p \notin OnFile
    <3>1. "policy_not_found" \in Atomic!TrueCodes(call)
      BY <1>3, <2>3, SameValues DEF Atomic!TrueCodes, RejectionCode
    <3> QED
      BY <1>2, <1>6, <2>3, <3>1, TrueCodeRefuses DEF propose_refusal
  <2>4. CASE /\ ~ (day[1] < calendar_date(now)) /\ p \in OnFile
             /\ policies[p].status # "active"
    <3>1. policies[p].status = "cancelled"
      BY <1>1, <2>4 DEF TypeOK, Policy, PolicyStatus
    <3>2. "policy_cancelled" \in Atomic!TrueCodes(call)
      BY <1>3, <2>4, <3>1, SameValues DEF Atomic!TrueCodes, RejectionCode
    <3>3. refusal[1] = rejected("policy_cancelled")
      BY <1>2, <1>6, <2>4 DEF propose_refusal, not_amendable
    <3> QED
      BY <3>2, <3>3, TrueCodeRefuses
  <2>5. CASE /\ ~ (day[1] < calendar_date(now)) /\ p \in OnFile
             /\ policies[p].status = "active"
    <3>1. ~ TwoPending(p)
      BY <1>1 DEF IInv, AtMostOnePending
    <3>2. on_policy(policies[p], vin[1])
      BY <1>2, <1>6, <2>5, <3>1 DEF propose_refusal, not_amendable
    <3>3. Atomic!Covers(p, vin[1])
      BY <3>2 DEF on_policy, Atomic!Covers
    <3>4. "vehicle_already_on_policy" \in Atomic!TrueCodes(call)
      BY <2>1, <2>5, <3>3, SameValues DEF Atomic!TrueCodes, RejectionCode
    <3>5. refusal[1] = rejected("vehicle_already_on_policy")
      BY <1>2, <1>6, <2>5, <3>2 DEF propose_refusal, not_amendable
    <3> QED
      BY <3>4, <3>5, TrueCodeRefuses
  <2> QED
    BY <2>2, <2>3, <2>4, <2>5
<1> QED
  BY <1>4, <1>5, <1>6

\* A commit that is refused is refused with a reason that is true; that the car is
\* on the policy is none of them.
LEMMA CommitRefusalTrue ==
  ASSUME IInv, lock = Nobody, NEW call \in Call, call.op = "commit",
         commit_answer(call.proposal_id) # None,
         proposals[call.proposal_id].state # "applied"
  PROVE  commit_answer(call.proposal_id)[1] \in Atomic!TrueRefusals(call)
<1> DEFINE id == call.proposal_id
           change == proposals[id].change
           p == change.policy_number
<1>1. TypeOK /\ InsideTheLock /\ id \in ProposalIds
  BY CallForms DEF IInv
<1>2. \A x : Some(x) # None /\ Some(x)[1] = x
  BY DEF Some, None
<1>3. CASE proposals[id].state = "absent"
  <2>1. KnownOffers[id] = Atomic!Unknown
    BY <1>1, <1>3, OfferForms DEF KnownOffers, Atomic!Unknown
  <2>2. "proposal_not_found" \in Atomic!TrueCodes(call)
    BY <2>1, SameValues DEF Atomic!TrueCodes, RejectionCode, KnownOffers
  <2> QED
    BY <1>2, <1>3, <2>2, TrueCodeRefuses DEF commit_answer
<1>4. CASE proposals[id].state = "superseded"
  <2>1. KnownOffers[id].fate = "withdrawn"
    BY <1>1, <1>4, OfferForms, NobodyReplaces DEF KnownOffers
  <2>2. "proposal_superseded" \in Atomic!TrueCodes(call)
    BY <2>1, SameValues DEF Atomic!TrueCodes, RejectionCode, KnownOffers
  <2> QED
    BY <1>2, <1>4, <2>2, TrueCodeRefuses DEF commit_answer
<1>5. CASE proposals[id].state = "pending"
  <2>1. Atomic!Subject(call) = {change}
    BY <1>1, <1>5, CommitSubject
  <2>2. Atomic!About(call) = {p}
    BY <2>1 DEF Atomic!About
  <2>3. commit_answer(id) = apply_refusal(change)
    BY <1>5 DEF commit_answer
  <2>4. CASE p \notin OnFile
    <3>1. "policy_not_found" \in Atomic!TrueCodes(call)
      BY <2>2, <2>4, SameValues DEF Atomic!TrueCodes, RejectionCode
    <3> QED
      BY <1>2, <2>3, <2>4, <3>1, TrueCodeRefuses DEF apply_refusal
  <2>5. CASE p \in OnFile /\ policies[p].status # "active"
    <3>1. policies[p].status = "cancelled"
      BY <1>1, <2>5 DEF TypeOK, Policy, PolicyStatus
    <3>2. "policy_cancelled" \in Atomic!TrueCodes(call)
      BY <2>2, <2>5, <3>1, SameValues DEF Atomic!TrueCodes, RejectionCode
    <3>3. commit_answer(id)[1] = rejected("policy_cancelled")
      BY <1>2, <2>3, <2>5 DEF apply_refusal, not_amendable
    <3> QED
      BY <3>2, <3>3, TrueCodeRefuses
  <2>6. CASE p \in OnFile /\ policies[p].status = "active"
    <3>1. ~ on_policy(policies[p], change.vin)
      BY <1>1, <1>5, <2>6 DEF IInv, PendingNotCovered, IsPendingFor
    <3>2. change.effective_date < calendar_date(now)
      BY <2>3, <2>6, <3>1 DEF apply_refusal, not_amendable
    <3>3. commit_answer(id)[1] = rejected_past(calendar_date(now))
      BY <1>2, <2>3, <2>6, <3>2 DEF apply_refusal, not_amendable
    <3> QED
      BY <2>1, <3>2, <3>3, PastRefuses
  <2> QED
    BY <2>4, <2>5, <2>6
<1> QED
  BY <1>1, <1>3, <1>4, <1>5, OfferForms

-----------------------------------------------------------------------------
(* Each step is one of AtomicServicing, or none.                           *)

AtomicStep == [Atomic!AtomicNext]_(Atomic!atomicVars)

\* A step that a client cannot see is a stutter.
LEMMA AtomicStutter ==
  ASSUME policies' = policies, now' = now, KnownOffers' = KnownOffers, KnownCalls' = KnownCalls
  PROVE  AtomicStep
BY DEF AtomicStep, Atomic!atomicVars, KnownOffers, KnownCalls

\* The two specifications begin alike.
LEMMA AtomicStart == Init => Atomic!AtomicInit
<1> SUFFICES ASSUME Init PROVE Atomic!AtomicInit
  OBVIOUS
<1>1. \A id \in ProposalIds : KnownOffer(id) = [fate |-> "unknown"]
  BY DEF Init, Absent, KnownOffer
<1>2. \A w \in Workers : KnownCall(w) = [step |-> "idle"]
  BY DEF Init, Idle, KnownCall
<1> QED
  BY <1>1, <1>2 DEF Init, Atomic!AtomicInit, Atomic!Unknown

\* A call that a thread takes has arrived.
LEMMA AtomicReceive ==
  ASSUME IInv, NEW w \in Workers, NEW call \in Call, Receive(w, call)
  PROVE  AtomicStep
<1>1. TypeOK
  BY DEF IInv
<1> DEFINE t == [step |-> "called", call |-> call]
<1>2. /\ task[w] = Idle /\ task' = [task EXCEPT ![w] = t]
      /\ proposals' = proposals /\ policies' = policies /\ now' = now
  BY DEF Receive, store
<1>3. task[w].step = "idle" /\ t.step = "called"
  BY <1>2 DEF Idle
<1>4. KnownOffers' = KnownOffers
  BY <1>1, <1>2, <1>3, ReplacedKept, OffersKept
<1>5. KnownCalls' = [KnownCalls EXCEPT ![w] = t]
  BY <1>1, <1>2, CallsMoved
<1>6. KnownCalls[w].step = "idle"
  BY <1>3 DEF KnownCalls, KnownCall
<1>7. Atomic!Ask(w, call)
  BY <1>2, <1>4, <1>5, <1>6 DEF Atomic!Ask, KnownCalls, KnownOffers
<1> QED
  BY <1>7 DEF AtomicStep, Atomic!AtomicNext

\* An answer that is sent leaves the call.
LEMMA AtomicRespond ==
  ASSUME IInv, NEW w \in Workers, Respond(w)
  PROVE  AtomicStep
<1>1. TypeOK
  BY DEF IInv
<1>2. /\ task[w].step = "returned" /\ task' = [task EXCEPT ![w] = Idle]
      /\ proposals' = proposals /\ policies' = policies /\ now' = now
  BY DEF Respond, store
<1>3. Idle.step # "proposing" /\ Idle = [step |-> "idle"]
  BY DEF Idle
<1>4. KnownOffers' = KnownOffers
  BY <1>1, <1>2, <1>3, ReplacedKept, OffersKept
<1>5. KnownCalls' = [KnownCalls EXCEPT ![w] = Idle]
  BY <1>1, <1>2, CallsMoved DEF Idle
<1>6. KnownCalls[w].step = "returned"
  BY <1>2 DEF KnownCalls, KnownCall
<1>7. Atomic!Hear(w)
  BY <1>2, <1>3, <1>4, <1>5, <1>6 DEF Atomic!Hear, KnownCalls, KnownOffers
<1> QED
  BY <1>7 DEF AtomicStep, Atomic!AtomicNext

\* A refusal that is true is a step of AtomicServicing.
LEMMA AtomicRefusal ==
  ASSUME TypeOK, NEW w \in Workers, task[w].step = "called",
         NEW result \in Atomic!TrueRefusals(task[w].call), Answer(w, result)
  PROVE  AtomicStep
<1>1. KnownOffers' = KnownOffers /\ policies' = policies /\ now' = now /\ Atomic!Get(w, result)
  BY AnswerKeepsOffers
<1>2. KnownCalls[w].step = "called" /\ KnownCalls[w].call = task[w].call
  BY ClientWaits
<1>3. Atomic!Refuse(w)
  BY <1>1, <1>2 DEF Atomic!Refuse, KnownCalls, KnownOffers
<1> QED
  BY <1>3 DEF AtomicStep, Atomic!AtomicNext

\* A lookup takes effect in its only step.
LEMMA AtomicLookup ==
  ASSUME IInv, NEW w \in Workers, Lookup(w)
  PROVE  AtomicStep
<1> DEFINE p == task[w].call.policy_number
<1>1. /\ TypeOK /\ KeysMatch /\ task[w].step = "called" /\ task[w].call.op = "lookup"
      /\ Answer(w, lookup(p))
  BY DEF IInv, Lookup, Enters
<1>2. task[w].call \in Call
  BY <1>1, TaskForms DEF TypeOK
<1>3. CASE ~ (p \in OnFile /\ policies[p].status = "active")
  BY <1>1, <1>2, <1>3, LookupRefusalTrue, AtomicRefusal
<1>4. CASE p \in OnFile /\ policies[p].status = "active"
  <2> DEFINE found == [kind |-> "policy_found", policy_number |-> p,
                       vehicles |-> policies[p].vehicles,
                       earliest_effective_date |-> calendar_date(now)]
  <2>1. lookup(p) = found
    BY <1>1, <1>4 DEF lookup, KeysMatch
  <2>2. /\ KnownOffers' = KnownOffers /\ policies' = policies /\ now' = now
        /\ Atomic!Get(w, found)
    BY <1>1, <2>1, AnswerKeepsOffers
  <2>3. KnownCalls[w].step = "called" /\ KnownCalls[w].call = task[w].call
    BY <1>1, ClientWaits
  <2>4. Atomic!Look(w)
    BY <1>1, <1>4, <2>2, <2>3, SameValues
       DEF Atomic!Look, Atomic!Asking, KnownCalls, KnownOffers
  <2> QED
    BY <2>4 DEF AtomicStep, Atomic!AtomicNext
<1> QED
  BY <1>3, <1>4

\* So does a proposal that is refused, for a reason that is true.
LEMMA AtomicProposeRefused ==
  ASSUME IInv, NEW w \in Workers, ProposeRefused(w)
  PROVE  AtomicStep
<1> DEFINE call == task[w].call
           refusal == propose_refusal(call.policy_number, call.vin_raw, call.date_raw)
<1>1. /\ TypeOK /\ task[w].step = "called" /\ call.op = "propose"
      /\ refusal # None /\ Answer(w, refusal[1])
  BY DEF IInv, ProposeRefused, Enters
<1>2. call \in Call
  BY <1>1, TaskForms DEF TypeOK
<1>3. refusal[1] \in Atomic!TrueRefusals(call)
  BY <1>1, <1>2, ProposeRefusalTrue
<1> HIDE DEF refusal
<1> QED
  BY <1>1, <1>3, AtomicRefusal

\* So does a commit that changes nothing.
LEMMA AtomicCommitAnswered ==
  ASSUME IInv, NEW w \in Workers, CommitAnswered(w)
  PROVE  AtomicStep
<1> DEFINE id == task[w].call.proposal_id
           answer == commit_answer(id)
<1>1. /\ TypeOK /\ lock = Nobody /\ task[w].step = "called" /\ task[w].call.op = "commit"
      /\ answer # None /\ Answer(w, answer[1])
  BY DEF IInv, CommitAnswered, Enters
<1>2. task[w].call \in Call /\ id \in ProposalIds
  BY <1>1, TaskForms, CallForms DEF TypeOK
<1>3. CASE proposals[id].state # "applied"
  <2>1. answer[1] \in Atomic!TrueRefusals(task[w].call)
    BY <1>1, <1>2, <1>3, CommitRefusalTrue
  <2> HIDE DEF answer
  <2> QED
    BY <1>1, <2>1, AtomicRefusal
<1>4. CASE proposals[id].state = "applied"
  <2>1. answer[1] = proposals[id].result
    BY <1>4 DEF commit_answer, Some
  <2>2. KnownOffers[id] = [fate |-> "taken", answer |-> proposals[id].result]
    BY <1>1, <1>2, <1>4, OfferForms DEF KnownOffers
  <2>3. /\ KnownOffers' = KnownOffers /\ policies' = policies /\ now' = now
        /\ Atomic!Get(w, proposals[id].result)
    BY <1>1, <2>1, AnswerKeepsOffers
  <2>4. KnownCalls[w].step = "called" /\ KnownCalls[w].call = task[w].call
    BY <1>1, ClientWaits
  <2>5. Atomic!HearAgain(w)
    BY <1>1, <2>2, <2>3, <2>4
       DEF Atomic!HearAgain, Atomic!Asking, KnownCalls, KnownOffers
  <2> QED
    BY <2>5 DEF AtomicStep, Atomic!AtomicNext
<1> QED
  BY <1>3, <1>4

\* Superseding shows to no client yet.
LEMMA AtomicProposeChecked ==
  ASSUME IInv, NEW w \in Workers, ProposeChecked(w)
  PROVE  AtomicStep
<1> DEFINE p == task[w].call.policy_number
<1>1. TypeOK /\ InsideTheLock /\ lock = Nobody /\ task[w].step = "called"
  BY ProposeCheckedFacts DEF IInv
<1>2. PICK change \in Change :
        task' = [task EXCEPT ![w] = [step |-> "proposing", call |-> task[w].call,
                                     change |-> change, prior |-> PriorOf(p)]]
  BY <1>1, ProposeCheckedFacts
<1>3. KnownCalls' = KnownCalls
  <2> DEFINE t == [step |-> "proposing", call |-> task[w].call,
                   change |-> change, prior |-> PriorOf(p)]
  <2> HIDE DEF t
  <2>1. KnownCalls' = [KnownCalls EXCEPT ![w] = [step |-> "called", call |-> task[w].call]]
    <3>1. t.step = "proposing" /\ t.call = task[w].call /\ task' = [task EXCEPT ![w] = t]
      BY <1>2 DEF t
    <3> QED
      BY <1>1, <3>1, CallsMoved
  <2>2. KnownCalls[w] = [step |-> "called", call |-> task[w].call]
    <3>1. task[w] = [step |-> "called", call |-> task[w].call]
      BY <1>1, CalledForm DEF TypeOK
    <3> QED
      BY <1>1, <3>1 DEF KnownCalls, KnownCall
  <2> QED
    BY <2>1, <2>2 DEF KnownCalls
<1>4. \A id : BeingReplaced(id)' <=> id \in PriorOf(p)
  <2>1. \A v \in Workers : v # w => task'[v] = task[v] /\ task[v].step # "proposing"
    BY <1>1, <1>2, WorkersAssumption DEF InsideTheLock, TypeOK
  <2>2. task'[w].step = "proposing" /\ task'[w].prior = PriorOf(p)
    BY <1>1, <1>2 DEF TypeOK
  <2> QED
    BY <2>1, <2>2 DEF BeingReplaced
<1>5. ASSUME NEW id \in ProposalIds
      PROVE  KnownOffer(id)' = KnownOffer(id)
  <2>1. ~ BeingReplaced(id)
    BY <1>1, NobodyReplaces
  <2>2. CASE id \in PriorOf(p)
    <3>1. proposals[id].state = "pending" /\ proposals'[id] = superseded(proposals[id])
      BY <1>1, <2>2, ProposeCheckedFacts DEF PriorOf, IsPendingFor
    <3> QED
      BY <1>4, <2>2, <3>1 DEF KnownOffer, superseded
  <2>3. CASE id \notin PriorOf(p)
    <3>1. proposals'[id] = proposals[id]
      BY <1>1, <2>3, ProposeCheckedFacts DEF PriorOf
    <3> QED
      BY <1>4, <2>1, <2>3, <3>1, OfferKept
  <2> QED
    BY <2>2, <2>3
<1>6. policies' = policies /\ now' = now
  BY <1>1, ProposeCheckedFacts
<1> QED
  BY <1>3, <1>5, <1>6, AtomicStutter DEF KnownOffers

\* Nor do the checks of a commit.
LEMMA AtomicCommitChecked ==
  ASSUME IInv, NEW w \in Workers, CommitChecked(w)
  PROVE  AtomicStep
<1>1. TypeOK /\ task[w].step = "called" /\ task[w] \in Task
  BY CommitCheckedFacts DEF IInv, TypeOK
<1> DEFINE pending == proposals[task[w].call.proposal_id]
           t == [step |-> "applying", call |-> task[w].call, pending |-> pending,
                 policy |-> policies[pending.change.policy_number]]
<1>2. /\ task' = [task EXCEPT ![w] = t]
      /\ proposals' = proposals /\ policies' = policies /\ now' = now
  BY DEF CommitChecked, store
<1>3. t.step = "applying" /\ t.call = task[w].call
  OBVIOUS
<1> HIDE DEF t
<1>4. KnownOffers' = KnownOffers
  BY <1>1, <1>2, <1>3, ReplacedKept, OffersKept
<1>5. KnownCalls' = KnownCalls
  <2>1. KnownCalls' = [KnownCalls EXCEPT ![w] = [step |-> "called", call |-> task[w].call]]
    BY <1>1, <1>2, <1>3, CallsMoved
  <2>2. KnownCalls[w] = [step |-> "called", call |-> task[w].call]
    BY <1>1, CalledForm DEF KnownCalls, KnownCall
  <2> QED
    BY <2>1, <2>2 DEF KnownCalls
<1> QED
  BY <1>2, <1>4, <1>5, AtomicStutter

\* A change that a thread inside the lock is about to write can be accepted.
LEMMA HeldAcceptable ==
  ASSUME InsideTheLock, NEW w \in Workers, NEW change,
         \/ task[w].step = "proposing" /\ change = task[w].change
         \/ task[w].step = "applying" /\ change = task[w].pending.change,
         HeldFromCall
  PROVE  Atomic!Acceptable(change)
<1>1. /\ change.policy_number \in OnFile
      /\ policies[change.policy_number].status = "active"
      /\ ~ on_policy(policies[change.policy_number], change.vin)
  BY DEF InsideTheLock
<1>2. \E reading \in Instants : change.effective_date >= calendar_date(reading)
  BY DEF HeldFromCall
<1> QED
  BY <1>1, <1>2, SameValues DEF Atomic!Acceptable, Atomic!Covers, on_policy

\* What is known of the offers while thread w proposes, and when it is done.
LEMMA OffersOfProposing ==
  ASSUME IInv, HeldFromCall, NEW w \in Workers, task[w].step = "proposing",
         NEW result, task' = [task EXCEPT ![w] = Returned(task[w].call, result)],
         NEW id \in ProposalIds, proposals'[id] = proposals[id]
  PROVE  KnownOffer(id)' = Atomic!Withdrawn(task[w].change.policy_number)[id]
<1> DEFINE p == task[w].change.policy_number
<1>1. /\ TypeOK /\ InsideTheLock /\ lock = w
      /\ \A other \in ProposalIds : ~ IsPendingFor(other, p)
  BY DEF IInv, InsideTheLock
<1>2. \A other \in task[w].prior :
        proposals[other].state = "superseded" /\ proposals[other].change.policy_number = p
  BY DEF HeldFromCall
<1>3. BeingReplaced(id) <=> id \in task[w].prior
  BY <1>1, OnlyHolderReplaces
<1>4. ~ BeingReplaced(id)'
  <2>1. \A v \in Workers : task'[v] = IF v = w THEN Returned(task[w].call, result) ELSE task[v]
    BY <1>1 DEF TypeOK
  <2>2. \A v \in Workers : v # w => task[v].step # "proposing"
    BY <1>1 DEF InsideTheLock
  <2> QED
    BY <2>1, <2>2 DEF BeingReplaced, Returned
<1>5. id \in Atomic!WaitingOn(p) <=>
        KnownOffers[id].fate = "waiting" /\ KnownOffers[id].change.policy_number = p
  BY DEF Atomic!WaitingOn, KnownOffers
<1>6. Atomic!Withdrawn(p)[id] =
        IF id \in Atomic!WaitingOn(p) THEN Atomic!Offer("withdrawn", KnownOffers[id].change)
                                      ELSE KnownOffers[id]
  BY DEF Atomic!Withdrawn, KnownOffers
<1>7. KnownOffers[id] = KnownOffer(id)
  BY DEF KnownOffers
<1>8. CASE id \in task[w].prior
  <2>1. KnownOffer(id) = [fate |-> "waiting", change |-> proposals[id].change]
    BY <1>1, <1>2, <1>3, <1>8, OfferForms
  <2>2. KnownOffer(id)' = [fate |-> "withdrawn", change |-> proposals[id].change]
    BY <1>2, <1>4, <1>8 DEF KnownOffer
  <2> QED
    BY <1>2, <1>5, <1>6, <1>7, <1>8, <2>1, <2>2 DEF Atomic!Offer
<1>9. CASE id \notin task[w].prior
  <2>1. ~ BeingReplaced(id)
    BY <1>3, <1>9
  <2>2. id \notin Atomic!WaitingOn(p)
    BY <1>1, <1>5, <1>7, <2>1, OfferForms DEF IsPendingFor
  <2>3. KnownOffer(id)' = KnownOffer(id)
    BY <1>4, <2>1, OfferKept
  <2> QED
    BY <1>6, <1>7, <2>2, <2>3
<1> QED
  BY <1>8, <1>9

\* Storing the new proposal is the moment at which a propose takes effect.
LEMMA AtomicProposeStored ==
  ASSUME IInv, HeldFromCall, NEW w \in Workers, ProposeStored(w)
  PROVE  AtomicStep
<1> DEFINE call == task[w].call
           change == task[w].change
           p == change.policy_number
<1>1. TypeOK /\ InsideTheLock /\ task[w].step = "proposing" /\ task[w] \in Task
  BY DEF IInv, TypeOK, ProposeStored
<1>2. call \in Call /\ change \in Change
  BY <1>1, TaskForms
<1>3. PICK id \in UnusedIds :
        /\ proposals' = [proposals EXCEPT ![id] =
                           [state |-> "pending", proposal_id |-> id,
                            change |-> change, readback |-> format_readback(change)]]
        /\ task' = [task EXCEPT ![w] = Returned(call,
                      [kind |-> "confirmation_ready", proposal_id |-> id,
                       change |-> change, readback |-> format_readback(change)])]
  BY DEF ProposeStored
<1> DEFINE result == [kind |-> "confirmation_ready", proposal_id |-> id,
                      change |-> change, readback |-> format_readback(change)]
<1>4. policies' = policies /\ now' = now
  BY DEF ProposeStored
<1>5. id \in ProposalIds /\ proposals[id].state = "absent"
  BY DEF UnusedIds
<1>6. id \in Atomic!FreshIds
  BY <1>1, <1>5, OfferForms DEF Atomic!FreshIds, Atomic!Unknown
<1>7. change \in Atomic!Subject(call)
  <2>1. /\ call.op = "propose"
        /\ Some(change.vin) = parse_vin(call.vin_raw)
        /\ Some(change.effective_date) = parse_effective_date(call.date_raw)
        /\ p = call.policy_number
    BY <1>1 DEF HeldFromCall
  <2>2. change.vin \in VinShaped /\ change.effective_date \in Days
        /\ change = [policy_number |-> p, vin |-> change.vin,
                     effective_date |-> change.effective_date]
    BY <1>2 DEF Change
  <2> QED
    BY <1>2, <2>1, <2>2, ProposeSubject
<1>8. Atomic!Acceptable(change)
  BY <1>1, HeldAcceptable
<1>9. KnownOffers' = [Atomic!Withdrawn(p) EXCEPT ![id] = Atomic!Offer("waiting", change)]
  <2>1. KnownOffer(id)' = Atomic!Offer("waiting", change)
    BY <1>1, <1>3, <1>5 DEF TypeOK, KnownOffer, Atomic!Offer
  <2>2. ASSUME NEW other \in ProposalIds, other # id
        PROVE  KnownOffer(other)' = Atomic!Withdrawn(p)[other]
    <3>1. proposals'[other] = proposals[other]
      BY <1>1, <1>3, <2>2 DEF TypeOK
    <3> QED
      BY <1>1, <1>3, <3>1, OffersOfProposing
  <2>3. Atomic!Withdrawn(p) = [other \in ProposalIds |-> Atomic!Withdrawn(p)[other]]
    BY DEF Atomic!Withdrawn
  <2> QED
    BY <2>1, <2>2, <2>3 DEF KnownOffers
<1>10. Atomic!Get(w, result)
  BY <1>1, <1>3, ClientGets
<1>11. KnownCalls[w].step = "called" /\ KnownCalls[w].call = call
  BY <1>1, ClientWaits
<1>12. call.op = "propose"
  BY <1>1 DEF HeldFromCall
<1>13. Atomic!ReadOut(w)
  BY <1>4, <1>6, <1>7, <1>8, <1>9, <1>10, <1>11, <1>12, SameValues
     DEF Atomic!ReadOut, Atomic!Asking, KnownCalls, KnownOffers
<1> QED
  BY <1>13 DEF AtomicStep, Atomic!AtomicNext

\* A propose whose id source raises withdraws the prior proposal all the same.
LEMMA AtomicProposeRaised ==
  ASSUME IInv, HeldFromCall, NEW w \in Workers, ProposeRaised(w)
  PROVE  AtomicStep
<1> DEFINE call == task[w].call
           change == task[w].change
           p == change.policy_number
<1>1. TypeOK /\ InsideTheLock /\ task[w].step = "proposing" /\ task[w] \in Task
  BY DEF IInv, TypeOK, ProposeRaised
<1>2. call \in Call /\ change \in Change
  BY <1>1, TaskForms
<1>3. /\ task' = [task EXCEPT ![w] = Returned(call, ServerError)]
      /\ proposals' = proposals /\ policies' = policies /\ now' = now
  BY DEF ProposeRaised, store
<1>4. Atomic!FreshIds = {}
  <2>1. \A id \in ProposalIds : KnownOffer(id).fate # "unknown"
    BY <1>1, OfferForms DEF ProposeRaised, UnusedIds
  <2> QED
    BY <2>1 DEF Atomic!FreshIds, Atomic!Unknown
<1>5. change \in Atomic!Subject(call)
  <2>1. /\ call.op = "propose"
        /\ Some(change.vin) = parse_vin(call.vin_raw)
        /\ Some(change.effective_date) = parse_effective_date(call.date_raw)
        /\ p = call.policy_number
    BY <1>1 DEF HeldFromCall
  <2>2. change.vin \in VinShaped /\ change.effective_date \in Days
        /\ change = [policy_number |-> p, vin |-> change.vin,
                     effective_date |-> change.effective_date]
    BY <1>2 DEF Change
  <2> QED
    BY <1>2, <2>1, <2>2, ProposeSubject
<1>6. Atomic!Acceptable(change)
  BY <1>1, HeldAcceptable
<1>7. KnownOffers' = Atomic!Withdrawn(p)
  <2>1. \A id \in ProposalIds : KnownOffer(id)' = Atomic!Withdrawn(p)[id]
    BY <1>1, <1>3, OffersOfProposing
  <2>2. Atomic!Withdrawn(p) = [id \in ProposalIds |-> Atomic!Withdrawn(p)[id]]
    BY DEF Atomic!Withdrawn
  <2> QED
    BY <2>1, <2>2 DEF KnownOffers
<1>8. Atomic!Get(w, ServerError)
  BY <1>1, <1>3, ClientGets
<1>9. KnownCalls[w].step = "called" /\ KnownCalls[w].call = call /\ call.op = "propose"
  BY <1>1, ClientWaits DEF HeldFromCall
<1>10. Atomic!NoIdLeft(w)
  BY <1>3, <1>4, <1>5, <1>6, <1>7, <1>8, <1>9
     DEF Atomic!NoIdLeft, Atomic!Asking, KnownCalls, KnownOffers, ServerError
<1> QED
  BY <1>10 DEF AtomicStep, Atomic!AtomicNext

\* A confirmation number is in use for the clients when it is for the store.
LEMMA FreshIsUnused == ASSUME TypeOK PROVE Atomic!FreshNumbers = UnusedConfirmations
<1>1. ASSUME NEW id \in ProposalIds
      PROVE  KnownOffer(id).fate = "taken"
               <=> proposals[id].state = "applied"
  BY OfferForms
<1>2. ASSUME NEW id \in ProposalIds, proposals[id].state = "applied"
      PROVE  KnownOffer(id).answer = proposals[id].result
  BY <1>2, OfferForms
<1> QED
  BY <1>1, <1>2 DEF Atomic!FreshNumbers, UnusedConfirmations, UsedConfirmations

\* The two ways to say that one field of one policy changes.
LEMMA OnePolicy ==
  ASSUME policies \in [OnFile -> Policy], NEW p \in OnFile, NEW vehicles, NEW status
  PROVE  /\ [policies EXCEPT ![p].vehicles = vehicles]
              = [policies EXCEPT ![p] = [policy_number |-> policies[p].policy_number,
                                         status |-> policies[p].status, vehicles |-> vehicles]]
         /\ [policies EXCEPT ![p].status = status]
              = [policies EXCEPT ![p] = [@ EXCEPT !.status = status]]
<1>1. policies[p] \in Policy
  OBVIOUS
<1>2. [policies EXCEPT ![p].vehicles = vehicles]
        = [policies EXCEPT ![p] = [policies[p] EXCEPT !.vehicles = vehicles]]
  OBVIOUS
<1> QED
  BY <1>1, <1>2, WithVehicles

\* Applying a change is the moment at which a commit takes effect.
LEMMA AtomicCommitStored ==
  ASSUME IInv, HeldFromCall, NEW w \in Workers, CommitStored(w)
  PROVE  AtomicStep
<1> DEFINE call == task[w].call
<1>1. TypeOK /\ InsideTheLock /\ KeysMatch /\ task[w].step = "applying" /\ task[w] \in Task
  BY DEF IInv, TypeOK, CommitStored
<1>2. call \in Call /\ call.op = "commit"
  BY <1>1, TaskForms DEF HeldFromCall
<1>3. PICK id \in ProposalIds : id = call.proposal_id
  BY <1>2, CallForms
<1>4. PICK pending \in PendingProposal : pending = task[w].pending
  BY <1>1, TaskForms
<1>5. PICK change \in Change : change = pending.change
  BY DEF PendingProposal
<1>6. PICK p \in OnFile : p = change.policy_number
  BY <1>1, <1>4, <1>5 DEF InsideTheLock
<1>7. /\ task[w].policy = policies[p] /\ pending.proposal_id = id
      /\ proposals[id] = pending /\ policies[p].policy_number = p
  BY <1>1, <1>3, <1>4, <1>5, <1>6 DEF InsideTheLock, KeysMatch
<1> DEFINE vehicle == [vin |-> change.vin, effective_date |-> change.effective_date]
<1>8. PICK number \in UnusedConfirmations : \E answer :
        /\ answer = [kind |-> "applied", proposal_id |-> id, confirmation_number |-> number,
                     change |-> change, applied_at |-> now]
        /\ proposals' = [proposals EXCEPT ![id] = [state |-> "applied", result |-> answer]]
        /\ task' = [task EXCEPT ![w] = Returned(call, answer)]
  BY <1>4, <1>5, <1>7 DEF CommitStored
<1>9. PICK answer :
        /\ answer = [kind |-> "applied", proposal_id |-> id, confirmation_number |-> number,
                     change |-> change, applied_at |-> now]
        /\ proposals' = [proposals EXCEPT ![id] = [state |-> "applied", result |-> answer]]
        /\ task' = [task EXCEPT ![w] = Returned(call, answer)]
  BY <1>8
<1>10. policies' = [policies EXCEPT ![p].vehicles = Append(@, vehicle)]
  <2>1. policies' = [policies EXCEPT ![task[w].policy.policy_number] =
              [policy_number |-> task[w].policy.policy_number,
               status |-> task[w].policy.status,
               vehicles |-> Append(task[w].policy.vehicles,
                              [vin |-> task[w].pending.change.vin,
                               effective_date |-> task[w].pending.change.effective_date])]]
    BY <1>1, CommitStoredFacts
  <2>2. policies' = [policies EXCEPT ![p] =
          [policy_number |-> policies[p].policy_number, status |-> policies[p].status,
           vehicles |-> Append(policies[p].vehicles, vehicle)]]
    BY <1>4, <1>5, <1>7, <2>1
  <2>3. policies \in [OnFile -> Policy]
    BY <1>1 DEF TypeOK
  <2> HIDE DEF vehicle
  <2> QED
    BY <2>2, <2>3, OnePolicy
<1>11. now' = now
  BY DEF CommitStored
<1>12. Atomic!Subject(call) = {change}
  <2>1. proposals[id].state = "pending"
    BY <1>7 DEF PendingProposal
  <2> QED
    BY <1>1, <1>2, <1>3, <1>5, <1>7, <2>1, CommitSubject
<1>13. Atomic!Acceptable(change)
  BY <1>1, <1>4, <1>5, HeldAcceptable
<1>14. number \in Atomic!FreshNumbers
  BY <1>1, FreshIsUnused
<1>15. KnownOffers' = [KnownOffers EXCEPT ![id] = Atomic!Taken(answer)]
  <2>1. KnownOffer(id)' = Atomic!Taken(answer)
    BY <1>1, <1>9 DEF TypeOK, KnownOffer, Atomic!Taken
  <2>2. ASSUME NEW other \in ProposalIds, other # id
        PROVE  KnownOffer(other)' = KnownOffer(other)
    <3>1. proposals'[other] = proposals[other]
      BY <1>1, <1>9, <2>2 DEF TypeOK
    <3>2. Returned(call, answer).step # "proposing"
      BY DEF Returned
    <3>3. BeingReplaced(other)' <=> BeingReplaced(other)
      BY <1>1, <1>9, <3>2, ReplacedKept
    <3> QED
      BY <3>1, <3>3, OfferKept
  <2> QED
    BY <2>1, <2>2 DEF KnownOffers
<1>16. Atomic!Get(w, answer)
  BY <1>1, <1>9, ClientGets
<1>17. KnownCalls[w].step = "called" /\ KnownCalls[w].call = call
  BY <1>1, ClientWaits
<1>18. Atomic!Take(w)
  BY <1>2, <1>3, <1>6, <1>9, <1>10, <1>11, <1>12, <1>13, <1>14, <1>15, <1>16, <1>17
     DEF Atomic!Take, Atomic!Asking, KnownCalls, KnownOffers
<1> QED
  BY <1>18 DEF AtomicStep, Atomic!AtomicNext

\* A commit whose number source raises changes nothing.
LEMMA AtomicCommitRaised ==
  ASSUME IInv, HeldFromCall, NEW w \in Workers, CommitRaised(w)
  PROVE  AtomicStep
<1> DEFINE call == task[w].call
           change == task[w].pending.change
           id == call.proposal_id
<1>1. TypeOK /\ InsideTheLock /\ task[w].step = "applying" /\ task[w] \in Task
  BY DEF IInv, TypeOK, CommitRaised
<1>2. /\ call \in Call /\ call.op = "commit" /\ id \in ProposalIds
      /\ task[w].pending \in PendingProposal
  BY <1>1, TaskForms, CallForms DEF HeldFromCall
<1>3. /\ task' = [task EXCEPT ![w] = Returned(call, ServerError)]
      /\ proposals' = proposals /\ policies' = policies /\ now' = now
  BY DEF CommitRaised, store
<1>4. Atomic!FreshNumbers = {}
  BY <1>1, FreshIsUnused DEF CommitRaised
<1>5. Atomic!Subject(call) = {change}
  <2>1. proposals[id] = task[w].pending /\ proposals[id].state = "pending"
    BY <1>1, <1>2 DEF InsideTheLock, PendingProposal
  <2> QED
    BY <1>1, <1>2, <2>1, CommitSubject
<1>6. Atomic!Acceptable(change)
  BY <1>1, HeldAcceptable
<1>7. KnownOffers' = KnownOffers
  <2>1. Returned(call, ServerError).step # "proposing"
    BY DEF Returned
  <2> QED
    BY <1>1, <1>3, <2>1, ReplacedKept, OffersKept
<1>8. Atomic!Get(w, ServerError)
  BY <1>1, <1>3, ClientGets
<1>9. KnownCalls[w].step = "called" /\ KnownCalls[w].call = call
  BY <1>1, ClientWaits
<1>10. Atomic!NoNumberLeft(w)
  BY <1>2, <1>3, <1>4, <1>5, <1>6, <1>7, <1>8, <1>9
     DEF Atomic!NoNumberLeft, Atomic!Asking, KnownCalls, KnownOffers, ServerError
<1> QED
  BY <1>10 DEF AtomicStep, Atomic!AtomicNext

\* The clock and the standings are the same for the clients.
LEMMA AtomicEnvironment == ASSUME IInv, Environment PROVE AtomicStep
<1>1. proposals' = proposals /\ task' = task
  BY DEF Environment, Tick, ReplaceStatus, store
<1>2. KnownOffers' = KnownOffers /\ KnownCalls' = KnownCalls
  BY <1>1, OffersKept DEF BeingReplaced, KnownCalls, KnownCall
<1>3. CASE Tick
  BY <1>2, <1>3 DEF Tick, store, AtomicStep, Atomic!AtomicNext, Atomic!Environs,
                    KnownCalls, KnownOffers
<1>4. ASSUME NEW p \in OnFile, NEW status \in PolicyStatus, ReplaceStatus(p, status)
      PROVE  AtomicStep
  <2>1. policies' = [policies EXCEPT ![p].status = status] /\ now' = now
    BY <1>4, OnePolicy DEF ReplaceStatus, IInv, TypeOK
  <2> QED
    BY <1>2, <2>1, SameValues DEF AtomicStep, Atomic!AtomicNext, Atomic!Environs,
                                  KnownCalls, KnownOffers
<1> QED
  BY <1>3, <1>4 DEF Environment

\* Every step is a step of AtomicServicing, or a stutter.
LEMMA AtomicMoves == IInv /\ HeldFromCall /\ [Next]_vars => AtomicStep
<1> SUFFICES ASSUME IInv, HeldFromCall, [Next]_vars PROVE AtomicStep
  OBVIOUS
<1>1. CASE UNCHANGED vars
  BY <1>1 DEF vars, AtomicStep, Atomic!atomicVars, KnownOffer, KnownCall, BeingReplaced
<1>2. ASSUME NEW w \in Workers, Run(w)
      PROVE  AtomicStep
  BY <1>2, AtomicLookup, AtomicProposeRefused, AtomicProposeChecked, AtomicProposeStored,
     AtomicProposeRaised, AtomicCommitAnswered, AtomicCommitChecked, AtomicCommitStored,
     AtomicCommitRaised DEF Run
<1> QED
  BY <1>1, <1>2, AtomicReceive, AtomicRespond, AtomicEnvironment DEF Next

\* Whatever calls overlap, they answer and act as if they came one after the
\* other, each at one moment between its arrival and its answer.
THEOREM Linearizable == Spec => CallsAreAtomic
BY AtomicStart, AtomicMoves, Inductive, WritesOwnCall, PTL
   DEF Spec, CallsAreAtomic, Atomic!AtomicSpec, AtomicStep
=============================================================================
