--------------------------- MODULE AtomicServicing ---------------------------
(***************************************************************************)
(* The servicing API as its clients may think of it: every call takes       *)
(* effect at one moment between its arrival and its answer, and the answer  *)
(* is true at that moment.  Locks, the order of the checks, readbacks on    *)
(* file and the two dictionaries are left out.  An id source with nothing   *)
(* left is not: a client can tell, for its proposal fails and withdraws the *)
(* one before it all the same.                                              *)
(***************************************************************************)
EXTENDS Domain, Sequences

CONSTANTS
  OnFile, Fixture,      \* the policies the API opens with
  Clients,              \* the clients, each with at most one call out
  Calls,                \* the calls they may make
  ProposalIds, ConfirmationNumbers

VARIABLES
  policies,  \* policies[p]: the policy on file
  offers,    \* offers[id]: what became of the change read out under that id
  now,       \* what the clock shows
  client     \* client[c]: idle, waiting for a call, or holding its answer

atomicVars == <<policies, offers, now, client>>

Unknown == [fate |-> "unknown"]

Offer(fate, change) == [fate |-> fate, change |-> change]

\* The offer a commit took, with the answer it was given.
Taken(answer) == [fate |-> "taken", answer |-> answer]

WaitingOn(p) ==
  {id \in ProposalIds : offers[id].fate = "waiting" /\ offers[id].change.policy_number = p}

\* The offers when those of policy p wait no more.
Withdrawn(p) ==
  [id \in ProposalIds |->
     IF id \in WaitingOn(p) THEN Offer("withdrawn", offers[id].change) ELSE offers[id]]

FreshIds == {id \in ProposalIds : offers[id] = Unknown}

FreshNumbers ==
  {n \in ConfirmationNumbers :
     \A id \in ProposalIds :
       offers[id].fate = "taken" => offers[id].answer.confirmation_number # n}

Covers(p, vin) == \E i \in DOMAIN policies[p].vehicles : policies[p].vehicles[i].vin = vin

\* The change a call would make, if its texts name one or its offer waits: a
\* set of at most one.
Subject(call) ==
  CASE call.op = "lookup" -> {}
    [] call.op = "propose" ->
         {[policy_number |-> call.policy_number, vin |-> vin[1], effective_date |-> day[1]] :
            vin \in {parse_vin(call.vin_raw)} \ {None},
            day \in {parse_effective_date(call.date_raw)} \ {None}}
    [] call.op = "commit" ->
         {offers[id].change : id \in {i \in {call.proposal_id} : offers[i].fate = "waiting"}}

\* The policies a call is about.
About(call) ==
  IF call.op = "commit" THEN {change.policy_number : change \in Subject(call)}
  ELSE {call.policy_number}

\* A change that nothing on file stands against, on a day that was not past at
\* some reading of the clock.
Acceptable(change) ==
  /\ change.policy_number \in OnFile
  /\ policies[change.policy_number].status = "active"
  /\ ~ Covers(change.policy_number, change.vin)
  /\ \E reading \in Instants : change.effective_date >= calendar_date(reading)

\* What may be said against a call at this moment, each reason being true.
TrueCodes(call) ==
  {code \in RejectionCode :
     \/ /\ code = "policy_not_found"
        /\ \E p \in About(call) : p \notin OnFile
     \/ /\ code = "policy_cancelled"
        /\ \E p \in About(call) \cap OnFile : policies[p].status = "cancelled"
     \/ /\ call.op = "propose"
        /\ \/ code = "invalid_vin" /\ parse_vin(call.vin_raw) = None
           \/ code = "invalid_effective_date" /\ parse_effective_date(call.date_raw) = None
           \/ /\ code = "vehicle_already_on_policy"
              /\ \E change \in Subject(call) :
                   change.policy_number \in OnFile /\ Covers(change.policy_number, change.vin)
     \/ /\ call.op = "commit"
        /\ \/ code = "proposal_not_found" /\ offers[call.proposal_id] = Unknown
           \/ code = "proposal_superseded" /\ offers[call.proposal_id].fate = "withdrawn"}

TrueRefusals(call) ==
  LET today == calendar_date(now)
  IN {rejected(code) : code \in TrueCodes(call)}
       \cup {rejected_past(today) :
               change \in {c \in Subject(call) : c.effective_date < today}}

-----------------------------------------------------------------------------
AtomicInit ==
  /\ policies = Fixture
  /\ offers = [id \in ProposalIds |-> Unknown]
  /\ now \in Instants
  /\ client = [c \in Clients |-> [step |-> "idle"]]

Ask(c, call) ==
  /\ client[c].step = "idle"
  /\ client' = [client EXCEPT ![c] = [step |-> "called", call |-> call]]
  /\ UNCHANGED <<policies, offers, now>>

\* The call of client c takes effect, and result is its answer.
Asking(c, op) == client[c].step = "called" /\ client[c].call.op = op

Get(c, result) ==
  client' = [client EXCEPT ![c] =
               [step |-> "returned", call |-> client[c].call, result |-> result]]

Refuse(c) ==
  /\ client[c].step = "called"
  /\ \E answer \in TrueRefusals(client[c].call) : Get(c, answer)
  /\ UNCHANGED <<policies, offers, now>>

Look(c) ==
  /\ Asking(c, "lookup")
  /\ LET p == client[c].call.policy_number
     IN /\ p \in OnFile /\ policies[p].status = "active"
        /\ Get(c, [kind |-> "policy_found", policy_number |-> p,
                   vehicles |-> policies[p].vehicles,
                   earliest_effective_date |-> calendar_date(now)])
  /\ UNCHANGED <<policies, offers, now>>

\* The change is read out, in place of the one that waited.
ReadOut(c) ==
  /\ Asking(c, "propose")
  /\ \E change \in Subject(client[c].call), id \in FreshIds :
       /\ Acceptable(change)
       /\ offers' = [Withdrawn(change.policy_number) EXCEPT ![id] = Offer("waiting", change)]
       /\ Get(c, [kind |-> "confirmation_ready", proposal_id |-> id, change |-> change,
                  readback |-> format_readback(change)])
  /\ UNCHANGED <<policies, now>>

NoIdLeft(c) ==
  /\ Asking(c, "propose")
  /\ FreshIds = {}
  /\ \E change \in Subject(client[c].call) :
       Acceptable(change) /\ offers' = Withdrawn(change.policy_number)
  /\ Get(c, [kind |-> "server_error"])
  /\ UNCHANGED <<policies, now>>

\* The waiting change is made, whole and once.
Take(c) ==
  /\ Asking(c, "commit")
  /\ LET id == client[c].call.proposal_id
     IN \E change \in Subject(client[c].call), number \in FreshNumbers :
          LET answer == [kind |-> "applied", proposal_id |-> id,
                         confirmation_number |-> number, change |-> change,
                         applied_at |-> now]
              vehicle == [vin |-> change.vin, effective_date |-> change.effective_date]
          IN /\ Acceptable(change)
             /\ policies' = [policies EXCEPT ![change.policy_number].vehicles =
                               Append(@, vehicle)]
             /\ offers' = [offers EXCEPT ![id] = Taken(answer)]
             /\ Get(c, answer)
  /\ UNCHANGED now

\* A commit that is repeated hears the same again.
HearAgain(c) ==
  /\ Asking(c, "commit")
  /\ LET offer == offers[client[c].call.proposal_id]
     IN offer.fate = "taken" /\ Get(c, offer.answer)
  /\ UNCHANGED <<policies, offers, now>>

NoNumberLeft(c) ==
  /\ Asking(c, "commit")
  /\ FreshNumbers = {}
  /\ \E change \in Subject(client[c].call) : Acceptable(change)
  /\ Get(c, [kind |-> "server_error"])
  /\ UNCHANGED <<policies, offers, now>>

Hear(c) ==
  /\ client[c].step = "returned"
  /\ client' = [client EXCEPT ![c] = [step |-> "idle"]]
  /\ UNCHANGED <<policies, offers, now>>

Environs ==
  /\ \/ now' \in Instants /\ UNCHANGED policies
     \/ /\ \E p \in OnFile, standing \in PolicyStatus :
             policies' = [policies EXCEPT ![p].status = standing]
        /\ UNCHANGED now
  /\ UNCHANGED <<offers, client>>

AtomicNext ==
  \/ \E c \in Clients :
       \/ \E call \in Calls : Ask(c, call)
       \/ Refuse(c) \/ Look(c) \/ ReadOut(c) \/ NoIdLeft(c)
       \/ Take(c) \/ HearAgain(c) \/ NoNumberLeft(c) \/ Hear(c)
  \/ Environs

AtomicSpec == AtomicInit /\ [][AtomicNext]_atomicVars
=============================================================================
