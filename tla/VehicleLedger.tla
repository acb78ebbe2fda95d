---------------------------- MODULE VehicleLedger ----------------------------
(***************************************************************************)
(* What the servicing API promises, without ids, threads, locks or texts.  *)
(* Each policy has a list of covered vehicles and at most one change that   *)
(* was read out and still waits for a yes.  A vehicle joins a policy only   *)
(* by the acceptance of that change, whole and once, and only while the     *)
(* policy is active and does not cover the vehicle yet.                     *)
(***************************************************************************)
EXTENDS Sequences

CONSTANTS
  OnFile,    \* the policy numbers on file
  Fixture,   \* the policies the ledger opens with
  Changes    \* the changes that may be read out

VARIABLES
  status,    \* status[p]: "active" or "cancelled"
  cover,     \* cover[p]: the sequence of vehicles on policy p
  offered    \* offered[p]: the changes of policy p that wait for a yes

ledgerVars == <<status, cover, offered>>

Covered(p, vin) == \E i \in DOMAIN cover[p] : cover[p][i].vin = vin

Init ==
  /\ status = [p \in OnFile |-> Fixture[p].status]
  /\ cover = [p \in OnFile |-> Fixture[p].vehicles]
  /\ offered = [p \in OnFile |-> {}]

\* A change is read out.  No other change of the policy waits.
Offer(p, change) ==
  /\ status[p] = "active"
  /\ ~ Covered(p, change.vin)
  /\ offered[p] = {}
  /\ change.policy_number = p
  /\ offered' = [offered EXCEPT ![p] = {change}]
  /\ UNCHANGED <<status, cover>>

\* The waiting change gives way to a later one.
Withdraw(p) ==
  /\ status[p] = "active"
  /\ offered[p] # {}
  /\ offered' = [offered EXCEPT ![p] = {}]
  /\ UNCHANGED <<status, cover>>

\* The waiting change is applied as it was read out, and waits no more.
Accept(p, change) ==
  /\ status[p] = "active"
  /\ ~ Covered(p, change.vin)
  /\ offered[p] = {change}
  /\ cover' = [cover EXCEPT ![p] =
                 Append(@, [vin |-> change.vin,
                            effective_date |-> change.effective_date])]
  /\ offered' = [offered EXCEPT ![p] = {}]
  /\ UNCHANGED status

\* The insurer changes the standing of a policy; its vehicles and the waiting
\* change stay.
Restate(p, standing) ==
  /\ status' = [status EXCEPT ![p] = standing]
  /\ UNCHANGED <<cover, offered>>

Next ==
  \E p \in OnFile :
    \/ Withdraw(p)
    \/ \E standing \in {"active", "cancelled"} : Restate(p, standing)
    \/ \E change \in Changes : Offer(p, change) \/ Accept(p, change)

Spec == Init /\ [][Next]_ledgerVars
=============================================================================
