----------------------------- MODULE MCToolCalls -----------------------------
(***************************************************************************)
(* Small instances of ToolCalls for TLC.                                   *)
(***************************************************************************)
EXTENDS ToolCalls, TLC

CONSTANTS POL1001, HONDA, FORD, garbled, day1

MCUpper == [v \in RawVins |-> v]
MCVinShaped == RawVins \ {garbled}
MCCalendarDay == [d \in RawDates |-> 1]
MCNewYorkDay == [t \in Instants |-> t]
MCFixture ==
  [p \in OnFile |-> [policy_number |-> p, status |-> "active", vehicles |-> << >>]]

\* The parameters each tool declares, with the id the service adds.
MCDeclared ==
  {{"policy_number", "tool_call_id"},
   {"policy_number", "vin", "effective_date", "tool_call_id"},
   {"proposal_id", "tool_call_id"}}

\* A parameter too many or too few as well.
MCUndeclared ==
  MCDeclared \cup {{"policy_number", "vin"}, {"proposal_id", "confirmed"}, {}}

Interchangeable ==
  Permutations(Workers) \cup Permutations(VinShaped)
    \cup Permutations(ProposalIds) \cup Permutations(ConfirmationNumbers)
=============================================================================
