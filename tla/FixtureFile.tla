----------------------------- MODULE FixtureFile -----------------------------
(***************************************************************************)
(* The loading of fixtures/policies.json: Store.from_fixture_file.  A file  *)
(* is missing or no JSON (None), or lists policies: records of whether the  *)
(* entry has the keys and kinds it needs, a number, a status and the        *)
(* vehicles, as texts.                                                      *)
(***************************************************************************)
EXTENDS Domain, Sequences, FiniteSetsExt

\* What an entry or a vehicle of one raises: ValueError, KeyError and TypeError
\* are one kind, "refused"; a VIN that is no text has no upper.  The date is not
\* looked at before the VIN.
vehicle_fault(item) ==
  IF item.vin \notin RawVins THEN Some("AttributeError")
  ELSE IF parse_vin(item.vin) = None THEN Some("refused")
  ELSE IF item.effective_date \notin RawDates THEN Some("refused")
  ELSE IF parse_effective_date(item.effective_date) = None THEN Some("refused")
  ELSE None

\* The first fault of a list decides.
First(faults) ==
  LET found == {i \in DOMAIN faults : faults[i] # None}
  IN IF found = {} THEN None ELSE faults[Min(found)]

\* The vehicles are gone through before the number and the status are looked up.  An
\* entry that does not list vehicles is not keyed, and has none here.
policy_fault(raw) ==
  LET vehicles == First([i \in DOMAIN raw.vehicles |-> vehicle_fault(raw.vehicles[i])])
  IN IF vehicles # None THEN vehicles
     ELSE IF raw.keyed /\ raw.status \in PolicyStatus THEN None
     ELSE Some("refused")

NumbersIn(list) == {list[i].policy_number : i \in DOMAIN list}

\* What the loading raises when the file must list the expected numbers, if it does.
fixture_fault(file, expected) ==
  IF file = None THEN Some("refused")
  ELSE LET fault == First([i \in DOMAIN file[1] |-> policy_fault(file[1][i])])
       IN IF fault = None /\ NumbersIn(file[1]) # expected THEN Some("refused") ELSE fault

\* The dictionary of policies: the last entry of a number stays.
loaded(list) ==
  [p \in NumbersIn(list) |->
     LET raw == list[Max({i \in DOMAIN list : list[i].policy_number = p})]
         vehicle(item) ==
           [vin |-> parse_vin(item.vin)[1],
            effective_date |-> parse_effective_date(item.effective_date)[1]]
     IN [policy_number |-> p, status |-> raw.status,
         vehicles |-> [i \in DOMAIN raw.vehicles |-> vehicle(raw.vehicles[i])]]]
=============================================================================
