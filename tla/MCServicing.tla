----------------------------- MODULE MCServicing -----------------------------
(***************************************************************************)
(* Small instances of Servicing for TLC.                                   *)
(***************************************************************************)
EXTENDS Servicing, FixtureFile, TLC

CONSTANTS
  POL1001, POL3003, Unfiled,  \* policies on file, and a number that is not
  HONDA, honda, FORD, garbled, \* two VINs, one of them in two cases, and no VIN
  day0, day1, compact, month13, \* two dates, a YYYYMMDD text, a date that is none
  w1, w2

\* str.upper makes the two spellings of the first VIN one.
MCUpper == [v \in RawVins |-> IF v = honda THEN HONDA ELSE v]

MCVinShaped == RawVins \cap {HONDA, FORD}

MCDateShaped == RawDates \cap {day0, day1, month13}

\* compact names day 1 as well, in a shape the code does not take.
MCCalendarDay ==
  [d \in RawDates \cap {day0, day1, compact} |-> IF d = day0 THEN 0 ELSE 1]

\* Readings 0 and 1 are of the first New York day, 2 of the next.
MCNewYorkDay == [t \in Instants |-> IF t < 2 THEN 0 ELSE 1]

\* The fixture file: active policies without vehicles.
MCFixture ==
  [p \in OnFile |-> [policy_number |-> p, status |-> "active", vehicles |-> << >>]]

Listing(p, status, vehicles) ==
  [keyed |-> TRUE, policy_number |-> p, status |-> status, vehicles |-> vehicles]

\* A fixture file with a vehicle and a cancelled policy; the first entry of POL1001
\* is overwritten by the last.
MCFixtureCovered ==
  loaded(<<Listing(POL1001, "cancelled", << >>), Listing(POL3003, "cancelled", << >>),
           Listing(POL1001, "active", <<[vin |-> FORD, effective_date |-> day0]>>)>>)

Interchangeable ==
  Permutations(Workers) \cup Permutations(ProposalIds) \cup Permutations(ConfirmationNumbers)
=============================================================================
