------------------------------ MODULE MCApiSuite ------------------------------
(***************************************************************************)
(* The texts, the fixture file and the clock of the suite, for TLC.        *)
(***************************************************************************)
EXTENDS ApiSuite, FixtureFile

CONSTANTS w1, w2

MCPolicyNumbers == {"POL-1001", "POL-2002", "POL-3003", "POL-9999"}
MCOnFile == MCPolicyNumbers \ {"POL-9999"}

\* fixtures/policies.json.
MCFixture ==
  loaded([i \in 1 .. 3 |->
            [keyed |-> TRUE, policy_number |-> <<"POL-1001", "POL-2002", "POL-3003">>[i],
             status |-> <<"active", "cancelled", "active">>[i], vehicles |-> << >>]])

\* "spaced" is a VIN with a space in it.
MCRawVins == {CONTRACT_VIN, "1hgcm82633a004352", SECOND_VIN, "spaced"}
MCUpper ==
  [v \in MCRawVins |-> IF v = "1hgcm82633a004352" THEN CONTRACT_VIN ELSE v]
MCVinShaped == {CONTRACT_VIN, SECOND_VIN}

\* Four days of September 2026, and 2026/09/17.
MCCalendarDay ==
  [d \in {"09-16", "09-17", "09-18", "09-19"} |->
     CASE d = "09-16" -> 16 [] d = "09-17" -> 17 [] d = "09-18" -> 18 [] d = "09-19" -> 19]
MCRawDates == DOMAIN MCCalendarDay \cup {"slashed"}
MCDateShaped == DOMAIN MCCalendarDay

MCInstants == {FIXED_INSTANT, advance_days(FIXED_INSTANT)}
MCNewYorkDay == [t \in MCInstants |-> 17 + t]

MCProposalIds == {scripted_ids[n] : n \in DOMAIN scripted_ids} \cup {"vap_unknown"}
=============================================================================
