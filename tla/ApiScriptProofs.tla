----------------------------- MODULE ApiScriptProofs -----------------------------
(***************************************************************************)
(* The suite's cases hold: each answer that _run_cases writes down is the   *)
(* one the servicing code gives, on whichever thread the server runs the    *)
(* call.                                                                    *)
(***************************************************************************)
EXTENDS ApiSuiteProofs

-----------------------------------------------------------------------------
(* The forty steps of the script.                                          *)

\* List u is s and then t.
Joins(u, s, t) ==
  /\ Len(u) = Len(s) + Len(t)
  /\ \A i \in 1 .. Len(s) : u[i] = s[i]
  /\ \A i \in 1 .. Len(t) : u[Len(s) + i] = t[i]

\* Two lists, one after the other.
LEMMA Joined ==
  ASSUME NEW S, NEW s \in Seq(S), NEW t \in Seq(S)
  PROVE  s \o t \in Seq(S) /\ Joins(s \o t, s, t)
<1> DEFINE m == Len(s)
           n == Len(t)
<1>1. m \in Nat /\ n \in Nat
  BY LenProperties
<1>2. /\ s \o t \in Seq(S) /\ Len(s \o t) = m + n
      /\ \A i \in 1 .. m + n : (s \o t)[i] = IF i <= m THEN s[i] ELSE t[i - m]
  BY ConcatProperties
<1> HIDE DEF m, n
<1>3. ASSUME NEW i \in 1 .. m PROVE (s \o t)[i] = s[i]
  BY <1>1, <1>2, <1>3
<1>4. ASSUME NEW i \in 1 .. n PROVE (s \o t)[m + i] = t[i]
  <2>1. m + i \in 1 .. m + n /\ ~ (m + i <= m) /\ (m + i) - m = i
    BY <1>1
  <2>2. (s \o t)[m + i] = t[(m + i) - m]
    BY ONLY <1>2, <2>1
  <2> QED
    BY ONLY <2>1, <2>2
<1> QED
  BY <1>2, <1>3, <1>4 DEF Joins, m, n

\* The script begins with list s.
Begins(s) == \A i \in 1 .. Len(s) : script[i] = s[i]

\* List t comes in the script after list s, with which it begins.
After(s, t) == \A i \in 1 .. Len(t) : script[Len(s) + i] = t[i]

\* What the script begins with is two lists.
LEMMA Parted ==
  ASSUME NEW u, NEW s, NEW t, Len(s) \in Nat, Len(t) \in Nat, Joins(u, s, t), Begins(u)
  PROVE  Begins(s) /\ After(s, t)
<1> DEFINE k == Len(s)
           n == Len(t)
<1>1. ASSUME NEW i \in 1 .. k PROVE script[i] = s[i]
  <2>1. i \in 1 .. k + n /\ k \in Nat /\ n \in Nat
    OBVIOUS
  <2> QED
    BY <2>1 DEF Joins, Begins
<1>2. ASSUME NEW i \in 1 .. n PROVE script[k + i] = t[i]
  <2>1. k + i \in 1 .. k + n
    OBVIOUS
  <2>2. script[k + i] = u[k + i]
    BY <2>1 DEF Joins, Begins
  <2>3. u[k + i] = t[i]
    BY DEF Joins
  <2> QED
    BY <2>2, <2>3
<1> QED
  BY <1>1, <1>2 DEF Begins, After

\* Where the parts of the script begin.
LEMMA Parts ==
  /\ Len(script) = 40
  /\ \A i \in 1 .. 10 : script[i] = opening[i]
  /\ \A i \in 1 .. 5 : script[10 + i] = unknown_and_invalid[i]
  /\ \A i \in 1 .. 12 : script[15 + i] = pol_1001[i]
  /\ \A i \in 1 .. 4 : script[27 + i] = pol_2002[i]
  /\ \A i \in 1 .. 5 : script[31 + i] = pol_3003[i]
  /\ \A i \in 1 .. 4 : script[36 + i] = commit_recheck[i]
<1> DEFINE In(s, n) == {s[i] : i \in 1 .. n}
           S == In(opening, 10) \cup In(unknown_and_invalid, 5) \cup In(pol_1001, 12)
                  \cup In(pol_2002, 4) \cup In(pol_3003, 5) \cup In(commit_recheck, 4)
<1>1. /\ In(opening, 10) \subseteq S /\ In(unknown_and_invalid, 5) \subseteq S
      /\ In(pol_1001, 12) \subseteq S /\ In(pol_2002, 4) \subseteq S
      /\ In(pol_3003, 5) \subseteq S /\ In(commit_recheck, 4) \subseteq S
  <2> HIDE DEF In
  <2> QED
    OBVIOUS
<1> HIDE DEF S
<1>2. /\ Literal(opening, 10) /\ Literal(unknown_and_invalid, 5) /\ Literal(pol_1001, 12)
      /\ Literal(pol_2002, 4) /\ Literal(pol_3003, 5) /\ Literal(commit_recheck, 4)
  BY DEF Literal, opening, unknown_and_invalid, pol_1001, pol_2002, pol_3003, commit_recheck
<1>3. /\ opening \in Seq(S) /\ Len(opening) = 10
      /\ unknown_and_invalid \in Seq(S) /\ Len(unknown_and_invalid) = 5
      /\ pol_1001 \in Seq(S) /\ Len(pol_1001) = 12
      /\ pol_2002 \in Seq(S) /\ Len(pol_2002) = 4
      /\ pol_3003 \in Seq(S) /\ Len(pol_3003) = 5
      /\ commit_recheck \in Seq(S) /\ Len(commit_recheck) = 4
  BY <1>1, <1>2, LiteralLists
<1> DEFINE two == opening \o unknown_and_invalid
           three == two \o pol_1001
           four == three \o pol_2002
           five == four \o pol_3003
<1>4. two \in Seq(S) /\ Joins(two, opening, unknown_and_invalid)
  BY <1>3, Joined
<1> HIDE DEF two
<1>5. three \in Seq(S) /\ Joins(three, two, pol_1001)
  BY <1>3, <1>4, Joined
<1> HIDE DEF three
<1>6. four \in Seq(S) /\ Joins(four, three, pol_2002)
  BY <1>3, <1>5, Joined
<1> HIDE DEF four
<1>7. five \in Seq(S) /\ Joins(five, four, pol_3003)
  BY <1>3, <1>6, Joined
<1>8. Joins(script, five, commit_recheck)
  BY <1>3, <1>7, Joined DEF script, four, three, two
<1> HIDE DEF five
<1>9. /\ Len(two) = 15 /\ Len(three) = 27 /\ Len(four) = 31 /\ Len(five) = 36
      /\ Len(script) = 40
  BY <1>3, <1>4, <1>5, <1>6, <1>7, <1>8 DEF Joins
<1>nat. \A s \in {opening, unknown_and_invalid, pol_1001, pol_2002, pol_3003,
                  commit_recheck, two, three, four, five} : Len(s) \in Nat
  BY <1>3, <1>9
<1>10. Begins(script)
  BY DEF Begins
<1>11. Begins(five) /\ After(five, commit_recheck)
  BY <1>3, <1>8, <1>nat, <1>10, Parted
<1>12. Begins(four) /\ After(four, pol_3003)
  BY <1>3, <1>7, <1>nat, <1>11, Parted
<1>13. Begins(three) /\ After(three, pol_2002)
  BY <1>3, <1>6, <1>nat, <1>12, Parted
<1>14. Begins(two) /\ After(two, pol_1001)
  BY <1>3, <1>5, <1>nat, <1>13, Parted
<1>15. Begins(opening) /\ After(opening, unknown_and_invalid)
  BY <1>3, <1>4, <1>nat, <1>14, Parted
<1> QED
  BY <1>3, <1>9, <1>11, <1>12, <1>13, <1>14, <1>15 DEF Begins, After

\* The parts, written out: the steps by themselves.
LEMMA Steps ==
  /\ script[11] = Case(Get("POL-9999"), No("policy_not_found", "ask_caller_again"))
  /\ script[12] = Case(Post("POL-9999", CONTRACT_VIN, "09-18"),
                       No("policy_not_found", "ask_caller_again"))
  /\ script[13] = Case(Post("POL-1001", "spaced", "09-18"), No("invalid_vin", "ask_caller_again"))
  /\ script[14] = Case(Post("POL-1001", CONTRACT_VIN, "slashed"),
                       No("invalid_effective_date", "ask_caller_again"))
  /\ script[15] = Case(Commit("vap_unknown"), No("proposal_not_found", "escalate"))
  /\ script[16] = Case(Get("POL-1001"), Found("POL-1001", << >>, 17))
  /\ script[17] = Snapshot /\ script[18] = Fetch(TRUE, 422) /\ script[19] = Unmoved({})
  /\ script[20] = Case(Post("POL-1001", CONTRACT_VIN, "09-19"),
                       Ready(FIRST_PROPOSAL_ID, "POL-1001", CONTRACT_VIN, 19))
  /\ script[21] = Case(Post("POL-1001", "1hgcm82633a004352", "09-18"),
                       Ready(CONTRACT_PROPOSAL_ID, "POL-1001", CONTRACT_VIN, 18))
  /\ script[22] = Fetch(TRUE, 422)
  /\ script[23] = Case(Commit(FIRST_PROPOSAL_ID), No("proposal_superseded", "escalate"))
  /\ script[24] = Case(Commit(CONTRACT_PROPOSAL_ID), contract_applied)
  /\ script[25] = Case(Commit(CONTRACT_PROPOSAL_ID), contract_applied)
  /\ script[26] = Case(Get("POL-1001"), Found("POL-1001", <<contract_vehicle>>, 17))
  /\ script[27] = Case(Post("POL-1001", CONTRACT_VIN, "09-18"),
                       No("vehicle_already_on_policy", "escalate"))
  /\ script[28] = Snapshot
  /\ script[29] = Case(Get("POL-2002"), No("policy_cancelled", "escalate"))
  /\ script[30] = Case(Post("POL-2002", CONTRACT_VIN, "09-18"),
                       No("policy_cancelled", "escalate"))
  /\ script[31] = Unmoved({"POL-2002"})
  /\ script[32] = Case(Post("POL-3003", CONTRACT_VIN, "09-16"), NoPast(17))
  /\ script[33] = Case(Post("POL-3003", CONTRACT_VIN, "09-17"),
                       Ready(POL3003_PROPOSAL_ID, "POL-3003", CONTRACT_VIN, 17))
  /\ script[34] = AdvanceDay
  /\ script[35] = Case(Commit(POL3003_PROPOSAL_ID), NoPast(18))
  /\ script[36] = Case(Get("POL-3003"), Found("POL-3003", << >>, 18))
  /\ script[37] = Case(Post("POL-1001", SECOND_VIN, "09-18"),
                       Ready(STATUS_RECHECK_ID, "POL-1001", SECOND_VIN, 18))
  /\ script[38] = Cancel("POL-1001")
  /\ script[39] = Case(Commit(STATUS_RECHECK_ID), No("policy_cancelled", "escalate"))
  /\ script[40] = Covered("POL-1001", <<contract_vehicle>>)
<1>1. /\ \A i \in 1 .. 5 : script[10 + i] = unknown_and_invalid[i]
      /\ \A i \in 1 .. 12 : script[15 + i] = pol_1001[i]
      /\ \A i \in 1 .. 4 : script[27 + i] = pol_2002[i]
      /\ \A i \in 1 .. 5 : script[31 + i] = pol_3003[i]
      /\ \A i \in 1 .. 4 : script[36 + i] = commit_recheck[i]
  BY Parts
<1>2. /\ script[11] = unknown_and_invalid[1] /\ script[12] = unknown_and_invalid[2]
      /\ script[13] = unknown_and_invalid[3] /\ script[14] = unknown_and_invalid[4]
      /\ script[15] = unknown_and_invalid[5]
  BY <1>1
<1>3. /\ script[16] = pol_1001[1] /\ script[17] = pol_1001[2] /\ script[18] = pol_1001[3]
      /\ script[19] = pol_1001[4] /\ script[20] = pol_1001[5] /\ script[21] = pol_1001[6]
      /\ script[22] = pol_1001[7] /\ script[23] = pol_1001[8] /\ script[24] = pol_1001[9]
      /\ script[25] = pol_1001[10] /\ script[26] = pol_1001[11] /\ script[27] = pol_1001[12]
  BY <1>1
<1>4. /\ script[28] = pol_2002[1] /\ script[29] = pol_2002[2] /\ script[30] = pol_2002[3]
      /\ script[31] = pol_2002[4]
  BY <1>1
<1>5. /\ script[32] = pol_3003[1] /\ script[33] = pol_3003[2] /\ script[34] = pol_3003[3]
      /\ script[35] = pol_3003[4] /\ script[36] = pol_3003[5]
  BY <1>1
<1>6. /\ script[37] = commit_recheck[1] /\ script[38] = commit_recheck[2]
      /\ script[39] = commit_recheck[3] /\ script[40] = commit_recheck[4]
  BY <1>1
<1> QED
  BY <1>2, <1>3, <1>4, <1>5, <1>6
     DEF unknown_and_invalid, pol_1001, pol_2002, pol_3003, commit_recheck

\* What a step does, by its place in the script.
LEMMA Kinds ==
  ASSUME NEW n \in 1 .. 40
  PROVE  script[n].does =
           CASE n \in {6, 7, 18, 22} -> "fetch"
             [] n \in {17, 28} -> "snapshot"
             [] n \in {19, 31} -> "unmoved"
             [] n = 34 -> "advance"
             [] n = 38 -> "cancel"
             [] n = 40 -> "covered"
             [] n \in 1 .. 5 \cup 8 .. 10 -> "judge"
             [] OTHER -> "call"
<1>1. CASE n \in 1 .. 10
  <2>1. script[n] = opening[n]
    BY <1>1, Parts
  <2>2. \A i \in {6, 7} : opening[i].does = "fetch"
    BY DEF opening, Fetch
  <2>3. \A i \in {1, 2, 3, 4, 5, 8, 9, 10} : opening[i].does = "judge"
    BY DEF opening, Judge
  <2> QED
    BY <1>1, <2>1, <2>2, <2>3
<1>2. CASE n \in 11 .. 40
  <2>1. /\ script[18].does = "fetch" /\ script[22].does = "fetch"
        /\ script[17].does = "snapshot" /\ script[28].does = "snapshot"
        /\ script[19].does = "unmoved" /\ script[31].does = "unmoved"
        /\ script[34].does = "advance" /\ script[38].does = "cancel"
        /\ script[40].does = "covered"
    BY Steps DEF Snapshot, Fetch, Unmoved, AdvanceDay, Cancel, Covered
  <2>2. \A call, answer : Case(call, answer).does = "call"
    BY DEF Case
  <2>3. /\ script[11].does = "call" /\ script[12].does = "call" /\ script[13].does = "call"
        /\ script[14].does = "call" /\ script[15].does = "call" /\ script[16].does = "call"
    BY <2>2, Steps
  <2>4. /\ script[20].does = "call" /\ script[21].does = "call" /\ script[23].does = "call"
        /\ script[24].does = "call" /\ script[25].does = "call" /\ script[26].does = "call"
        /\ script[27].does = "call"
    BY <2>2, Steps
  <2>5. /\ script[29].does = "call" /\ script[30].does = "call" /\ script[32].does = "call"
        /\ script[33].does = "call" /\ script[35].does = "call" /\ script[36].does = "call"
        /\ script[37].does = "call" /\ script[39].does = "call"
    BY <2>2, Steps
  <2> QED
    BY <1>2, <2>1, <2>3, <2>4, <2>5
<1> QED
  BY <1>1, <1>2
-----------------------------------------------------------------------------
(* What the steps leave in the store.                                      *)

\* The four proposals that are made.
LEMMA Offers ==
  /\ offer(20) = [state |-> "pending", proposal_id |-> FIRST_PROPOSAL_ID,
                  change |-> Ready(FIRST_PROPOSAL_ID, "POL-1001", CONTRACT_VIN, 19).change,
                  readback |-> Ready(FIRST_PROPOSAL_ID, "POL-1001", CONTRACT_VIN, 19).readback]
  /\ offer(21) = [state |-> "pending", proposal_id |-> CONTRACT_PROPOSAL_ID,
                  change |-> Ready(CONTRACT_PROPOSAL_ID, "POL-1001", CONTRACT_VIN, 18).change,
                  readback |-> Ready(CONTRACT_PROPOSAL_ID, "POL-1001", CONTRACT_VIN, 18).readback]
  /\ offer(33) = [state |-> "pending", proposal_id |-> POL3003_PROPOSAL_ID,
                  change |-> Ready(POL3003_PROPOSAL_ID, "POL-3003", CONTRACT_VIN, 17).change,
                  readback |-> Ready(POL3003_PROPOSAL_ID, "POL-3003", CONTRACT_VIN, 17).readback]
  /\ offer(37) = [state |-> "pending", proposal_id |-> STATUS_RECHECK_ID,
                  change |-> Ready(STATUS_RECHECK_ID, "POL-1001", SECOND_VIN, 18).change,
                  readback |-> Ready(STATUS_RECHECK_ID, "POL-1001", SECOND_VIN, 18).readback]
BY Steps DEF offer, Case, Ready

\* The four ids are not each other's.
LEMMA Ids ==
  /\ FIRST_PROPOSAL_ID = "vap_B" /\ CONTRACT_PROPOSAL_ID = "vap_C"
  /\ POL3003_PROPOSAL_ID = "vap_D" /\ STATUS_RECHECK_ID = "vap_E"
  /\ "vap_B" # "vap_C" /\ "vap_B" # "vap_D" /\ "vap_B" # "vap_E" /\ "vap_C" # "vap_D"
  /\ "vap_C" # "vap_E" /\ "vap_D" # "vap_E"
  /\ "vap_unknown" \notin {"vap_B", "vap_C", "vap_D", "vap_E"}
BY DEF FIRST_PROPOSAL_ID, CONTRACT_PROPOSAL_ID, POL3003_PROPOSAL_ID, STATUS_RECHECK_ID

\* The proposals, id by id.
LEMMA ProposalsById ==
  ASSUME NEW n \in Int
  PROVE  /\ proposal_at("vap_B", n) = IF n > 21 THEN superseded(offer(20))
                                      ELSE IF n = 21 THEN offer(20) ELSE Absent
         /\ proposal_at("vap_C", n) = IF n > 24
                                      THEN [state |-> "applied", result |-> contract_applied]
                                      ELSE IF n > 21 THEN offer(21) ELSE Absent
         /\ proposal_at("vap_D", n) = IF n > 33 THEN offer(33) ELSE Absent
         /\ proposal_at("vap_E", n) = IF n > 37 THEN offer(37) ELSE Absent
         /\ \A id : id \notin {"vap_B", "vap_C", "vap_D", "vap_E"} => proposal_at(id, n) = Absent
BY Ids DEF proposal_at

\* Most steps leave everything as it was.
LEMMA Kept ==
  ASSUME NEW n \in 1 .. 40, n \notin {20, 21, 24, 33, 34, 37, 38}, Settled(n)
  PROVE  Settled(n + 1)
<1>1. \A p : policy_at(p, n + 1) = policy_at(p, n)
  BY DEF policy_at
<1>2. \A id : proposal_at(id, n + 1) = proposal_at(id, n)
  BY ProposalsById
<1>3. Outside(n + 1)
  BY <1>1 DEF Settled, Outside
<1> QED
  BY <1>2, <1>3 DEF Settled
-----------------------------------------------------------------------------
(* The answers.                                                            *)

\* The suite's texts, as parse_vin and parse_effective_date take them.
LEMMA Texts ==
  /\ parse_vin(CONTRACT_VIN) = Some(CONTRACT_VIN) /\ parse_vin(SECOND_VIN) = Some(SECOND_VIN)
  /\ parse_vin("1hgcm82633a004352") = Some(CONTRACT_VIN) /\ parse_vin("spaced") = None
  /\ parse_effective_date("09-16") = Some(16) /\ parse_effective_date("09-17") = Some(17)
  /\ parse_effective_date("09-18") = Some(18) /\ parse_effective_date("09-19") = Some(19)
  /\ parse_effective_date("slashed") = None
  /\ CONTRACT_VIN # SECOND_VIN
<1>1. /\ parse_vin(CONTRACT_VIN) = Some(CONTRACT_VIN) /\ parse_vin(SECOND_VIN) = Some(SECOND_VIN)
      /\ parse_vin("1hgcm82633a004352") = Some(CONTRACT_VIN) /\ parse_vin("spaced") = None
  BY TextsAssumption, ScriptAssumption DEF parse_vin
<1>2. /\ parse_effective_date("09-16") = Some(16) /\ parse_effective_date("09-17") = Some(17)
      /\ parse_effective_date("09-18") = Some(18) /\ parse_effective_date("09-19") = Some(19)
      /\ parse_effective_date("slashed") = None
  BY ScriptAssumption DEF parse_effective_date
<1> QED
  BY <1>1, <1>2 DEF CONTRACT_VIN, SECOND_VIN

\* The day, and the three policies.
LEMMA World ==
  ASSUME NEW n \in Int, Outside(n)
  PROVE  /\ calendar_date(now) = IF n > 34 THEN 18 ELSE 17
         /\ OnFile = {"POL-1001", "POL-2002", "POL-3003"}
         /\ DOMAIN policies = OnFile
         /\ policies["POL-1001"] =
              [policy_number |-> "POL-1001", status |-> IF n > 38 THEN "cancelled" ELSE "active",
               vehicles |-> IF n > 24 THEN <<contract_vehicle>> ELSE << >>]
         /\ policies["POL-2002"] =
              [policy_number |-> "POL-2002", status |-> "cancelled", vehicles |-> << >>]
         /\ policies["POL-3003"] =
              [policy_number |-> "POL-3003", status |-> "active", vehicles |-> << >>]
<1>1. calendar_date(now) = IF n > 34 THEN 18 ELSE 17
  BY ScriptAssumption DEF Outside, calendar_date
<1>2. OnFile = {"POL-1001", "POL-2002", "POL-3003"} /\ DOMAIN policies = OnFile
      /\ \A p \in OnFile : policies[p] = policy_at(p, n)
  BY ScriptAssumption DEF Outside
<1>3. \A p \in OnFile : Fixture[p] = [policy_number |-> p, vehicles |-> << >>,
                                   status |-> IF p = "POL-2002" THEN "cancelled" ELSE "active"]
  BY ScriptAssumption
<1>4. /\ policies["POL-2002"] = Fixture["POL-2002"] /\ policies["POL-3003"] = Fixture["POL-3003"]
  BY <1>2 DEF policy_at
<1>5. policies["POL-1001"] =
        [policy_number |-> "POL-1001", status |-> IF n > 38 THEN "cancelled" ELSE "active",
         vehicles |-> IF n > 24 THEN <<contract_vehicle>> ELSE << >>]
  BY <1>2 DEF policy_at
<1> QED
  BY <1>1, <1>2, <1>3, <1>4, <1>5

\* Which policies can be amended.
LEMMA Standings ==
  ASSUME NEW n \in Int, Outside(n)
  PROVE  /\ policies["POL-1001"].status = IF n > 38 THEN "cancelled" ELSE "active"
         /\ policies["POL-2002"].status = "cancelled" /\ policies["POL-3003"].status = "active"
<1>1. policies["POL-1001"] =
        [policy_number |-> "POL-1001", status |-> IF n > 38 THEN "cancelled" ELSE "active",
         vehicles |-> IF n > 24 THEN <<contract_vehicle>> ELSE << >>]
  BY World, Zenon
<1>2. /\ policies["POL-2002"] =
           [policy_number |-> "POL-2002", status |-> "cancelled", vehicles |-> << >>]
      /\ policies["POL-3003"] =
           [policy_number |-> "POL-3003", status |-> "active", vehicles |-> << >>]
  BY World, Zenon
<1> QED
  BY <1>1, <1>2

\* Which cars are covered.
LEMMA CoveredCars ==
  ASSUME NEW n \in Int, Outside(n), NEW vin
  PROVE  /\ on_policy(policies["POL-1001"], vin) <=> n > 24 /\ vin = CONTRACT_VIN
         /\ ~ on_policy(policies["POL-3003"], vin)
<1>1. /\ policies["POL-1001"].vehicles = IF n > 24 THEN <<contract_vehicle>> ELSE << >>
      /\ policies["POL-3003"].vehicles = << >>
  <2>1. policies["POL-1001"] =
          [policy_number |-> "POL-1001", status |-> IF n > 38 THEN "cancelled" ELSE "active",
           vehicles |-> IF n > 24 THEN <<contract_vehicle>> ELSE << >>]
    BY World, Zenon
  <2>2. policies["POL-3003"] =
          [policy_number |-> "POL-3003", status |-> "active", vehicles |-> << >>]
    BY World, Zenon
  <2> QED
    BY <2>1, <2>2
<1>2. contract_vehicle.vin = CONTRACT_VIN
  BY DEF contract_vehicle
<1> QED
  BY <1>1, <1>2 DEF on_policy

\* Which proposals wait.
LEMMA Waiting ==
  ASSUME NEW n \in 1 .. 40, Settled(n), NEW id \in ProposalIds
  PROVE  /\ IsPendingFor(id, "POL-1001") <=>
              \/ id = "vap_B" /\ n = 21
              \/ id = "vap_C" /\ n \in 22 .. 24
              \/ id = "vap_E" /\ n > 37
         /\ IsPendingFor(id, "POL-3003") <=> id = "vap_D" /\ n > 33
<1>1. proposals[id] = proposal_at(id, n)
  BY DEF Settled
<1>2. CASE id \notin {"vap_B", "vap_C", "vap_D", "vap_E"}
  BY <1>1, <1>2, ProposalsById DEF IsPendingFor, Absent
<1>3. CASE id = "vap_B"
  BY <1>1, <1>3, ProposalsById, Offers, Ids DEF IsPendingFor, Absent, superseded, Ready
<1>4. CASE id = "vap_C"
  BY <1>1, <1>4, ProposalsById, Offers, Ids DEF IsPendingFor, Absent, Ready
<1>5. CASE id = "vap_D"
  BY <1>1, <1>5, ProposalsById, Offers, Ids DEF IsPendingFor, Absent, Ready
<1>6. CASE id = "vap_E"
  BY <1>1, <1>6, ProposalsById, Offers, Ids DEF IsPendingFor, Absent, Ready
<1> QED
  BY <1>2, <1>3, <1>4, <1>5, <1>6

\* Five lookups.
LEMMA LookupsAnswer ==
  ASSUME NEW n \in {11, 16, 26, 29, 36}, Settled(n)
  PROVE  /\ script[n].call.op = "lookup"
         /\ lookup(script[n].call.policy_number) = script[n].answer
<1>1. /\ calendar_date(now) = IF n > 34 THEN 18 ELSE 17
      /\ OnFile = {"POL-1001", "POL-2002", "POL-3003"}
      /\ policies["POL-1001"] =
           [policy_number |-> "POL-1001", status |-> IF n > 38 THEN "cancelled" ELSE "active",
            vehicles |-> IF n > 24 THEN <<contract_vehicle>> ELSE << >>]
      /\ policies["POL-2002"] =
           [policy_number |-> "POL-2002", status |-> "cancelled", vehicles |-> << >>]
      /\ policies["POL-3003"] =
           [policy_number |-> "POL-3003", status |-> "active", vehicles |-> << >>]
  BY World DEF Settled
<1>2. /\ script[11] = Case(Get("POL-9999"), No("policy_not_found", "ask_caller_again"))
      /\ script[16] = Case(Get("POL-1001"), Found("POL-1001", << >>, 17))
      /\ script[26] = Case(Get("POL-1001"), Found("POL-1001", <<contract_vehicle>>, 17))
      /\ script[29] = Case(Get("POL-2002"), No("policy_cancelled", "escalate"))
      /\ script[36] = Case(Get("POL-3003"), Found("POL-3003", << >>, 18))
  BY Steps
<1> USE DEF Case, Get, Found, No, lookup, rejected, recovery_for, None
<1>3. CASE n = 11
  BY <1>1, <1>2, <1>3
<1>4. CASE n = 16
  BY <1>1, <1>2, <1>4
<1>5. CASE n = 26
  BY <1>1, <1>2, <1>5
<1>6. CASE n = 29
  BY <1>1, <1>2, <1>6
<1>7. CASE n = 36
  BY <1>1, <1>2, <1>7
<1> QED
  BY <1>3, <1>4, <1>5, <1>6, <1>7

\* Six proposals that are refused.
LEMMA ProposalsRefused ==
  ASSUME NEW n \in {12, 13, 14, 27, 30, 32}, Settled(n)
  PROVE  LET call == script[n].call
         IN /\ call.op = "propose"
            /\ propose_refusal(call.policy_number, call.vin_raw, call.date_raw) =
                 Some(script[n].answer)
<1>1. /\ calendar_date(now) = 17
      /\ OnFile = {"POL-1001", "POL-2002", "POL-3003"}
      /\ policies["POL-1001"].status = "active" /\ policies["POL-2002"].status = "cancelled"
      /\ n = 27 => on_policy(policies["POL-1001"], CONTRACT_VIN)
  <2>1. n \in Int /\ Outside(n)
    BY DEF Settled
  <2>2. /\ calendar_date(now) = IF n > 34 THEN 18 ELSE 17
        /\ OnFile = {"POL-1001", "POL-2002", "POL-3003"}
    BY <2>1, World, Zenon
  <2> QED
    BY <2>1, <2>2, Standings, CoveredCars
<1>2. /\ script[12] = Case(Post("POL-9999", CONTRACT_VIN, "09-18"),
                            No("policy_not_found", "ask_caller_again"))
      /\ script[13] = Case(Post("POL-1001", "spaced", "09-18"),
                            No("invalid_vin", "ask_caller_again"))
      /\ script[14] = Case(Post("POL-1001", CONTRACT_VIN, "slashed"),
                            No("invalid_effective_date", "ask_caller_again"))
      /\ script[27] = Case(Post("POL-1001", CONTRACT_VIN, "09-18"),
                            No("vehicle_already_on_policy", "escalate"))
      /\ script[30] = Case(Post("POL-2002", CONTRACT_VIN, "09-18"),
                            No("policy_cancelled", "escalate"))
      /\ script[32] = Case(Post("POL-3003", CONTRACT_VIN, "09-16"), NoPast(17))
  BY Steps
<1> USE DEF Case, Post, No, NoPast, propose_refusal, not_amendable, rejected, rejected_past,
            recovery_for, None, Some
<1>3. CASE n = 12
  BY <1>1, <1>2, <1>3, Texts
<1>4. CASE n = 13
  BY <1>2, <1>4, Texts
<1>5. CASE n = 14
  BY <1>1, <1>2, <1>5, Texts
<1>6. CASE n = 27
  BY <1>1, <1>2, <1>6, Texts
<1>7. CASE n = 30
  BY <1>1, <1>2, <1>7, Texts
<1>8. CASE n = 32
  BY <1>1, <1>2, <1>8, Texts
<1> QED
  BY <1>3, <1>4, <1>5, <1>6, <1>7, <1>8

\* Five commits that change nothing.
LEMMA CommitsAnswer ==
  ASSUME NEW n \in {15, 23, 25, 35, 39}, Settled(n)
  PROVE  /\ script[n].call.op = "commit"
         /\ commit_answer(script[n].call.proposal_id) = Some(script[n].answer)
<1>1. /\ calendar_date(now) = IF n > 34 THEN 18 ELSE 17
      /\ OnFile = {"POL-1001", "POL-2002", "POL-3003"}
      /\ n = 39 => policies["POL-1001"].status = "cancelled"
      /\ policies["POL-3003"].status = "active"
  <2>1. n \in Int /\ Outside(n)
    BY DEF Settled
  <2>2. /\ calendar_date(now) = IF n > 34 THEN 18 ELSE 17
        /\ OnFile = {"POL-1001", "POL-2002", "POL-3003"}
    BY <2>1, World, Zenon
  <2> QED
    BY <2>1, <2>2, Standings
<1>2. /\ {"vap_B", "vap_C", "vap_D", "vap_E", "vap_unknown"} \subseteq ProposalIds
      /\ \A id \in ProposalIds : proposals[id] = proposal_at(id, n)
  BY ScriptAssumption DEF Settled
<1>3. /\ script[15] = Case(Commit("vap_unknown"), No("proposal_not_found", "escalate"))
      /\ script[23] = Case(Commit(FIRST_PROPOSAL_ID), No("proposal_superseded", "escalate"))
      /\ script[25] = Case(Commit(CONTRACT_PROPOSAL_ID), contract_applied)
      /\ script[35] = Case(Commit(POL3003_PROPOSAL_ID), NoPast(18))
      /\ script[39] = Case(Commit(STATUS_RECHECK_ID), No("policy_cancelled", "escalate"))
  BY Steps
<1> USE DEF Case, Commit, No, NoPast, Ready, not_amendable, rejected, rejected_past, recovery_for,
            None, Some
<1>4. CASE n = 15
  <2>1. proposals["vap_unknown"].state = "absent"
    BY <1>2, <1>4, ProposalsById, Ids DEF Absent
  <2> QED
    BY <1>3, <1>4, <2>1 DEF commit_answer
<1>5. CASE n = 23
  <2>1. proposals[FIRST_PROPOSAL_ID].state = "superseded"
    BY <1>2, <1>5, ProposalsById, Ids DEF superseded
  <2>2. commit_answer(FIRST_PROPOSAL_ID) = Some(rejected("proposal_superseded"))
    BY <2>1 DEF commit_answer
  <2> QED
    BY <1>3, <1>5, <2>2
<1>6. CASE n = 25
  <2>1. proposals[CONTRACT_PROPOSAL_ID] = [state |-> "applied", result |-> contract_applied]
    BY <1>2, <1>6, ProposalsById, Ids
  <2> QED
    BY <1>3, <1>6, <2>1 DEF commit_answer
<1>7. CASE n = 35
  <2>1. /\ proposals[POL3003_PROPOSAL_ID].state = "pending"
        /\ proposals[POL3003_PROPOSAL_ID].change.policy_number = "POL-3003"
        /\ proposals[POL3003_PROPOSAL_ID].change.effective_date = 17
    BY <1>2, <1>7, ProposalsById, Offers, Ids
  <2>2. apply_refusal(proposals[POL3003_PROPOSAL_ID].change) = Some(rejected_past(18))
    BY <1>1, <1>7, <2>1 DEF apply_refusal
  <2>3. commit_answer(POL3003_PROPOSAL_ID) = Some(rejected_past(18))
    BY <2>1, <2>2 DEF commit_answer
  <2> QED
    BY <1>3, <1>7, <2>3
<1>8. CASE n = 39
  <2>1. /\ proposals[STATUS_RECHECK_ID].state = "pending"
        /\ proposals[STATUS_RECHECK_ID].change.policy_number = "POL-1001"
    BY <1>2, <1>8, ProposalsById, Offers, Ids
  <2>2. apply_refusal(proposals[STATUS_RECHECK_ID].change) = Some(rejected("policy_cancelled"))
    BY <1>1, <1>8, <2>1 DEF apply_refusal
  <2>3. commit_answer(STATUS_RECHECK_ID) = Some(rejected("policy_cancelled"))
    BY <2>1, <2>2 DEF commit_answer
  <2> QED
    BY <1>3, <1>8, <2>3
<1> QED
  BY <1>4, <1>5, <1>6, <1>7, <1>8

\* The proposals while the new one of the n-th step has yet to be stored.
HalfWay(n) ==
  proposals = [id \in ProposalIds |-> IF id = script[n].answer.proposal_id THEN Absent
                                      ELSE proposal_at(id, n + 1)]

\* The four calls that propose, the answers expected, and the changes in those.
LEMMA Proposed ==
  ASSUME NEW n \in {20, 21, 33, 37}
  PROVE  LET call == script[n].call
             answer == script[n].answer
         IN /\ call.op = "propose"
            /\ call.policy_number = IF n = 33 THEN "POL-3003" ELSE "POL-1001"
            /\ parse_vin(call.vin_raw) = Some(answer.change.vin)
            /\ parse_effective_date(call.date_raw) = Some(answer.change.effective_date)
            /\ answer.change = [policy_number |-> call.policy_number, vin |-> answer.change.vin,
                                effective_date |-> answer.change.effective_date]
            /\ answer.change.vin = IF n = 37 THEN SECOND_VIN ELSE CONTRACT_VIN
            /\ answer.change.effective_date \in {17, 18, 19}
            /\ n = 37 => answer.change.effective_date = 18
            /\ answer = [kind |-> "confirmation_ready", proposal_id |-> answer.proposal_id,
                         change |-> answer.change, readback |-> format_readback(answer.change)]
            /\ answer.proposal_id = IF n = 20 THEN "vap_B" ELSE IF n = 21 THEN "vap_C"
                                    ELSE IF n = 33 THEN "vap_D" ELSE "vap_E"
<1>1. /\ script[20] = Case(Post("POL-1001", CONTRACT_VIN, "09-19"),
                            Ready(FIRST_PROPOSAL_ID, "POL-1001", CONTRACT_VIN, 19))
      /\ script[21] = Case(Post("POL-1001", "1hgcm82633a004352", "09-18"),
                            Ready(CONTRACT_PROPOSAL_ID, "POL-1001", CONTRACT_VIN, 18))
      /\ script[33] = Case(Post("POL-3003", CONTRACT_VIN, "09-17"),
                            Ready(POL3003_PROPOSAL_ID, "POL-3003", CONTRACT_VIN, 17))
      /\ script[37] = Case(Post("POL-1001", SECOND_VIN, "09-18"),
                            Ready(STATUS_RECHECK_ID, "POL-1001", SECOND_VIN, 18))
  BY Steps
<1> USE DEF Case, Post, Ready, format_readback
<1>2. CASE n = 20
  BY <1>1, <1>2, Texts, Ids
<1>3. CASE n = 21
  BY <1>1, <1>3, Texts, Ids
<1>4. CASE n = 33
  BY <1>1, <1>4, Texts, Ids
<1>5. CASE n = 37
  BY <1>1, <1>5, Texts, Ids
<1> QED
  BY <1>2, <1>3, <1>4, <1>5

\* Four proposals that are taken, each of the change expected.
LEMMA ProposalsTaken ==
  ASSUME NEW n \in {20, 21, 33, 37}, Settled(n)
  PROVE  LET call == script[n].call
         IN /\ propose_refusal(call.policy_number, call.vin_raw, call.date_raw) = None
            /\ policies[call.policy_number].policy_number = call.policy_number
<1> DEFINE call == script[n].call
           answer == script[n].answer
<1>1. /\ call.policy_number = IF n = 33 THEN "POL-3003" ELSE "POL-1001"
      /\ parse_vin(call.vin_raw) = Some(answer.change.vin)
      /\ parse_effective_date(call.date_raw) = Some(answer.change.effective_date)
      /\ answer.change.vin = IF n = 37 THEN SECOND_VIN ELSE CONTRACT_VIN
      /\ answer.change.effective_date \in {17, 18, 19}
      /\ n = 37 => answer.change.effective_date = 18
  BY Proposed
<1>2. n \in Int /\ n \in 1 .. 40 /\ Outside(n)
  BY DEF Settled
<1>3. /\ calendar_date(now) = IF n > 34 THEN 18 ELSE 17
      /\ OnFile = {"POL-1001", "POL-2002", "POL-3003"}
  BY <1>2, World, Zenon
<1> HIDE DEF call, answer
<1>4. /\ policies[call.policy_number].status = "active"
      /\ ~ on_policy(policies[call.policy_number], answer.change.vin)
  BY <1>1, <1>2, Standings, CoveredCars, Texts
<1>5. ~ TwoPending(call.policy_number)
  <2>1. \A id \in ProposalIds :
          IsPendingFor(id, call.policy_number) =>
            id = IF n = 21 THEN "vap_B" ELSE "vap_E"
    BY <1>1, <1>2, Waiting
  <2> QED
    BY <2>1 DEF TwoPending
<1>6. propose_refusal(call.policy_number, call.vin_raw, call.date_raw) = None
  <2>1. /\ parse_vin(call.vin_raw) # None /\ parse_vin(call.vin_raw)[1] = answer.change.vin
        /\ parse_effective_date(call.date_raw) # None
        /\ parse_effective_date(call.date_raw)[1] = answer.change.effective_date
    BY <1>1, SomeIsNotNone DEF Some
  <2>2. ~ (answer.change.effective_date < calendar_date(now)) /\ call.policy_number \in OnFile
    BY <1>1, <1>3
  <2>3. not_amendable(policies[call.policy_number]) = None
    BY <1>4 DEF not_amendable
  <2> QED
    BY <1>4, <1>5, <2>1, <2>2, <2>3 DEF propose_refusal
<1>7. policies[call.policy_number].policy_number = call.policy_number
  <2>1. /\ policies["POL-1001"] =
             [policy_number |-> "POL-1001", status |-> IF n > 38 THEN "cancelled" ELSE "active",
              vehicles |-> IF n > 24 THEN <<contract_vehicle>> ELSE << >>]
        /\ policies["POL-3003"] =
             [policy_number |-> "POL-3003", status |-> "active", vehicles |-> << >>]
    BY <1>2, World, Zenon
  <2> QED
    BY <1>1, <2>1
<1> QED
  BY <1>6, <1>7 DEF call

\* Superseding what waits is half of such a step.
LEMMA HalfSuperseded ==
  ASSUME NEW n \in {20, 21, 33, 37}, Settled(n),
         proposals' = [id \in ProposalIds |->
                         IF IsPendingFor(id, script[n].call.policy_number)
                           THEN superseded(proposals[id]) ELSE proposals[id]]
  PROVE  HalfWay(n)'
<1>1. /\ script[n].call.policy_number = IF n = 33 THEN "POL-3003" ELSE "POL-1001"
      /\ script[n].answer.proposal_id = IF n = 20 THEN "vap_B" ELSE IF n = 21 THEN "vap_C"
                                        ELSE IF n = 33 THEN "vap_D" ELSE "vap_E"
  BY Proposed
<1>2. /\ n \in 1 .. 40 /\ n \in Int /\ n + 1 \in Int
      /\ \A id \in ProposalIds : proposals[id] = proposal_at(id, n)
  BY DEF Settled
<1> DEFINE half(id) == IF id = script[n].answer.proposal_id THEN Absent ELSE proposal_at(id, n + 1)
<1>3. ASSUME NEW id \in ProposalIds
      PROVE  half(id) = IF IsPendingFor(id, script[n].call.policy_number)
                          THEN superseded(proposals[id]) ELSE proposals[id]
  <2>1. IsPendingFor(id, script[n].call.policy_number) <=> id = "vap_B" /\ n = 21
    BY <1>1, <1>2, Waiting
  <2>2. CASE id = "vap_B"
    BY <1>1, <1>2, <2>1, <2>2, ProposalsById
  <2>3. CASE id = "vap_C"
    BY <1>1, <1>2, <2>1, <2>3, ProposalsById
  <2>4. CASE id = "vap_D"
    BY <1>1, <1>2, <2>1, <2>4, ProposalsById
  <2>5. CASE id = "vap_E"
    BY <1>1, <1>2, <2>1, <2>5, ProposalsById
  <2>6. CASE id \notin {"vap_B", "vap_C", "vap_D", "vap_E"}
    BY <1>1, <1>2, <2>1, <2>6, ProposalsById
  <2> QED
    BY <2>2, <2>3, <2>4, <2>5, <2>6
<1> QED
  BY <1>3 DEF HalfWay

\* Half-way, the id that the source gives next is the expected one.
LEMMA NextId ==
  ASSUME NEW n \in {20, 21, 33, 37}, HalfWay(n)
  PROVE  /\ script[n].answer.proposal_id \in UnusedIds
         /\ \A m \in DOMAIN scripted_ids :
              (/\ scripted_ids[m] \in UnusedIds
               /\ \A earlier \in 1 .. m - 1 : proposals[scripted_ids[earlier]] # Absent)
                 => scripted_ids[m] = script[n].answer.proposal_id
<1>1. script[n].answer.proposal_id = IF n = 20 THEN "vap_B" ELSE IF n = 21 THEN "vap_C"
                                     ELSE IF n = 33 THEN "vap_D" ELSE "vap_E"
  BY Proposed
<1>2. /\ {"vap_B", "vap_C", "vap_D", "vap_E"} \subseteq ProposalIds
      /\ \A id \in ProposalIds :
           proposals[id] = IF id = script[n].answer.proposal_id THEN Absent
                           ELSE proposal_at(id, n + 1)
  BY ScriptAssumption DEF HalfWay
<1>3. /\ DOMAIN scripted_ids = 1 .. 4
      /\ scripted_ids[1] = "vap_B" /\ scripted_ids[2] = "vap_C"
      /\ scripted_ids[3] = "vap_D" /\ scripted_ids[4] = "vap_E"
  BY Ids DEF scripted_ids
<1>4. /\ n # 20 => proposals["vap_B"].state # "absent"
      /\ n \in {33, 37} => proposals["vap_C"].state # "absent"
      /\ n = 37 => proposals["vap_D"].state # "absent"
  BY <1>1, <1>2, ProposalsById, Offers, Ids DEF superseded
<1>5. /\ n = 20 => proposals["vap_B"] = Absent
      /\ n = 21 => proposals["vap_C"] = Absent
      /\ n = 33 => proposals["vap_D"] = Absent
      /\ n = 37 => proposals["vap_E"] = Absent
  BY <1>1, <1>2
<1>6. script[n].answer.proposal_id \in UnusedIds
  BY <1>1, <1>2, <1>5 DEF UnusedIds, Absent
<1>7. ASSUME NEW m \in DOMAIN scripted_ids, scripted_ids[m] \in UnusedIds,
             \A earlier \in 1 .. m - 1 : proposals[scripted_ids[earlier]] # Absent
      PROVE  scripted_ids[m] = script[n].answer.proposal_id
  <2>1. proposals[scripted_ids[m]].state = "absent"
    BY <1>7 DEF UnusedIds
  <2> QED
    BY <1>1, <1>3, <1>4, <1>5, <1>7, <2>1
<1> QED
  BY <1>6, <1>7

\* The new proposal is the other half.
LEMMA HalfStored ==
  ASSUME NEW n \in {20, 21, 33, 37}, HalfWay(n),
         proposals' = [proposals EXCEPT ![script[n].answer.proposal_id] = offer(n)]
  PROVE  proposals' = [id \in ProposalIds |-> proposal_at(id, n + 1)]
<1>1. script[n].answer.proposal_id = IF n = 20 THEN "vap_B" ELSE IF n = 21 THEN "vap_C"
                                     ELSE IF n = 33 THEN "vap_D" ELSE "vap_E"
  BY Proposed
<1>2. proposal_at(script[n].answer.proposal_id, n + 1) = offer(n)
  BY <1>1, ProposalsById
<1> QED
  BY <1>2 DEF HalfWay

\* The readings and the policies stay when a proposal is made.
LEMMA OutsideKept == ASSUME NEW n \in {20, 21, 33, 37}, Outside(n) PROVE Outside(n + 1)
<1>1. \A p : policy_at(p, n + 1) = policy_at(p, n)
  BY DEF policy_at
<1> QED
  BY <1>1 DEF Outside
-----------------------------------------------------------------------------
(* A call on its thread.                                                   *)

\* What a thread that has just been given a call can do.
LEMMA Begun ==
  ASSUME NEW w \in Workers, task[w].step = "called", Run(w)
  PROVE  /\ task[w].call.op = "lookup" => Lookup(w)
         /\ task[w].call.op = "propose" => ProposeRefused(w) \/ ProposeChecked(w)
         /\ task[w].call.op = "commit" => CommitAnswered(w) \/ CommitChecked(w)
BY DEF Run, Enters, Lookup, ProposeRefused, ProposeChecked, ProposeStored, ProposeRaised,
   CommitAnswered, CommitChecked, CommitStored, CommitRaised

\* An expected answer that changes nothing.
LEMMA AnswerAsWritten ==
  ASSUME DOMAIN task = Workers, NEW w \in Workers, NEW n \in 1 .. 40,
         n \notin {20, 21, 24, 33, 34, 37, 38}, script[n].does = "call", Settled(n),
         task[w].call = script[n].call, Answer(w, script[n].answer)
  PROVE  UnderWay(w, n)'
<1>1. Settled(n + 1)'
  <2>1. Settled(n + 1) /\ UNCHANGED <<now, policies, proposals>>
    BY Kept DEF Answer, store
  <2> QED
    BY <2>1 DEF Settled, Outside
<1>2. /\ task'[w].step = "returned" /\ task'[w].call = script[n].call
      /\ task'[w].result = script[n].answer
  BY DEF Answer, Returned
<1> QED
  BY <1>1, <1>2 DEF UnderWay

\* A call that has arrived: its first step.
LEMMA FirstStep ==
  ASSUME DOMAIN task = Workers, NEW w \in Workers, NEW n \in 1 .. 40, script[n].does = "call",
         task[w].call = script[n].call, task[w].step = "called", Settled(n), Run(w)
  PROVE  UnderWay(w, n)'
<1>1. CASE n \in {11, 16, 26, 29, 36}
  <2>1. script[n].call.op = "lookup" /\ lookup(script[n].call.policy_number) = script[n].answer
    BY <1>1, LookupsAnswer
  <2>2. Lookup(w)
    BY <2>1, Begun
  <2>3. Answer(w, script[n].answer)
    BY <2>1, <2>2 DEF Lookup
  <2> QED
    BY <1>1, <2>3, AnswerAsWritten
<1>2. CASE n \in {12, 13, 14, 27, 30, 32}
  <2> DEFINE call == script[n].call
             refusal == propose_refusal(call.policy_number, call.vin_raw, call.date_raw)
  <2>1. call.op = "propose" /\ refusal = Some(script[n].answer)
    BY <1>2, ProposalsRefused
  <2>2. refusal # None /\ refusal[1] = script[n].answer
    BY <2>1, SomeIsNotNone DEF Some
  <2>3. ProposeRefused(w) \/ ProposeChecked(w)
    BY <2>1, Begun
  <2> HIDE DEF refusal
  <2>4. ~ ProposeChecked(w)
    BY <2>2 DEF ProposeChecked, refusal
  <2>5. Answer(w, script[n].answer)
    BY <2>2, <2>3, <2>4 DEF ProposeRefused, refusal
  <2> QED
    BY <1>2, <2>5, AnswerAsWritten
<1>3. CASE n \in {15, 23, 25, 35, 39}
  <2> DEFINE answer == commit_answer(script[n].call.proposal_id)
  <2>1. script[n].call.op = "commit" /\ answer = Some(script[n].answer)
    BY <1>3, CommitsAnswer
  <2>2. answer # None /\ answer[1] = script[n].answer
    BY <2>1, SomeIsNotNone DEF Some
  <2>3. CommitAnswered(w) \/ CommitChecked(w)
    BY <2>1, Begun
  <2> HIDE DEF answer
  <2>4. ~ CommitChecked(w)
    BY <2>2 DEF CommitChecked, answer
  <2>5. Answer(w, script[n].answer)
    BY <2>2, <2>3, <2>4 DEF CommitAnswered, answer
  <2> QED
    BY <1>3, <2>5, AnswerAsWritten
<1>4. CASE n \in {20, 21, 33, 37}
  <2> DEFINE call == script[n].call
             refusal == propose_refusal(call.policy_number, call.vin_raw, call.date_raw)
             change == script[n].answer.change
  <2>1. /\ call.op = "propose" /\ refusal = None
        /\ policies[call.policy_number].policy_number = call.policy_number
        /\ parse_vin(call.vin_raw)[1] = change.vin
        /\ parse_effective_date(call.date_raw)[1] = change.effective_date
        /\ change = [policy_number |-> call.policy_number, vin |-> change.vin,
                     effective_date |-> change.effective_date]
    BY <1>4, Proposed, ProposalsTaken DEF Some
  <2>2. ProposeRefused(w) \/ ProposeChecked(w)
    BY <2>1, Begun
  <2> HIDE DEF refusal
  <2>3. ~ ProposeRefused(w)
    BY <2>1 DEF ProposeRefused, refusal
  <2> HIDE DEF change, call
  <2>4. /\ task[w].call = call /\ UNCHANGED <<policies, now>>
        /\ proposals' = [id \in ProposalIds |->
                           IF IsPendingFor(id, call.policy_number)
                             THEN superseded(proposals[id]) ELSE proposals[id]]
        /\ \E prior : task' = [task EXCEPT ![w] = [step |-> "proposing", call |-> call,
                                                change |-> change, prior |-> prior]]
    BY <2>1, <2>2, <2>3 DEF ProposeChecked, call
  <2>5. /\ task'[w].step = "proposing" /\ task'[w].call = call /\ task'[w].change = change
    BY <2>4
  <2>6. HalfWay(n)'
    BY <1>4, <2>4, HalfSuperseded DEF call
  <2>7. Outside(n)'
    BY <2>4 DEF Settled, Outside
  <2> QED
    BY <1>4, <2>5, <2>6, <2>7 DEF UnderWay, HalfWay, call, change
<1>5. CASE n = 24
  <2>1. script[n].call = Commit(CONTRACT_PROPOSAL_ID)
    BY <1>5, Steps DEF Case
  <2>2. proposals[CONTRACT_PROPOSAL_ID] = offer(21)
    BY <1>5, ProposalsById, Ids, ScriptAssumption DEF Settled
  <2>3. /\ offer(21).state = "pending" /\ offer(21).change.policy_number = "POL-1001"
        /\ offer(21).change.effective_date = 18 /\ offer(21).change.vin = CONTRACT_VIN
    BY Offers DEF Ready
  <2>4. n \in Int /\ Outside(n)
    BY DEF Settled
  <2>5. commit_answer(CONTRACT_PROPOSAL_ID) = None
    <3>1. /\ calendar_date(now) = 17 /\ "POL-1001" \in OnFile
          /\ not_amendable(policies["POL-1001"]) = None
          /\ ~ on_policy(policies["POL-1001"], CONTRACT_VIN)
      <4>1. /\ calendar_date(now) = IF n > 34 THEN 18 ELSE 17
            /\ OnFile = {"POL-1001", "POL-2002", "POL-3003"}
        BY <2>4, World, Zenon
      <4> QED
        BY <1>5, <2>4, <4>1, Standings, CoveredCars DEF not_amendable
    <3>2. apply_refusal(offer(21).change) = None
      BY <2>3, <3>1 DEF apply_refusal
    <3> QED
      BY <2>2, <2>3, <3>2 DEF commit_answer
  <2>6. CommitAnswered(w) \/ CommitChecked(w)
    BY <2>1, Begun DEF Commit
  <2>7. task[w].call.proposal_id = CONTRACT_PROPOSAL_ID
    BY <2>1 DEF Commit
  <2>8. CommitChecked(w)
    BY <2>5, <2>6, <2>7 DEF CommitAnswered
  <2>9. /\ UNCHANGED <<store, now>>
        /\ task' = [task EXCEPT ![w] = [step |-> "applying", call |-> task[w].call,
                      pending |-> offer(21), policy |-> policies["POL-1001"]]]
    BY <2>2, <2>3, <2>7, <2>8 DEF CommitChecked
  <2>10. Settled(n)'
    BY <2>9 DEF Settled, Outside, store
  <2>11. policies["POL-1001"] = policy_at("POL-1001", n)
    BY <2>4, ScriptAssumption DEF Outside
  <2>12. /\ task'[w].step = "applying" /\ task'[w].call = script[n].call
         /\ task'[w].pending = offer(21) /\ task'[w].policy = policy_at("POL-1001", n)
    BY <2>9, <2>11
  <2> QED
    BY <1>5, <2>10, <2>12 DEF UnderWay
<1> QED
  BY <1>1, <1>2, <1>3, <1>4, <1>5, Kinds

\* The second step of a call that proposes.
LEMMA StoresProposal ==
  ASSUME DOMAIN task = Workers, NEW w \in Workers, NEW n \in {20, 21, 33, 37},
         script[n].does = "call", task[w].call = script[n].call, task[w].step = "proposing",
         task[w].change = script[n].answer.change, Outside(n), HalfWay(n), Run(w), InOrder
  PROVE  UnderWay(w, n)'
<1> DEFINE answer == script[n].answer
<1>1. /\ answer.proposal_id \in UnusedIds
      /\ \A m \in DOMAIN scripted_ids :
           (/\ scripted_ids[m] \in UnusedIds
            /\ \A earlier \in 1 .. m - 1 : proposals[scripted_ids[earlier]] # Absent)
              => scripted_ids[m] = answer.proposal_id
  BY NextId
<1>2. ProposeStored(w)
  BY <1>1 DEF Run, Enters, Lookup, ProposeRefused, ProposeChecked, ProposeRaised,
              CommitAnswered, CommitChecked, CommitStored, CommitRaised
<1> DEFINE new(id) == [state |-> "pending", proposal_id |-> id, change |-> answer.change,
                       readback |-> format_readback(answer.change)]
           ready(id) == [kind |-> "confirmation_ready", proposal_id |-> id,
                         change |-> answer.change, readback |-> format_readback(answer.change)]
<1> HIDE DEF answer
<1>3. PICK id \in UnusedIds : /\ proposals' = [proposals EXCEPT ![id] = new(id)]
                             /\ task' = [task EXCEPT ![w] = Returned(task[w].call, ready(id))]
  BY <1>2 DEF ProposeStored, answer
<1>4. id = answer.proposal_id
  <2>1. id \in ProposalIds /\ DOMAIN proposals = ProposalIds
    BY DEF UnusedIds, HalfWay
  <2>2. proposals[id] = Absent
    <3>1. proposals[id].state = "absent"
      BY DEF UnusedIds
    <3>2. proposals[id] = IF id = answer.proposal_id THEN Absent ELSE proposal_at(id, n + 1)
      BY <2>1 DEF HalfWay, answer
    <3>3. \A k \in {20, 21, 33, 37} :
             offer(k).state = "pending" /\ superseded(offer(k)).state = "superseded"
      BY Offers DEF superseded
    <3>4. proposal_at(id, n + 1) = Absent \/ proposal_at(id, n + 1).state # "absent"
      BY <3>3, ProposalsById
    <3> QED
      BY <3>1, <3>2, <3>4
  <2>3. proposals'[id] # Absent
    BY <1>3, <2>1 DEF Absent
  <2>4. PICK m \in DOMAIN scripted_ids :
          /\ scripted_ids[m] = id
          /\ \A earlier \in 1 .. m - 1 : proposals[scripted_ids[earlier]] # Absent
    BY <2>1, <2>2, <2>3 DEF InOrder
  <2> QED
    BY <1>1, <2>4
<1>5. new(id) = offer(n) /\ ready(id) = answer
  BY <1>4, Proposed DEF offer, answer
<1>6. proposals' = [i \in ProposalIds |-> proposal_at(i, n + 1)]
  BY <1>3, <1>4, <1>5, HalfStored DEF answer
<1>7. Settled(n + 1)'
  <2>1. Outside(n + 1) /\ UNCHANGED <<policies, now>>
    BY <1>2, OutsideKept DEF ProposeStored
  <2> QED
    BY <1>6, <2>1 DEF Settled, Outside
<1>8. /\ task'[w].step = "returned" /\ task'[w].call = script[n].call
      /\ task'[w].result = script[n].answer
  BY <1>3, <1>5 DEF Returned, answer
<1> QED
  BY <1>7, <1>8 DEF UnderWay

\* The second step of the commit that is applied.
LEMMA StoresCommit ==
  ASSUME DOMAIN task = Workers, NEW w \in Workers, script[24].does = "call",
         task[w].call = script[24].call, task[w].step = "applying",
         task[w].pending = offer(21), task[w].policy = policy_at("POL-1001", 24), Settled(24),
         Run(w)
  PROVE  UnderWay(w, 24)'
<1>1. \A id \in ProposalIds : proposals[id] = proposal_at(id, 24)
  BY DEF Settled
<1>2. UnusedConfirmations = {"CHG-2026-0917-0031"}
  <2>1. ASSUME NEW id \in ProposalIds PROVE proposals[id].state # "applied"
    <3>1. /\ proposal_at("vap_B", 24) = superseded(offer(20))
          /\ proposal_at("vap_C", 24) = offer(21)
          /\ proposal_at("vap_D", 24) = Absent /\ proposal_at("vap_E", 24) = Absent
          /\ id \notin {"vap_B", "vap_C", "vap_D", "vap_E"} => proposal_at(id, 24) = Absent
      BY ProposalsById
    <3> QED
      BY <1>1, <3>1, Offers DEF superseded, Absent
  <2>2. UsedConfirmations = {}
    BY <2>1 DEF UsedConfirmations
  <2> QED
    BY <2>2, ScriptAssumption DEF UnusedConfirmations
<1>3. CommitStored(w)
  BY <1>2 DEF Run, Enters, Lookup, ProposeRefused, ProposeChecked, ProposeStored, ProposeRaised,
              CommitAnswered, CommitChecked, CommitRaised
<1> DEFINE change == offer(21).change
           policy == policy_at("POL-1001", 24)
           vehicle == [vin |-> change.vin, effective_date |-> change.effective_date]
           updated == [policy EXCEPT !.vehicles = Append(@, vehicle)]
           applied(number) ==
             [kind |-> "applied", proposal_id |-> offer(21).proposal_id,
              confirmation_number |-> number, change |-> change, applied_at |-> now]
<1>4. /\ UNCHANGED now
      /\ policies' = [policies EXCEPT ![policy.policy_number] = updated]
      /\ proposals' = [proposals EXCEPT ![offer(21).proposal_id] =
                         [state |-> "applied", result |-> applied("CHG-2026-0917-0031")]]
      /\ task' = [task EXCEPT ![w] = Returned(task[w].call, applied("CHG-2026-0917-0031"))]
  BY <1>2, <1>3 DEF CommitStored
<1>5. /\ offer(21).proposal_id = CONTRACT_PROPOSAL_ID
      /\ change = [policy_number |-> "POL-1001", vin |-> CONTRACT_VIN, effective_date |-> 18]
      /\ vehicle = contract_vehicle
  BY Offers DEF Ready, contract_vehicle
<1>6. applied("CHG-2026-0917-0031") = contract_applied
  <2>1. now = FIXED_INSTANT
    BY DEF Settled, Outside
  <2> QED
    BY <1>5, <2>1 DEF contract_applied
<1>7. policy.policy_number = "POL-1001" /\ updated = policy_at("POL-1001", 25)
  <2>1. policy = [policy_number |-> "POL-1001", status |-> "active", vehicles |-> << >>]
    BY DEF policy_at
  <2>2. policy_at("POL-1001", 25) =
          [policy_number |-> "POL-1001", status |-> "active", vehicles |-> <<contract_vehicle>>]
    BY DEF policy_at
  <2>3. Append(<< >>, contract_vehicle) = <<contract_vehicle>>
    OBVIOUS
  <2> HIDE DEF policy, vehicle
  <2> QED
    BY <1>5, <2>1, <2>2, <2>3
<1> HIDE DEF policy, updated, vehicle, change, applied
<1>8. Outside(25)'
  <2>1. \A p : p # "POL-1001" => policy_at(p, 25) = policy_at(p, 24)
    BY DEF policy_at
  <2>2. policies = [p \in OnFile |-> policy_at(p, 24)] /\ now = FIXED_INSTANT
    BY DEF Settled, Outside
  <2>3. policies' = [p \in OnFile |-> policy_at(p, 25)]
    BY <1>4, <1>7, <2>1, <2>2
  <2> QED
    BY <1>4, <2>2, <2>3 DEF Outside
<1>9. proposals' = [id \in ProposalIds |-> proposal_at(id, 25)]
  <2>1. \A id : id # "vap_C" => proposal_at(id, 25) = proposal_at(id, 24)
    <3>1. ASSUME NEW id, id # "vap_C" PROVE proposal_at(id, 25) = proposal_at(id, 24)
      <4>1. CASE id \in {"vap_B", "vap_D", "vap_E"}
        BY <4>1, ProposalsById
      <4>2. CASE id \notin {"vap_B", "vap_C", "vap_D", "vap_E"}
        BY <4>2, ProposalsById
      <4> QED
        BY <3>1, <4>1, <4>2
    <3> QED
      BY <3>1
  <2>2. proposal_at("vap_C", 25) = [state |-> "applied", result |-> contract_applied]
    BY ProposalsById
  <2>3. proposals = [id \in ProposalIds |-> proposal_at(id, 24)]
    BY DEF Settled
  <2> QED
    BY <1>4, <1>5, <1>6, <2>1, <2>2, <2>3, Ids
<1>10. Settled(24 + 1)'
  BY <1>8, <1>9 DEF Settled
<1>11. /\ task'[w].step = "returned" /\ task'[w].call = script[24].call
       /\ task'[w].result = script[24].answer
  BY <1>4, <1>6, Steps DEF Returned, Case
<1> QED
  BY <1>10, <1>11 DEF UnderWay

\* Each step that a thread takes with the call of the n-th step is the script's.
LEMMA Serves ==
  ASSUME DOMAIN task = Workers, NEW w \in Workers, NEW n \in 1 .. 40, UnderWay(w, n),
         Run(w), InOrder
  PROVE  UnderWay(w, n)'
<1>1. script[n].does = "call" /\ task[w].call = script[n].call
  BY DEF UnderWay
<1>2. CASE task[w].step = "called"
  BY <1>1, <1>2, FirstStep DEF UnderWay
<1>3. CASE task[w].step = "proposing"
  BY <1>1, <1>3, StoresProposal DEF UnderWay, HalfWay
<1>4. CASE task[w].step = "applying"
  <2>1. /\ n = 24 /\ task[w].pending = offer(21) /\ task[w].policy = policy_at("POL-1001", 24)
        /\ Settled(24)
    BY <1>4 DEF UnderWay
  <2> QED
    BY <1>1, <1>4, <2>1, StoresCommit
<1>5. CASE task[w].step = "returned"
  BY <1>5 DEF Run, Enters, Lookup, ProposeRefused, ProposeChecked, ProposeStored, ProposeRaised,
              CommitAnswered, CommitChecked, CommitStored, CommitRaised
<1> QED
  BY <1>2, <1>3, <1>4, <1>5 DEF UnderWay
-----------------------------------------------------------------------------
(* The script, step after step.                                            *)

\* A snapshot between two calls is what the script has then.
LEMMA SnapshotIsSeen == ASSUME NEW n, Settled(n) PROVE snapshot = Seen(n)
BY DEF Settled, Outside, snapshot, Seen

\* Between the two steps of a comparison nothing is seen to move.
LEMMA SeenKept == ASSUME NEW n \in {18, 29, 30} PROVE Seen(n + 1) = Seen(n)
<1>1. \A p : policy_at(p, n + 1) = policy_at(p, n)
  BY DEF policy_at
<1>2. \A id : proposal_at(id, n + 1) = proposal_at(id, n)
  BY ProposalsById
<1> QED
  BY <1>1, <1>2 DEF Seen

\* A run starts where the script does.
LEMMA FirstStore ==
  /\ Fixture = [p \in OnFile |-> policy_at(p, 1)]
  /\ [id \in ProposalIds |-> Absent] = [id \in ProposalIds |-> proposal_at(id, 1)]
<1>1. \A id : proposal_at(id, 1) = Absent
  BY ProposalsById
<1>2. \A p \in OnFile : Fixture[p] = policy_at(p, 1)
  BY ScriptAssumption DEF policy_at
<1>3. Fixture \in [OnFile -> Policy]
  BY FixtureAssumption
<1> QED
  BY <1>1, <1>2, <1>3

\* The two steps by which the suite itself moves the clock and the store.
LEMMA SuiteMoves ==
  ASSUME NEW n \in {34, 38}, Settled(n), UNCHANGED proposals,
         IF n = 34 THEN now' = advance_days(now) /\ policies' = policies
         ELSE /\ now' = now
              /\ policies' = [policies EXCEPT !["POL-1001"] = [@ EXCEPT !.status = "cancelled"]]
  PROVE  Settled(n + 1)'
<1>1. proposals' = [id \in ProposalIds |-> proposal_at(id, n + 1)]
  <2>1. \A id : /\ proposal_at(id, 35) = proposal_at(id, 34)
                /\ proposal_at(id, 39) = proposal_at(id, 38)
    BY ProposalsById
  <2>2. \A id : proposal_at(id, n + 1) = proposal_at(id, n)
    BY <2>1
  <2> QED
    BY <2>2 DEF Settled
<1>2. CASE n = 34
  <2>1. \A p : policy_at(p, n + 1) = policy_at(p, n)
    BY <1>2 DEF policy_at
  <2>2. Outside(n + 1)'
    BY <1>2, <2>1 DEF Settled, Outside
  <2> QED
    BY <1>1, <2>2 DEF Settled
<1>3. CASE n = 38
  <2>1. \A p : p # "POL-1001" => policy_at(p, n + 1) = policy_at(p, n)
    BY <1>3 DEF policy_at
  <2>2. policy_at("POL-1001", n + 1) = [policy_at("POL-1001", n) EXCEPT !.status = "cancelled"]
    BY <1>3 DEF policy_at
  <2>3. policies = [p \in OnFile |-> policy_at(p, n)]
    BY DEF Settled, Outside
  <2>4. policies' = [p \in OnFile |-> policy_at(p, n + 1)]
    BY <1>3, <2>1, <2>2, <2>3
  <2>5. Outside(n + 1)'
    BY <1>3, <2>4 DEF Settled, Outside
  <2> QED
    BY <1>1, <2>5 DEF Settled
<1> QED
  BY <1>2, <1>3

\* No case of the script expects an answer of status 500.
LEMMA NoServerErrorExpected ==
  ASSUME NEW n \in 1 .. 40, script[n].does = "call"
  PROVE  script[n].answer # ServerError
<1>1. n \in 11 .. 16 \cup {20, 21} \cup 23 .. 27 \cup {29, 30, 32, 33} \cup 35 .. 37 \cup {39}
  BY Kinds
<1> DEFINE Expects(k, answer) == \E call : script[k] = Case(call, answer)
<1>2. /\ Expects(11, No("policy_not_found", "ask_caller_again"))
      /\ Expects(12, No("policy_not_found", "ask_caller_again"))
      /\ Expects(13, No("invalid_vin", "ask_caller_again"))
      /\ Expects(14, No("invalid_effective_date", "ask_caller_again"))
      /\ Expects(15, No("proposal_not_found", "escalate"))
  BY Steps
<1>3. /\ Expects(23, No("proposal_superseded", "escalate"))
      /\ Expects(27, No("vehicle_already_on_policy", "escalate"))
      /\ Expects(29, No("policy_cancelled", "escalate"))
      /\ Expects(30, No("policy_cancelled", "escalate"))
      /\ Expects(39, No("policy_cancelled", "escalate"))
  BY Steps
<1>4. /\ Expects(16, Found("POL-1001", << >>, 17))
      /\ Expects(26, Found("POL-1001", <<contract_vehicle>>, 17))
      /\ Expects(36, Found("POL-3003", << >>, 18))
  BY Steps
<1>5. /\ Expects(20, Ready(FIRST_PROPOSAL_ID, "POL-1001", CONTRACT_VIN, 19))
      /\ Expects(21, Ready(CONTRACT_PROPOSAL_ID, "POL-1001", CONTRACT_VIN, 18))
      /\ Expects(33, Ready(POL3003_PROPOSAL_ID, "POL-3003", CONTRACT_VIN, 17))
      /\ Expects(37, Ready(STATUS_RECHECK_ID, "POL-1001", SECOND_VIN, 18))
  BY Steps
<1>6. /\ Expects(24, contract_applied) /\ Expects(25, contract_applied)
      /\ Expects(32, NoPast(17)) /\ Expects(35, NoPast(18))
  BY Steps
<1>7. \A k, answer : Expects(k, answer) => script[k].answer = answer
  BY DEF Case
<1> HIDE DEF Expects
<1>8. CASE n \in {11, 12, 13, 14, 15}
  <2>1. \E code, recovery : script[n].answer = No(code, recovery)
    BY <1>2, <1>7, <1>8
  <2> QED
    BY <2>1 DEF No, ServerError
<1>9. CASE n \in {23, 27, 29, 30, 39}
  <2>1. \E code, recovery : script[n].answer = No(code, recovery)
    BY <1>3, <1>7, <1>9
  <2> QED
    BY <2>1 DEF No, ServerError
<1>10. CASE n \in {16, 26, 36}
  <2>1. \E p, vehicles, day : script[n].answer = Found(p, vehicles, day)
    BY <1>4, <1>7, <1>10
  <2> QED
    BY <2>1 DEF Found, ServerError
<1>11. CASE n \in {20, 21, 33, 37}
  <2>1. \E id, p, vin, day : script[n].answer = Ready(id, p, vin, day)
    BY <1>5, <1>7, <1>11
  <2> QED
    BY <2>1 DEF Ready, ServerError
<1>12. CASE n \in {24, 25, 32, 35}
  <2>1. script[n].answer \in {contract_applied, NoPast(17), NoPast(18)}
    BY <1>6, <1>7, <1>12
  <2> QED
    BY <2>1 DEF contract_applied, NoPast, ServerError
<1> QED
  BY <1>1, <1>8, <1>9, <1>10, <1>11, <1>12

\* While nothing outside the code goes wrong, nothing raises: the one error that the
\* code itself could make of a call is no answer of the script.
LEMMA NothingRaises ==
  ASSUME SuiteInv, FollowsScript, SuiteNext, ~ run'.outside
  PROVE  ~ run'.trouble /\ (StartRun \/ ~ run.outside)
<1>1. SuiteTypeOK /\ OneRequest /\ CountsAgree
  BY DEF SuiteInv
<1>2. \/ run' = run
      \/ run' = [run EXCEPT !.untouched = FALSE]
      \/ run' = [run EXCEPT !.trouble = TRUE, !.outside = TRUE]
      \/ StartRun
      \/ \E w \in Workers : AnswerCall(w) /\ place = "waiting" /\ task[w].result = ServerError
  BY DEF SuiteNext, Main, Server, AnswerFetch, TakeCall, ServerRuns, AnswerCall, suiteVars,
     LoadFixture, ServerStarted, StartFails, JudgeAlone, ContractFails,
     TakeSnapshot, JudgeSnapshot, MoveClock, CancelPolicy, Send, TimeOut, CasesDone,
     StopServer, GitStatus, GitHead, WriteSummary, WriteExchanges, Judged, CopySummary,
     CopyExchanges, CutShort, EditOrCommit, Raises, Record, GoTo, Next_step
\* The first two leave the trouble as it was, which was nobody's.
<1>3. CASE run' = run \/ run' = [run EXCEPT !.untouched = FALSE]
  BY <1>1, <1>3 DEF SuiteTypeOK, FollowsScript
<1>4. CASE run' = [run EXCEPT !.trouble = TRUE, !.outside = TRUE]
  BY <1>1, <1>4 DEF SuiteTypeOK
<1>5. CASE StartRun
  <2>1. PICK promote \in BOOLEAN :
          run' = [number |-> run.number + 1, promote |-> promote, code |-> repo.sources,
                  trouble |-> FALSE, outside |-> FALSE, untouched |-> TRUE]
    BY <1>5 DEF StartRun
  <2> QED
    BY <1>5, <2>1
<1>6. ASSUME NEW w \in Workers, AnswerCall(w), place = "waiting", task[w].result = ServerError
      PROVE  FALSE
  <2>1. ~ run.outside
    BY <1>1, <1>6 DEF SuiteTypeOK, CountsAgree
  <2>2. task[w].step = "returned" /\ task[w] # Idle
    BY <1>6 DEF AnswerCall, Respond, Idle
  <2>3. wire = "none" /\ at \in 1 .. 40
    BY <1>1, <1>6, <2>2, StepSets, Parts DEF OneRequest, CountsAgree, SuiteTypeOK
  <2>4. UnderWay(w, at)
    BY <1>6, <2>1, <2>2, <2>3 DEF FollowsScript
  <2>5. script[at].does = "call" /\ task[w].result = script[at].answer
    BY <2>2, <2>4 DEF UnderWay
  <2> QED
    BY <1>6, <2>3, <2>5, NoServerErrorExpected
<1> QED
  BY <1>2, <1>3, <1>4, <1>5, <1>6

\* Every step of a run follows the script, until something outside the code goes wrong.
LEMMA FollowsStep == ASSUME SuiteInv, FollowsScript, SuiteNext PROVE FollowsScript'
<1>1. SuiteTypeOK /\ OneRequest /\ CountsAgree
  BY DEF SuiteInv
<1> SUFFICES ASSUME ~ run'.outside PROVE FollowsScript'
  BY DEF FollowsScript
<1>0. ~ run'.trouble
  BY NothingRaises
\* What was so before, but for StartRun.
<1>2. ASSUME ~ run.outside
      PROVE  /\ recorder.failed = FALSE
             /\ place \in {"loading", "starting", "running"} => Settled(at)
             /\ place = "waiting" /\ wire = "sent" => Settled(at)
             /\ place = "waiting" /\ wire = "none" =>
                  \A w \in Workers : task[w] # Idle => UnderWay(w, at)
             /\ place \in {"running", "waiting"} /\ at \in {18, 19} \cup 29 .. 31 =>
                  before = Seen(at)
  BY <1>1, <1>2 DEF FollowsScript, SuiteTypeOK
\* The main thread goes on to the next step of the script.
<1>3. ASSUME NEW n \in 1 .. 40, Settled(n + 1)', ~ recorder'.failed, place' = "running",
             at' = n + 1, n + 1 \in {18, 19} \cup 29 .. 31 => before' = Seen(n + 1)
      PROVE  FollowsScript'
  <2>1. Settled(at)'
    BY <1>3 DEF Settled, Outside
  <2> QED
    BY <1>0, <1>3, <2>1 DEF FollowsScript
\* The cases are over.
<1>4. ASSUME ~ recorder'.failed, place' \notin {"loading", "starting", "running", "waiting"}
      PROVE  FollowsScript'
  BY <1>0, <1>4 DEF FollowsScript
\* The store is left alone.
<1>5. ASSUME NEW n, Settled(n), UNCHANGED <<store, now>> PROVE Settled(n)'
  BY <1>5 DEF Settled, Outside, store
<1>6. CASE StartRun
  <2>1. /\ policies' = Fixture /\ proposals' = [id \in ProposalIds |-> Absent]
        /\ now' = FIXED_INSTANT /\ place' = "loading" /\ at' = 1 /\ ~ recorder'.failed
    BY <1>6 DEF StartRun
  <2>2. Settled(1)'
    BY <2>1, FirstStore DEF Settled, Outside
  <2> QED
    BY <1>0, <2>1, <2>2 DEF FollowsScript, Settled, Outside
<1>7. CASE LoadFixture \/ ServerStarted
  <2>1. /\ UNCHANGED <<store, now, at, recorder, run, before>> /\ at = 1
        /\ place \in {"loading", "starting"} /\ place' \in {"starting", "running", "exited"}
    BY <1>1, <1>7 DEF LoadFixture, ServerStarted, GoTo, Ends, vars, store, CountsAgree
  <2>2. ~ run.outside /\ ~ recorder'.failed /\ Settled(1)
    BY <1>2, <2>1
  <2>3. Settled(1)'
    BY <1>5, <2>1, <2>2
  <2> QED
    BY <1>0, <2>1, <2>2, <2>3 DEF FollowsScript, Settled, Outside
<1>8. CASE StartFails \/ ContractFails \/ TimeOut
  BY <1>1, <1>8, Raised DEF StartFails, ContractFails, TimeOut
<1>9. CASE JudgeAlone \/ TakeSnapshot \/ JudgeSnapshot \/ MoveClock \/ CancelPolicy
  <2>1. /\ place = "running" /\ place' = "running" /\ at' = at + 1 /\ UNCHANGED run
        /\ at \in 1 .. Len(script) /\ at \in 1 .. 40
    BY <1>9, Script, Parts
       DEF JudgeAlone, TakeSnapshot, JudgeSnapshot, MoveClock, CancelPolicy, Step, Next_step, GoTo
  <2>2. PICK n \in 1 .. 40 : n = at
    BY <2>1
  <2>3. /\ ~ run.outside /\ recorder.failed = FALSE /\ Settled(n)
        /\ n \in {18, 19} \cup 29 .. 31 => before = Seen(n)
    BY <1>2, <2>1, <2>2
  <2>4. CASE JudgeAlone
    <3>1. n \in 1 .. 5 \cup 8 .. 10
      BY <2>2, <2>4, Kinds DEF JudgeAlone, Step
    <3>2. Settled(n + 1)'
      BY <1>5, <2>3, <2>4, <3>1, Kept DEF JudgeAlone, vars, store
    <3>3. ~ recorder'.failed
      BY <1>1, <2>3, <2>4 DEF JudgeAlone, expect, SuiteTypeOK
    <3>4. n + 1 \notin {18, 19} \cup 29 .. 31
      BY <3>1
    <3> QED
      BY <1>3, <2>1, <2>2, <3>2, <3>3, <3>4
  <2>5. CASE TakeSnapshot
    <3>1. n \in {17, 28}
      BY <2>2, <2>5, Kinds DEF TakeSnapshot, Step
    <3>2. Settled(n + 1) /\ Settled(n + 1)' /\ ~ recorder'.failed
      BY <1>5, <2>3, <2>5, <3>1, Kept DEF TakeSnapshot, vars, store
    <3>3. before' = Seen(n + 1)
      BY <2>5, <3>2, SnapshotIsSeen DEF TakeSnapshot
    <3> QED
      BY <1>3, <2>1, <2>2, <3>1, <3>2, <3>3
  <2>6. CASE JudgeSnapshot
    <3>1. n \in {19, 31, 40}
      BY <2>2, <2>6, Kinds DEF JudgeSnapshot, Step
    <3>2. Settled(n + 1)'
      BY <1>5, <2>3, <2>6, <3>1, Kept DEF JudgeSnapshot, vars, store
    <3>3. snapshot = Seen(n)
      BY <2>3, SnapshotIsSeen
    <3>4. ~ recorder'.failed
      <4>1. CASE n \in {19, 31}
        <5>1. ~ Step("covered")
          BY <2>2, <4>1, Kinds DEF Step
        <5>2. \E verdict : expect(verdict, verdict)
          BY <2>3, <2>6, <3>3, <4>1, <5>1 DEF JudgeSnapshot
        <5> QED
          BY <1>1, <2>3, <5>2 DEF expect, SuiteTypeOK
      <4>2. CASE n = 40
        <5>1. ~ Step("unmoved")
          BY <2>2, <4>2, Kinds DEF Step
        <5>2. script[at].policy = "POL-1001" /\ script[at].vehicles = <<contract_vehicle>>
          BY <2>2, <4>2, Steps DEF Covered
        <5>3. Seen(n).cover["POL-1001"] = <<contract_vehicle>>
          BY <4>2, ScriptAssumption DEF Seen, policy_at
        <5>4. expect(<<contract_vehicle>>, <<contract_vehicle>>)
          BY <2>6, <3>3, <5>1, <5>2, <5>3 DEF JudgeSnapshot
        <5> QED
          BY <1>1, <2>3, <5>4 DEF expect, SuiteTypeOK
      <4> QED
        BY <3>1, <4>1, <4>2
    <3>5. n + 1 \notin {18, 19} \cup 29 .. 31
      BY <3>1
    <3> QED
      BY <1>3, <2>1, <2>2, <3>2, <3>4, <3>5
  <2>7. CASE MoveClock \/ CancelPolicy
    <3>1. n = IF MoveClock THEN 34 ELSE 38
      BY <2>2, <2>7, Kinds DEF MoveClock, CancelPolicy, Step
    <3>2. ~ recorder'.failed
      BY <2>3, <2>7 DEF MoveClock, CancelPolicy
    <3>3. Settled(n + 1)'
      <4>1. CASE MoveClock
        BY <2>3, <3>1, <4>1, SuiteMoves DEF MoveClock, store
      <4>2. CASE CancelPolicy /\ n = 38
        <5>1. script[at].policy = "POL-1001"
          BY <2>2, <4>2, Steps DEF Cancel
        <5>2. /\ UNCHANGED <<proposals, now>>
              /\ policies' = [policies EXCEPT !["POL-1001"] = [@ EXCEPT !.status = "cancelled"]]
          BY <4>2, <5>1 DEF CancelPolicy, ReplaceStatus
        <5> QED
          BY <2>3, <4>2, <5>2, SuiteMoves
      <4> QED
        BY <2>7, <3>1, <4>1, <4>2
    <3> QED
      BY <1>3, <2>1, <2>2, <3>1, <3>2, <3>3
  <2> QED
    BY <1>9, <2>4, <2>5, <2>6, <2>7
<1>10. CASE Send
  <2>1. /\ place = "running" /\ place' = "waiting" /\ wire' = "sent"
        /\ UNCHANGED <<store, now, at, recorder, run, before>>
    BY <1>10 DEF Send, Step, vars, store
  <2>2. /\ ~ recorder'.failed /\ Settled(at)
        /\ at \in {18, 19} \cup 29 .. 31 => before = Seen(at)
    BY <1>2, <2>1
  <2>3. Settled(at)'
    BY <2>1, <2>2 DEF Settled, Outside, store
  <2> QED
    BY <1>0, <2>1, <2>2, <2>3 DEF FollowsScript
<1>11. CASE CasesDone \/ StopServer \/ GitStatus \/ GitHead \/ WriteSummary \/ WriteExchanges
  <2>1. UNCHANGED <<recorder, run>> /\ place' \notin {"loading", "starting", "running", "waiting"}
    BY <1>11 DEF CasesDone, StopServer, GitStatus, GitHead, WriteSummary, WriteExchanges, GoTo
  <2> QED
    BY <1>2, <1>4, <2>1
<1>12. CASE Judged \/ CopySummary \/ CopyExchanges
  <2>1. UNCHANGED <<recorder, run>> /\ place' \notin {"loading", "starting", "running", "waiting"}
    BY <1>12 DEF Judged, CopySummary, CopyExchanges, Ends
  <2> QED
    BY <1>2, <1>4, <2>1
<1>13. CASE CutShort
  BY <1>1, <1>13 DEF CutShort, SuiteTypeOK
<1>14. CASE EditOrCommit
  <2>1. /\ UNCHANGED <<store, now, task, place, at, wire, recorder, before>>
        /\ run'.outside = run.outside
    BY <1>1, <1>14 DEF EditOrCommit, vars, store, SuiteTypeOK
  <2> QED
    BY <1>0, <2>1 DEF FollowsScript, UnderWay, Settled, Outside, store
\* Steps of the server while nobody waits for it.
<1>15. ASSUME Server, place \notin {"idle", "exited", "waiting"} PROVE FollowsScript'
  <2>1. UNCHANGED <<place, at, recorder, run, before>>
    BY <1>15 DEF Server, AnswerFetch, TakeCall, ServerRuns, AnswerCall, suiteVars
  <2>2. place \notin {"loading", "starting", "running"}
    <3> SUFFICES ASSUME place \in {"loading", "starting", "running"} PROVE FALSE
      OBVIOUS
    <3>1. DOMAIN task = Workers /\ wire = "none" /\ \A w \in Workers : task[w] = Idle
      BY <1>1 DEF OneRequest
    <3>2. \A w \in Workers : ~ Run(w) /\ task[w].step # "returned"
      BY <3>1, RunMoves DEF Idle
    <3> QED
      BY <1>15, <3>1, <3>2 DEF Server, AnswerFetch, TakeCall, ServerRuns, AnswerCall, Respond
  <2> QED
    BY <1>2, <1>4, <1>15, <2>1, <2>2
\* Steps of the server while the suite waits.
<1>16. CASE place = "waiting" /\ Server
  <2>1. at \in 1 .. 40
    BY <1>1, <1>16, StepSets, Parts DEF CountsAgree
  <2>2. PICK n \in 1 .. 40 : n = at
    BY <2>1
  <2>3. ~ run.outside => /\ recorder.failed = FALSE
                         /\ wire = "sent" => Settled(n)
                         /\ wire = "none" => \A w \in Workers : task[w] # Idle => UnderWay(w, n)
                         /\ n \in {18, 19} \cup 29 .. 31 => before = Seen(n)
    BY <1>2, <1>16, <2>2
  <2>4. /\ DOMAIN task = Workers
        /\ wire = "sent" => \A w \in Workers : task[w] = Idle
        /\ wire \in {"sent", "none"}
        /\ \A w \in Workers : task[w] # Idle =>
             wire = "none" /\ \A other \in Workers \ {w} : task[other] = Idle
    BY <1>1, <1>16 DEF OneRequest, SuiteTypeOK
\* A call's own thread is the only one that moves.
  <2>5. ASSUME ~ run.outside, NEW w \in Workers, UnderWay(w, n)',
               place' = "waiting", wire' = "none",
               \A other \in Workers \ {w} : task'[other] = Idle,
               UNCHANGED <<at, recorder, before>>
        PROVE  FollowsScript'
    <3>1. \A u \in Workers : task'[u] # Idle => u = w
      BY <2>5
    <3>2. UnderWay(w, at)'
      BY <2>2, <2>5 DEF UnderWay, Settled, Outside
    <3> QED
      BY <1>0, <2>2, <2>3, <2>5, <3>1, <3>2 DEF FollowsScript
  <2>6. CASE AnswerFetch
    <3>1. wire = "sent" /\ script[n].does = "fetch"
      BY <2>2, <2>6 DEF AnswerFetch
    <3>2. Record(framework_status(script[n]), script[n].status) /\ UNCHANGED <<store, now>>
      BY <1>16, <2>2, <2>6 DEF AnswerFetch, vars, store
    <3>3. n \in {6, 7, 18, 22} /\ framework_status(script[n]) = script[n].status
      <4>1. n \in {6, 7, 18, 22}
        BY <3>1, Kinds
      <4>2. script[6] = Fetch(FALSE, 200) /\ script[7] = Fetch(FALSE, 200)
        <5>1. script[6] = opening[6] /\ script[7] = opening[7]
          BY Parts
        <5> QED
          BY <5>1 DEF opening
      <4>3. script[18] = Fetch(TRUE, 422) /\ script[22] = Fetch(TRUE, 422)
        BY Steps
      <4>4. \A k \in {6, 7, 18, 22} : framework_status(script[k]) = script[k].status
        BY <4>2, <4>3 DEF Fetch, framework_status
      <4> QED
        BY <4>1, <4>4
    <3>4. /\ ~ run.outside /\ ~ recorder'.failed
          /\ place' = "running" /\ at' = n + 1 /\ before' = before
      BY <2>2, <2>3, <3>2, <3>3 DEF Record
    <3>5. Settled(n + 1)'
      BY <1>5, <2>3, <3>1, <3>2, <3>3, <3>4, Kept
    <3>6. n + 1 \in {18, 19} \cup 29 .. 31 => before' = Seen(n + 1)
      BY <2>3, <3>3, <3>4, SeenKept
    <3> QED
      BY <1>3, <3>4, <3>5, <3>6
  <2>7. ASSUME NEW w \in Workers, TakeCall(w) PROVE FollowsScript'
    <3>1. /\ wire = "sent" /\ wire' = "none" /\ script[n].does = "call" /\ place' = "waiting"
          /\ UNCHANGED <<store, now, at, recorder, before, run>>
          /\ task' = [task EXCEPT ![w] = [step |-> "called", call |-> script[n].call]]
      BY <1>16, <2>2, <2>7 DEF TakeCall, Receive
    <3>2. ~ run.outside /\ Settled(n)'
      BY <1>5, <2>3, <3>1
    <3>3. task'[w].step = "called" /\ task'[w].call = script[n].call
      BY <2>4, <3>1
    <3>4. \A other \in Workers \ {w} : task'[other] = Idle
      BY <2>4, <3>1
    <3>5. UnderWay(w, n)'
      BY <3>1, <3>2, <3>3 DEF UnderWay
    <3> QED
      BY <2>5, <3>1, <3>2, <3>4, <3>5
  <2>8. ASSUME NEW w \in Workers, ServerRuns(w) PROVE FollowsScript'
    <3>1. Run(w) /\ InOrder /\ UNCHANGED <<place, at, wire, recorder, before, run>>
      BY <2>8 DEF ServerRuns, suiteVars
    <3>2. /\ task[w] # Idle /\ wire = "none"
          /\ \A other \in Workers \ {w} : task'[other] = Idle
      BY <2>4, <3>1, RunMoves
    <3>3. ~ run.outside /\ UnderWay(w, n)
      BY <2>3, <3>1, <3>2
    <3>4. UnderWay(w, n)'
      BY <2>4, <3>1, <3>3, Serves
    <3> QED
      BY <1>16, <2>5, <3>1, <3>2, <3>3, <3>4
  <2>9. ASSUME NEW w \in Workers, AnswerCall(w) PROVE FollowsScript'
    <3>1. task[w].step = "returned" /\ UNCHANGED <<store, now>>
      BY <2>9 DEF AnswerCall, Respond
    <3>2. task[w] # Idle /\ wire = "none"
      BY <2>4, <3>1 DEF Idle
    <3>3. task[w].result # ServerError /\ Record(task[w].result, script[n].answer)
      BY <1>0, <1>1, <1>16, <2>2, <2>9, Raised DEF AnswerCall
    <3>4. ~ run.outside /\ at' = n + 1 /\ place' = "running" /\ before' = before
      BY <2>2, <3>3 DEF Record
    <3>5. script[n].does = "call" /\ task[w].result = script[n].answer /\ Settled(n + 1)
      BY <2>3, <3>1, <3>2, <3>4 DEF UnderWay
    <3>6. ~ recorder'.failed
      BY <2>3, <3>3, <3>4, <3>5 DEF Record
    <3>7. Settled(n + 1)'
      BY <1>5, <3>1, <3>5
    <3>8. n + 1 \in {18, 19} \cup 29 .. 31 => before' = Seen(n + 1)
      <4>1. n \notin {17, 18, 28}
        BY <3>5, Kinds
      <4>2. n + 1 \in {18, 19} \cup 29 .. 31 => n \in {29, 30}
        BY <4>1
      <4> QED
        BY <2>3, <3>4, <4>2, SeenKept
    <3> QED
      BY <1>3, <3>4, <3>6, <3>7, <3>8
  <2> QED
    BY <1>16, <2>6, <2>7, <2>8, <2>9 DEF Server
<1> QED
  BY <1>6, <1>7, <1>8, <1>9, <1>10, <1>11, <1>12, <1>13, <1>14, <1>15, <1>16 DEF SuiteNext, Main

\* Before the first run there is nothing to follow.
LEMMA FollowsStart == SuiteInit => FollowsScript
BY DEF SuiteInit, FollowsScript

\* A step that changes nothing.
LEMMA FollowsStutter == FollowsScript /\ UNCHANGED allSuiteVars => FollowsScript'
BY DEF FollowsScript, UnderWay, Settled, Outside, allSuiteVars, suiteVars, vars

\* Until something outside the code goes wrong, a run of the suite has the store, the
\* clock and the answers that its script expects, whichever threads run the calls
\* (api_suite.py, _run_cases).
THEOREM ScriptFollowed == SuiteSpec => []FollowsScript
<1>1. SuiteInv /\ FollowsScript /\ [SuiteNext]_allSuiteVars => FollowsScript'
  BY FollowsStep, FollowsStutter
<1> QED
  BY SuiteInductive, FollowsStart, <1>1, PTL DEF SuiteSpec

\* Every case of the suite is what the servicing code answers: a run fails only when
\* something outside the code went wrong (api_suite.py, _run_cases).
THEOREM ExpectationsMet == SuiteSpec => []ExpectationsHold
<1>1. FollowsScript => ExpectationsHold
  BY DEF FollowsScript, ExpectationsHold
<1> QED
  BY ScriptFollowed, <1>1, PTL
=============================================================================
