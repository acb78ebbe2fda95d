-------------------------------- MODULE Domain --------------------------------
(***************************************************************************)
(* The value rules of insurance_backend/domain.py: what a caller's words   *)
(* become, what a rejection carries and what a readback says.  Texts are   *)
(* members of small sets; what the code does to a text is given by the     *)
(* functions below, so that two texts that fold to one VIN stay apart      *)
(* until parse_vin makes them equal.                                       *)
(***************************************************************************)
EXTENDS Integers

CONSTANTS
  PolicyNumbers,  \* every policy number a caller may say
  RawVins,        \* every text a caller's VIN may be
  Upper,          \* str.upper on those texts
  VinShaped,      \* the texts that match _VIN_RE: 17 digits and capitals but I, O, Q
  RawDates,       \* every text a caller's date may be
  DateShaped,     \* the texts that match _EFFECTIVE_DATE_RE
  CalendarDay,    \* the day a text names; its domain: the texts that name one
  Instants,       \* the readings of the server's clock
  NewYorkDay      \* the America/New_York day of each reading

ASSUME TextsAssumption ==
  /\ Upper \in [RawVins -> RawVins]
  /\ VinShaped \subseteq RawVins
  /\ \A v \in VinShaped : Upper[v] = v

ASSUME DatesAssumption ==
  /\ DOMAIN CalendarDay \subseteq RawDates
  /\ \A d \in DOMAIN CalendarDay : CalendarDay[d] \in Int
  /\ NewYorkDay \in [Instants -> Int]

-----------------------------------------------------------------------------
PolicyStatus == {"active", "cancelled"}

RejectionCode ==
  {"policy_not_found", "policy_cancelled", "invalid_vin",
   "invalid_effective_date", "effective_date_in_past", "proposal_not_found",
   "proposal_superseded", "vehicle_already_on_policy"}

\* The days a caller's date can name.
Days == {CalendarDay[d] : d \in DOMAIN CalendarDay}

Vehicle == [vin : VinShaped, effective_date : Days]

Change == [policy_number : PolicyNumbers, vin : VinShaped, effective_date : Days]

\* An optional value is an empty sequence or a sequence of one: the code's
\* "value | RejectionCode" of the parsers, and "value | None".
None == << >>
Some(x) == <<x>>

\* The fields of the sentence the server speaks, apart from the names the
\* change gives them: the text is built field by field, and a reader can take
\* each field out of it again.
Readback == [vin_spoken : VinShaped, policy_spoken : PolicyNumbers, spoken_date : Days]

-----------------------------------------------------------------------------
\* A mistake for the checks to catch: the text is matched folded and kept raw.
parse_vin_unfolded(raw) ==
  IF Upper[raw] \in VinShaped THEN Some(raw) ELSE None

parse_vin(raw) ==
  IF Upper[raw] \in VinShaped THEN Some(Upper[raw]) ELSE None

\* A text that names a day in another shape (YYYYMMDD) is refused, and so is a
\* text of the right shape that names no day (month 13).
parse_effective_date(raw) ==
  IF raw \in DateShaped \cap DOMAIN CalendarDay
    THEN Some(CalendarDay[raw])
    ELSE None

calendar_date(instant) == NewYorkDay[instant]

format_readback(change) ==
  [vin_spoken    |-> change.vin,
   policy_spoken |-> change.policy_number,
   spoken_date   |-> change.effective_date]

recovery_for(code) ==
  IF code \in {"policy_not_found", "invalid_vin", "invalid_effective_date",
               "effective_date_in_past"}
    THEN "ask_caller_again"
    ELSE "escalate"

\* The wording of the message is left out, except the earliest day that a
\* past-date message names.
rejected(code) ==
  [kind |-> "rejected", code |-> code, recovery |-> recovery_for(code), api_date |-> None]

rejected_past(today) ==
  [kind |-> "rejected", code |-> "effective_date_in_past",
   recovery |-> recovery_for("effective_date_in_past"), api_date |-> Some(today)]

not_amendable(policy) ==
  IF policy.status = "active" THEN None ELSE Some(rejected("policy_cancelled"))
=============================================================================
