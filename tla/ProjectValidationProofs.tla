------------------------ MODULE ProjectValidationProofs ------------------------
(***************************************************************************)
(* The theorems of ProjectValidation: what doctor's verdict is worth, for   *)
(* every project, whatever its registries and files hold.                   *)
(***************************************************************************)
EXTENDS ProjectValidation, FiniteSetTheorems, SequenceTheorems, WellFoundedInduction, TLAPS

-----------------------------------------------------------------------------
(* Numbers.  A set of natural numbers that is not empty has a least one;    *)
(* that is induction, over sets in place of formulas.                       *)

\* A set of natural numbers that is not empty has a least one.
LEMMA Least == ASSUME NEW S, S \subseteq Nat, S # {} PROVE \E m \in S : \A n \in S : m <= n
<1> DEFINE R == OpToRel(<, Nat)
<1>1. IsWellFoundedOn(R, Nat)
  BY NatLessThanWellFounded
<1>2. \A m, n \in Nat : <<m, n>> \in R <=> m < n
  BY DEF OpToRel
<1> HIDE DEF R
<1>3. PICK m \in S : \A n \in S : <<n, m>> \notin R
  BY <1>1, WFMin
<1>4. ASSUME NEW n \in S PROVE m <= n
  <2>1. ~ (n < m)
    BY <1>2, <1>3
  <2>2. m \in Nat /\ n \in Nat
    OBVIOUS
  <2> QED
    BY <2>1, <2>2
<1> QED
  BY <1>4

\* A set that has 0, and with each number the next, has them all.
LEMMA Counted ==
  ASSUME NEW S, 0 \in S, \A n \in Nat : n \in S => n + 1 \in S
  PROVE  Nat \subseteq S
<1> SUFFICES ASSUME Nat \ S # {} PROVE FALSE
  OBVIOUS
<1>1. PICK m \in Nat \ S : \A n \in Nat \ S : m <= n
  BY Least
<1>2. m # 0 /\ m - 1 \in Nat /\ ~ (m <= m - 1)
  BY <1>1
<1>3. m - 1 \in S
  BY <1>1, <1>2
<1>4. (m - 1) + 1 = m
  BY <1>1
<1> QED
  BY <1>1, <1>2, <1>3, <1>4

\* The least number of a set is in it,
LEMMA MinIs == ASSUME NEW S, S \subseteq Nat, S # {} PROVE Min(S) \in S
BY Least DEF Min

\* and so is the greatest, if there is a bound.
LEMMA MaxIs ==
  ASSUME NEW n \in Nat, NEW S, S \subseteq 1 .. n, S # {}
  PROVE  Max(S) \in S
<1> DEFINE T == {k \in Nat : n - k \in S}
<1>1. T # {}
  <2>1. PICK i \in S : TRUE
    OBVIOUS
  <2>2. n - i \in Nat /\ n - (n - i) = i
    BY <2>1
  <2> QED
    BY <2>1, <2>2
<1>2. PICK k \in T : \A l \in T : k <= l
  BY <1>1, Least
<1>3. ASSUME NEW i \in S PROVE n - k >= i
  <2>1. n - i \in Nat /\ n - (n - i) = i /\ i \in Int
    BY <1>3
  <2>2. n - i \in T
    BY <2>1
  <2> QED
    BY <1>2, <2>1, <2>2
<1>4. n - k \in S
  BY <1>2
<1> QED
  BY <1>3, <1>4 DEF Max
-----------------------------------------------------------------------------
(* Lists.                                                                  *)

\* A list is the function of its positions.
LEMMA ListIs ==
  ASSUME NEW s, IsList(s)
  PROVE  /\ Len(s) \in Nat /\ DOMAIN s = 1 .. Len(s)
         /\ s = [i \in 1 .. Len(s) |-> s[i]]
         /\ \A i \in 1 .. Len(s) : s[i] \in Range(s)
         /\ \A x \in Range(s) : \E i \in 1 .. Len(s) : x = s[i]
BY LenProperties DEF IsList, Range

\* An optional value is a set of one or of none.
LEMMA OptionalIs ==
  ASSUME NEW x, IsOptional(x)
  PROVE  /\ x # None => Range(x) = {x[1]}
         /\ x = None => Range(x) = {}
<1>1. CASE x = None
  BY <1>1 DEF None, Range
<1>2. CASE x = Some(x[1])
  BY <1>2 DEF None, Some, Range
<1> QED
  BY <1>1, <1>2 DEF IsOptional

\* A value is not the absence of one, and can be taken out again.
LEMMA SomeIsNotNone == \A x : Some(x) # None /\ Some(x)[1] = x
BY DEF Some, None

\* How many numbers there are from 1 to n.
LEMMA Interval ==
  ASSUME NEW n \in Nat
  PROVE  IsFiniteSet(1 .. n) /\ Cardinality(1 .. n) = n
<1>1. 1 \in Int /\ n \in Int
  OBVIOUS
<1>2. IsFiniteSet(1 .. n) /\ Cardinality(1 .. n) = IF 1 > n THEN 0 ELSE n - 1 + 1
  BY <1>1, FS_Interval, Zenon
<1>3. (IF 1 > n THEN 0 ELSE n - 1 + 1) = n
  OBVIOUS
<1> QED
  BY <1>2, <1>3

\* A list that is kept whole.
LEMMA KeptWhole ==
  ASSUME NEW s, IsList(s), NEW at, at = DOMAIN s
  PROVE  Kept(s, at) = s
<1>1. /\ Len(s) \in Nat /\ at = 1 .. Len(s) /\ s = [i \in 1 .. Len(s) |-> s[i]]
  BY ListIs
<1>2. Cardinality(at) = Len(s)
  BY <1>1, Interval
<1>3. ASSUME NEW i \in 1 .. Len(s)
      PROVE  Cardinality({j \in at : j <= i}) = i
  <2>1. {j \in at : j <= i} = 1 .. i
    BY <1>1
  <2>2. i \in Nat
    BY <1>1
  <2> QED
    BY <2>1, <2>2, Interval, Zenon
<1>4. ASSUME NEW n \in 1 .. Len(s)
      PROVE  (CHOOSE i \in at : Cardinality({j \in at : j <= i}) = n) = n
  BY <1>1, <1>3
<1> QED
  BY <1>1, <1>2, <1>4 DEF Kept

\* The first fault of a list is none if all are none.
LEMMA FirstIs ==
  ASSUME NEW faults, DOMAIN faults \subseteq Nat
  PROVE  First(faults) = None <=> \A i \in DOMAIN faults : faults[i] = None
<1> DEFINE found == {i \in DOMAIN faults : faults[i] # None}
<1>1. found # {} => Min(found) \in found
  BY MinIs
<1> QED
  BY <1>1 DEF First

\* previous is what its definition says.
LEMMA PreviousIs ==
  ASSUME NEW history, Len(history) \in Nat
  PROVE  /\ previous(history)[0] = -1
         /\ \A n \in 1 .. Len(history) :
              previous(history)[n] =
                IF history[n].object /\ later(history[n], previous(history)[n - 1])
                  THEN WholeSeconds(history[n].tenths)
                  ELSE previous(history)[n - 1]
<1> DEFINE Next(last, n) ==
             IF history[n].object /\ later(history[n], last)
               THEN WholeSeconds(history[n].tenths) ELSE last
           Counts(f, n) == f = [i \in 0 .. n |-> IF i = 0 THEN -1 ELSE Next(f[i - 1], i)]
           S == {n \in Nat : \E f : Counts(f, n)}
<1> HIDE DEF Next
<1>1. 0 \in S
  <2>1. Counts([i \in 0 .. 0 |-> -1], 0)
    OBVIOUS
  <2> QED
    BY <2>1
<1>2. ASSUME NEW n \in Nat, n \in S PROVE n + 1 \in S
  <2>1. PICK f : Counts(f, n)
    BY <1>2
  <2> DEFINE g == [i \in 0 .. n + 1 |-> IF i = n + 1 THEN Next(f[n], n + 1) ELSE f[i]]
  <2>2. ASSUME NEW i \in 0 .. n + 1
        PROVE  g[i] = IF i = 0 THEN -1 ELSE Next(g[i - 1], i)
    <3>1. CASE i = 0
      BY <2>1, <3>1
    <3>2. CASE i = n + 1
      BY <3>2
    <3>3. CASE i \in 1 .. n
      BY <2>1, <3>3
    <3> QED
      BY <3>1, <3>2, <3>3
  <2>3. Counts(g, n + 1)
    BY <2>2
  <2>4. n + 1 \in Nat
    OBVIOUS
  <2> HIDE DEF Counts, g
  <2> QED
    BY <2>3, <2>4
<1>3. Len(history) \in S
  BY <1>1, <1>2, Counted
<1>4. Counts(previous(history), Len(history))
  BY <1>3 DEF previous, Next
<1> QED
  BY <1>4 DEF Next
-----------------------------------------------------------------------------
(* What is registered.                                                     *)

\* The keys of a dictionary are different.
KeysDiffer(ids) == \A i, j \in DOMAIN ids : ids[i].key = ids[j].key => i = j

\* One more entry with a new key keeps the keys different and the others in place.
LEMMA RegisterOne ==
  ASSUME NEW K, NEW I, NEW ids \in Seq([key : K, id : I]), KeysDiffer(ids),
         NEW k \in K, NEW id \in I, ~ Registered(ids, k)
  PROVE  LET more == Append(ids, [key |-> k, id |-> id]) IN
           /\ more \in Seq([key : K, id : I]) /\ KeysDiffer(more)
           /\ Len(more) = Len(ids) + 1
           /\ \A i \in 1 .. Len(ids) : more[i] = ids[i]
           /\ more[Len(ids) + 1] = [key |-> k, id |-> id]
<1> DEFINE new == [key |-> k, id |-> id]
           more == Append(ids, new)
<1>1. new \in [key : K, id : I] /\ new.key = k
  OBVIOUS
<1> HIDE DEF new
<1>2. /\ more \in Seq([key : K, id : I]) /\ Len(more) = Len(ids) + 1
      /\ \A i \in 1 .. Len(ids) : more[i] = ids[i]
      /\ more[Len(ids) + 1] = new
      /\ Len(ids) \in Nat /\ DOMAIN ids = 1 .. Len(ids)
      /\ DOMAIN more = 1 .. Len(ids) + 1
  BY <1>1, AppendProperties, LenProperties
<1> HIDE DEF more
<1>3. ASSUME NEW i \in DOMAIN more, NEW j \in DOMAIN more, more[i].key = more[j].key
      PROVE  i = j
  <2>1. \A n \in 1 .. Len(ids) : more[n].key # k
    BY <1>2 DEF Registered
  <2>2. CASE i \in 1 .. Len(ids) /\ j \in 1 .. Len(ids)
    BY <1>2, <1>3, <2>2 DEF KeysDiffer
  <2>3. CASE i = Len(ids) + 1 \/ j = Len(ids) + 1
    <3>1. more[i].key = k /\ more[j].key = k
      BY <1>1, <1>2, <1>3, <2>3
    <3>2. i \notin 1 .. Len(ids) /\ j \notin 1 .. Len(ids)
      BY <2>1, <3>1
    <3> QED
      BY <1>2, <3>2
  <2> QED
    BY <1>2, <2>2, <2>3
<1> QED
  BY <1>2, <1>3 DEF KeysDiffer, more, new

\* What tool_refusal has looked at when it finds nothing,
LEMMA ToolTaken ==
  ASSUME NEW entry, NEW ids, tool_refusal(entry, ids) = None
  PROVE  /\ entry.id \in ToolIds /\ entry.config \in ToolPaths
         /\ project.tool_files[entry.config] # None
         /\ project.tool_files[entry.config][1].name \in Slugs
         /\ ~ Registered(ids, project.tool_files[entry.config][1].name)
BY SomeIsNotNone DEF tool_refusal

\* and test_refusal.
LEMMA TestTaken ==
  ASSUME NEW entry, NEW ids, test_refusal(entry, ids) = None
  PROVE  /\ entry.config \in TestPaths \cap Stems /\ entry.id \in TestIds
         /\ ~ Registered(ids, entry.config)
BY SomeIsNotNone DEF test_refusal

-----------------------------------------------------------------------------
(* The types, and how far the loops have come.                              *)

\* The types hold at first.
LEMMA DoctorTypeInit == DoctorInit => DoctorTypeOK
<1> SUFFICES ASSUME DoctorInit PROVE DoctorTypeOK
  OBVIOUS
<1> USE DEF DoctorInit
<1>1. /\ place \in {"preflight", "tools", "tests", "links", "reporting", "reported", "raised"}
      /\ exit \in {None, Some(0), Some(1)}
      /\ exit = None <=> place \notin {"reported", "raised"}
      /\ position \in Nat \ {0}
  OBVIOUS
<1>2. Readable(project)
  BY FilesAssumption
<1>3. /\ tool_ids \in Seq([key : Slugs, id : ToolIds])
      /\ test_ids \in Seq([key : Stems, id : TestIds])
      /\ tool_ids = << >> /\ test_ids = << >>
  OBVIOUS
<1>4. \A i \in DOMAIN << >> : FALSE
  OBVIOUS
<1> QED
  BY <1>1, <1>2, <1>3, <1>4 DEF DoctorTypeOK

\* Every step keeps the types: a key is registered once.
LEMMA DoctorTypeStep == DoctorTypeOK /\ [DoctorNext]_doctorVars => DoctorTypeOK'
<1> SUFFICES ASSUME DoctorTypeOK, [DoctorNext]_doctorVars PROVE DoctorTypeOK'
  OBVIOUS
<1> DEFINE Places == /\ place \in {"preflight", "tools", "tests", "links", "reporting",
                                   "reported", "raised"}
                     /\ exit \in {None, Some(0), Some(1)}
                     /\ exit = None <=> place \notin {"reported", "raised"}
           Tools == tool_ids \in Seq([key : Slugs, id : ToolIds]) /\ KeysDiffer(tool_ids)
           Tests == test_ids \in Seq([key : Stems, id : TestIds]) /\ KeysDiffer(test_ids)
<1>1. Places /\ Readable(project) /\ position \in Nat \ {0} /\ Tools /\ Tests
  BY DEF DoctorTypeOK, KeysDiffer
<1>2. ASSUME Places', Readable(project)', position' \in Nat \ {0}, Tools', Tests'
      PROVE  DoctorTypeOK'
  BY <1>2 DEF DoctorTypeOK, KeysDiffer
<1> HIDE DEF Places, Tools, Tests
<1>3. Readable(project)'
  <2>1. project' = project
    BY DEF DoctorNext, FixturesRaise, ReadProject, CheckTool, MissingTools, CheckTest, MissingTests,
           LinkAgent, Report, doctorVars
  <2> QED
    BY <1>1, <2>1 DEF Readable
<1>4. position' \in Nat \ {0}
  <2>1. position' \in {position, position + 1, 1}
    BY Zenon DEF DoctorNext, FixturesRaise, ReadProject, CheckTool, MissingTools, CheckTest,
                 MissingTests, LinkAgent, Report, doctorVars
  <2> QED
    BY <1>1, <2>1
<1>5. Places'
  <2> USE <1>1, SomeIsNotNone DEF Places
  <2>1. CASE FixturesRaise
    BY <2>1 DEF FixturesRaise
  <2>2. CASE ReadProject
    BY <2>2 DEF ReadProject
  <2>3. CASE CheckTool
    BY <2>3 DEF CheckTool
  <2>4. CASE MissingTools
    BY <2>4 DEF MissingTools
  <2>5. CASE CheckTest
    BY <2>5 DEF CheckTest
  <2>6. CASE MissingTests
    BY <2>6 DEF MissingTests
  <2>7. CASE LinkAgent
    BY <2>7 DEF LinkAgent
  <2>8. CASE Report
    BY <2>8 DEF Report
  <2>9. CASE UNCHANGED doctorVars
    BY <2>9 DEF doctorVars
  <2> QED
    BY <2>1, <2>2, <2>3, <2>4, <2>5, <2>6, <2>7, <2>8, <2>9 DEF DoctorNext
<1>6. Tools'
  <2>1. CASE UNCHANGED tool_ids
    BY <1>1, <2>1 DEF Tools
  <2>2. CASE tool_ids' # tool_ids
    <3>1. CheckTool
      BY <2>2 DEF DoctorNext, FixturesRaise, ReadProject, MissingTools, CheckTest,
                  MissingTests, LinkAgent, Report, doctorVars
    <3> DEFINE entry == entries(project.tools)[position]
               file == project.tool_files[entry.config][1]
    <3>2. /\ tool_refusal(entry, tool_ids) = None
          /\ tool_ids' = Append(tool_ids, [key |-> file.name, id |-> entry.id])
      BY <2>2, <3>1 DEF CheckTool
    <3> HIDE DEF entry
    <3>3. file.name \in Slugs /\ entry.id \in ToolIds /\ ~ Registered(tool_ids, file.name)
      BY <3>2, ToolTaken
    <3> HIDE DEF file
    <3> QED
      BY <1>1, <3>2, <3>3, RegisterOne DEF Tools
  <2> QED
    BY <2>1, <2>2
<1>7. Tests'
  <2>1. CASE UNCHANGED test_ids
    BY <1>1, <2>1 DEF Tests
  <2>2. CASE test_ids' # test_ids
    <3>1. CheckTest
      BY <2>2 DEF DoctorNext, FixturesRaise, ReadProject, MissingTools, CheckTool,
                  MissingTests, LinkAgent, Report, doctorVars
    <3> DEFINE entry == entries(project.tests)[position]
    <3>2. /\ test_refusal(entry, test_ids) = None
          /\ test_ids' = Append(test_ids, [key |-> entry.config, id |-> entry.id])
      BY <2>2, <3>1 DEF CheckTest
    <3> HIDE DEF entry
    <3>3. entry.config \in Stems /\ entry.id \in TestIds /\ ~ Registered(test_ids, entry.config)
      BY <3>2, TestTaken
    <3> QED
      BY <1>1, <3>2, <3>3, RegisterOne DEF Tests
  <2> QED
    BY <2>1, <2>2
<1> QED
  BY <1>2, <1>3, <1>4, <1>5, <1>6, <1>7
\* The entries of a registry, and what doctor reads.
LEMMA EntriesCounted ==
  ASSUME NEW registry, IsOptional(registry), registry # None => IsList(registry[1])
  PROVE  Len(entries(registry)) \in Nat
<1>1. CASE registry = None
  BY <1>1 DEF entries
<1>2. CASE registry # None
  <2> DEFINE s == registry[1]
             at == {i \in DOMAIN s : s[i].object}
  <2>1. Len(s) \in Nat /\ DOMAIN s = 1 .. Len(s)
    BY <1>2, ListIs
  <2>2. at \in SUBSET (1 .. Len(s))
    BY <2>1
  <2> HIDE DEF at, s
  <2>3. IsFiniteSet(at)
    BY <2>1, <2>2, Interval, FS_Subset
  <2>4. Cardinality(at) \in Nat
    BY <2>3, FS_CardinalityType
  <2>5. entries(registry) = Kept(s, at)
    BY <1>2 DEF entries, s, at
  <2> DEFINE value(n) == s[CHOOSE i \in at : Cardinality({j \in at : j <= i}) = n]
  <2>6. Kept(s, at) = [n \in 1 .. Cardinality(at) |-> value(n)]
    BY DEF Kept
  <2> HIDE DEF value
  <2> QED
    BY <2>4, <2>5, <2>6
<1> QED
  BY <1>1, <1>2

\* Both registries are lists, if they can be read.
LEMMA RegistryIs ==
  ASSUME Readable(project)
  PROVE  /\ project.tools # None => IsList(project.tools[1])
         /\ project.tests # None => IsList(project.tests[1])
         /\ Len(entries(project.tools)) \in Nat
         /\ Len(entries(project.tests)) \in Nat
<1>1. \A registry \in {project.tools, project.tests} :
        IsOptional(registry) /\ (registry # None => IsList(registry[1]))
  BY DEF Readable
<1>2. \A registry \in {project.tools, project.tests} : Len(entries(registry)) \in Nat
  BY <1>1, EntriesCounted
<1> QED
  BY <1>1, <1>2

\* The loops begin at the first entry.
LEMMA LoopsInit == DoctorInit => LoopsInOrder
BY DEF DoctorInit, LoopsInOrder

\* No step leads a loop beyond the position behind its last entry.
LEMMA LoopsStep ==
  DoctorTypeOK /\ LoopsInOrder /\ [DoctorNext]_doctorVars => LoopsInOrder'
<1> SUFFICES ASSUME DoctorTypeOK, LoopsInOrder, [DoctorNext]_doctorVars PROVE LoopsInOrder'
  OBVIOUS
<1> DEFINE T == Len(entries(project.tools))
           E == Len(entries(project.tests))
<1>1. position \in Nat /\ T \in Nat /\ E \in Nat
  BY RegistryIs DEF DoctorTypeOK
<1>2. project' = project => T' = T /\ E' = E
  BY Zenon DEF entries
<1> DEFINE Loops(p, pos, t, e) ==
             (p = "tools" => pos <= t + 1) /\ (p = "tests" => pos <= e + 1)
           Rest == /\ place = "preflight" => position = 1 /\ tool_ids = << >> /\ failures = {}
                   /\ place \in {"preflight", "tools"} => test_ids = << >>
                   /\ place = "reported" => exit = Some(IF failures = {} THEN 0 ELSE 1)
                   /\ place = "raised" => exit = Some(1)
<1>3. Loops(place, position, T, E) /\ Rest
  BY DEF LoopsInOrder
<1>4. Loops(place, position, T, E)' /\ Rest' => LoopsInOrder'
  BY DEF LoopsInOrder
<1> HIDE DEF T, E
<1>5. Loops(place, position, T, E)'
  <2> USE <1>1, <1>2, <1>3
  <2>1. CASE FixturesRaise
    BY <2>1 DEF FixturesRaise
  <2>2. CASE ReadProject
    <3>1. place = "preflight" /\ place' = "tools" /\ position' = position /\ project' = project
      BY <2>2 DEF ReadProject
    <3>2. position' = 1 /\ T' \in Nat
      BY <3>1
    <3> QED
      BY <3>1, <3>2
  <2>3. CASE CheckTool
    <3>1. position <= T /\ place = "tools" /\ place' = place /\ position' = position + 1
          /\ project' = project
      BY <2>3 DEF CheckTool, T
    <3> QED
      BY <3>1
  <2>4. CASE MissingTools
    BY <2>4 DEF MissingTools
  <2>5. CASE CheckTest
    <3>1. position <= E /\ place = "tests" /\ place' \in {"tests", "raised"}
          /\ position' = position + 1 /\ project' = project
      BY <2>5 DEF CheckTest, E
    <3> QED
      BY <3>1
  <2>6. CASE MissingTests
    BY <2>6 DEF MissingTests
  <2>7. CASE LinkAgent
    BY <2>7 DEF LinkAgent
  <2>8. CASE Report
    BY <2>8 DEF Report
  <2>9. CASE UNCHANGED doctorVars
    BY <2>9 DEF doctorVars
  <2> QED
    BY <2>1, <2>2, <2>3, <2>4, <2>5, <2>6, <2>7, <2>8, <2>9 DEF DoctorNext
<1>6. Rest'
  <2> USE <1>3
  <2>1. CASE FixturesRaise
    BY <2>1 DEF FixturesRaise
  <2>2. CASE ReadProject
    BY <2>2 DEF ReadProject
  <2>3. CASE CheckTool
    BY <2>3 DEF CheckTool
  <2>4. CASE MissingTools
    BY <2>4 DEF MissingTools
  <2>5. CASE CheckTest
    <3>1. place = "tests" /\ place' \in {"tests", "raised"}
          /\ (place' = "raised" => exit' = Some(1))
      BY <2>5 DEF CheckTest
    <3> QED
      BY <3>1
  <2>6. CASE MissingTests
    BY <2>6 DEF MissingTests
  <2>7. CASE LinkAgent
    BY <2>7 DEF LinkAgent
  <2>8. CASE Report
    BY <2>8 DEF Report
  <2>9. CASE UNCHANGED doctorVars
    BY <2>9 DEF doctorVars
  <2> QED
    BY <2>1, <2>2, <2>3, <2>4, <2>5, <2>6, <2>7, <2>8, <2>9 DEF DoctorNext
<1> QED
  BY <1>4, <1>5, <1>6
-----------------------------------------------------------------------------
(* The fixtures.                                                           *)

\* A vehicle without a fault has a VIN and a date that can be.
LEMMA VehicleFaultless ==
  ASSUME NEW item
  PROVE  vehicle_fault(item) = None <=>
           /\ item.vin \in RawVins /\ Upper[item.vin] \in VinShaped
           /\ item.effective_date \in DateShaped \cap DOMAIN CalendarDay
<1>1. \A raw : parse_vin(raw) = None <=> Upper[raw] \notin VinShaped
  BY SomeIsNotNone DEF parse_vin
<1>2. \A raw : parse_effective_date(raw) = None <=> raw \notin DateShaped \cap DOMAIN CalendarDay
  BY SomeIsNotNone DEF parse_effective_date
<1>3. DOMAIN CalendarDay \subseteq RawDates
  BY DatesAssumption
<1> QED
  BY <1>1, <1>2, <1>3, SomeIsNotNone DEF vehicle_fault

\* So has a policy.
LEMMA PolicyFaultless ==
  ASSUME NEW raw, IsList(raw.vehicles)
  PROVE  policy_fault(raw) = None <=>
           /\ raw.keyed /\ raw.status \in PolicyStatus
           /\ \A item \in Range(raw.vehicles) : vehicle_fault(item) = None
<1> DEFINE faults == [i \in DOMAIN raw.vehicles |-> vehicle_fault(raw.vehicles[i])]
<1>1. DOMAIN faults \subseteq Nat
  BY ListIs
<1>2. First(faults) = None <=> \A i \in DOMAIN faults : faults[i] = None
  BY <1>1, FirstIs
<1>3. (\A i \in DOMAIN faults : faults[i] = None) <=>
        \A item \in Range(raw.vehicles) : vehicle_fault(item) = None
  BY DEF Range
<1>4. policy_fault(raw) = None <=> raw.keyed /\ First(faults) = None /\ raw.status \in PolicyStatus
  <2> HIDE DEF faults
  <2>1. policy_fault(raw) =
          IF First(faults) # None THEN First(faults)
          ELSE IF raw.keyed /\ raw.status \in PolicyStatus THEN None ELSE Some("refused")
    BY DEF policy_fault, faults
  <2> QED
    BY <2>1, SomeIsNotNone
<1> QED
  BY <1>2, <1>3, <1>4

\* And a file.
LEMMA FixtureFaultless ==
  ASSUME Readable(project)
  PROVE  fixtures_fault(project.fixtures) = None <=>
           /\ project.fixtures # None
           /\ \A raw \in Range(project.fixtures[1]) : policy_fault(raw) = None
           /\ NumbersIn(project.fixtures[1]) = OnFile
<1> DEFINE list == project.fixtures[1]
           faults == [i \in DOMAIN list |-> policy_fault(list[i])]
<1>1. CASE project.fixtures = None
  BY <1>1, SomeIsNotNone DEF fixtures_fault, fixture_fault
<1>2. CASE project.fixtures # None
  <2>1. DOMAIN faults \subseteq Nat
    BY <1>2, ListIs DEF Readable
  <2>2. First(faults) = None <=> \A i \in DOMAIN faults : faults[i] = None
    BY <2>1, FirstIs
  <2>3. (\A i \in DOMAIN faults : faults[i] = None) <=>
          \A raw \in Range(list) : policy_fault(raw) = None
    BY DEF Range
  <2>4. fixtures_fault(project.fixtures) = None <=> First(faults) = None /\ NumbersIn(list) = OnFile
    <3> HIDE DEF faults
    <3>1. fixtures_fault(project.fixtures) =
            IF First(faults) = None /\ NumbersIn(list) # OnFile
              THEN Some("refused") ELSE First(faults)
      BY <1>2 DEF fixtures_fault, fixture_fault, faults
    <3> QED
      BY <3>1, SomeIsNotNone
  <2> QED
    BY <1>2, <2>2, <2>3, <2>4
<1> QED
  BY <1>1, <1>2

\* What doctor takes is what the reference calls loadable.
LEMMA FixtureLoadsIs ==
  ASSUME Readable(project)
  PROVE  fixtures_fault(project.fixtures) = None <=> FixtureLoads
<1> DEFINE list == project.fixtures[1]
<1>1. CASE project.fixtures = None
  BY <1>1, FixtureFaultless DEF FixtureLoads
<1>2. CASE project.fixtures # None
  <2>1. ASSUME NEW raw \in Range(list)
        PROVE  policy_fault(raw) = None /\ raw.policy_number \in OnFile <=> Loadable(raw)
    <3>1. IsList(raw.vehicles)
      BY <1>2, <2>1 DEF Readable
    <3> QED
      BY <3>1, PolicyFaultless, VehicleFaultless DEF Loadable, PolicyStatus
  <2>2. NumbersIn(list) = {raw.policy_number : raw \in Range(list)}
    BY DEF NumbersIn, Range
  <2> HIDE DEF list
  <2>3. fixtures_fault(project.fixtures) = None <=>
          (\A raw \in Range(list) : policy_fault(raw) = None) /\ NumbersIn(list) = OnFile
    BY <1>2, FixtureFaultless DEF list
  <2>4. FixtureLoads <=>
          /\ \A raw \in Range(list) : Loadable(raw)
          /\ \A p \in OnFile : \E raw \in Range(list) : raw.policy_number = p
    BY <1>2 DEF FixtureLoads, list
  <2>5. (\A raw \in Range(list) : Loadable(raw)) <=>
          \A raw \in Range(list) : policy_fault(raw) = None /\ raw.policy_number \in OnFile
    BY <2>1
  <2> QED
    BY <2>2, <2>3, <2>4, <2>5
<1> QED
  BY <1>1, <1>2
\* What is loaded from such a file, entry by entry.
LEMMA LoadedIs ==
  ASSUME Readable(project), fixtures_fault(project.fixtures) = None,
         NEW p \in OnFile, ListedOnce(project.fixtures[1], p)
  PROVE  LET policy == loaded(project.fixtures[1])[p] IN
           /\ policy.policy_number = p /\ policy.status \in PolicyStatus
           /\ Range(policy.vehicles) \subseteq Vehicle
           /\ \A i, j \in DOMAIN policy.vehicles :
                policy.vehicles[i].vin = policy.vehicles[j].vin => i = j
<1> DEFINE list == project.fixtures[1]
           named == {i \in DOMAIN list : list[i].policy_number = p}
           policy == loaded(list)[p]
           vehicle(item) == [vin |-> parse_vin(item.vin)[1],
                             effective_date |-> parse_effective_date(item.effective_date)[1]]
<1>1. /\ project.fixtures # None /\ IsList(list) /\ NumbersIn(list) = OnFile
      /\ \A raw \in Range(list) : policy_fault(raw) = None /\ IsList(raw.vehicles)
  BY FixtureFaultless DEF Readable
<1>2. Len(list) \in Nat /\ DOMAIN list = 1 .. Len(list)
      /\ \A i \in DOMAIN list : list[i] \in Range(list)
  BY <1>1, ListIs
<1>3. PICK k \in DOMAIN list :
        /\ \A j \in DOMAIN list : list[j].policy_number = p <=> j = k
        /\ \A m, n \in DOMAIN list[k].vehicles :
             Upper[list[k].vehicles[m].vin] = Upper[list[k].vehicles[n].vin] => m = n
  BY DEF ListedOnce
<1> HIDE DEF list
<1>4. Max(named) = k
  <2>1. named = {k}
    BY <1>3
  <2>2. Max(named) \in named
    BY <1>2, <2>1, MaxIs
  <2> QED
    BY <2>1, <2>2
<1> DEFINE raw == list[k]
<1>5. policy = [policy_number |-> p, status |-> raw.status,
                vehicles |-> [i \in DOMAIN raw.vehicles |-> vehicle(raw.vehicles[i])]]
  BY <1>1, <1>4, Zenon DEF loaded
<1>6. /\ raw.status \in PolicyStatus
      /\ \A item \in Range(raw.vehicles) : vehicle_fault(item) = None
  BY <1>1, <1>2, <1>3, PolicyFaultless
<1>7. ASSUME NEW i \in DOMAIN raw.vehicles
      PROVE  vehicle(raw.vehicles[i]) \in Vehicle
             /\ vehicle(raw.vehicles[i]).vin = Upper[raw.vehicles[i].vin]
  <2> DEFINE item == raw.vehicles[i]
  <2>1. vehicle_fault(item) = None
    BY <1>6 DEF Range
  <2> HIDE DEF raw, item
  <2>2. parse_vin(item.vin) = Some(Upper[item.vin]) /\ Upper[item.vin] \in VinShaped
    BY <2>1, VehicleFaultless DEF parse_vin
  <2>3. /\ parse_effective_date(item.effective_date) = Some(CalendarDay[item.effective_date])
        /\ CalendarDay[item.effective_date] \in Days
    BY <2>1, VehicleFaultless DEF parse_effective_date, Days
  <2> QED
    BY <2>2, <2>3, SomeIsNotNone DEF Vehicle, item
<1> DEFINE cars == [i \in DOMAIN raw.vehicles |-> vehicle(raw.vehicles[i])]
<1>8. Range(cars) \subseteq Vehicle
  BY <1>7 DEF Range
<1>9. ASSUME NEW i \in DOMAIN cars, NEW j \in DOMAIN cars, cars[i].vin = cars[j].vin
      PROVE  i = j
  BY <1>3, <1>7, <1>9
<1>10. policy.policy_number = p /\ policy.status = raw.status /\ policy.vehicles = cars
  <2> HIDE DEF cars, raw, policy
  <2>1. policy = [policy_number |-> p, status |-> raw.status, vehicles |-> cars]
    BY <1>5 DEF cars
  <2> QED
    BY <2>1
<1> HIDE DEF cars, raw, policy
<1>11. /\ policy.policy_number = p /\ policy.status \in PolicyStatus
       /\ Range(policy.vehicles) \subseteq Vehicle
       /\ \A i, j \in DOMAIN policy.vehicles :
            policy.vehicles[i].vin = policy.vehicles[j].vin => i = j
  BY <1>6, <1>8, <1>9, <1>10
<1> QED
  BY <1>11 DEF policy, list
-----------------------------------------------------------------------------
(* Counting.                                                               *)

\* f lists the n elements of K, each once.
Enumerates(f, n, K) ==
  /\ DOMAIN f = 1 .. n
  /\ K = {f[i] : i \in 1 .. n}
  /\ \A i, j \in 1 .. n : f[i] = f[j] => i = j

\* A list of different keys is as long as there are keys.
LEMMA CountKeys ==
  ASSUME NEW K, NEW n \in Nat, NEW f, Enumerates(f, n, K)
  PROVE  IsFiniteSet(K) /\ Cardinality(K) = n
<1> USE DEF Enumerates
<1> DEFINE g == [i \in 1 .. n |-> f[i]]
<1>1. g \in Bijection(1 .. n, K)
  BY DEF Bijection, Injection, Surjection, IsInjective
<1>2. ExistsBijection(1 .. n, K)
  BY <1>1 DEF ExistsBijection
<1>3. IsFiniteSet(1 .. n) /\ Cardinality(1 .. n) = n
  BY Interval
<1> QED
  BY <1>2, <1>3, FS_Bijection, Zenon

\* Each key of K has one of n entries, and an entry has one key at most.
Covers(R, K, n) ==
  /\ \A key \in K : \E i \in 1 .. n : <<i, key>> \in R
  /\ \A i \in 1 .. n, k, l \in K : <<i, k>> \in R /\ <<i, l>> \in R => k = l

\* If there are as many entries as keys and each key has an entry, then each entry
\* has a key, and no other entry has it.
LEMMA EveryEntry ==
  ASSUME NEW K, NEW n \in Nat, IsFiniteSet(K), Cardinality(K) = n, NEW R, Covers(R, K, n)
  PROVE  /\ \A i \in 1 .. n : \E key \in K : <<i, key>> \in R
         /\ \A i, j \in 1 .. n, key \in K : <<i, key>> \in R /\ <<j, key>> \in R => i = j
<1> USE DEF Covers
<1> DEFINE c == [key \in K |-> CHOOSE i \in 1 .. n : <<i, key>> \in R]
<1>1. \A key \in K : c[key] \in 1 .. n /\ <<c[key], key>> \in R
  OBVIOUS
<1>2. c \in [K -> 1 .. n]
  BY <1>1
<1> HIDE DEF c
<1>3. c \in Injection(K, 1 .. n)
  BY <1>1, <1>2 DEF Injection, IsInjective
<1>4. IsFiniteSet(1 .. n) /\ Cardinality(1 .. n) = n
  BY Interval
<1>5. c \in Surjection(K, 1 .. n)
  BY <1>3, <1>4, FS_Injection
<1>6. \A i \in 1 .. n : \E key \in K : c[key] = i
  BY <1>5 DEF Surjection
<1>7. \A i \in 1 .. n, key \in K : <<i, key>> \in R => c[key] = i
  <2> SUFFICES ASSUME NEW i \in 1 .. n, NEW key \in K, <<i, key>> \in R PROVE c[key] = i
    OBVIOUS
  <2>1. PICK k \in K : c[k] = i
    BY <1>6
  <2>2. <<i, k>> \in R
    BY <1>1, <2>1
  <2>3. k = key
    BY <2>2
  <2> QED
    BY <2>1, <2>3
<1>8. \A i \in 1 .. n : \E key \in K : <<i, key>> \in R
  BY <1>1, <1>6
<1>9. \A i, j \in 1 .. n, key \in K : <<i, key>> \in R /\ <<j, key>> \in R => i = j
  <2> SUFFICES ASSUME NEW i \in 1 .. n, NEW j \in 1 .. n, NEW key \in K,
                      <<i, key>> \in R, <<j, key>> \in R
               PROVE  i = j
    OBVIOUS
  <2>1. c[key] = i /\ c[key] = j
    BY <1>7
  <2> QED
    BY <2>1
<1> QED
  BY <1>8, <1>9
-----------------------------------------------------------------------------
(* What the dictionaries answer.                                            *)

\* There are as many tools as routes, and as many tests as in the manifest.
LEMMA SlugsCounted ==
  /\ Len(Routes) \in Nat /\ DOMAIN Routes = 1 .. Len(Routes)
  /\ IsFiniteSet(Slugs) /\ Cardinality(Slugs) = Len(Routes)
<1>1. IsList(Routes) /\ IsInjective(Routes)
  BY ProjectAssumption
<1>2. Len(Routes) \in Nat /\ DOMAIN Routes = 1 .. Len(Routes)
  BY <1>1, ListIs
<1> DEFINE slugs == [i \in 1 .. Len(Routes) |-> Routes[i]]
<1>3. Slugs = {slugs[i] : i \in 1 .. Len(Routes)}
  BY <1>2 DEF Slugs, Range
<1>4. \A i, j \in 1 .. Len(Routes) : slugs[i] = slugs[j] => i = j
  BY <1>1, <1>2 DEF IsInjective
<1>5. DOMAIN slugs = 1 .. Len(Routes)
  OBVIOUS
<1> HIDE DEF slugs
<1>6. Enumerates(slugs, Len(Routes), Slugs)
  BY <1>3, <1>4, <1>5 DEF Enumerates
<1>7. IsFiniteSet(Slugs) /\ Cardinality(Slugs) = Len(Routes)
  BY <1>2, <1>6, CountKeys
<1> QED
  BY <1>2, <1>7

\* There are as many stems as rows of the manifest.
LEMMA StemsCounted ==
  /\ Len(Manifest) \in Nat /\ DOMAIN Manifest = 1 .. Len(Manifest)
  /\ IsFiniteSet(Stems) /\ Cardinality(Stems) = Len(Manifest)
<1> DEFINE stems == [i \in 1 .. Len(Manifest) |-> Manifest[i].stem]
<1>1. IsList(Manifest)
  BY ProjectAssumption
<1>2. Len(Manifest) \in Nat /\ DOMAIN Manifest = 1 .. Len(Manifest)
  BY <1>1, ListIs
<1>3. Stems = {stems[i] : i \in 1 .. Len(Manifest)}
  BY <1>2 DEF Stems, Range
<1>4. \A i, j \in 1 .. Len(Manifest) : stems[i] = stems[j] => i = j
  BY <1>2, ProjectAssumption
<1>5. DOMAIN stems = 1 .. Len(Manifest)
  OBVIOUS
<1> HIDE DEF stems
<1>6. Enumerates(stems, Len(Manifest), Stems)
  BY <1>3, <1>4, <1>5 DEF Enumerates
<1>7. IsFiniteSet(Stems) /\ Cardinality(Stems) = Len(Manifest)
  BY <1>2, <1>6, CountKeys
<1> QED
  BY <1>2, <1>7

\* A stem has one row of the manifest, and its kind is the expected one.
LEMMA RowOfStem ==
  /\ \A m, n \in Range(Manifest) : m.stem = n.stem => m = n
  /\ \A m \in Range(Manifest) : expected_kind(m.stem) = m.kind /\ m.stem \in Stems
  /\ \A stem \in Stems : \E m \in Range(Manifest) : m.stem = stem
<1>1. \A m, n \in Range(Manifest) : m.stem = n.stem => m = n
  BY ProjectAssumption DEF Range
<1> QED
  BY <1>1 DEF expected_kind, Stems

\* A registered key has the id of its entry.
LEMMA IdOfIs ==
  ASSUME NEW ids, KeysDiffer(ids), NEW i \in DOMAIN ids
  PROVE  /\ Registered(ids, ids[i].key)
         /\ IdOf(ids, ids[i].key) = Some(ids[i].id)
<1>1. \A entry \in Range(ids) : entry.key = ids[i].key => entry = ids[i]
  BY DEF Range, KeysDiffer
<1>2. ids[i] \in Range(ids)
  BY DEF Range
<1>3. Registered(ids, ids[i].key)
  BY DEF Registered
<1>4. (CHOOSE entry \in Range(ids) : entry.key = ids[i].key) = ids[i]
  BY <1>1, <1>2
<1> QED
  BY <1>3, <1>4, Zenon DEF IdOf

\* With every key registered the ids are listed key by key.
LEMMA InOrderIs ==
  ASSUME NEW ids, NEW keys, IsList(keys), \A i \in DOMAIN keys : Registered(ids, keys[i])
  PROVE  InOrder(ids, keys) = [i \in DOMAIN keys |-> IdOf(ids, keys[i])[1]]
<1>1. Kept(keys, {i \in DOMAIN keys : Registered(ids, keys[i])}) = keys
  BY KeptWhole
<1> QED
  BY <1>1, Zenon DEF InOrder

\* An id has the key of some entry that has the id, or no entry has it.
LEMMA NamedIs ==
  ASSUME NEW ids, NEW n \in Nat, DOMAIN ids = 1 .. n, NEW id
  PROVE  /\ tool_names_by_id(ids, id) = None => \A i \in DOMAIN ids : ids[i].id # id
         /\ tool_names_by_id(ids, id) # None =>
              \E i \in DOMAIN ids :
                ids[i].id = id /\ tool_names_by_id(ids, id) = Some(ids[i].key)
<1> DEFINE named == {i \in DOMAIN ids : ids[i].id = id}
<1>1. named # {} => Max(named) \in named
  BY MaxIs
<1>2. tool_names_by_id(ids, id) = IF named = {} THEN None ELSE Some(ids[Max(named)].key)
  BY Zenon DEF tool_names_by_id
<1> QED
  BY <1>1, <1>2, SomeIsNotNone

\* A registry of objects is read as it is.
LEMMA EntriesWhole ==
  ASSUME NEW registry, registry # None, IsList(registry[1]),
         \A entry \in Range(registry[1]) : entry.object
  PROVE  entries(registry) = registry[1]
<1>1. {i \in DOMAIN registry[1] : registry[1][i].object} = DOMAIN registry[1]
  BY DEF Range
<1> QED
  BY <1>1, KeptWhole DEF entries

-----------------------------------------------------------------------------
(* The tools and the tests that are registered, against the reference.      *)

\* Every tool there is an entry of is registered under its id.
ToolsRegistered ==
  /\ project.tools # None
  /\ Len(tool_ids) = Len(project.tools[1])
  /\ \A i \in DOMAIN tool_ids :
       Provides(i, tool_ids[i].key) /\ tool_ids[i].id = project.tools[1][i].id

TestsRegistered ==
  /\ project.tests # None
  /\ Len(test_ids) = Len(project.tests[1])
  /\ \A i \in DOMAIN test_ids :
       /\ test_ids[i].id = project.tests[1][i].id
       /\ test_ids[i].key = project.tests[1][i].config
       /\ \A m \in Range(Manifest) : m.stem = test_ids[i].key => RunsTest(i, m)

\* The dictionaries as lists of keys and ids.
LEMMA DictionariesAre ==
  ASSUME DoctorTypeOK
  PROVE  /\ \A ids \in {tool_ids, test_ids} :
              Len(ids) \in Nat /\ DOMAIN ids = 1 .. Len(ids) /\ KeysDiffer(ids)
         /\ \A i \in DOMAIN tool_ids : tool_ids[i].key \in Slugs /\ tool_ids[i].id \in ToolIds
         /\ \A i \in DOMAIN test_ids : test_ids[i].key \in Stems /\ test_ids[i].id \in TestIds
<1>1. tool_ids \in Seq([key : Slugs, id : ToolIds]) /\ test_ids \in Seq([key : Stems, id : TestIds])
  BY DEF DoctorTypeOK
<1>2. /\ Len(tool_ids) \in Nat /\ DOMAIN tool_ids = 1 .. Len(tool_ids)
      /\ \A i \in DOMAIN tool_ids : tool_ids[i] \in [key : Slugs, id : ToolIds]
  BY <1>1, LenProperties, ElementOfSeq
<1>3. /\ Len(test_ids) \in Nat /\ DOMAIN test_ids = 1 .. Len(test_ids)
      /\ \A i \in DOMAIN test_ids : test_ids[i] \in [key : Stems, id : TestIds]
  BY <1>1, LenProperties, ElementOfSeq
<1>4. KeysDiffer(tool_ids) /\ KeysDiffer(test_ids)
  BY DEF DoctorTypeOK, KeysDiffer
<1> QED
  BY <1>2, <1>3, <1>4

\* The id under which a tool is registered is the one the reference means.
LEMMA ToolIdIs ==
  ASSUME DoctorTypeOK, ToolsRegistered, NEW i \in DOMAIN tool_ids
  PROVE  ToolId(tool_ids[i].key) = tool_ids[i].id
<1> DEFINE slug == tool_ids[i].key
<1>1. IsList(project.tools[1]) /\ DOMAIN project.tools[1] = DOMAIN tool_ids
  <2>1. IsList(project.tools[1])
    BY RegistryIs DEF DoctorTypeOK, ToolsRegistered
  <2> QED
    BY <2>1, ListIs, DictionariesAre DEF ToolsRegistered
<1>2. ASSUME NEW j \in DOMAIN tool_ids, Provides(j, slug) PROVE j = i
  <2>1. Provides(j, tool_ids[j].key)
    BY DEF ToolsRegistered
  <2>2. tool_ids[j].key = slug
    BY <1>2, <2>1 DEF Provides
  <2> QED
    BY <2>2, DictionariesAre DEF KeysDiffer
<1>3. Provides(i, slug)
  BY DEF ToolsRegistered
<1>4. (CHOOSE j \in DOMAIN project.tools[1] : Provides(j, slug)) = i
  BY <1>1, <1>2, <1>3
<1> QED
  BY <1>4 DEF ToolId, ToolsRegistered

\* So is that of a test.
LEMMA TestIdIs ==
  ASSUME DoctorTypeOK, TestsRegistered,
         NEW i \in DOMAIN test_ids, NEW m \in Range(Manifest), m.stem = test_ids[i].key
  PROVE  TestId(m) = test_ids[i].id
<1>1. IsList(project.tests[1]) /\ DOMAIN project.tests[1] = DOMAIN test_ids
  <2>1. IsList(project.tests[1])
    BY RegistryIs DEF DoctorTypeOK, TestsRegistered
  <2> QED
    BY <2>1, ListIs, DictionariesAre DEF TestsRegistered
<1>2. ASSUME NEW j \in DOMAIN test_ids, RunsTest(j, m) PROVE j = i
  <2>1. test_ids[j].key = m.stem
    BY <1>2 DEF RunsTest, TestsRegistered
  <2> QED
    BY <2>1, DictionariesAre DEF KeysDiffer
<1>3. RunsTest(i, m)
  BY DEF TestsRegistered
<1>4. (CHOOSE j \in DOMAIN project.tests[1] : RunsTest(j, m)) = i
  BY <1>1, <1>2, <1>3
<1> QED
  BY <1>4 DEF TestId, TestsRegistered

\* With every tool registered the tools are provided.
LEMMA AllProvided ==
  ASSUME DoctorTypeOK, ToolsRegistered, \A slug \in Slugs : Registered(tool_ids, slug)
  PROVE  ToolsProvided
<1> DEFINE n == Len(tool_ids)
           keys == [i \in 1 .. n |-> tool_ids[i].key]
<1>1. n \in Nat /\ DOMAIN tool_ids = 1 .. n /\ KeysDiffer(tool_ids)
      /\ \A i \in 1 .. n : tool_ids[i].key \in Slugs
  BY DictionariesAre
<1>2. Enumerates(keys, n, Slugs)
  BY <1>1 DEF Enumerates, Registered, KeysDiffer
<1> HIDE DEF keys, n
<1>3. IsFiniteSet(Slugs) /\ Cardinality(Slugs) = n
  <2>1. n \in Nat
    BY <1>1
  <2> QED
    BY <1>2, <2>1, CountKeys
<1>4. Len(project.tools[1]) = Len(Routes)
  BY <1>3, SlugsCounted DEF ToolsRegistered, n
<1>5. DOMAIN project.tools[1] = DOMAIN tool_ids
  <2>1. IsList(project.tools[1])
    BY RegistryIs DEF DoctorTypeOK, ToolsRegistered
  <2> QED
    BY <1>1, <2>1, ListIs DEF ToolsRegistered, n
<1>6. \A slug \in Slugs : \E i \in DOMAIN project.tools[1] : Provides(i, slug)
  BY <1>5 DEF Registered, ToolsRegistered
<1> QED
  BY <1>4, <1>6 DEF ToolsProvided, ToolsRegistered

\* With every test registered the tests run.
LEMMA AllRun ==
  ASSUME DoctorTypeOK, TestsRegistered, \A stem \in Stems : Registered(test_ids, stem)
  PROVE  TestsRun
<1> DEFINE n == Len(test_ids)
           keys == [i \in 1 .. n |-> test_ids[i].key]
<1>1. n \in Nat /\ DOMAIN test_ids = 1 .. n /\ KeysDiffer(test_ids)
      /\ \A i \in 1 .. n : test_ids[i].key \in Stems
  BY DictionariesAre
<1>2. Enumerates(keys, n, Stems)
  BY <1>1 DEF Enumerates, Registered, KeysDiffer
<1> HIDE DEF keys, n
<1>3. IsFiniteSet(Stems) /\ Cardinality(Stems) = n
  <2>1. n \in Nat
    BY <1>1
  <2> QED
    BY <1>2, <2>1, CountKeys
<1>4. Len(project.tests[1]) = Len(Manifest)
  BY <1>3, StemsCounted DEF TestsRegistered, n
<1>5. DOMAIN project.tests[1] = DOMAIN test_ids
  <2>1. IsList(project.tests[1])
    BY RegistryIs DEF DoctorTypeOK, TestsRegistered
  <2> QED
    BY <1>1, <2>1, ListIs DEF TestsRegistered, n
<1>6. ASSUME NEW m \in Range(Manifest)
      PROVE  \E i \in DOMAIN project.tests[1] : RunsTest(i, m)
  <2>1. PICK i \in DOMAIN test_ids : test_ids[i].key = m.stem
    BY RowOfStem DEF Registered
  <2> QED
    BY <1>5, <2>1 DEF TestsRegistered
<1> QED
  BY <1>4, <1>6 DEF TestsRun, TestsRegistered

\* Then the agent is linked as it should be if doctor finds nothing wrong with it.
LEMMA AgentLinkedIs ==
  ASSUME DoctorTypeOK, ToolsRegistered, \A slug \in Slugs : Registered(tool_ids, slug),
         TestsRegistered, \A stem \in Stems : Registered(test_ids, stem),
         project.agent # None
  PROVE  agent_failures(project.agent[1]) = {} <=> AgentLinked
<1> DEFINE stems == [i \in DOMAIN Manifest |-> Manifest[i].stem]
<1>1. tool_links(tool_ids) = [i \in DOMAIN Routes |-> ToolId(Routes[i])]
  <2>1. IsList(Routes) /\ \A i \in DOMAIN Routes : Routes[i] \in Slugs
    BY ProjectAssumption DEF Slugs, Range
  <2>2. tool_links(tool_ids) = [i \in DOMAIN Routes |-> IdOf(tool_ids, Routes[i])[1]]
    BY <2>1, InOrderIs DEF tool_links
  <2>3. ASSUME NEW i \in DOMAIN Routes
        PROVE  IdOf(tool_ids, Routes[i])[1] = ToolId(Routes[i])
    <3>1. PICK j \in DOMAIN tool_ids : tool_ids[j].key = Routes[i]
      BY <2>1 DEF Registered
    <3>2. IdOf(tool_ids, Routes[i]) = Some(tool_ids[j].id)
      BY <3>1, IdOfIs, DictionariesAre
    <3>3. ToolId(Routes[i]) = tool_ids[j].id
      BY <3>1, ToolIdIs
    <3> QED
      BY <3>2, <3>3, SomeIsNotNone
  <2> QED
    BY <2>2, <2>3, Zenon
<1>2. test_links(test_ids) = [i \in DOMAIN Manifest |-> TestId(Manifest[i])]
  <2>1. /\ DOMAIN stems = DOMAIN Manifest
        /\ \A i \in DOMAIN Manifest : stems[i] = Manifest[i].stem
        /\ \A i \in DOMAIN Manifest : Manifest[i] \in Range(Manifest) /\ stems[i] \in Stems
    BY DEF Stems, Range
  <2>2. IsList(stems)
    <3>1. Len(Manifest) \in Nat /\ stems = [i \in 1 .. Len(Manifest) |-> Manifest[i].stem]
      BY StemsCounted
    <3>2. \A i \in 1 .. Len(Manifest) : stems[i] \in Range(stems)
      BY <3>1 DEF Range
    <3> QED
      BY <3>1, <3>2 DEF IsList
  <2>3. \A i \in DOMAIN stems : Registered(test_ids, stems[i])
    BY <2>1
  <2> HIDE DEF stems
  <2>4. InOrder(test_ids, stems) = [i \in DOMAIN stems |-> IdOf(test_ids, stems[i])[1]]
    BY <2>2, <2>3, InOrderIs
  <2>5. ASSUME NEW i \in DOMAIN Manifest
        PROVE  IdOf(test_ids, stems[i])[1] = TestId(Manifest[i])
    <3>1. PICK j \in DOMAIN test_ids : test_ids[j].key = stems[i]
      BY <2>1 DEF Registered
    <3>2. IdOf(test_ids, stems[i]) = Some(test_ids[j].id)
      BY <3>1, IdOfIs, DictionariesAre
    <3>3. TestId(Manifest[i]) = test_ids[j].id
      BY <2>1, <3>1, TestIdIs
    <3> QED
      BY <3>2, <3>3, SomeIsNotNone
  <2>6. test_links(test_ids) = InOrder(test_ids, stems)
    BY Zenon DEF test_links, stems
  <2>7. InOrder(test_ids, stems) = [i \in DOMAIN Manifest |-> TestId(Manifest[i])]
    BY <2>1, <2>4, <2>5, Zenon
  <2> QED
    BY <2>6, <2>7
<1> QED
  BY <1>1, <1>2 DEF agent_failures, AgentLinked, Unless

-----------------------------------------------------------------------------
(* The reference, entry by entry.                                          *)

\* If the tools are provided, each entry provides one tool, and no other does.
LEMMA EntriesProvide ==
  ASSUME Readable(project), ToolsProvided
  PROVE  /\ \A i \in DOMAIN project.tools[1] : \E slug \in Slugs : Provides(i, slug)
         /\ \A i, j \in DOMAIN project.tools[1], slug \in Slugs :
              Provides(i, slug) /\ Provides(j, slug) => i = j
<1> DEFINE n == Len(project.tools[1])
           R == {e \in (1 .. n) \X Slugs : Provides(e[1], e[2])}
<1>1. n \in Nat /\ DOMAIN project.tools[1] = 1 .. n
  BY RegistryIs, ListIs DEF ToolsProvided
<1>2. IsFiniteSet(Slugs) /\ Cardinality(Slugs) = n
  BY SlugsCounted DEF ToolsProvided
<1>3. \A i \in 1 .. n, slug \in Slugs : <<i, slug>> \in R <=> Provides(i, slug)
  OBVIOUS
<1>4. \A slug \in Slugs : \E i \in 1 .. n : <<i, slug>> \in R
  BY <1>1, <1>3 DEF ToolsProvided
<1>5. \A i \in 1 .. n, k, l \in Slugs : <<i, k>> \in R /\ <<i, l>> \in R => k = l
  <2>1. \A i, k, l : Provides(i, k) /\ Provides(i, l) => k = l
    BY DEF Provides
  <2> QED
    BY <1>3, <2>1
<1> HIDE DEF R, n
<1>6. /\ \A i \in 1 .. n : \E slug \in Slugs : <<i, slug>> \in R
      /\ \A i, j \in 1 .. n, slug \in Slugs : <<i, slug>> \in R /\ <<j, slug>> \in R => i = j
  <2>1. n \in Nat
    BY <1>1
  <2>2. Covers(R, Slugs, n)
    BY <1>4, <1>5 DEF Covers
  <2> QED
    BY <1>2, <2>1, <2>2, EveryEntry
<1> QED
  BY <1>1, <1>3, <1>6

\* If the tests run, each entry runs one test, and no other does.
LEMMA EntriesRun ==
  ASSUME Readable(project), TestsRun
  PROVE  /\ \A i \in DOMAIN project.tests[1] : \E m \in Range(Manifest) : RunsTest(i, m)
         /\ \A i, j \in DOMAIN project.tests[1], m \in Range(Manifest) :
              RunsTest(i, m) /\ RunsTest(j, m) => i = j
<1> DEFINE n == Len(project.tests[1])
           R == {e \in (1 .. n) \X Stems :
                   \E m \in Range(Manifest) : m.stem = e[2] /\ RunsTest(e[1], m)}
<1>1. n \in Nat /\ DOMAIN project.tests[1] = 1 .. n
  BY RegistryIs, ListIs DEF TestsRun
<1>2. IsFiniteSet(Stems) /\ Cardinality(Stems) = n
  BY StemsCounted DEF TestsRun
<1>3. \A i \in 1 .. n, stem \in Stems :
        <<i, stem>> \in R <=> \E m \in Range(Manifest) : m.stem = stem /\ RunsTest(i, m)
  OBVIOUS
<1>4. \A stem \in Stems : \E i \in 1 .. n : <<i, stem>> \in R
  <2> SUFFICES ASSUME NEW stem \in Stems PROVE \E i \in 1 .. n : <<i, stem>> \in R
    OBVIOUS
  <2>1. PICK m \in Range(Manifest) : m.stem = stem
    BY RowOfStem
  <2>2. PICK i \in 1 .. n : RunsTest(i, m)
    BY <1>1 DEF TestsRun
  <2> QED
    BY <1>3, <2>1, <2>2
<1>5. \A i \in 1 .. n, k, l \in Stems : <<i, k>> \in R /\ <<i, l>> \in R => k = l
  <2>1. \A i, k, l : RunsTest(i, k) /\ RunsTest(i, l) => k.stem = l.stem
    BY DEF RunsTest
  <2> QED
    BY <1>3, <2>1
<1> HIDE DEF R, n
<1>6. /\ \A i \in 1 .. n : \E stem \in Stems : <<i, stem>> \in R
      /\ \A i, j \in 1 .. n, stem \in Stems : <<i, stem>> \in R /\ <<j, stem>> \in R => i = j
  <2>1. n \in Nat
    BY <1>1
  <2>2. Covers(R, Stems, n)
    BY <1>4, <1>5 DEF Covers
  <2> QED
    BY <1>2, <2>1, <2>2, EveryEntry
<1>7. \A i \in 1 .. n : \E m \in Range(Manifest) : RunsTest(i, m)
  BY <1>3, <1>6
<1>8. \A i, j \in 1 .. n, m \in Range(Manifest) : RunsTest(i, m) /\ RunsTest(j, m) => i = j
  BY <1>3, <1>6, RowOfStem
<1> QED
  BY <1>1, <1>7, <1>8
-----------------------------------------------------------------------------
(* What it means that a check finds nothing.                                *)

\* A tool file without a failure.
LEMMA ClientToolIs ==
  ASSUME NEW file, NEW at
  PROVE  client_tool_failures(file, at) = {} <=>
           /\ file.client_behavior
           /\ file.required = Parameters[file.name]
           /\ DOMAIN file.properties = Parameters[file.name]
           /\ \A n \in Parameters[file.name] : file.properties[n] = "described"
BY DEF client_tool_failures, Unless

\* An entry of tools.json that is taken and has no failure provides its tool.
LEMMA ToolEntryGood ==
  ASSUME Readable(project), NEW i, NEW entry, entry = project.tools[1][i], entry.object,
         tool_refusal(entry, tool_ids) = None,
         NEW file, file = project.tool_files[entry.config][1],
         entry.type = "client", entry.config = file.name,
         client_tool_failures(file, entry.config) = {}
  PROVE  Provides(i, file.name)
<1>1. /\ entry.id \in ToolIds /\ entry.config \in ToolPaths
      /\ project.tool_files[entry.config] # None
  BY ToolTaken
<1>2. file \in Range(project.tool_files[file.name])
  BY <1>1, OptionalIs DEF Readable
<1>3. /\ file.client_behavior /\ file.required = Parameters[file.name]
      /\ DOMAIN file.properties = Parameters[file.name]
      /\ \A n \in Parameters[file.name] : file.properties[n] = "described"
  BY ClientToolIs
<1>4. \E f \in Range(project.tool_files[file.name]) :
        /\ f.name = file.name /\ f.client_behavior
        /\ f.required = Parameters[file.name]
        /\ DOMAIN f.properties = Parameters[file.name]
        /\ \A n \in Parameters[file.name] : f.properties[n] = "described"
  BY <1>2, <1>3
<1> QED
  BY <1>1, <1>4 DEF Provides

\* One that provides a tool is taken, if its tool is not registered.
LEMMA ToolEntryTaken ==
  ASSUME Readable(project), NEW i, NEW entry, entry = project.tools[1][i],
         NEW slug \in Slugs, Provides(i, slug), ~ Registered(tool_ids, slug)
  PROVE  LET file == project.tool_files[entry.config][1] IN
           /\ tool_refusal(entry, tool_ids) = None
           /\ entry.type = "client" /\ entry.config = file.name
           /\ client_tool_failures(file, entry.config) = {}
<1>1. slug \in ToolPaths
  BY ProjectAssumption
<1>2. /\ entry.type = "client" /\ entry.id \in ToolIds /\ entry.config = slug
  BY DEF Provides
<1>3. PICK file \in Range(project.tool_files[slug]) :
        /\ file.name = slug
        /\ file.client_behavior
        /\ file.required = Parameters[slug]
        /\ DOMAIN file.properties = Parameters[slug]
        /\ \A n \in Parameters[slug] : file.properties[n] = "described"
  BY DEF Provides
<1>4. project.tool_files[slug] # None /\ file = project.tool_files[slug][1]
  BY <1>1, <1>3, OptionalIs DEF Readable
<1>5. client_tool_failures(file, slug) = {}
  BY <1>3, ClientToolIs
<1>6. tool_refusal(entry, tool_ids) = None
  BY <1>1, <1>2, <1>3, <1>4 DEF tool_refusal
<1> QED
  BY <1>2, <1>3, <1>4, <1>5, <1>6

\* A mock without a failure is one that its route could have answered.
LEMMA MockIs ==
  ASSUME NEW mock, NEW slug, NEW at
  PROVE  mock_failures(mock, slug, at) = {} <=> Plausible(mock, slug)
BY DEF mock_failures, Plausible, Unless

\* The part of the reference that is about a simulation.
SimulationFits(file) ==
  /\ file.scenario
  /\ DOMAIN file.overrides # {}
  /\ \A id \in DOMAIN file.overrides :
       \E slug \in Slugs :
         /\ ToolId(slug) = id
         /\ file.overrides[id] # << >>
         /\ \A mock \in Range(file.overrides[id]) : Plausible(mock, slug)

\* What the check of one mocked tool finds.
override_failures(file, id, at) ==
  LET slug == tool_names_by_id(tool_ids, id)
      mocks == file.overrides[id]
  IN IF slug = None THEN Unless(FALSE, at, "unknown tool id")
     ELSE IF mocks = << >> THEN Unless(FALSE, at, "must be nonempty")
     ELSE UNION {mock_failures(mock, slug[1], at) : mock \in Range(mocks)}

\* A simulation without a failure, by its mocked tools,
LEMMA SimulationIs ==
  ASSUME NEW file, NEW at
  PROVE  simulation_failures(file, at) = {} <=>
           /\ file.scenario /\ DOMAIN file.overrides # {}
           /\ \A id \in DOMAIN file.overrides : override_failures(file, id, at) = {}
<1>1. simulation_failures(file, at) =
        Unless(file.scenario, at, "scenario, conditions, turns and mock config")
          \cup Unless(DOMAIN file.overrides # {}, at, "tool_mock_overrides: must be nonempty")
          \cup UNION {override_failures(file, id, at) : id \in DOMAIN file.overrides}
  BY Zenon DEF simulation_failures, override_failures
<1> QED
  BY <1>1 DEF Unless

\* and a mocked tool.
LEMMA OverrideIs ==
  ASSUME NEW file, NEW id, NEW at
  PROVE  override_failures(file, id, at) = {} <=>
           /\ tool_names_by_id(tool_ids, id) # None
           /\ file.overrides[id] # << >>
           /\ \A mock \in Range(file.overrides[id]) :
                Plausible(mock, tool_names_by_id(tool_ids, id)[1])
<1> DEFINE slug == tool_names_by_id(tool_ids, id)
           mocks == file.overrides[id]
<1> HIDE DEF slug, mocks
<1>1. override_failures(file, id, at) =
        IF slug = None THEN Unless(FALSE, at, "unknown tool id")
        ELSE IF mocks = << >> THEN Unless(FALSE, at, "must be nonempty")
        ELSE UNION {mock_failures(mock, slug[1], at) : mock \in Range(mocks)}
  BY Zenon DEF override_failures, slug, mocks
<1>2. UNION {mock_failures(mock, slug[1], at) : mock \in Range(mocks)} = {} <=>
        \A mock \in Range(mocks) : Plausible(mock, slug[1])
  BY MockIs
<1>3. Unless(FALSE, at, "unknown tool id") # {} /\ Unless(FALSE, at, "must be nonempty") # {}
  BY DEF Unless
<1>4. override_failures(file, id, at) = {} <=>
        slug # None /\ mocks # << >> /\ \A mock \in Range(mocks) : Plausible(mock, slug[1])
  BY <1>1, <1>2, <1>3
<1> QED
  BY <1>4 DEF slug, mocks

\* The dictionary of names goes back from ids to tools.
LEMMA NameOfId ==
  ASSUME DoctorTypeOK, ToolsRegistered, NEW id
  PROVE  LET slug == tool_names_by_id(tool_ids, id) IN
           /\ slug # None => slug[1] \in Slugs /\ ToolId(slug[1]) = id
           /\ slug = None => \A key \in Slugs : Registered(tool_ids, key) => ToolId(key) # id
<1> DEFINE slug == tool_names_by_id(tool_ids, id)
<1>1. Len(tool_ids) \in Nat /\ DOMAIN tool_ids = 1 .. Len(tool_ids)
  BY DictionariesAre
<1>2. CASE slug # None
  <2>1. PICK i \in DOMAIN tool_ids : tool_ids[i].id = id /\ slug = Some(tool_ids[i].key)
    BY <1>1, <1>2, NamedIs
  <2>2. slug[1] = tool_ids[i].key /\ tool_ids[i].key \in Slugs /\ ToolId(tool_ids[i].key) = id
    BY <2>1, SomeIsNotNone, ToolIdIs, DictionariesAre
  <2> QED
    BY <1>2, <2>2
<1>3. CASE slug = None
  <2>1. \A i \in DOMAIN tool_ids : tool_ids[i].id # id
    BY <1>1, <1>3, NamedIs
  <2>2. \A key \in Slugs : Registered(tool_ids, key) => ToolId(key) # id
    BY <2>1, ToolIdIs DEF Registered
  <2> QED
    BY <1>3, <2>2
<1> QED
  BY <1>2, <1>3

\* A simulation without a failure is what the reference asks for.
LEMMA SimulationGood ==
  ASSUME DoctorTypeOK, ToolsRegistered, NEW file, NEW at, simulation_failures(file, at) = {}
  PROVE  SimulationFits(file)
<1> SUFFICES ASSUME NEW id \in DOMAIN file.overrides
             PROVE  \E slug \in Slugs :
                      /\ ToolId(slug) = id
                      /\ file.overrides[id] # << >>
                      /\ \A mock \in Range(file.overrides[id]) : Plausible(mock, slug)
  BY SimulationIs DEF SimulationFits
<1> DEFINE slug == tool_names_by_id(tool_ids, id)
<1>1. /\ slug # None /\ file.overrides[id] # << >>
      /\ \A mock \in Range(file.overrides[id]) : Plausible(mock, slug[1])
  BY SimulationIs, OverrideIs
<1>2. slug[1] \in Slugs /\ ToolId(slug[1]) = id
  BY <1>1, NameOfId
<1> QED
  BY <1>1, <1>2

\* What the reference asks for has no failure and raises nothing, if ids differ.
LEMMA SimulationTaken ==
  ASSUME DoctorTypeOK, ToolsRegistered, \A slug \in Slugs : Registered(tool_ids, slug),
         IsInjective([slug \in Slugs |-> ToolId(slug)]),
         NEW file, NEW at, SimulationFits(file)
  PROVE  /\ simulation_failures(file, at) = {}
         /\ ~ \E id \in DOMAIN file.overrides :
                /\ tool_names_by_id(tool_ids, id) # None
                /\ \E mock \in Range(file.overrides[id]) :
                     \E c \in mock.conditions : Unhashable \in {c.path, c.eval}
<1>1. ASSUME NEW id \in DOMAIN file.overrides
      PROVE  /\ tool_names_by_id(tool_ids, id) # None
             /\ tool_names_by_id(tool_ids, id)[1] \in Slugs
             /\ file.overrides[id] # << >>
             /\ \A mock \in Range(file.overrides[id]) :
                  Plausible(mock, tool_names_by_id(tool_ids, id)[1])
  <2> DEFINE name == tool_names_by_id(tool_ids, id)
  <2>1. PICK slug \in Slugs :
          /\ ToolId(slug) = id
          /\ file.overrides[id] # << >>
          /\ \A mock \in Range(file.overrides[id]) : Plausible(mock, slug)
    BY DEF SimulationFits
  <2>2. name # None /\ name[1] \in Slugs /\ ToolId(name[1]) = id
    BY <2>1, NameOfId
  <2>3. name[1] = slug
    BY <2>1, <2>2 DEF IsInjective
  <2> QED
    BY <2>1, <2>2, <2>3
<1>2. simulation_failures(file, at) = {}
  <2>1. \A id \in DOMAIN file.overrides : override_failures(file, id, at) = {}
    BY <1>1, OverrideIs
  <2> QED
    BY <2>1, SimulationIs DEF SimulationFits
<1>3. \A slug \in Slugs : Unhashable \notin Parameters[slug]
  BY ProjectAssumption DEF Range
<1>4. ASSUME NEW id \in DOMAIN file.overrides, NEW mock \in Range(file.overrides[id]),
             NEW c \in mock.conditions
      PROVE  Unhashable \notin {c.path, c.eval}
  <2>1. /\ c.path \in Parameters[tool_names_by_id(tool_ids, id)[1]]
        /\ tool_names_by_id(tool_ids, id)[1] \in Slugs /\ c.eval = "valid"
    BY <1>1 DEF Plausible
  <2> QED
    BY <1>3, <2>1 DEF Unhashable
<1> QED
  BY <1>2, <1>4
-----------------------------------------------------------------------------
(* Times of a recorded history.                                            *)

\* Whole seconds, cut from a time towards zero.
LEMMA Whole ==
  ASSUME NEW t \in Int
  PROVE  /\ WholeSeconds(t) \in Int
         /\ t % 10 = 0 => 10 * WholeSeconds(t) = t
         /\ t >= 0 => 10 * WholeSeconds(t) <= t
BY DEF WholeSeconds

\* A turn that no check finds anything wrong with.
TurnFits(history, i) ==
  /\ history[i].object /\ history[i].message
  /\ history[i].role \in {"agent", "user"}
  /\ later(history[i], previous(history)[i - 1])
  /\ history[i].tools \subseteq Slugs

\* A turn without a failure.
LEMMA TurnIs ==
  ASSUME NEW history, NEW i, NEW at
  PROVE  turn_failures(history, i, at) = {} <=> TurnFits(history, i)
BY DEF turn_failures, TurnFits, Unless

\* A list of numbers that grows from each to the next grows.
LEMMA Grows ==
  ASSUME NEW n \in Nat, NEW t, \A i \in 1 .. n : t[i] \in Int,
         \A i \in 1 .. n : i > 1 => t[i - 1] < t[i]
  PROVE  \A i, j \in 1 .. n : i < j => t[i] < t[j]
<1> DEFINE S == {k \in Nat : \A i \in 1 .. n : i + k + 1 <= n => t[i] < t[i + k + 1]}
<1>1. 0 \in S
  <2>1. ASSUME NEW i \in 1 .. n, i + 0 + 1 <= n PROVE t[i] < t[i + 0 + 1]
    <3>1. i + 1 \in 1 .. n /\ i + 1 > 1 /\ (i + 1) - 1 = i /\ i + 0 + 1 = i + 1
      BY <2>1
    <3>2. t[(i + 1) - 1] < t[i + 1]
      BY <3>1
    <3> QED
      BY <3>1, <3>2
  <2> QED
    BY <2>1
<1>2. ASSUME NEW k \in Nat, k \in S PROVE k + 1 \in S
  <2>1. ASSUME NEW i \in 1 .. n, i + (k + 1) + 1 <= n PROVE t[i] < t[i + (k + 1) + 1]
    <3>1. t[i] < t[i + k + 1]
      BY <1>2, <2>1
    <3> DEFINE j == i + (k + 1) + 1
    <3>2. j \in 1 .. n /\ j > 1 /\ j - 1 = i + k + 1 /\ j - 1 \in 1 .. n
      BY <2>1
    <3>3. t[j - 1] < t[j]
      BY <3>2
    <3>4. t[i] \in Int /\ t[j - 1] \in Int /\ t[j] \in Int
      BY <3>2
    <3> HIDE DEF j
    <3>5. t[i] < t[j]
      BY <3>1, <3>2, <3>3, <3>4
    <3> QED
      BY <3>5 DEF j
  <2> QED
    BY <2>1
<1>3. Nat \subseteq S
  <2> HIDE DEF S
  <2> QED
    BY <1>1, <1>2, Counted
<1>4. ASSUME NEW i \in 1 .. n, NEW j \in 1 .. n, i < j PROVE t[i] < t[j]
  <2> DEFINE k == j - i - 1
  <2>1. k \in Nat /\ i + k + 1 = j /\ i + k + 1 <= n
    BY <1>4
  <2>2. k \in S
    BY <1>3, <2>1
  <2> HIDE DEF k
  <2>3. t[i] < t[i + k + 1]
    BY <2>1, <2>2
  <2> QED
    BY <2>1, <2>3
<1> QED
  BY <1>4

\* With whole seconds such a history is a call in order.
LEMMA HistoryGood ==
  ASSUME NEW history, IsList(history), history # << >>,
         \A turn \in Range(history) : turn.tenths \in Int /\ turn.tenths % 10 = 0,
         \A i \in DOMAIN history : TurnFits(history, i) /\ ~ history[i].infinite
  PROVE  Playable(history)
<1> DEFINE n == Len(history)
           t == [i \in 1 .. n |-> history[i].tenths]
<1>1. n \in Nat /\ DOMAIN history = 1 .. n /\ n # 0
      /\ \A i \in 1 .. n : history[i] \in Range(history)
  BY ListIs DEF IsList
<1> HIDE DEF n
<1>2. \A i \in 1 .. n : t[i] \in Int /\ 10 * WholeSeconds(t[i]) = t[i]
  BY <1>1, Whole
<1>3. \A i \in 1 .. n : history[i].object /\ later(history[i], previous(history)[i - 1])
  BY <1>1 DEF TurnFits
<1>4. /\ previous(history)[0] = -1
      /\ \A i \in 1 .. n : previous(history)[i] = WholeSeconds(t[i])
  BY <1>1, <1>3, PreviousIs DEF n
<1>5. \A i \in 1 .. n : t[i] > 10 * previous(history)[i - 1]
  BY <1>3 DEF later
<1>6. t[1] >= 0
  <2>1. 1 \in 1 .. n
    BY <1>1
  <2>2. t[1] > -10
    <3>1. t[1] > 10 * previous(history)[1 - 1]
      BY <1>5, <2>1
    <3>2. 10 * previous(history)[1 - 1] = -10
      BY <1>4
    <3> QED
      BY <3>1, <3>2
  <2>3. t[1] \in Int /\ t[1] % 10 = 0
    BY <1>1, <2>1
  <2> HIDE DEF t
  <2> QED
    BY <2>2, <2>3
<1>7. ASSUME NEW i \in 1 .. n, i > 1 PROVE t[i - 1] < t[i]
  <2>1. i - 1 \in 1 .. n
    BY <1>1, <1>7
  <2>2. 10 * previous(history)[i - 1] = t[i - 1]
    BY <1>2, <1>4, <2>1
  <2>3. t[i] > t[i - 1]
    BY <1>5, <2>2
  <2> QED
    BY <1>2, <2>1, <2>3
<1>8. \A i, j \in 1 .. n : i < j => t[i] < t[j]
  <2> HIDE DEF t
  <2> QED
    BY <1>1, <1>2, <1>7, Grows
<1>9. TimesIncrease(history)
  BY <1>1, <1>8 DEF TimesIncrease
<1>10. \A turn \in Range(history) :
         /\ turn.object /\ turn.message
         /\ turn.role \in {"agent", "user"}
         /\ turn.number /\ ~ turn.infinite
         /\ turn.tools \subseteq Slugs
  BY DEF TurnFits, later, Range
<1>11. history[1].tenths >= 0
  BY <1>1, <1>6
<1> QED
  BY <1>9, <1>10, <1>11 DEF Playable

\* Whatever the fractions of its seconds, nothing is found wrong with such a call.
LEMMA HistoryTaken ==
  ASSUME NEW history, IsList(history), \A turn \in Range(history) : turn.tenths \in Int,
         Playable(history)
  PROVE  \A i \in DOMAIN history : TurnFits(history, i)
<1> DEFINE n == Len(history)
           t == [i \in 1 .. n |-> history[i].tenths]
           last == previous(history)
           S == {k \in Nat : k \in 1 .. n => last[k] = WholeSeconds(t[k])}
<1>1. n \in Nat /\ DOMAIN history = 1 .. n /\ n # 0
      /\ \A i \in 1 .. n : history[i] \in Range(history)
  BY ListIs DEF IsList, Playable
<1>2. \A i \in 1 .. n : t[i] \in Int
  BY <1>1
<1>3. \A i \in 1 .. n : history[i].object /\ history[i].number
  BY <1>1 DEF Playable
<1>4. /\ last[0] = -1
      /\ \A k \in 1 .. n :
           last[k] = IF history[k].object /\ later(history[k], last[k - 1])
                       THEN WholeSeconds(history[k].tenths)
                       ELSE last[k - 1]
  BY <1>1, PreviousIs
<1> HIDE DEF n, last
<1>5. t[1] >= 0 /\ \A i, j \in 1 .. n : i < j => t[i] < t[j]
  BY <1>1 DEF Playable, TimesIncrease
<1>6. \A i \in 1 .. n : t[i] >= 0
  <2>1. 1 \in 1 .. n
    BY <1>1
  <2>2. ASSUME NEW i \in 1 .. n PROVE t[i] >= 0
    <3>1. CASE i = 1
      BY <1>5, <3>1
    <3>2. CASE i # 1
      <4>1. t[1] < t[i] /\ t[1] \in Int /\ t[i] \in Int
        BY <1>2, <1>5, <2>1, <3>2
      <4> QED
        BY <1>5, <4>1
    <3> QED
      BY <3>1, <3>2
  <2> QED
    BY <2>2
<1>7. \A i \in 1 .. n : WholeSeconds(t[i]) \in Int /\ 10 * WholeSeconds(t[i]) <= t[i]
  BY <1>2, <1>6, Whole
\* A turn passes if the last one did.
<1>8. ASSUME NEW k \in 1 .. n, k > 1 => last[k - 1] = WholeSeconds(t[k - 1])
      PROVE  later(history[k], last[k - 1])
  <2>1. history[k].number /\ history[k].tenths = t[k]
    BY <1>3
  <2>2. CASE k = 1
    <3>1. last[k - 1] = -1
      BY <1>4, <2>2
    <3>2. t[k] \in Int /\ t[k] >= 0
      BY <1>2, <1>6
    <3>3. t[k] > 10 * last[k - 1]
      BY <3>1, <3>2
    <3> QED
      BY <2>1, <3>3 DEF later
  <2>3. CASE k > 1
    <3>1. k - 1 \in 1 .. n /\ k - 1 < k
      BY <1>1, <2>3
    <3>2. t[k - 1] < t[k] /\ t[k - 1] \in Int /\ t[k] \in Int
      BY <1>2, <1>5, <3>1
    <3>3. last[k - 1] \in Int /\ 10 * last[k - 1] <= t[k - 1]
      BY <1>7, <1>8, <2>3, <3>1
    <3>4. t[k] > 10 * last[k - 1]
      BY <3>2, <3>3
    <3> QED
      BY <2>1, <3>4 DEF later
  <2> QED
    BY <1>1, <2>2, <2>3
<1>9. Nat \subseteq S
  <2>1. 0 \in S
    OBVIOUS
  <2>2. ASSUME NEW k \in Nat, k \in S PROVE k + 1 \in S
    <3> SUFFICES ASSUME k + 1 \in 1 .. n PROVE last[k + 1] = WholeSeconds(t[k + 1])
      OBVIOUS
    <3>1. (k + 1) - 1 = k /\ (k + 1 > 1 => k \in 1 .. n)
      BY <1>1
    <3>2. later(history[k + 1], last[(k + 1) - 1])
      BY <1>8, <2>2, <3>1
    <3> QED
      BY <1>3, <1>4, <3>2
  <2> HIDE DEF S
  <2> QED
    BY <2>1, <2>2, Counted
<1>10. ASSUME NEW i \in 1 .. n PROVE later(history[i], last[i - 1])
  <2>1. i > 1 => last[i - 1] = WholeSeconds(t[i - 1])
    <3>1. i > 1 => i - 1 \in Nat /\ i - 1 \in 1 .. n
      BY <1>1
    <3> QED
      BY <1>9, <3>1
  <2> QED
    BY <1>8, <2>1
<1> QED
  BY <1>1, <1>10 DEF TurnFits, Playable, last
-----------------------------------------------------------------------------
(* Tests.                                                                  *)

\* A tool test without a failure.
LEMMA ToolTestIs ==
  ASSUME NEW file, NEW at
  PROVE  tool_test_failures(file, at) = {} <=>
           /\ file.history # << >>
           /\ \A i \in DOMAIN file.history : TurnFits(file.history, i)
           /\ file.verify_absence
           /\ Some(file.referenced) = IdOf(tool_ids, CommitTool)
<1> DEFINE history == file.history
           turns == UNION {turn_failures(history, i, at) : i \in DOMAIN history}
<1>1. turns = {} <=> \A i \in DOMAIN history : TurnFits(history, i)
  BY TurnIs
<1>2. tool_test_failures(file, at) =
        Unless(history # << >>, at, "chat_history: must be nonempty")
          \cup turns
          \cup Unless(file.verify_absence, at, "verify_absence: must be true")
          \cup Unless(Some(file.referenced) = IdOf(tool_ids, CommitTool), at,
                      "must reference the commit tool")
  BY DEF tool_test_failures
<1> HIDE DEF turns
<1> QED
  BY <1>1, <1>2 DEF Unless

\* A test file without a failure, by its kind.
LEMMA TestIs ==
  ASSUME NEW file, NEW stem
  PROVE  test_failures(file, stem) = {} <=>
           /\ file.type = expected_kind(stem) /\ file.named /\ ~ file.sentinel
           /\ expected_kind(stem) = "simulation" => simulation_failures(file, stem) = {}
           /\ expected_kind(stem) # "simulation" => tool_test_failures(file, stem) = {}
BY DEF test_failures, Unless

\* The id the tool tests must reference is that of the commit tool.
LEMMA CommitIdIs ==
  ASSUME DoctorTypeOK, ToolsRegistered, \A slug \in Slugs : Registered(tool_ids, slug)
  PROVE  IdOf(tool_ids, CommitTool) = Some(ToolId(CommitTool))
<1>1. PICK i \in DOMAIN tool_ids : tool_ids[i].key = CommitTool
  BY ProjectAssumption DEF Registered
<1> QED
  BY <1>1, IdOfIs, ToolIdIs, DictionariesAre

\* What is read of a test file.
LEMMA TestFileIs ==
  ASSUME Readable(project), NEW stem \in TestPaths, project.test_files[stem] # None
  PROVE  LET file == project.test_files[stem][1] IN
           /\ Range(project.test_files[stem]) = {file}
           /\ IsList(file.history)
           /\ \A turn \in Range(file.history) : turn.tenths \in Int
<1>1. IsOptional(project.test_files[stem])
  BY DEF Readable
<1>2. Range(project.test_files[stem]) = {project.test_files[stem][1]}
  BY <1>1, OptionalIs
<1> QED
  BY <1>2 DEF Readable

\* What the reference says of a test file, whatever the kind of the test.
FileFits(file, m) ==
  /\ file.type = m.kind /\ file.named /\ ~ file.sentinel
  /\ m.kind = "simulation" => SimulationFits(file)
  /\ m.kind = "tool" =>
       /\ Playable(file.history)
       /\ file.verify_absence
       /\ file.referenced = ToolId(CommitTool)

\* RunsTest, with its file apart.
LEMMA RunsTestIs ==
  ASSUME NEW i, NEW m
  PROVE  RunsTest(i, m) <=>
           /\ project.tests[1][i].object /\ project.tests[1][i].type = m.kind
           /\ project.tests[1][i].id \in TestIds
           /\ project.tests[1][i].config = m.stem
           /\ \E file \in Range(project.test_files[m.stem]) : FileFits(file, m)
BY DEF RunsTest, FileFits, SimulationFits

\* A test file without a failure is what the reference asks for.
LEMMA FileGood ==
  ASSUME DoctorTypeOK, ToolsRegistered, \A slug \in Slugs : Registered(tool_ids, slug),
         InWholeSeconds, NEW m \in Range(Manifest), m.stem \in TestPaths,
         project.test_files[m.stem] # None,
         NEW file, file = project.test_files[m.stem][1],
         ~ raises(file, m.stem), test_failures(file, m.stem) = {}
  PROVE  FileFits(file, m)
<1>1. expected_kind(m.stem) = m.kind
  BY RowOfStem
<1>2. file.type = m.kind /\ file.named /\ ~ file.sentinel
  BY <1>1, TestIs
<1>3. CASE m.kind = "simulation"
  <2>1. simulation_failures(file, m.stem) = {}
    BY <1>1, <1>3, TestIs
  <2>2. SimulationFits(file)
    BY <2>1, SimulationGood
  <2> QED
    BY <1>2, <1>3, <2>2 DEF FileFits
<1>4. CASE m.kind # "simulation"
  <2>1. tool_test_failures(file, m.stem) = {}
    BY <1>1, <1>4, TestIs
  <2>2. /\ file.history # << >> /\ \A i \in DOMAIN file.history : TurnFits(file.history, i)
        /\ file.verify_absence /\ Some(file.referenced) = IdOf(tool_ids, CommitTool)
    BY <2>1, ToolTestIs
  <2>3. file.referenced = ToolId(CommitTool)
    BY <2>2, CommitIdIs, SomeIsNotNone
  <2>4. /\ IsList(file.history) /\ Range(project.test_files[m.stem]) = {file}
        /\ \A turn \in Range(file.history) : turn.tenths \in Int
    BY TestFileIs DEF DoctorTypeOK
  <2>5. \A turn \in Range(file.history) : turn.tenths \in Int /\ turn.tenths % 10 = 0
    BY <2>4 DEF InWholeSeconds
  <2>6. \A i \in DOMAIN file.history : ~ file.history[i].infinite
    BY <1>1, <1>4, <2>2 DEF raises, TurnFits
  <2>7. Playable(file.history)
    BY <2>2, <2>4, <2>5, <2>6, HistoryGood
  <2> QED
    BY <1>2, <1>4, <2>2, <2>3, <2>7 DEF FileFits
<1> QED
  BY <1>3, <1>4

\* What the reference asks for has no failure and raises nothing.
LEMMA FileTaken ==
  ASSUME DoctorTypeOK, ToolsRegistered, \A slug \in Slugs : Registered(tool_ids, slug),
         IsInjective([slug \in Slugs |-> ToolId(slug)]),
         NEW m \in Range(Manifest), m.stem \in TestPaths,
         project.test_files[m.stem] # None,
         NEW file, file = project.test_files[m.stem][1], FileFits(file, m)
  PROVE  ~ raises(file, m.stem) /\ test_failures(file, m.stem) = {}
<1>1. expected_kind(m.stem) = m.kind
  BY RowOfStem
<1>2. file.type = m.kind /\ file.named /\ ~ file.sentinel
  BY DEF FileFits
<1>3. CASE m.kind = "simulation"
  <2>1. SimulationFits(file)
    BY <1>3 DEF FileFits
  <2>2. /\ simulation_failures(file, m.stem) = {}
        /\ ~ \E id \in DOMAIN file.overrides :
               /\ tool_names_by_id(tool_ids, id) # None
               /\ \E mock \in Range(file.overrides[id]) :
                    \E c \in mock.conditions : Unhashable \in {c.path, c.eval}
    BY <2>1, SimulationTaken
  <2>3. test_failures(file, m.stem) = {}
    BY <1>1, <1>2, <1>3, <2>2, TestIs
  <2>4. ~ raises(file, m.stem)
    BY <1>1, <1>3, <2>2 DEF raises
  <2> QED
    BY <2>3, <2>4
<1>4. CASE m.kind = "tool"
  <2>1. Playable(file.history) /\ file.verify_absence /\ file.referenced = ToolId(CommitTool)
    BY <1>4 DEF FileFits
  <2>2. /\ IsList(file.history)
        /\ \A turn \in Range(file.history) : turn.tenths \in Int
    BY TestFileIs DEF DoctorTypeOK
  <2>3. \A i \in DOMAIN file.history : TurnFits(file.history, i)
    BY <2>1, <2>2, HistoryTaken
  <2>4. tool_test_failures(file, m.stem) = {}
    BY <2>1, <2>3, CommitIdIs, ToolTestIs DEF Playable
  <2>5. test_failures(file, m.stem) = {}
    BY <1>1, <1>2, <1>4, <2>4, TestIs
  <2>6. Unhashable \notin Slugs
    BY ProjectAssumption
  <2>7. \A i \in DOMAIN file.history :
          /\ file.history[i].role # Unhashable
          /\ Unhashable \notin file.history[i].tools
          /\ ~ file.history[i].infinite
    BY <2>1, <2>6 DEF Playable, Range, Unhashable
  <2>8. ~ raises(file, m.stem)
    BY <1>1, <1>4, <2>7 DEF raises
  <2> QED
    BY <2>5, <2>8
<1> QED
  BY <1>3, <1>4, ProjectAssumption

\* An entry of tests.json that is taken and has no failure runs its test.
LEMMA TestEntryGood ==
  ASSUME DoctorTypeOK, ToolsRegistered, \A slug \in Slugs : Registered(tool_ids, slug),
         InWholeSeconds,
         NEW i, NEW entry, entry = project.tests[1][i], entry.object,
         test_refusal(entry, test_ids) = None, entry.type = expected_kind(entry.config),
         project.test_files[entry.config] # None,
         NEW file, file = project.test_files[entry.config][1],
         ~ raises(file, entry.config), test_failures(file, entry.config) = {},
         NEW m \in Range(Manifest), m.stem = entry.config
  PROVE  RunsTest(i, m)
<1>1. m.stem \in TestPaths /\ entry.id \in TestIds
  BY TestTaken
<1>2. FileFits(file, m)
  BY <1>1, FileGood
<1>3. file \in Range(project.test_files[m.stem])
  BY <1>1, TestFileIs DEF DoctorTypeOK
<1>4. entry.type = m.kind
  BY RowOfStem
<1> QED
  BY <1>1, <1>2, <1>3, <1>4, RunsTestIs

\* One that runs a test is taken, if its stem is not registered.
LEMMA TestEntryTaken ==
  ASSUME DoctorTypeOK, ToolsRegistered, \A slug \in Slugs : Registered(tool_ids, slug),
         IsInjective([slug \in Slugs |-> ToolId(slug)]),
         NEW i, NEW entry, entry = project.tests[1][i],
         NEW m \in Range(Manifest), RunsTest(i, m), ~ Registered(test_ids, m.stem)
  PROVE  LET file == project.test_files[entry.config][1] IN
           /\ test_refusal(entry, test_ids) = None
           /\ entry.config = m.stem
           /\ entry.type = expected_kind(entry.config)
           /\ project.test_files[entry.config] # None
           /\ ~ raises(file, entry.config) /\ test_failures(file, entry.config) = {}
<1>1. m.stem \in Stems \cap TestPaths /\ expected_kind(m.stem) = m.kind
  BY RowOfStem, ProjectAssumption
<1>2. /\ entry.type = m.kind /\ entry.id \in TestIds /\ entry.config = m.stem
      /\ \E file \in Range(project.test_files[m.stem]) : FileFits(file, m)
  BY RunsTestIs
<1>3. test_refusal(entry, test_ids) = None
  BY <1>1, <1>2 DEF test_refusal
<1>4. PICK file \in Range(project.test_files[m.stem]) : FileFits(file, m)
  BY <1>2
<1>5. project.test_files[m.stem] # None /\ file = project.test_files[m.stem][1]
  BY <1>1, <1>4, OptionalIs DEF Readable, DoctorTypeOK
<1>6. ~ raises(file, m.stem) /\ test_failures(file, m.stem) = {}
  BY <1>1, <1>4, <1>5, FileTaken
<1> QED
  BY <1>1, <1>2, <1>3, <1>5, <1>6
-----------------------------------------------------------------------------
(* The parts of GoodSoFar.                                                 *)

FilesGood ==
  /\ fixtures_fault(project.fixtures) = None
  /\ project.contracts /\ project.agent # None
  /\ project.tools # None /\ \A entry \in Range(project.tools[1]) : entry.object
  /\ project.tests # None /\ \A entry \in Range(project.tests[1]) : entry.object

ToolGood(i) == Provides(i, tool_ids[i].key) /\ tool_ids[i].id = project.tools[1][i].id

TestGood(i) ==
  /\ test_ids[i].id = project.tests[1][i].id
  /\ test_ids[i].key = project.tests[1][i].config
  /\ InWholeSeconds => \A m \in Range(Manifest) : m.stem = test_ids[i].key => RunsTest(i, m)

Good ==
  /\ FilesGood
  /\ Len(tool_ids) = IF place = "tools" THEN position - 1 ELSE Len(project.tools[1])
  /\ \A i \in DOMAIN tool_ids : ToolGood(i)
  /\ place # "tools" => \A slug \in Slugs : Registered(tool_ids, slug)
  /\ place # "tools" =>
       Len(test_ids) = IF place = "tests" THEN position - 1 ELSE Len(project.tests[1])
  /\ \A i \in DOMAIN test_ids : TestGood(i)
  /\ place \in {"links", "reporting", "reported"} =>
       \A stem \in Stems : Registered(test_ids, stem)
  /\ place \in {"reporting", "reported"} => agent_failures(project.agent[1]) = {}

\* GoodSoFar by its parts,
LEMMA GoodIs == GoodSoFar <=> (failures = {} /\ place \notin {"preflight", "raised"} => Good)
BY DEF GoodSoFar, Good, FilesGood, ToolGood, TestGood

\* and after a step.
LEMMA GoodIsNext ==
  GoodSoFar' <=> (failures' = {} /\ place' \notin {"preflight", "raised"} => Good')
BY DEF GoodSoFar, Good, FilesGood, ToolGood, TestGood

\* What is about the project alone stays.
LEMMA ProjectStays ==
  ASSUME UNCHANGED project
  PROVE  /\ \A i, slug : Provides(i, slug)' <=> Provides(i, slug)
         /\ \A slug : ToolId(slug)' = ToolId(slug)
         /\ \A i, m : RunsTest(i, m)' <=> RunsTest(i, m)
         /\ InWholeSeconds' <=> InWholeSeconds
         /\ FilesGood' <=> FilesGood
         /\ Consistent' <=> Consistent
<1>1. \A i, slug : Provides(i, slug)' <=> Provides(i, slug)
  BY DEF Provides
<1>2. \A slug : ToolId(slug)' = ToolId(slug)
  BY DEF ToolId, Provides
<1>3. \A i, m : RunsTest(i, m)' <=> RunsTest(i, m)
  BY DEF RunsTest, ToolId, Provides
<1>4. InWholeSeconds' <=> InWholeSeconds
  BY DEF InWholeSeconds
<1>5. FilesGood' <=> FilesGood
  BY DEF FilesGood
<1>6. Consistent' <=> Consistent
  BY DEF Consistent, FixtureLoads, ToolsProvided, TestsRun, AgentLinked, TestId, RunsTest,
         ToolId, Provides
<1> QED
  BY <1>1, <1>2, <1>3, <1>4, <1>5, <1>6
-----------------------------------------------------------------------------
(* Step by step what is registered is good, or there is a failure.         *)

\* When the project is read nothing is registered, and what was read is good.
LEMMA GoodReadProject ==
  ASSUME DoctorTypeOK, LoopsInOrder, ReadProject, failures' = {}
  PROVE  Good'
<1>1. /\ place = "preflight" /\ place' = "tools" /\ UNCHANGED project
      /\ tool_ids' = tool_ids /\ test_ids' = test_ids /\ position' = position
  BY DEF ReadProject
<1>2. position = 1 /\ tool_ids = << >> /\ test_ids = << >>
  BY <1>1 DEF LoopsInOrder
<1>3. /\ fixtures_fault(project.fixtures) = None
      /\ project.contracts /\ project.agent # None
      /\ registry_failures(project.tools, "tools.json") = {}
      /\ registry_failures(project.tests, "tests.json") = {}
  BY DEF ReadProject, Found, Unless
<1>4. \A registry, name :
        registry_failures(registry, name) = {} =>
          registry # None /\ \A entry \in Range(registry[1]) : entry.object
  BY DEF registry_failures, Unless, Range
<1>5. FilesGood
  BY <1>3, <1>4 DEF FilesGood
<1>6. FilesGood'
  BY <1>1, <1>5, ProjectStays
<1>7. Len(tool_ids') = 0 /\ DOMAIN tool_ids' = {} /\ DOMAIN test_ids' = {}
  BY <1>1, <1>2
<1> QED
  BY <1>1, <1>2, <1>6, <1>7 DEF Good

\* A tool that is registered without a failure is good.
LEMMA GoodCheckTool ==
  ASSUME DoctorTypeOK, LoopsInOrder, Good, CheckTool, failures' = {}
  PROVE  Good'
<1> DEFINE entry == project.tools[1][position]
           file == project.tool_files[entry.config][1]
           new == [key |-> file.name, id |-> entry.id]
           n == Len(tool_ids)
<1>1. /\ place = "tools" /\ place' = "tools" /\ UNCHANGED project
      /\ test_ids' = test_ids /\ position' = position + 1
  BY DEF CheckTool
<1>2. FilesGood /\ n = position - 1 /\ \A i \in DOMAIN tool_ids : ToolGood(i)
  BY <1>1 DEF Good
<1>3. Readable(project) /\ position \in Nat \ {0} /\ test_ids = << >>
  BY <1>1 DEF DoctorTypeOK, LoopsInOrder
<1>4. entries(project.tools) = project.tools[1] /\ IsList(project.tools[1])
  BY <1>2, <1>3, RegistryIs, EntriesWhole DEF FilesGood
<1>5. position \in DOMAIN project.tools[1]
  <2>1. position <= Len(project.tools[1])
    BY <1>4 DEF CheckTool
  <2> QED
    BY <1>3, <1>4, <2>1, ListIs
<1>6. entry.object
  BY <1>2, <1>5 DEF FilesGood, Range
<1>7. /\ tool_refusal(entry, tool_ids) = None
      /\ tool_ids' = Append(tool_ids, new)
      /\ entry.type = "client" /\ entry.config = file.name
      /\ client_tool_failures(file, entry.config) = {}
  BY <1>4, Zenon DEF CheckTool, Found, Unless
<1> HIDE DEF entry, file
<1>8. Provides(position, file.name)
  BY <1>3, <1>6, <1>7, ToolEntryGood DEF entry, file
<1>9. file.name \in Slugs /\ entry.id \in ToolIds /\ ~ Registered(tool_ids, file.name)
  BY <1>7, ToolTaken DEF file
<1>10. tool_ids \in Seq([key : Slugs, id : ToolIds]) /\ KeysDiffer(tool_ids)
  BY DEF DoctorTypeOK, KeysDiffer
<1>11. /\ Len(tool_ids') = n + 1 /\ \A i \in 1 .. n : tool_ids'[i] = tool_ids[i]
       /\ tool_ids'[n + 1] = new /\ tool_ids' \in Seq([key : Slugs, id : ToolIds])
  BY <1>7, <1>9, <1>10, RegisterOne
<1>12. n \in Nat /\ DOMAIN tool_ids = 1 .. n /\ DOMAIN tool_ids' = 1 .. n + 1 /\ n + 1 = position
  BY <1>2, <1>3, <1>10, <1>11, LenProperties
<1> HIDE DEF n
<1>13. ASSUME NEW i \in 1 .. n + 1
       PROVE  Provides(i, tool_ids'[i].key) /\ tool_ids'[i].id = project.tools[1][i].id
  <2>1. CASE i \in 1 .. n
    <3>1. ToolGood(i)
      BY <1>2, <1>12, <2>1
    <3> QED
      BY <1>11, <2>1, <3>1 DEF ToolGood
  <2>2. CASE i = n + 1
    <3>1. i = position /\ tool_ids'[i].key = file.name /\ tool_ids'[i].id = entry.id
      BY <1>11, <1>12, <2>2
    <3> QED
      BY <1>8, <3>1 DEF entry
  <2> QED
    BY <1>12, <2>1, <2>2
<1>14. \A i \in DOMAIN tool_ids' : ToolGood(i)'
  BY <1>1, <1>12, <1>13, ProjectStays DEF ToolGood
<1>15. FilesGood'
  BY <1>1, <1>2, ProjectStays
<1>16. Len(tool_ids') = position' - 1
  BY <1>1, <1>3, <1>11, <1>12
<1>17. DOMAIN test_ids' = {}
  BY <1>1, <1>3
<1> QED
  BY <1>1, <1>14, <1>15, <1>16, <1>17 DEF Good

\* The loop over tools.json ends behind its last entry.
LEMMA ToolsCounted ==
  ASSUME DoctorTypeOK, LoopsInOrder, Good, MissingTools
  PROVE  Len(tool_ids) = Len(project.tools[1])
<1>1. place = "tools" /\ FilesGood /\ Len(tool_ids) = position - 1
  BY DEF MissingTools, Good
<1>2. Readable(project) /\ position \in Nat \ {0}
  BY DEF DoctorTypeOK
<1>3. entries(project.tools) = project.tools[1] /\ IsList(project.tools[1])
  BY <1>1, <1>2, RegistryIs, EntriesWhole DEF FilesGood
<1>4. /\ position > Len(project.tools[1]) /\ position <= Len(project.tools[1]) + 1
  BY <1>1, <1>3 DEF MissingTools, LoopsInOrder
<1>5. Len(project.tools[1]) \in Nat
  BY <1>3, ListIs
<1> QED
  BY <1>1, <1>2, <1>4, <1>5

\* When no tool is missing every tool is registered.
LEMMA GoodMissingTools ==
  ASSUME DoctorTypeOK, LoopsInOrder, Good, MissingTools, failures' = {}
  PROVE  Good'
<1>1. /\ place = "tools" /\ place' = "tests" /\ UNCHANGED project
      /\ tool_ids' = tool_ids /\ test_ids' = test_ids /\ position' = 1
  BY DEF MissingTools
<1>2. /\ FilesGood /\ Len(tool_ids) = position - 1
      /\ \A i \in DOMAIN tool_ids : ToolGood(i)
  BY <1>1 DEF Good
<1>3. Readable(project) /\ position \in Nat \ {0} /\ test_ids = << >>
  BY <1>1 DEF DoctorTypeOK, LoopsInOrder
<1>5. Len(tool_ids) = Len(project.tools[1])
  BY ToolsCounted
<1>6. \A slug \in Slugs : Registered(tool_ids, slug)
  BY DEF MissingTools, Found
<1>7. FilesGood'
  BY <1>1, <1>2, ProjectStays
<1>8. \A i \in DOMAIN tool_ids' : ToolGood(i)'
  BY <1>1, <1>2, ProjectStays DEF ToolGood
<1>9. Len(test_ids') = position' - 1 /\ DOMAIN test_ids' = {}
  BY <1>1, <1>3
<1>10. \A slug \in Slugs : Registered(tool_ids', slug)
  BY <1>1, <1>6
<1> QED
  BY <1>1, <1>5, <1>7, <1>8, <1>9, <1>10 DEF Good
\* When the tools are done, what is registered is what there is.
LEMMA ToolsDone ==
  ASSUME Good, place # "tools"
  PROVE  ToolsRegistered /\ \A slug \in Slugs : Registered(tool_ids, slug)
BY DEF Good, FilesGood, ToolGood, ToolsRegistered

\* A test that is registered without a failure is good.
LEMMA GoodCheckTest ==
  ASSUME DoctorTypeOK, LoopsInOrder, Good, CheckTest, failures' = {}, place' # "raised"
  PROVE  Good'
<1> DEFINE entry == project.tests[1][position]
           file == project.test_files[entry.config][1]
           new == [key |-> entry.config, id |-> entry.id]
           n == Len(test_ids)
<1>1. /\ place = "tests" /\ place' = "tests" /\ UNCHANGED project
      /\ tool_ids' = tool_ids /\ position' = position + 1
  BY DEF CheckTest
<1>2. /\ FilesGood /\ n = position - 1 /\ \A i \in DOMAIN test_ids : TestGood(i)
      /\ Len(tool_ids) = Len(project.tools[1]) /\ \A i \in DOMAIN tool_ids : ToolGood(i)
      /\ ToolsRegistered /\ \A slug \in Slugs : Registered(tool_ids, slug)
  BY <1>1, ToolsDone DEF Good
<1>3. Readable(project) /\ position \in Nat \ {0}
  BY DEF DoctorTypeOK
<1>4. entries(project.tests) = project.tests[1] /\ IsList(project.tests[1])
  BY <1>2, <1>3, RegistryIs, EntriesWhole DEF FilesGood
<1>5. position \in DOMAIN project.tests[1]
  <2>1. position <= Len(project.tests[1])
    BY <1>4 DEF CheckTest
  <2> QED
    BY <1>3, <1>4, <2>1, ListIs
<1>6. entry.object
  BY <1>2, <1>5 DEF FilesGood, Range
<1>7. /\ test_refusal(entry, test_ids) = None
      /\ test_ids' = Append(test_ids, new)
      /\ entry.config \in TestPaths \cap Stems => entry.type = expected_kind(entry.config)
      /\ project.test_files[entry.config] # None
      /\ ~ raises(file, entry.config) /\ test_failures(file, entry.config) = {}
  BY <1>4, Zenon DEF CheckTest, Found, Unless
<1>8. /\ entry.config \in TestPaths \cap Stems /\ entry.id \in TestIds
      /\ ~ Registered(test_ids, entry.config)
  BY <1>7, TestTaken
<1> HIDE DEF entry, file
<1>9. ASSUME InWholeSeconds, NEW m \in Range(Manifest), m.stem = entry.config
      PROVE  RunsTest(position, m)
  BY <1>2, <1>6, <1>7, <1>8, <1>9, TestEntryGood DEF entry, file
<1>10. test_ids \in Seq([key : Stems, id : TestIds]) /\ KeysDiffer(test_ids)
  BY DEF DoctorTypeOK, KeysDiffer
<1>11. /\ Len(test_ids') = n + 1 /\ \A i \in 1 .. n : test_ids'[i] = test_ids[i]
       /\ test_ids'[n + 1] = new /\ test_ids' \in Seq([key : Stems, id : TestIds])
  BY <1>7, <1>8, <1>10, RegisterOne
<1>12. n \in Nat /\ DOMAIN test_ids = 1 .. n /\ DOMAIN test_ids' = 1 .. n + 1 /\ n + 1 = position
  BY <1>2, <1>3, <1>10, <1>11, LenProperties
<1> HIDE DEF n
<1>13. ASSUME NEW i \in 1 .. n + 1
       PROVE  /\ test_ids'[i].id = project.tests[1][i].id
              /\ test_ids'[i].key = project.tests[1][i].config
              /\ InWholeSeconds =>
                   \A m \in Range(Manifest) : m.stem = test_ids'[i].key => RunsTest(i, m)
  <2>1. CASE i \in 1 .. n
    <3>1. TestGood(i)
      BY <1>2, <1>12, <2>1
    <3> QED
      BY <1>11, <2>1, <3>1 DEF TestGood
  <2>2. CASE i = n + 1
    <3>1. i = position /\ test_ids'[i].key = entry.config /\ test_ids'[i].id = entry.id
      BY <1>11, <1>12, <2>2
    <3> QED
      BY <1>9, <3>1 DEF entry
  <2> QED
    BY <1>12, <2>1, <2>2
<1>14. \A i \in DOMAIN test_ids' : TestGood(i)'
  BY <1>1, <1>12, <1>13, ProjectStays DEF TestGood
<1>15. FilesGood'
  BY <1>1, <1>2, ProjectStays
<1>16. Len(test_ids') = position' - 1
  BY <1>1, <1>3, <1>11, <1>12
<1>17. \A i \in DOMAIN tool_ids' : ToolGood(i)'
  BY <1>1, <1>2, ProjectStays DEF ToolGood
<1>18. Len(tool_ids') = Len(project'.tools[1]) /\ \A slug \in Slugs : Registered(tool_ids', slug)
  BY <1>1, <1>2
<1> QED
  BY <1>1, <1>14, <1>15, <1>16, <1>17, <1>18 DEF Good

\* The loop over tests.json ends behind its last entry.
LEMMA TestsCounted ==
  ASSUME DoctorTypeOK, LoopsInOrder, Good, MissingTests
  PROVE  Len(test_ids) = Len(project.tests[1])
<1>1. place = "tests" /\ FilesGood /\ Len(test_ids) = position - 1
  BY DEF MissingTests, Good
<1>2. Readable(project) /\ position \in Nat \ {0}
  BY DEF DoctorTypeOK
<1>3. entries(project.tests) = project.tests[1] /\ IsList(project.tests[1])
  BY <1>1, <1>2, RegistryIs, EntriesWhole DEF FilesGood
<1>4. /\ position > Len(project.tests[1]) /\ position <= Len(project.tests[1]) + 1
  BY <1>1, <1>3 DEF MissingTests, LoopsInOrder
<1>5. Len(project.tests[1]) \in Nat
  BY <1>3, ListIs
<1> QED
  BY <1>1, <1>2, <1>4, <1>5

\* When no test is missing every test is registered.
LEMMA GoodMissingTests ==
  ASSUME DoctorTypeOK, LoopsInOrder, Good, MissingTests, failures' = {}
  PROVE  Good'
<1>1. /\ place = "tests" /\ place' = "links" /\ UNCHANGED project
      /\ tool_ids' = tool_ids /\ test_ids' = test_ids /\ position' = position
  BY DEF MissingTests
<1>2. /\ FilesGood /\ Len(test_ids) = position - 1
      /\ \A i \in DOMAIN test_ids : TestGood(i)
      /\ Len(tool_ids) = Len(project.tools[1]) /\ \A i \in DOMAIN tool_ids : ToolGood(i)
      /\ \A slug \in Slugs : Registered(tool_ids, slug)
  BY <1>1 DEF Good
<1>3. Readable(project) /\ position \in Nat \ {0}
  BY DEF DoctorTypeOK
<1>5. Len(test_ids) = Len(project.tests[1])
  BY TestsCounted
<1>6. \A stem \in Stems : Registered(test_ids, stem)
  BY DEF MissingTests, Found
<1>7. FilesGood'
  BY <1>1, <1>2, ProjectStays
<1>8. (\A i \in DOMAIN tool_ids' : ToolGood(i)') /\ \A i \in DOMAIN test_ids' : TestGood(i)'
  BY <1>1, <1>2, ProjectStays DEF ToolGood, TestGood
<1>9. /\ Len(tool_ids') = Len(project'.tools[1]) /\ Len(test_ids') = Len(project'.tests[1])
      /\ \A slug \in Slugs : Registered(tool_ids', slug)
      /\ \A stem \in Stems : Registered(test_ids', stem)
  BY <1>1, <1>2, <1>5, <1>6
<1> QED
  BY <1>1, <1>7, <1>8, <1>9 DEF Good

\* The agent and the report register nothing more.
LEMMA GoodAtTheEnd ==
  ASSUME Good, LinkAgent \/ Report, failures' = {}
  PROVE  Good'
<1>1. /\ place \in {"links", "reporting"} /\ place' \in {"reporting", "reported"}
      /\ UNCHANGED project
      /\ tool_ids' = tool_ids /\ test_ids' = test_ids /\ position' = position
  BY DEF LinkAgent, Report
<1>2. /\ FilesGood
      /\ \A i \in DOMAIN tool_ids : ToolGood(i)
      /\ \A i \in DOMAIN test_ids : TestGood(i)
      /\ Len(tool_ids) = Len(project.tools[1]) /\ Len(test_ids) = Len(project.tests[1])
      /\ \A slug \in Slugs : Registered(tool_ids, slug)
      /\ \A stem \in Stems : Registered(test_ids, stem)
  BY <1>1 DEF Good
<1>3. agent_failures(project.agent[1]) = {}
  <2>1. CASE LinkAgent
    BY <1>2, <2>1 DEF LinkAgent, Found, FilesGood
  <2>2. CASE Report
    BY <2>2 DEF Report, Good
  <2> QED
    BY <2>1, <2>2
<1>4. agent_failures(project.agent[1])' = {}
  BY <1>1, <1>3 DEF agent_failures
<1>5. FilesGood'
  BY <1>1, <1>2, ProjectStays
<1>6. (\A i \in DOMAIN tool_ids' : ToolGood(i)') /\ \A i \in DOMAIN test_ids' : TestGood(i)'
  BY <1>1, <1>2, ProjectStays DEF ToolGood, TestGood
<1>7. /\ Len(tool_ids') = Len(project'.tools[1]) /\ Len(test_ids') = Len(project'.tests[1])
      /\ \A slug \in Slugs : Registered(tool_ids', slug)
      /\ \A stem \in Stems : Registered(test_ids', stem)
  BY <1>1, <1>2
<1> QED
  BY <1>1, <1>4, <1>5, <1>6, <1>7 DEF Good

\* Before anything is read nothing is claimed.
LEMMA GoodInit == DoctorInit => GoodSoFar
BY GoodIs DEF DoctorInit

\* Every step keeps GoodSoFar.
LEMMA GoodStep ==
  DoctorTypeOK /\ LoopsInOrder /\ GoodSoFar /\ [DoctorNext]_doctorVars => GoodSoFar'
<1> SUFFICES ASSUME DoctorTypeOK, LoopsInOrder, GoodSoFar, [DoctorNext]_doctorVars,
                    failures' = {}, place' \notin {"preflight", "raised"}
             PROVE  Good'
  BY GoodIsNext
<1>1. CASE FixturesRaise
  BY <1>1 DEF FixturesRaise
<1>2. CASE ReadProject
  BY <1>2, GoodReadProject
<1>3. CASE CheckTool \/ MissingTools \/ CheckTest \/ MissingTests \/ LinkAgent \/ Report
  <2>1. failures = {} /\ place \notin {"preflight", "raised"}
    BY <1>3 DEF CheckTool, MissingTools, CheckTest, MissingTests, LinkAgent, Report, Found
  <2>2. Good
    BY <2>1, GoodIs
  <2> QED
    BY <1>3, <2>2, GoodCheckTool, GoodMissingTools, GoodCheckTest, GoodMissingTests, GoodAtTheEnd
<1>4. CASE UNCHANGED doctorVars
  <2>1. Good
    BY <1>4, GoodIs DEF doctorVars
  <2>2. /\ UNCHANGED project /\ UNCHANGED place /\ UNCHANGED position
        /\ UNCHANGED tool_ids /\ UNCHANGED test_ids
    BY <1>4 DEF doctorVars
  <2>3. FilesGood' /\ (agent_failures(project.agent[1])' = agent_failures(project.agent[1]))
    BY <2>1, <2>2, ProjectStays DEF Good, agent_failures
  <2>4. (\A i \in DOMAIN tool_ids' : ToolGood(i)') /\ \A i \in DOMAIN test_ids' : TestGood(i)'
    BY <2>1, <2>2, ProjectStays DEF Good, ToolGood, TestGood
  <2> QED
    BY <2>1, <2>2, <2>3, <2>4 DEF Good
<1> QED
  BY <1>1, <1>2, <1>3, <1>4 DEF DoctorNext
-----------------------------------------------------------------------------
(* A consistent project gives no failure.                                  *)

\* What ConsistentIsPassed asks of a project.
Sound == Consistent /\ IsInjective([slug \in Slugs |-> ToolId(slug)])

\* A consistent project is read without a failure,
LEMMA CleanReadProject ==
  ASSUME DoctorTypeOK, LoopsInOrder, Sound, FixturesRaise \/ ReadProject
  PROVE  failures' = {} /\ place' # "raised"
<1>1. Readable(project) /\ FixtureLoads /\ ToolsProvided /\ TestsRun /\ AgentLinked
      /\ project.contracts
  BY DEF DoctorTypeOK, Sound, Consistent
<1>2. fixtures_fault(project.fixtures) = None
  BY <1>1, FixtureLoadsIs
<1>3. ReadProject
  BY <1>2, SomeIsNotNone DEF FixturesRaise
<1>4. place = "preflight" /\ failures = {}
  BY <1>3 DEF ReadProject, LoopsInOrder
<1>5. registry_failures(project.tools, "tools.json") = {}
  <2>1. \A i \in DOMAIN project.tools[1] : project.tools[1][i].object
    BY <1>1, EntriesProvide DEF Provides
  <2> QED
    BY <1>1, <2>1 DEF registry_failures, Unless, ToolsProvided
<1>6. registry_failures(project.tests, "tests.json") = {}
  <2>1. \A i \in DOMAIN project.tests[1] : project.tests[1][i].object
    BY <1>1, EntriesRun, RunsTestIs
  <2> QED
    BY <1>1, <2>1 DEF registry_failures, Unless, TestsRun
<1>7. project.agent # None
  BY <1>1 DEF AgentLinked
<1>8. failures' = {}
  BY <1>1, <1>2, <1>3, <1>4, <1>5, <1>6, <1>7 DEF ReadProject, Found, Unless
<1> QED
  BY <1>3, <1>8 DEF ReadProject

\* each of its tools is checked without one,
LEMMA CleanCheckTool ==
  ASSUME DoctorTypeOK, LoopsInOrder, Good, Sound, CheckTool, failures = {}
  PROVE  failures' = {}
<1> DEFINE entry == project.tools[1][position]
           file == project.tool_files[entry.config][1]
<1>1. Readable(project) /\ ToolsProvided /\ position \in Nat \ {0} /\ place = "tools"
  BY DEF DoctorTypeOK, Sound, Consistent, CheckTool
<1>2. FilesGood /\ Len(tool_ids) = position - 1 /\ \A i \in DOMAIN tool_ids : ToolGood(i)
  BY <1>1 DEF Good
<1>3. entries(project.tools) = project.tools[1] /\ IsList(project.tools[1])
  BY <1>1, <1>2, RegistryIs, EntriesWhole DEF FilesGood
<1>4. /\ position \in DOMAIN project.tools[1]
      /\ \A i \in DOMAIN tool_ids : i \in DOMAIN project.tools[1] /\ i # position
  <2>1. position <= Len(project.tools[1])
    BY <1>3 DEF CheckTool
  <2>2. DOMAIN tool_ids = 1 .. position - 1
    BY <1>2, DictionariesAre
  <2>3. DOMAIN project.tools[1] = 1 .. Len(project.tools[1]) /\ Len(project.tools[1]) \in Nat
    BY <1>3, ListIs
  <2> QED
    BY <1>1, <2>1, <2>2, <2>3
<1>5. PICK slug \in Slugs : Provides(position, slug)
  BY <1>1, <1>4, EntriesProvide
<1>6. ~ Registered(tool_ids, slug)
  <2> SUFFICES ASSUME NEW i \in DOMAIN tool_ids, tool_ids[i].key = slug PROVE FALSE
    BY DEF Registered
  <2>1. Provides(i, slug)
    BY <1>2 DEF ToolGood
  <2> QED
    BY <1>1, <1>4, <1>5, <2>1, EntriesProvide
<1>7. /\ tool_refusal(entry, tool_ids) = None
      /\ entry.type = "client" /\ entry.config = file.name
      /\ client_tool_failures(file, entry.config) = {}
  BY <1>1, <1>5, <1>6, ToolEntryTaken
<1> QED
  BY <1>3, <1>7 DEF CheckTool, Found, Unless

\* no tool is missing,
LEMMA CleanMissingTools ==
  ASSUME DoctorTypeOK, LoopsInOrder, Good, Sound, MissingTools, failures = {}
  PROVE  failures' = {}
<1>1. Readable(project) /\ ToolsProvided
  BY DEF DoctorTypeOK, Sound, Consistent
<1>2. Len(tool_ids) = Len(project.tools[1]) /\ \A i \in DOMAIN tool_ids : ToolGood(i)
  BY ToolsCounted DEF Good
<1>3. DOMAIN tool_ids = DOMAIN project.tools[1]
  BY <1>1, <1>2, RegistryIs, ListIs, DictionariesAre DEF ToolsProvided
<1>4. ASSUME NEW slug \in Slugs PROVE Registered(tool_ids, slug)
  <2>1. PICK i \in DOMAIN tool_ids : Provides(i, slug)
    BY <1>1, <1>3 DEF ToolsProvided
  <2>2. Provides(i, tool_ids[i].key)
    BY <1>2 DEF ToolGood
  <2>3. tool_ids[i].key = slug
    BY <2>1, <2>2 DEF Provides
  <2> QED
    BY <2>3 DEF Registered
<1> QED
  BY <1>4 DEF MissingTools, Found

\* A registered test is of the entry that runs it.
LEMMA TestsOfEntries ==
  ASSUME DoctorTypeOK, Good, Sound, NEW i \in DOMAIN test_ids, i \in DOMAIN project.tests[1],
         NEW m \in Range(Manifest), m.stem = test_ids[i].key
  PROVE  RunsTest(i, m)
<1>1. Readable(project) /\ TestsRun
  BY DEF DoctorTypeOK, Sound, Consistent
<1>2. PICK r \in Range(Manifest) : RunsTest(i, r)
  BY <1>1, EntriesRun
<1>3. r.stem = m.stem
  BY <1>2, RunsTestIs DEF Good, TestGood
<1> QED
  BY <1>2, <1>3, RowOfStem

\* each of its tests is checked without a failure or an exception,
LEMMA CleanCheckTest ==
  ASSUME DoctorTypeOK, LoopsInOrder, Good, Sound, CheckTest, failures = {}
  PROVE  failures' = {} /\ place' # "raised"
<1> DEFINE entry == project.tests[1][position]
           file == project.test_files[entry.config][1]
<1>1. Readable(project) /\ TestsRun /\ position \in Nat \ {0} /\ place = "tests"
  BY DEF DoctorTypeOK, Sound, Consistent, CheckTest
<1>2. /\ FilesGood /\ Len(test_ids) = position - 1
      /\ ToolsRegistered /\ \A slug \in Slugs : Registered(tool_ids, slug)
  BY <1>1, ToolsDone DEF Good
<1>3. entries(project.tests) = project.tests[1] /\ IsList(project.tests[1])
  BY <1>1, <1>2, RegistryIs, EntriesWhole DEF FilesGood
<1>4. /\ position \in DOMAIN project.tests[1]
      /\ \A i \in DOMAIN test_ids : i \in DOMAIN project.tests[1] /\ i # position
  <2>1. position <= Len(project.tests[1])
    BY <1>3 DEF CheckTest
  <2>2. DOMAIN test_ids = 1 .. position - 1
    BY <1>2, DictionariesAre
  <2>3. DOMAIN project.tests[1] = 1 .. Len(project.tests[1]) /\ Len(project.tests[1]) \in Nat
    BY <1>3, ListIs
  <2> QED
    BY <1>1, <2>1, <2>2, <2>3
<1>5. PICK m \in Range(Manifest) : RunsTest(position, m)
  BY <1>1, <1>4, EntriesRun
<1>6. ~ Registered(test_ids, m.stem)
  <2> SUFFICES ASSUME NEW i \in DOMAIN test_ids, test_ids[i].key = m.stem PROVE FALSE
    BY DEF Registered
  <2>1. RunsTest(i, m)
    BY <1>4, TestsOfEntries
  <2> QED
    BY <1>1, <1>4, <1>5, <2>1, EntriesRun
<1>7. /\ test_refusal(entry, test_ids) = None
      /\ entry.type = expected_kind(entry.config)
      /\ project.test_files[entry.config] # None
      /\ ~ raises(file, entry.config) /\ test_failures(file, entry.config) = {}
  BY <1>2, <1>5, <1>6, TestEntryTaken DEF Sound
<1> QED
  BY <1>1, <1>3, <1>7 DEF CheckTest, Found, Unless

\* no test is missing,
LEMMA CleanMissingTests ==
  ASSUME DoctorTypeOK, LoopsInOrder, Good, Sound, MissingTests, failures = {}
  PROVE  failures' = {}
<1>1. Readable(project) /\ TestsRun
  BY DEF DoctorTypeOK, Sound, Consistent
<1>2. Len(test_ids) = Len(project.tests[1]) /\ \A i \in DOMAIN test_ids : TestGood(i)
  BY TestsCounted DEF Good
<1>3. DOMAIN test_ids = DOMAIN project.tests[1]
  BY <1>1, <1>2, RegistryIs, ListIs, DictionariesAre DEF TestsRun
<1>4. ASSUME NEW stem \in Stems PROVE Registered(test_ids, stem)
  <2>1. PICK m \in Range(Manifest) : m.stem = stem
    BY RowOfStem
  <2>2. PICK i \in DOMAIN test_ids : RunsTest(i, m)
    BY <1>1, <1>3 DEF TestsRun
  <2>3. test_ids[i].key = stem
    BY <1>2, <2>1, <2>2, RunsTestIs DEF TestGood
  <2> QED
    BY <2>3 DEF Registered
<1> QED
  BY <1>4 DEF MissingTests, Found

\* and the agent is linked.
LEMMA CleanLinkAgent ==
  ASSUME DoctorTypeOK, Good, Sound, LinkAgent, failures = {}
  PROVE  failures' = {}
<1>1. Readable(project) /\ TestsRun /\ AgentLinked /\ place = "links"
  BY DEF DoctorTypeOK, Sound, Consistent, LinkAgent
<1>2. /\ ToolsRegistered /\ \A slug \in Slugs : Registered(tool_ids, slug)
      /\ \A stem \in Stems : Registered(test_ids, stem)
      /\ Len(test_ids) = Len(project.tests[1]) /\ \A i \in DOMAIN test_ids : TestGood(i)
  BY <1>1, ToolsDone DEF Good
<1>3. DOMAIN test_ids = DOMAIN project.tests[1]
  BY <1>1, <1>2, RegistryIs, ListIs, DictionariesAre DEF TestsRun
<1>4. TestsRegistered
  BY <1>1, <1>2, <1>3, TestsOfEntries DEF TestsRegistered, TestGood, TestsRun
<1>5. agent_failures(project.agent[1]) = {}
  BY <1>1, <1>2, <1>4, AgentLinkedIs DEF AgentLinked
<1> QED
  BY <1>5 DEF LinkAgent, Found

\* Nothing is found before anything is read.
LEMMA CleanInit == DoctorInit => CleanSoFar
BY DEF DoctorInit, CleanSoFar

\* Every step keeps CleanSoFar.
LEMMA CleanStep ==
  /\ DoctorTypeOK /\ LoopsInOrder /\ GoodSoFar /\ CleanSoFar
  /\ [DoctorNext]_doctorVars
  => CleanSoFar'
<1> SUFFICES ASSUME DoctorTypeOK, LoopsInOrder, GoodSoFar, CleanSoFar, [DoctorNext]_doctorVars,
                    Consistent', IsInjective([slug \in Slugs |-> ToolId(slug)])'
             PROVE  failures' = {} /\ place' # "raised"
  BY DEF CleanSoFar
<1>1. UNCHANGED project
  BY DEF DoctorNext, FixturesRaise, ReadProject, CheckTool, MissingTools, CheckTest, MissingTests,
         LinkAgent, Report, doctorVars
<1>2. Sound
  <2>1. Consistent
    BY <1>1, ProjectStays
  <2>2. \A slug : ToolId(slug)' = ToolId(slug)
    BY <1>1, ProjectStays
  <2>3. IsInjective([slug \in Slugs |-> ToolId(slug)])
    BY <2>2 DEF IsInjective
  <2> QED
    BY <2>1, <2>3 DEF Sound
<1>3. failures = {} /\ place # "raised"
  BY <1>2 DEF CleanSoFar, Sound
<1>4. CASE FixturesRaise \/ ReadProject
  BY <1>2, <1>4, CleanReadProject
<1>5. CASE CheckTool \/ MissingTools \/ CheckTest \/ MissingTests \/ LinkAgent \/ Report
  <2>1. place # "preflight"
    BY <1>5 DEF CheckTool, MissingTools, CheckTest, MissingTests, LinkAgent, Report
  <2>2. Good
    BY <1>3, <2>1, GoodIs
  <2>3. CASE CheckTool
    BY <1>2, <1>3, <2>2, <2>3, CleanCheckTool DEF CheckTool
  <2>4. CASE MissingTools
    BY <1>2, <1>3, <2>2, <2>4, CleanMissingTools DEF MissingTools
  <2>5. CASE CheckTest
    BY <1>2, <1>3, <2>2, <2>5, CleanCheckTest
  <2>6. CASE MissingTests
    BY <1>2, <1>3, <2>2, <2>6, CleanMissingTests DEF MissingTests
  <2>7. CASE LinkAgent
    BY <1>2, <1>3, <2>2, <2>7, CleanLinkAgent DEF LinkAgent
  <2>8. CASE Report
    BY <1>3, <2>8 DEF Report
  <2> QED
    BY <1>5, <2>3, <2>4, <2>5, <2>6, <2>7, <2>8
<1>6. CASE UNCHANGED doctorVars
  BY <1>3, <1>6 DEF doctorVars
<1> QED
  BY <1>4, <1>5, <1>6 DEF DoctorNext

-----------------------------------------------------------------------------
(* The theorems.                                                           *)

\* Of every project doctor is run on: what it registers is properly keyed, its
\* loops end behind the last entry, what it has registered without a failure is as
\* it should be, and a consistent project gives it no failure.
THEOREM DoctorInductive == DoctorSpec => []DoctorInv
<1>1. DoctorInit => DoctorInv
  BY DoctorTypeInit, LoopsInit, GoodInit, CleanInit DEF DoctorInv
<1>2. DoctorInv /\ [DoctorNext]_doctorVars => DoctorInv'
  BY DoctorTypeStep, LoopsStep, GoodStep, CleanStep DEF DoctorInv
<1> QED
  BY <1>1, <1>2, PTL DEF DoctorSpec

\* What holds when doctor has exited with 0.
LEMMA PassedIs ==
  ASSUME DoctorInv, exit = Some(0)
  PROVE  place = "reported" /\ failures = {} /\ Good
<1>1. Some(0) # None /\ Some(0) # Some(1)
  BY DEF Some, None
<1>2. place = "reported"
  BY <1>1 DEF DoctorInv, DoctorTypeOK, LoopsInOrder
<1>3. failures = {}
  BY <1>1, <1>2 DEF DoctorInv, LoopsInOrder
<1> QED
  BY <1>2, <1>3, GoodIs DEF DoctorInv

\* A project that doctor passes is consistent, whatever was refused on the way
\* (_tool_failures, _test_failures and _agent_failures of project_validation.py).
THEOREM PassedConsistent == DoctorSpec => []PassedIsConsistent
<1>1. DoctorInv => PassedIsConsistent
  <2> SUFFICES ASSUME DoctorInv, exit = Some(0), InWholeSeconds PROVE Consistent
    BY DEF PassedIsConsistent
  <2>1. place = "reported" /\ Good /\ DoctorTypeOK
    BY PassedIs DEF DoctorInv
  <2>2. /\ FilesGood /\ ToolsRegistered /\ \A slug \in Slugs : Registered(tool_ids, slug)
        /\ \A stem \in Stems : Registered(test_ids, stem)
        /\ agent_failures(project.agent[1]) = {}
    BY <2>1, ToolsDone DEF Good
  <2>3. TestsRegistered
    BY <2>1 DEF Good, FilesGood, TestGood, TestsRegistered
  <2>4. ToolsProvided /\ TestsRun
    BY <2>1, <2>2, <2>3, AllProvided, AllRun
  <2>5. AgentLinked
    BY <2>1, <2>2, <2>3, AgentLinkedIs DEF FilesGood
  <2>6. FixtureLoads
    BY <2>1, <2>2, FixtureLoadsIs DEF FilesGood, DoctorTypeOK
  <2> QED
    BY <2>2, <2>4, <2>5, <2>6 DEF Consistent, FilesGood
<1> QED
  BY <1>1, DoctorInductive, PTL

\* Doctor passes every consistent project whose tools have different ids, however
\* its registries are ordered (run_doctor of doctor.py).
THEOREM ConsistentPassed == DoctorSpec => []ConsistentIsPassed
<1>1. DoctorInv => ConsistentIsPassed
  <2> SUFFICES ASSUME DoctorInv, exit # None, Consistent,
                      IsInjective([slug \in Slugs |-> ToolId(slug)])
               PROVE  exit = Some(0)
    BY DEF ConsistentIsPassed
  <2>1. failures = {} /\ place # "raised"
    BY DEF DoctorInv, CleanSoFar
  <2>2. place = "reported"
    BY <2>1 DEF DoctorInv, DoctorTypeOK
  <2> QED
    BY <2>1, <2>2 DEF DoctorInv, LoopsInOrder
<1> QED
  BY <1>1, DoctorInductive, PTL

\* The servicing API opens with the fixtures of a passed project in a state that
\* the assumption on Fixture of Servicing describes (from_fixture_file of store.py).
THEOREM PassedServes == DoctorSpec => []PassedFixtureServes
<1>1. DoctorInv => PassedFixtureServes
  <2> SUFFICES ASSUME DoctorInv, exit = Some(0),
                      \A p \in OnFile : ListedOnce(project.fixtures[1], p)
               PROVE  LET fixture == loaded(project.fixtures[1]) IN
                        /\ DOMAIN fixture = OnFile
                        /\ \A p \in OnFile :
                             /\ fixture[p].policy_number = p /\ fixture[p].status \in PolicyStatus
                             /\ Range(fixture[p].vehicles) \subseteq Vehicle
                             /\ \A i, j \in DOMAIN fixture[p].vehicles :
                                  fixture[p].vehicles[i].vin = fixture[p].vehicles[j].vin => i = j
    BY Zenon DEF PassedFixtureServes
  <2>1. Readable(project) /\ fixtures_fault(project.fixtures) = None
    BY PassedIs DEF DoctorInv, DoctorTypeOK, Good, FilesGood
  <2>2. NumbersIn(project.fixtures[1]) = OnFile
    BY <2>1, FixtureFaultless
  <2>3. DOMAIN loaded(project.fixtures[1]) = OnFile
    BY <2>2 DEF loaded
  <2> QED
    BY <2>1, <2>3, LoadedIs
<1> QED
  BY <1>1, DoctorInductive, PTL
=============================================================================
