--------------------------- MODULE ProjectValidation ---------------------------
(***************************************************************************)
(* "verify doctor": verify/doctor.py over verify/project_validation.py. It  *)
(* reads the fixtures, the contracts, the agent, the two registries and the *)
(* file of each entry, and collects failures on the way.  What was          *)
(* registered before is used to judge what comes after: an entry that is    *)
(* refused early is as if it were not there.                                *)
(***************************************************************************)
EXTENDS FixtureFile, Functions

CONSTANTS
  OnFile,      \* the policy numbers the fixture file must list
  Routes,      \* the keys of ROUTES, in order
  Parameters,  \* Parameters[slug]: the path and body parameters of a route
  Results,     \* Results[slug]: the kinds of result a route may give
  CommitTool,  \* the tool the tests must find absent
  Manifest,    \* TEST_MANIFEST, in order: records of a stem and a kind
  ToolIds,     \* the ids that start with tool_
  TestIds,     \* the ids that start with test_
  ToolPaths,   \* the config paths of tools that are safe, by their stems
  TestPaths,   \* the same of tests
  Projects     \* the projects doctor may be run on

Slugs == Range(Routes)
Stems == {m.stem : m \in Range(Manifest)}

\* An optional value, and a list of anything.
IsOptional(x) == x = None \/ x = Some(x[1])
IsList(s) == s \in Seq(Range(s))

\* The text of no parameter and no tool: what is no text, a list or an object.
Unhashable == "an object"

ASSUME ProjectAssumption ==
  /\ IsList(Routes) /\ IsInjective(Routes)
  /\ CommitTool \in Slugs
  /\ DOMAIN Parameters = Slugs /\ DOMAIN Results = Slugs
  /\ Unhashable \notin Slugs \cup UNION Range(Parameters)
  /\ IsList(Manifest) /\ \A m \in Range(Manifest) : m.kind \in {"simulation", "tool"}
  /\ Slugs \subseteq ToolPaths /\ Stems \subseteq TestPaths
  /\ \A i, j \in DOMAIN Manifest : Manifest[i].stem = Manifest[j].stem => i = j

\* What doctor reads of a project: lists where the code goes through one, files
\* that can be read or not, and flags.
Readable(p) ==
  /\ IsOptional(p.fixtures) /\ IsOptional(p.agent)
  /\ p.fixtures # None =>
       IsList(p.fixtures[1]) /\ \A raw \in Range(p.fixtures[1]) : IsList(raw.vehicles)
  /\ p.agent # None => IsList(p.agent[1].attached)
  /\ \A registry \in {p.tools, p.tests} :
       /\ IsOptional(registry)
       /\ registry # None => IsList(registry[1])
  /\ \A path \in ToolPaths : IsOptional(p.tool_files[path])
  /\ \A path \in TestPaths :
       /\ IsOptional(p.test_files[path])
       /\ \A file \in Range(p.test_files[path]) :
            /\ IsList(file.history)
            /\ \A turn \in Range(file.history) : turn.tenths \in Int
            /\ \A id \in DOMAIN file.overrides : IsList(file.overrides[id])

ASSUME FilesAssumption == \A p \in Projects : Readable(p)

VARIABLES
  project,    \* the files on disk
  place,      \* what is checked next
  position,   \* the entry of the registry that is checked next
  tool_ids,   \* the dictionary of _tool_failures: records of a slug and an id
  test_ids,   \* that of _test_failures: records of a stem and an id
  failures,   \* the failures found
  exit        \* the exit status, as an optional value

doctorVars == <<project, place, position, tool_ids, test_ids, failures, exit>>

-----------------------------------------------------------------------------
\* A failure at a place, if a condition does not hold.
Unless(holds, at, what) == IF holds THEN {} ELSE {[at |-> at, what |-> what]}

\* The elements of a list at some of its positions, in order.
Kept(list, at) ==
  [n \in 1 .. Cardinality(at) |->
     list[CHOOSE i \in at : Cardinality({j \in at : j <= i}) = n]]

\* _registry: an unreadable registry has no entries; what is no object is dropped.
entries(registry) ==
  IF registry = None THEN << >>
  ELSE Kept(registry[1], {i \in DOMAIN registry[1] : registry[1][i].object})

registry_failures(registry, name) ==
  IF registry = None THEN Unless(FALSE, name, "expected one list")
  ELSE Unless(\A i \in DOMAIN registry[1] : registry[1][i].object, name, "expected an object")

\* What dictionaries are asked: slugs and stems are keys, and the last key with
\* an id is the one tool_names_by_id keeps.
Registered(ids, key) == \E i \in DOMAIN ids : ids[i].key = key

IdOf(ids, key) ==
  IF Registered(ids, key) THEN Some((CHOOSE entry \in Range(ids) : entry.key = key).id) ELSE None

tool_names_by_id(ids, id) ==
  LET named == {i \in DOMAIN ids : ids[i].id = id}
  IN IF named = {} THEN None ELSE Some(ids[Max(named)].key)

\* [ids[key] for key in keys if key in ids]
InOrder(ids, keys) ==
  LET present == Kept(keys, {i \in DOMAIN keys : Registered(ids, keys[i])})
  IN [i \in DOMAIN present |-> IdOf(ids, present[i])[1]]

-----------------------------------------------------------------------------
\* Tools.

\* Why an entry of tools.json is not registered, or None.
tool_refusal(entry, ids) ==
  IF entry.id \notin ToolIds THEN Some("invalid tool id")
  ELSE IF entry.config \notin ToolPaths THEN Some("unsafe config path")
  ELSE IF project.tool_files[entry.config] = None THEN Some("unreadable file")
  ELSE LET slug == project.tool_files[entry.config][1].name
       IN IF slug \notin Slugs THEN Some("must name one of the three tools")
          ELSE IF Registered(ids, slug) THEN Some("duplicate tool")
          ELSE None

\* A mistake: a property may be optional.
client_tool_failures_optional(file, at) ==
  LET names == Parameters[file.name]
  IN Unless(file.client_behavior, at, "must behave as a client tool")
       \cup IF DOMAIN file.properties # names
              THEN Unless(FALSE, at, "properties and required must be exactly")
              ELSE Unless(\A n \in names : file.properties[n] = "described",
                          at, "must be described")

client_tool_failures(file, at) ==
  LET names == Parameters[file.name]
  IN Unless(file.client_behavior, at, "must behave as a client tool")
       \cup IF file.required # names \/ DOMAIN file.properties # names
              THEN Unless(FALSE, at, "properties and required must be exactly")
              ELSE Unless(\A n \in names : file.properties[n] = "described",
                          at, "must be described")

-----------------------------------------------------------------------------
\* Tests.

\* The kind the manifest gives a stem.
expected_kind(stem) == (CHOOSE m \in Range(Manifest) : m.stem = stem).kind

\* A mistake: any id is taken.
test_refusal_any_id(entry, ids) ==
  IF entry.config \notin TestPaths THEN Some("unsafe config path")
  ELSE IF entry.config \notin Stems THEN Some("unknown test config")
  ELSE IF Registered(ids, entry.config) THEN Some("duplicate")
  ELSE None

\* Why an entry of tests.json is not registered, or None.
test_refusal(entry, ids) ==
  IF entry.config \notin TestPaths THEN Some("unsafe config path")
  ELSE IF entry.config \notin Stems THEN Some("unknown test config")
  ELSE IF entry.id \notin TestIds THEN Some("invalid test id")
  ELSE IF Registered(ids, entry.config) THEN Some("duplicate")
  ELSE None

\* A mock must answer as its route does, and test the parameters the route has.
mock_failures(mock, slug, at) ==
  Unless(mock.result \in Results[slug], at, "must match the API result")
    \cup Unless(\A c \in mock.conditions : c.path \in Parameters[slug], at, "unknown parameter")
    \cup Unless(\A c \in mock.conditions : c.eval = "valid", at, "invalid strategy")

simulation_failures(file, at) ==
  Unless(file.scenario, at, "scenario, conditions, turns and mock config")
    \cup Unless(DOMAIN file.overrides # {}, at, "tool_mock_overrides: must be nonempty")
    \cup UNION {LET slug == tool_names_by_id(tool_ids, id)
                    mocks == file.overrides[id]
                IN IF slug = None THEN Unless(FALSE, at, "unknown tool id")
                   ELSE IF mocks = << >> THEN Unless(FALSE, at, "must be nonempty")
                   ELSE UNION {mock_failures(mock, slug[1], at) : mock \in Range(mocks)} :
                id \in DOMAIN file.overrides}

\* int() of a time in tenths of a second: towards zero.
WholeSeconds(tenths) == IF tenths >= 0 THEN tenths \div 10 ELSE - ((- tenths) \div 10)

\* Whether the time of a turn passes, after a turn whose whole seconds are given.
later(turn, last) == turn.number /\ turn.tenths > 10 * last

\* previous, after each number of turns of a history.
previous(history) ==
  LET before[n \in 0 .. Len(history)] ==
        IF n = 0 THEN -1
        ELSE IF history[n].object /\ later(history[n], before[n - 1])
          THEN WholeSeconds(history[n].tenths)
          ELSE before[n - 1]
  IN before

turn_failures(history, i, at) ==
  IF ~ history[i].object THEN Unless(FALSE, at, "expected object")
  ELSE Unless(history[i].role \in {"agent", "user"}, at, "role: invalid")
         \cup Unless(history[i].message, at, "message: empty")
         \cup Unless(later(history[i], previous(history)[i - 1]), at, "must increase")
         \cup Unless(history[i].tools \subseteq Slugs, at, "unknown tool")

tool_test_failures(file, at) ==
  Unless(file.history # << >>, at, "chat_history: must be nonempty")
    \cup (UNION {turn_failures(file.history, i, at) : i \in DOMAIN file.history})
    \cup Unless(file.verify_absence, at, "verify_absence: must be true")
    \cup Unless(Some(file.referenced) = IdOf(tool_ids, CommitTool),
                at, "must reference the commit tool")

test_failures(file, stem) ==
  Unless(file.type = expected_kind(stem), stem, "type")
    \cup Unless(file.named, stem, "name: must be nonempty")
    \cup Unless(~ file.sentinel, stem, "contains obsolete local: sentinel")
    \cup IF expected_kind(stem) = "simulation"
           THEN simulation_failures(file, stem)
           ELSE tool_test_failures(file, stem)

\* A list or an object where a name should be cannot be looked up in a set: the
\* checks raise TypeError, and an infinite time OverflowError.
raises(file, stem) ==
  IF expected_kind(stem) = "simulation"
    THEN \E id \in DOMAIN file.overrides :
           /\ tool_names_by_id(tool_ids, id) # None
           /\ \E mock \in Range(file.overrides[id]) :
                \E c \in mock.conditions : Unhashable \in {c.path, c.eval}
    ELSE \E i \in DOMAIN file.history :
           /\ file.history[i].object
           /\ \/ file.history[i].role = Unhashable
              \/ Unhashable \in file.history[i].tools
              \/ file.history[i].infinite

-----------------------------------------------------------------------------
\* The agent's links.

\* An attached item without a textual test_id is passed over.
attached_ids(agent) ==
  Kept(agent.attached, {i \in DOMAIN agent.attached : agent.attached[i] # Unhashable})

\* A mistake: the tools in the order of tools.json.
tool_links_as_filed(ids) == [i \in DOMAIN ids |-> ids[i].id]

tool_links(ids) == InOrder(ids, Routes)

test_links(ids) == InOrder(ids, [i \in DOMAIN Manifest |-> Manifest[i].stem])

agent_failures(agent) ==
  Unless(agent.tool_ids = Some(tool_links(tool_ids)), "agent", "tool_ids")
    \cup Unless(attached_ids(agent) = test_links(test_ids), "agent", "attached_tests")

-----------------------------------------------------------------------------
DoctorInit ==
  /\ project \in Projects
  /\ place = "preflight"
  /\ position = 1
  /\ tool_ids = << >>
  /\ test_ids = << >>
  /\ failures = {}
  /\ exit = None

Found(more) == failures' = failures \cup more

\* What Store.from_fixture_file raises on the file of the project.
fixtures_fault(file) == fixture_fault(file, OnFile)

\* A VIN that is no text: what the loading raises is not among what is caught.
FixturesRaise ==
  /\ place = "preflight"
  /\ fixtures_fault(project.fixtures) = Some("AttributeError")
  /\ place' = "raised" /\ exit' = Some(1)
  /\ UNCHANGED <<project, position, tool_ids, test_ids, failures>>

\* The fixtures and the contracts are read, then the agent and both registries.
ReadProject ==
  /\ place = "preflight"
  /\ fixtures_fault(project.fixtures) # Some("AttributeError")
  /\ place' = "tools"
  /\ Found(Unless(fixtures_fault(project.fixtures) = None, "fixtures", "invalid")
             \cup Unless(project.contracts, "contracts", "invalid")
             \cup Unless(project.agent # None, "agent", "unreadable file")
             \cup registry_failures(project.tools, "tools.json")
             \cup registry_failures(project.tests, "tests.json"))
  /\ UNCHANGED <<project, position, tool_ids, test_ids, exit>>

CheckTool ==
  /\ place = "tools" /\ position <= Len(entries(project.tools))
  /\ LET entry == entries(project.tools)[position]
         refusal == tool_refusal(entry, tool_ids)
         type == Unless(entry.type = "client", "tools.json", "must be client")
     IN IF refusal # None
          THEN /\ Found(type \cup Unless(FALSE, "tools.json", refusal[1]))
               /\ UNCHANGED tool_ids
          ELSE LET file == project.tool_files[entry.config][1] IN
               /\ tool_ids' = Append(tool_ids, [key |-> file.name, id |-> entry.id])
               /\ Found(type
                          \cup Unless(entry.config = file.name, entry.config, "not the stem")
                          \cup client_tool_failures(file, entry.config))
  /\ position' = position + 1
  /\ UNCHANGED <<project, place, test_ids, exit>>

MissingTools ==
  /\ place = "tools" /\ position > Len(entries(project.tools))
  /\ Found({[at |-> "tools.json", what |-> slug] :
              slug \in {s \in Slugs : ~ Registered(tool_ids, s)}})
  /\ place' = "tests"
  /\ position' = 1
  /\ UNCHANGED <<project, tool_ids, test_ids, exit>>

\* The entry is registered before its file is read.
CheckTest ==
  /\ place = "tests" /\ position <= Len(entries(project.tests))
  /\ LET entry == entries(project.tests)[position]
         stem == entry.config
         refusal == test_refusal(entry, test_ids)
         type == IF stem \in TestPaths \cap Stems
                   THEN Unless(entry.type = expected_kind(stem), "tests.json", "type")
                   ELSE {}
     IN IF refusal # None
          THEN /\ Found(type \cup Unless(FALSE, "tests.json", refusal[1]))
               /\ UNCHANGED <<place, test_ids, exit>>
          ELSE /\ test_ids' = Append(test_ids, [key |-> stem, id |-> entry.id])
               /\ IF project.test_files[stem] = None
                    THEN /\ Found(type \cup Unless(FALSE, stem, "unreadable file"))
                         /\ UNCHANGED <<place, exit>>
                  ELSE LET file == project.test_files[stem][1] IN
                    IF raises(file, stem)
                      THEN place' = "raised" /\ exit' = Some(1) /\ UNCHANGED failures
                      ELSE /\ Found(type \cup test_failures(file, stem))
                           /\ UNCHANGED <<place, exit>>
  /\ position' = position + 1
  /\ UNCHANGED <<project, tool_ids>>

MissingTests ==
  /\ place = "tests" /\ position > Len(entries(project.tests))
  /\ Found({[at |-> "tests.json", what |-> stem] :
              stem \in {s \in Stems : ~ Registered(test_ids, s)}})
  /\ place' = "links"
  /\ UNCHANGED <<project, position, tool_ids, test_ids, exit>>

LinkAgent ==
  /\ place = "links"
  /\ Found(IF project.agent = None THEN {} ELSE agent_failures(project.agent[1]))
  /\ place' = "reporting"
  /\ UNCHANGED <<project, position, tool_ids, test_ids, exit>>

Report ==
  /\ place = "reporting"
  /\ exit' = Some(IF failures = {} THEN 0 ELSE 1)
  /\ place' = "reported"
  /\ UNCHANGED <<project, position, tool_ids, test_ids, failures>>

DoctorNext ==
  \/ FixturesRaise \/ ReadProject \/ CheckTool \/ MissingTools \/ CheckTest \/ MissingTests
  \/ LinkAgent \/ Report

DoctorSpec == DoctorInit /\ [][DoctorNext]_doctorVars

-----------------------------------------------------------------------------
\* What a consistent project is, without an order of checking.

\* Entry i of tools.json provides a tool: it and its file fit the tool's route.
Provides(i, slug) ==
  LET entry == project.tools[1][i] IN
    /\ entry.object /\ entry.type = "client"
    /\ entry.id \in ToolIds
    /\ entry.config = slug
    /\ \E file \in Range(project.tool_files[slug]) :
         /\ file.name = slug
         /\ file.client_behavior
         /\ file.required = Parameters[slug]
         /\ DOMAIN file.properties = Parameters[slug]
         /\ \A n \in Parameters[slug] : file.properties[n] = "described"

ToolsProvided ==
  /\ project.tools # None
  /\ Len(project.tools[1]) = Len(Routes)
  /\ \A slug \in Slugs : \E i \in DOMAIN project.tools[1] : Provides(i, slug)

ToolId(slug) ==
  project.tools[1][CHOOSE i \in DOMAIN project.tools[1] : Provides(i, slug)].id

\* A mock of a tool could have been answered by the route of that tool.
Plausible(mock, slug) ==
  /\ mock.result \in Results[slug]
  /\ \A c \in mock.conditions : c.path \in Parameters[slug] /\ c.eval = "valid"

TimesIncrease(history) ==
  \A i, j \in DOMAIN history : i < j => history[i].tenths < history[j].tenths

\* A recorded history is a call in order, of tools there are.
Playable(history) ==
  /\ history # << >>
  /\ \A turn \in Range(history) :
       /\ turn.object /\ turn.message
       /\ turn.role \in {"agent", "user"}
       /\ turn.number /\ ~ turn.infinite
       /\ turn.tools \subseteq Slugs
  /\ history[1].tenths >= 0
  /\ TimesIncrease(history)

RunsTest(i, m) ==
  LET entry == project.tests[1][i] IN
    /\ entry.object /\ entry.type = m.kind
    /\ entry.id \in TestIds
    /\ entry.config = m.stem
    /\ \E file \in Range(project.test_files[m.stem]) :
         /\ file.type = m.kind /\ file.named /\ ~ file.sentinel
         /\ m.kind = "simulation" =>
              /\ file.scenario
              /\ DOMAIN file.overrides # {}
              /\ \A id \in DOMAIN file.overrides :
                   \E slug \in Slugs :
                     /\ ToolId(slug) = id
                     /\ file.overrides[id] # << >>
                     /\ \A mock \in Range(file.overrides[id]) : Plausible(mock, slug)
         /\ m.kind = "tool" =>
              /\ Playable(file.history)
              /\ file.verify_absence
              /\ file.referenced = ToolId(CommitTool)

TestsRun ==
  /\ project.tests # None
  /\ Len(project.tests[1]) = Len(Manifest)
  /\ \A m \in Range(Manifest) : \E i \in DOMAIN project.tests[1] : RunsTest(i, m)

TestId(m) == project.tests[1][CHOOSE i \in DOMAIN project.tests[1] : RunsTest(i, m)].id

AgentLinked ==
  /\ project.agent # None
  /\ project.agent[1].tool_ids = Some([i \in DOMAIN Routes |-> ToolId(Routes[i])])
  /\ attached_ids(project.agent[1]) = [i \in DOMAIN Manifest |-> TestId(Manifest[i])]

\* Policy p is listed once, with vehicles that can be and each of them once, in
\* whatever case its VIN is spelled.
ListedOnce(list, p) ==
  \E i \in DOMAIN list :
    /\ \A j \in DOMAIN list : list[j].policy_number = p <=> j = i
    /\ \A m, n \in DOMAIN list[i].vehicles :
         Upper[list[i].vehicles[m].vin] = Upper[list[i].vehicles[n].vin] => m = n

Loadable(raw) ==
  /\ raw.keyed /\ raw.policy_number \in OnFile /\ raw.status \in {"active", "cancelled"}
  /\ \A item \in Range(raw.vehicles) :
       /\ item.vin \in RawVins /\ Upper[item.vin] \in VinShaped
       /\ item.effective_date \in DateShaped \cap DOMAIN CalendarDay

FixtureLoads ==
  /\ project.fixtures # None
  /\ \A raw \in Range(project.fixtures[1]) : Loadable(raw)
  /\ \A p \in OnFile : \E raw \in Range(project.fixtures[1]) : raw.policy_number = p

Consistent ==
  /\ FixtureLoads /\ project.contracts
  /\ ToolsProvided /\ TestsRun /\ AgentLinked

-----------------------------------------------------------------------------
\* Properties.

\* What is registered has a proper id, each key once, whatever was refused before.
DoctorTypeOK ==
  /\ place \in {"preflight", "tools", "tests", "links", "reporting", "reported", "raised"}
  /\ Readable(project) /\ position \in Nat \ {0}
  /\ tool_ids \in Seq([key : Slugs, id : ToolIds])
  /\ test_ids \in Seq([key : Stems, id : TestIds])
  /\ \A ids \in {tool_ids, test_ids} :
       \A i, j \in DOMAIN ids : ids[i].key = ids[j].key => i = j
  /\ exit \in {None, Some(0), Some(1)}
  /\ exit = None <=> place \notin {"reported", "raised"}

InWholeSeconds ==
  \A stem \in TestPaths : \A file \in Range(project.test_files[stem]) :
    \A turn \in Range(file.history) : turn.tenths % 10 = 0

\* A project that doctor passes is consistent: no early refusal of an entry, no
\* duplicate and no missing key lets one slip, as long as times are whole
\* seconds (project_validation.py; the test test_checked_in_project_is_consistent
\* takes an empty list of failures for consistency).
PassedIsConsistent == exit = Some(0) /\ InWholeSeconds => Consistent

\* A consistent project is passed, in whatever order its registries list their
\* entries, as long as no two tools have one id (doctor.py, run_doctor).
ConsistentIsPassed ==
  exit # None /\ Consistent /\ IsInjective([slug \in Slugs |-> ToolId(slug)]) => exit = Some(0)

\* With fixtures that doctor passes the servicing API opens in a state its own
\* properties need (the assumption on Fixture of Servicing): every policy under its
\* number, folded VINs, no car twice on a policy, as long as the file lists each
\* policy once and each of its cars once (store.py, from_fixture_file, which looks
\* at neither).
PassedFixtureServes ==
  exit = Some(0) /\ (\A p \in OnFile : ListedOnce(project.fixtures[1], p)) =>
    LET fixture == loaded(project.fixtures[1]) IN
      /\ DOMAIN fixture = OnFile
      /\ \A p \in OnFile :
           /\ fixture[p].policy_number = p /\ fixture[p].status \in PolicyStatus
           /\ Range(fixture[p].vehicles) \subseteq Vehicle
           /\ \A i, j \in DOMAIN fixture[p].vehicles :
                fixture[p].vehicles[i].vin = fixture[p].vehicles[j].vin => i = j

\* Two parts of the inductive invariant: how far the loops have come, and that as
\* long as there is no failure every entry that was passed is registered, in its
\* place in the registry, and is good.
LoopsInOrder ==
  /\ place = "preflight" => position = 1 /\ tool_ids = << >> /\ failures = {}
  /\ place \in {"preflight", "tools"} => test_ids = << >>
  /\ place = "tools" => position <= Len(entries(project.tools)) + 1
  /\ place = "tests" => position <= Len(entries(project.tests)) + 1
  /\ place = "reported" => exit = Some(IF failures = {} THEN 0 ELSE 1)
  /\ place = "raised" => exit = Some(1)

GoodSoFar ==
  failures = {} /\ place \notin {"preflight", "raised"} =>
    /\ fixtures_fault(project.fixtures) = None
    /\ project.contracts /\ project.agent # None
    /\ \A registry \in {project.tools, project.tests} :
         registry # None /\ \A entry \in Range(registry[1]) : entry.object
    /\ Len(tool_ids) = IF place = "tools" THEN position - 1 ELSE Len(project.tools[1])
    /\ \A i \in DOMAIN tool_ids :
         Provides(i, tool_ids[i].key) /\ tool_ids[i].id = project.tools[1][i].id
    /\ place # "tools" => \A slug \in Slugs : Registered(tool_ids, slug)
    /\ place # "tools" =>
         Len(test_ids) = IF place = "tests" THEN position - 1 ELSE Len(project.tests[1])
    /\ \A i \in DOMAIN test_ids :
         /\ test_ids[i].id = project.tests[1][i].id
         /\ test_ids[i].key = project.tests[1][i].config
         /\ InWholeSeconds => \A m \in Range(Manifest) : m.stem = test_ids[i].key => RunsTest(i, m)
    /\ place \in {"links", "reporting", "reported"} =>
         \A stem \in Stems : Registered(test_ids, stem)
    /\ place \in {"reporting", "reported"} => agent_failures(project.agent[1]) = {}

\* A consistent project gives no failure at any moment.
CleanSoFar ==
  Consistent /\ IsInjective([slug \in Slugs |-> ToolId(slug)]) =>
    failures = {} /\ place # "raised"

\* The inductive invariant of doctor.
DoctorInv == DoctorTypeOK /\ LoopsInOrder /\ GoodSoFar /\ CleanSoFar

\* The message of project_validation.py on times: "must increase".
PassedTimesIncrease ==
  exit = Some(0) =>
    \A m \in Range(Manifest) :
      m.kind = "tool" =>
        \A file \in Range(project.test_files[m.stem]) : TimesIncrease(file.history)

\* The message of project_validation.py on the agent's tools: "must match
\* tools.json order".
PassedFollowsRegistry ==
  exit = Some(0) =>
    project.agent[1].tool_ids = Some([i \in DOMAIN project.tools[1] |-> project.tools[1][i].id])
=============================================================================
