------------------------- MODULE MCProjectValidation -------------------------
(***************************************************************************)
(* Small instances of ProjectValidation for TLC: a consistent project, and   *)
(* every project that differs from it in one part or in two.                *)
(***************************************************************************)
EXTENDS ProjectValidation, TLC

MCRoutes == <<"lookup", "propose", "commit">>

MCParameters ==
  [slug \in {"lookup", "propose", "commit"} |->
     CASE slug = "lookup" -> {"policy_number"}
       [] slug = "propose" -> {"policy_number", "vin"}
       [] slug = "commit" -> {"proposal_id"}]

MCResults ==
  [slug \in {"lookup", "propose", "commit"} |->
     CASE slug = "lookup" -> {"policy_found", "rejected"}
       [] slug = "propose" -> {"confirmation_ready", "rejected"}
       [] slug = "commit" -> {"applied", "rejected"}]

MCManifest ==
  <<[stem |-> "happy", kind |-> "simulation"], [stem |-> "declines", kind |-> "tool"]>>

\* The words of fixture files: a VIN in two spellings and another, a VIN with an O,
\* and two dates of which one is in another shape.  "7" below is no text.
MCOnFile == {"POL-1001", "POL-2002"}
MCRawVins == {"HONDA", "honda", "FORD", "H0NDO"}
MCUpper == [v \in MCRawVins |-> IF v = "honda" THEN "HONDA" ELSE v]
MCRawDates == {"2026-09-17", "2026/09/17"}
MCCalendarDay == "2026-09-17" :> 17
MCNewYorkDay == 0 :> 17

-----------------------------------------------------------------------------
ToolEntry(slug, id) == [object |-> TRUE, type |-> "client", id |-> id, config |-> slug]

ToolFile(slug) ==
  [name |-> slug, client_behavior |-> TRUE, required |-> MCParameters[slug],
   properties |-> [n \in MCParameters[slug] |-> "described"]]

TestEntry(m, id) == [object |-> TRUE, type |-> m.kind, id |-> id, config |-> m.stem]

TestFile ==
  [type |-> "simulation", named |-> TRUE, sentinel |-> FALSE, scenario |-> FALSE,
   overrides |-> << >>, history |-> << >>, verify_absence |-> FALSE, referenced |-> "none"]

Mock == [result |-> "rejected", conditions |-> {[path |-> "policy_number", eval |-> "valid"]}]

Turn(role, tenths) ==
  [object |-> TRUE, role |-> role, message |-> TRUE, number |-> TRUE, infinite |-> FALSE,
   tenths |-> tenths, tools |-> {"lookup"}]

Simulation == [TestFile EXCEPT !.scenario = TRUE, !.overrides = "tool_1" :> <<Mock>>]

ToolTest ==
  [TestFile EXCEPT !.type = "tool", !.verify_absence = TRUE, !.referenced = "tool_3",
                   !.history = <<Turn("agent", 0), Turn("user", 20)>>]

OnPolicy(p, vins) ==
  [keyed |-> TRUE, policy_number |-> p, status |-> "active",
   vehicles |-> [i \in DOMAIN vins |-> [vin |-> vins[i], effective_date |-> "2026-09-17"]]]

FixtureList == <<OnPolicy("POL-1001", << >>), OnPolicy("POL-2002", <<"honda", "FORD">>)>>

Good ==
  [fixtures |-> Some(FixtureList), contracts |-> TRUE,
   agent |-> Some([tool_ids |-> Some(<<"tool_1", "tool_2", "tool_3">>),
                   attached |-> <<"test_1", "test_2">>]),
   tools |-> Some(<<ToolEntry("lookup", "tool_1"), ToolEntry("propose", "tool_2"),
                    ToolEntry("commit", "tool_3")>>),
   tests |-> Some(<<TestEntry(MCManifest[1], "test_1"), TestEntry(MCManifest[2], "test_2")>>),
   tool_files |-> [stem \in ToolPaths |->
                     IF stem \in Range(MCRoutes) THEN Some(ToolFile(stem)) ELSE None],
   test_files |-> ("happy" :> Some(Simulation)) @@ ("declines" :> Some(ToolTest))
                    @@ ("unlisted" :> None)]

-----------------------------------------------------------------------------
\* What one part of a project may be instead.

Swapped(s, i, j) == [s EXCEPT ![i] = s[j], ![j] = s[i]]

Dropped(s) == SubSeq(s, 1, Len(s) - 1)

Entries(s, other) ==
  IF Len(s) < 2 THEN {} ELSE
  {Dropped(s), Swapped(s, 1, 2), Append(s, s[1]), Append(s, other)}
    \cup {[s EXCEPT ![i].object = FALSE] : i \in {1}}
    \cup {[s EXCEPT ![i].type = "other"] : i \in {1}}
    \cup {[s EXCEPT ![2].id = id] : id \in {"5", s[1].id}}
    \cup {[s EXCEPT ![2].config = c] : c \in {"../", "unlisted", s[1].config}}

ToolFiles(file) ==
  {[file EXCEPT !.name = n] : n \in {"propose", "none"}}
    \cup {[file EXCEPT !.client_behavior = FALSE],
          [file EXCEPT !.required = {}],
          [file EXCEPT !.properties = << >>],
          [file EXCEPT !.properties = [n \in DOMAIN file.properties |-> "bare"]]}

Mocks ==
  {[Mock EXCEPT !.result = r] : r \in {"policy_found", "applied"}}
    \cup {[Mock EXCEPT !.conditions = {[path |-> p, eval |-> e]}] :
            p \in {"proposal_id", Unhashable}, e \in {"valid"}}
    \cup {[Mock EXCEPT !.conditions = {}],
          [Mock EXCEPT !.conditions = {[path |-> "policy_number", eval |-> "invalid"]}]}

Simulations(file) ==
  {[file EXCEPT !.type = "tool"], [file EXCEPT !.named = FALSE],
   [file EXCEPT !.sentinel = TRUE], [file EXCEPT !.scenario = FALSE]}
    \cup {[file EXCEPT !.overrides = o] :
            o \in {<< >>, "tool_1" :> << >>, "tool_9" :> <<Mock>>, "tool_3" :> <<Mock>>}}
    \cup {[file EXCEPT !.overrides = "tool_1" :> <<Mock, m>>] : m \in Mocks}

Turns ==
  {Turn("agent", tenths) : tenths \in {-5, 0, 12, 19, 20, 30}}
    \cup {[Turn("agent", 30) EXCEPT !.object = FALSE],
          [Turn("agent", 30) EXCEPT !.number = FALSE],
          [Turn("agent", 30) EXCEPT !.infinite = TRUE],
          [Turn("agent", 30) EXCEPT !.message = FALSE],
          [Turn("agent", 30) EXCEPT !.tools = {"none"}],
          [Turn("agent", 30) EXCEPT !.role = Unhashable]}

ToolTests(file) ==
  {[file EXCEPT !.verify_absence = FALSE], [file EXCEPT !.history = << >>],
   [file EXCEPT !.referenced = "tool_2"]}
    \cup {[file EXCEPT !.history = Append(@, t)] : t \in Turns}
    \cup {[file EXCEPT !.history = <<@[1], Turn("user", 29), Turn("agent", t)>>] : t \in {22, 31}}
    \cup {[file EXCEPT !.history[1] = Turn("agent", t)] : t \in {-5, 19}}

\* Other fixture files: none; a policy too few, too many or listed twice; an entry
\* or a vehicle that is wrong, and two of them, of which the first decides.
FixtureFiles ==
  LET dated(text) == [OnPolicy("POL-1001", <<"FORD">>) EXCEPT !.vehicles[1].effective_date = text]
      lists == {<<FixtureList[1]>>, Swapped(FixtureList, 1, 2)}
        \cup {Append(FixtureList, OnPolicy(p, <<"FORD">>)) : p \in {"POL-9999", "POL-1001"}}
        \cup {[FixtureList EXCEPT ![1] = raw] :
                raw \in {[FixtureList[1] EXCEPT !.keyed = FALSE],
                         [OnPolicy("POL-1001", <<"7">>) EXCEPT !.keyed = FALSE],
                         [FixtureList[1] EXCEPT !.status = "lapsed"],
                         dated("2026/09/17"), dated("7")}
                  \cup {OnPolicy("POL-1001", vins) :
                          vins \in {<<"H0NDO">>, <<"7">>, <<"HONDA", "honda">>,
                                    <<"H0NDO", "7">>, <<"7", "H0NDO">>}}}
  IN {None} \cup {Some(list) : list \in lists}

\* The projects that differ from p in one part at most.
Varied(p) ==
  {p, [p EXCEPT !.contracts = FALSE],
   [p EXCEPT !.agent = None], [p EXCEPT !.tools = None], [p EXCEPT !.tests = None],
   [p EXCEPT !.tool_files["lookup"] = None], [p EXCEPT !.test_files["declines"] = None]}
    \cup (IF p.tools = None THEN {} ELSE
            {[p EXCEPT !.tools = Some(s)] :
               s \in Entries(p.tools[1], ToolEntry("unlisted", "tool_4"))})
    \cup (IF p.tests = None THEN {} ELSE
            {[p EXCEPT !.tests = Some(s)] :
               s \in Entries(p.tests[1],
                             [TestEntry(MCManifest[1], "test_1") EXCEPT !.config = "unlisted"])})
    \cup (IF p.agent = None THEN {} ELSE
            {[p EXCEPT !.agent[1].tool_ids = ids] :
               ids \in {None, Some(<<"tool_2", "tool_1", "tool_3">>),
                        Some(<<"tool_1", "tool_1", "tool_3">>)}}
            \cup {[p EXCEPT !.agent[1].attached = ids] :
                    ids \in {<<"test_2", "test_1">>, <<"test_1", Unhashable, "test_2">>,
                             <<"test_1", "test_1">>}})
    \cup {[p EXCEPT !.tool_files["lookup"] = Some(f)] : f \in ToolFiles(ToolFile("lookup"))}
    \cup {[p EXCEPT !.test_files["happy"] = Some(f)] : f \in Simulations(Simulation)}
    \cup {[p EXCEPT !.test_files["declines"] = Some(f)] : f \in ToolTests(ToolTest)}
    \cup {[p EXCEPT !.fixtures = file] : file \in FixtureFiles}

MCProjects == UNION {Varied(p) : p \in Varied(Good)}
=============================================================================
