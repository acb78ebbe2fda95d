------------------------------- MODULE ApiSuite -------------------------------
(***************************************************************************)
(* The command "verify api suite" (verify/api_suite.py): one client that    *)
(* runs a fixed list of cases against a server of its own, over a store and *)
(* a clock that it also reads and moves itself, without the store's lock    *)
(* but for one transaction.  The server's threads run Servicing.  A run     *)
(* leaves two files, and --promote copies those of a passed run over the    *)
(* tracked example.  Runs follow each other; each may be cut short anywhere *)
(* and the repository may change under it.                                  *)
(***************************************************************************)
EXTENDS Servicing, FiniteSets

CONSTANTS
  MaxRuns,    \* a bound on the runs
  MaxVersion  \* a bound on the versions of the sources, each an edit of the one before

ASSUME SuiteAssumption == MaxRuns \in Nat /\ MaxVersion \in Nat \ {0}

VARIABLES
  place,      \* where the main thread is
  at,         \* the step of the script it is at
  wire,       \* "sent" while its request waits for a thread of the server
  recorder,   \* Recorder: how many verdicts and exchanges, and failed
  before,     \* the snapshot that a later one is compared with
  run,        \* this run: its number, --promote, its code, and what befell it
  commit_id,  \* git_commit's answer, as an optional value
  disk,       \* this run's summary.json and http-exchanges.json
  example,    \* the two files of artifacts/example-run/api-suite
  repo,       \* the sources in the working tree and in HEAD; tracked evidence changed
  exit        \* the exit status, as an optional value; 1 for every failure

suiteVars == <<place, at, wire, recorder, before, run, commit_id, disk, example, repo, exit>>
allSuiteVars == <<vars, suiteVars>>
fileVars == <<commit_id, disk, example, repo>>

-----------------------------------------------------------------------------
\* The script: what _run_cases does, in order.

CONTRACT_VIN == "1HGCM82633A004352"
SECOND_VIN == "2HGCM82633A004352"
FIRST_PROPOSAL_ID == "vap_B"
CONTRACT_PROPOSAL_ID == "vap_C"
POL3003_PROPOSAL_ID == "vap_D"
STATUS_RECHECK_ID == "vap_E"

\* ScriptedIds: the ids in the order they are given.
scripted_ids ==
  <<FIRST_PROPOSAL_ID, CONTRACT_PROPOSAL_ID, POL3003_PROPOSAL_ID, STATUS_RECHECK_ID>>

\* MutableClock: FIXED_INSTANT, on September 17, and the same hour a day later.
FIXED_INSTANT == 0
advance_days(instant) == instant + 1

Get(p) == [op |-> "lookup", policy_number |-> p]
Post(p, vin, date) ==
  [op |-> "propose", policy_number |-> p, vin_raw |-> vin, date_raw |-> date]
Commit(id) == [op |-> "commit", proposal_id |-> id]

\* The answers the suite spells out; those of contracts/ are among them.
Found(p, vehicles, day) ==
  [kind |-> "policy_found", policy_number |-> p, vehicles |-> vehicles,
   earliest_effective_date |-> day]
Ready(id, p, vin, day) ==
  [kind |-> "confirmation_ready", proposal_id |-> id,
   change |-> [policy_number |-> p, vin |-> vin, effective_date |-> day],
   readback |-> [vin_spoken |-> vin, policy_spoken |-> p, spoken_date |-> day]]
No(code, recovery) ==
  [kind |-> "rejected", code |-> code, recovery |-> recovery, api_date |-> << >>]
NoPast(day) ==
  [kind |-> "rejected", code |-> "effective_date_in_past",
   recovery |-> "ask_caller_again", api_date |-> <<day>>]
contract_vehicle == [vin |-> CONTRACT_VIN, effective_date |-> 18]
contract_applied ==
  [kind |-> "applied", proposal_id |-> CONTRACT_PROPOSAL_ID,
   confirmation_number |-> "CHG-2026-0917-0031",
   change |-> [policy_number |-> "POL-1001", vin |-> CONTRACT_VIN, effective_date |-> 18],
   applied_at |-> FIXED_INSTANT]

\* One step of the script: a verdict on files or schemas alone; a request that
\* the framework answers by itself; a call and the answer expected; what the suite
\* does to the store and the clock; a verdict on two snapshots or on one.
Judge == [does |-> "judge"]
Fetch(extra, status) == [does |-> "fetch", extra |-> extra, status |-> status]
Case(call, answer) == [does |-> "call", call |-> call, answer |-> answer]
Snapshot == [does |-> "snapshot"]
Unmoved(covers) == [does |-> "unmoved", covers |-> covers]
Covered(p, vehicles) == [does |-> "covered", policy |-> p, vehicles |-> vehicles]
AdvanceDay == [does |-> "advance"]
Cancel(p) == [does |-> "cancel", policy |-> p]

\* The four contracts and a fifth with a field too many; the health check; the
\* OpenAPI document and its three schemas.
opening ==
  <<Judge, Judge, Judge, Judge, Judge, Fetch(FALSE, 200), Fetch(FALSE, 200),
    Judge, Judge, Judge>>

unknown_and_invalid ==
  <<Case(Get("POL-9999"), No("policy_not_found", "ask_caller_again")),
    Case(Post("POL-9999", CONTRACT_VIN, "09-18"), No("policy_not_found", "ask_caller_again")),
    Case(Post("POL-1001", "spaced", "09-18"), No("invalid_vin", "ask_caller_again")),
    Case(Post("POL-1001", CONTRACT_VIN, "slashed"),
         No("invalid_effective_date", "ask_caller_again")),
    Case(Commit("vap_unknown"), No("proposal_not_found", "escalate"))>>

\* Propose, correct, confirm the corrected change, twice, and propose it again.
pol_1001 ==
  <<Case(Get("POL-1001"), Found("POL-1001", << >>, 17)),
    Snapshot, Fetch(TRUE, 422), Unmoved({}),
    Case(Post("POL-1001", CONTRACT_VIN, "09-19"),
         Ready(FIRST_PROPOSAL_ID, "POL-1001", CONTRACT_VIN, 19)),
    Case(Post("POL-1001", "1hgcm82633a004352", "09-18"),
         Ready(CONTRACT_PROPOSAL_ID, "POL-1001", CONTRACT_VIN, 18)),
    Fetch(TRUE, 422),
    Case(Commit(FIRST_PROPOSAL_ID), No("proposal_superseded", "escalate")),
    Case(Commit(CONTRACT_PROPOSAL_ID), contract_applied),
    Case(Commit(CONTRACT_PROPOSAL_ID), contract_applied),
    Case(Get("POL-1001"), Found("POL-1001", <<contract_vehicle>>, 17)),
    Case(Post("POL-1001", CONTRACT_VIN, "09-18"), No("vehicle_already_on_policy", "escalate"))>>

pol_2002 ==
  <<Snapshot,
    Case(Get("POL-2002"), No("policy_cancelled", "escalate")),
    Case(Post("POL-2002", CONTRACT_VIN, "09-18"), No("policy_cancelled", "escalate")),
    Unmoved({"POL-2002"})>>

\* A day passes between the readback and the yes.
pol_3003 ==
  <<Case(Post("POL-3003", CONTRACT_VIN, "09-16"), NoPast(17)),
    Case(Post("POL-3003", CONTRACT_VIN, "09-17"),
         Ready(POL3003_PROPOSAL_ID, "POL-3003", CONTRACT_VIN, 17)),
    AdvanceDay,
    Case(Commit(POL3003_PROPOSAL_ID), NoPast(18)),
    Case(Get("POL-3003"), Found("POL-3003", << >>, 18))>>

\* The policy is cancelled between the readback and the yes.
commit_recheck ==
  <<Case(Post("POL-1001", SECOND_VIN, "09-18"),
         Ready(STATUS_RECHECK_ID, "POL-1001", SECOND_VIN, 18)),
    Cancel("POL-1001"),
    Case(Commit(STATUS_RECHECK_ID), No("policy_cancelled", "escalate")),
    Covered("POL-1001", <<contract_vehicle>>)>>

script ==
  opening \o unknown_and_invalid \o pol_1001 \o pol_2002 \o pol_3003 \o commit_recheck

\* The fixture file, the texts of the script as parse_vin and parse_effective_date
\* take them, the two days, and what the two id sources of ScriptedIds hold.
ASSUME ScriptAssumption ==
  /\ OnFile = {"POL-1001", "POL-2002", "POL-3003"} /\ "POL-9999" \in PolicyNumbers
  /\ \A p \in OnFile :
       Fixture[p] = [policy_number |-> p, vehicles |-> << >>,
                     status |-> IF p = "POL-2002" THEN "cancelled" ELSE "active"]
  /\ {CONTRACT_VIN, SECOND_VIN} \subseteq VinShaped
  /\ {"1hgcm82633a004352", "spaced"} \subseteq RawVins
  /\ Upper["1hgcm82633a004352"] = CONTRACT_VIN /\ Upper["spaced"] \notin VinShaped
  /\ {"09-16", "09-17", "09-18", "09-19"} \subseteq DateShaped \cap DOMAIN CalendarDay
  /\ CalendarDay["09-16"] = 16 /\ CalendarDay["09-17"] = 17
  /\ CalendarDay["09-18"] = 18 /\ CalendarDay["09-19"] = 19
  /\ "slashed" \in RawDates \ DateShaped
  /\ {FIXED_INSTANT, advance_days(FIXED_INSTANT)} \subseteq Instants
  /\ NewYorkDay[FIXED_INSTANT] = 17 /\ NewYorkDay[advance_days(FIXED_INSTANT)] = 18
  /\ {"vap_B", "vap_C", "vap_D", "vap_E", "vap_unknown"} \subseteq ProposalIds
  /\ ConfirmationNumbers = {"CHG-2026-0917-0031"}

\* What the summary of a whole run counts.
Exchanging == {i \in DOMAIN script : script[i].does \in {"fetch", "call"}}
Judging ==
  {i \in DOMAIN script : script[i].does \notin {"snapshot", "advance", "cancel"}}

-----------------------------------------------------------------------------
SuiteInit ==
  /\ Init /\ now = FIXED_INSTANT
  /\ place = "idle" /\ at = 1 /\ wire = "none"
  /\ recorder = [cases |-> 0, exchanges |-> 0, failed |-> FALSE]
  /\ before = [ids |-> {}, cover |-> [p \in OnFile |-> << >>]]
  /\ run = [number |-> 0, promote |-> FALSE, code |-> 1,
            trouble |-> FALSE, outside |-> FALSE, untouched |-> TRUE]
  /\ commit_id = None
  /\ disk = [summary |-> None, exchanges |-> None]
  /\ example = [summary |-> None, exchanges |-> None]
  /\ repo \in [sources : 1 .. MaxVersion, head : {1}, evidence : {FALSE}]
  /\ exit = None

\* A file that a process was writing when it ended.
Torn == Some([torn |-> TRUE])

\* The command is started: a process with a store, a clock and a directory of its own.
StartRun ==
  /\ place \in {"idle", "exited"} /\ run.number < MaxRuns
  /\ policies' = Fixture /\ proposals' = [id \in ProposalIds |-> Absent]
  /\ now' = FIXED_INSTANT /\ lock' = Nobody /\ task' = [w \in Workers |-> Idle]
  /\ place' = "loading" /\ at' = 1 /\ wire' = "none"
  /\ recorder' = [cases |-> 0, exchanges |-> 0, failed |-> FALSE]
  /\ before' = [ids |-> {}, cover |-> [p \in OnFile |-> << >>]]
  /\ \E promote \in BOOLEAN :
       run' = [number |-> run.number + 1, promote |-> promote, code |-> repo.sources,
               trouble |-> FALSE, outside |-> FALSE, untouched |-> TRUE]
  /\ commit_id' = None
  /\ disk' = [summary |-> None, exchanges |-> None]
  /\ exit' = None
  /\ UNCHANGED <<example, repo>>

\* The main thread goes on.
GoTo(next) == place' = next /\ UNCHANGED <<wire, before, run, fileVars>>

Ends(status) == place' = "exited" /\ exit' = Some(status)

\* The fixture file is read outside the try: what it raises ends the process.
LoadFixture ==
  /\ place = "loading"
  /\ \/ GoTo("starting") /\ UNCHANGED exit
     \/ Ends(1) /\ UNCHANGED <<wire, before, run, fileVars>>
  /\ UNCHANGED <<vars, at, recorder>>

ServerStarted ==
  /\ place = "starting"
  /\ GoTo("running")
  /\ UNCHANGED <<vars, at, recorder, exit>>

\* One verdict more.
expect(actual, expected) ==
  recorder' = [recorder EXCEPT !.cases = @ + 1, !.failed = @ \/ actual # expected]

\* A mistake: what ended the cases is noted and the verdict left as it is.
Raises_noted(outside) ==
  /\ place' = "stopping"
  /\ recorder' = [recorder EXCEPT !.cases = @ + 1]
  /\ run' = [run EXCEPT !.trouble = TRUE, !.outside = outside]
  /\ UNCHANGED <<at, before, fileVars, exit>>

\* An exception ends the cases and becomes a failed verdict, server_lifecycle.  It
\* came from outside the servicing code, or is what that code made of a call.
Raises(outside) ==
  /\ place' = "stopping"
  /\ expect("an error", "started")
  /\ run' = [run EXCEPT !.trouble = TRUE, !.outside = outside]
  /\ UNCHANGED <<at, before, fileVars, exit>>

\* Five seconds pass, or the socket cannot be bound.
StartFails ==
  /\ place = "starting"
  /\ Raises(TRUE)
  /\ UNCHANGED <<vars, wire>>

Step(kind) == place = "running" /\ at \in DOMAIN script /\ script[at].does = kind

\* The main thread goes on to the next step of the script.
Next_step == at' = at + 1 /\ GoTo("running") /\ UNCHANGED exit

\* What snapshot shows the suite: it copies the two dictionaries without the lock.
snapshot ==
  [ids |-> {id \in ProposalIds : proposals[id] # Absent},
   cover |-> [p \in OnFile |-> policies[p].vehicles]]

JudgeAlone ==
  /\ Step("judge")
  /\ expect(TRUE, TRUE)
  /\ Next_step
  /\ UNCHANGED vars

\* A contract file is missing or not what the adapter takes.
ContractFails ==
  /\ Step("judge") /\ at <= 5
  /\ Raises(TRUE)
  /\ UNCHANGED <<vars, wire>>

TakeSnapshot ==
  /\ Step("snapshot")
  /\ before' = snapshot
  /\ at' = at + 1
  /\ UNCHANGED <<vars, place, wire, recorder, run, fileVars, exit>>

JudgeSnapshot ==
  /\ \/ /\ Step("unmoved")
        /\ LET view(s) == [ids |-> s.ids, cover |-> [p \in script[at].covers |-> s.cover[p]]]
           IN expect(view(snapshot), view(before))
     \/ /\ Step("covered")
        /\ expect(snapshot.cover[script[at].policy], script[at].vehicles)
  /\ Next_step
  /\ UNCHANGED vars

MoveClock ==
  /\ Step("advance")
  /\ now' = advance_days(now)
  /\ Next_step
  /\ UNCHANGED <<store, lock, task, recorder>>

CancelPolicy ==
  /\ Step("cancel")
  /\ ReplaceStatus(script[at].policy, "cancelled")
  /\ Next_step
  /\ UNCHANGED recorder

-----------------------------------------------------------------------------
\* Requests.

\* Recorder.call sends, and waits five seconds.
Send ==
  /\ Step("fetch") \/ Step("call")
  /\ place' = "waiting" /\ wire' = "sent"
  /\ UNCHANGED <<vars, at, recorder, before, run, fileVars, exit>>

\* A mistake: a body with fields too many is taken.
framework_status_lenient(fetch) == 200

\* What FastAPI answers before any call runs.
framework_status(fetch) == IF fetch.extra THEN 422 ELSE 200

\* The exchange is recorded and judged; the suite goes on.
Record(actual, expected) ==
  /\ recorder' = [cases |-> recorder.cases + 1, exchanges |-> recorder.exchanges + 1,
                  failed |-> recorder.failed \/ actual # expected]
  /\ place' = "running" /\ at' = at + 1
  /\ UNCHANGED <<before, run, fileVars, exit>>

AnswerFetch ==
  /\ wire = "sent" /\ script[at].does = "fetch"
  /\ wire' = "none"
  /\ IF place = "waiting"
       THEN Record(framework_status(script[at]), script[at].status)
       ELSE UNCHANGED <<place, at, recorder, before, run, fileVars, exit>>
  /\ UNCHANGED vars

\* A thread takes the call, which may be after the suite gave it up.
TakeCall(w) ==
  /\ wire = "sent" /\ script[at].does = "call"
  /\ Receive(w, script[at].call)
  /\ wire' = "none"
  /\ UNCHANGED <<place, at, recorder, before, run, fileVars, exit>>

\* The answer: a body that is not JSON, as that of status 500, raises.
AnswerCall(w) ==
  /\ Respond(w)
  /\ IF place # "waiting" THEN UNCHANGED <<place, at, recorder, before, run, fileVars, exit>>
     ELSE IF task[w].result = ServerError THEN Raises(FALSE)
     ELSE Record(task[w].result, script[at].answer)
  /\ UNCHANGED wire

\* A mistake: the client waits as long as it takes.
TimeOut_never == FALSE /\ UNCHANGED allSuiteVars

\* A mistake: the case fails and the next one is tried.
TimeOut_goes_on ==
  /\ place = "waiting"
  /\ place' = "running" /\ at' = at + 1
  /\ expect("an error", "started")
  /\ run' = [run EXCEPT !.trouble = TRUE, !.outside = TRUE]
  /\ UNCHANGED <<vars, wire, before, fileVars, exit>>

\* Five seconds without a byte, or the connection breaks.
TimeOut ==
  /\ place = "waiting"
  /\ Raises(TRUE)
  /\ UNCHANGED <<vars, wire>>

\* ScriptedIds gives the ids in their order.  The script makes as many proposals as
\* there are ids; a fifth would find the list empty, which raises (ProposeRaised).
InOrder ==
  \A id \in ProposalIds :
    proposals[id] = Absent /\ proposals'[id] # Absent =>
      \E n \in DOMAIN scripted_ids :
        /\ scripted_ids[n] = id
        /\ \A earlier \in 1 .. n - 1 : proposals[scripted_ids[earlier]] # Absent

ServerRuns(w) == Run(w) /\ InOrder /\ UNCHANGED suiteVars

-----------------------------------------------------------------------------
\* After the cases.

\* A mistake: that the server started is a verdict of every run.
CasesDone_noted ==
  /\ place = "running" /\ at > Len(script)
  /\ expect("started", "started")
  /\ GoTo("stopping")
  /\ UNCHANGED <<vars, at, exit>>

CasesDone ==
  /\ place = "running" /\ at > Len(script)
  /\ GoTo("stopping")
  /\ UNCHANGED <<vars, at, recorder, exit>>

\* finally: the server is asked to exit, and joined for five seconds at most.
StopServer ==
  /\ place = "stopping"
  /\ GoTo("asking_status")
  /\ UNCHANGED <<vars, at, recorder, exit>>

Clean == repo.sources = repo.head /\ ~ repo.evidence

\* A mistake: HEAD is named whatever the working tree holds.
GitStatus_ignored ==
  /\ place = "asking_status"
  /\ GoTo("asking_head")
  /\ UNCHANGED <<vars, at, recorder, exit>>

\* git status: a working tree that differs from HEAD has no commit to name.
GitStatus ==
  /\ place = "asking_status"
  /\ \/ Clean /\ GoTo("asking_head")
     \/ GoTo("summarising")  \* not clean, or git is missing or fails
  /\ UNCHANGED <<vars, at, recorder, exit>>

\* git rev-parse HEAD, a process of its own.
GitHead ==
  /\ place = "asking_head"
  /\ place' = "summarising"
  /\ commit_id' \in {None, Some(repo.head)}
  /\ UNCHANGED <<vars, at, wire, recorder, before, run, disk, example, repo, exit>>

summary ==
  [run |-> run.number, passed |-> ~ recorder.failed, cases |-> recorder.cases,
   exchange_count |-> recorder.exchanges, git_commit |-> commit_id]

exchanges == [run |-> run.number, exchange_count |-> recorder.exchanges]

WriteSummary ==
  /\ place = "summarising"
  /\ place' = "writing"
  /\ disk' = [disk EXCEPT !.summary = Some(summary)]
  /\ UNCHANGED <<vars, at, wire, recorder, before, run, commit_id, example, repo, exit>>

WriteExchanges ==
  /\ place = "writing"
  /\ place' = "judging"
  /\ disk' = [disk EXCEPT !.exchanges = Some(exchanges)]
  /\ UNCHANGED <<vars, at, wire, recorder, before, run, commit_id, example, repo, exit>>

\* A mistake: a failed run is promoted as well.
Judged_late ==
  /\ place = "judging"
  /\ \/ run.promote /\ place' = "promoting" /\ UNCHANGED exit
     \/ ~ run.promote /\ Ends(IF recorder.failed THEN 1 ELSE 0)
  /\ UNCHANGED <<vars, at, wire, recorder, before, run, fileVars>>

\* A failed run ends here; a passed one is promoted if it was asked for.
Judged ==
  /\ place = "judging"
  /\ \/ recorder.failed /\ Ends(1)
     \/ ~ recorder.failed /\ ~ run.promote /\ Ends(0)
     \/ ~ recorder.failed /\ run.promote /\ place' = "promoting" /\ UNCHANGED exit
  /\ UNCHANGED <<vars, at, wire, recorder, before, run, fileVars>>

CopySummary ==
  /\ place = "promoting"
  /\ place' = "promoting_exchanges"
  /\ example' = [example EXCEPT !.summary = disk.summary]
  /\ repo' = [repo EXCEPT !.evidence = TRUE]
  /\ UNCHANGED <<vars, at, wire, recorder, before, run, commit_id, disk, exit>>

CopyExchanges ==
  /\ place = "promoting_exchanges"
  /\ example' = [example EXCEPT !.exchanges = disk.exchanges]
  /\ Ends(0)
  /\ UNCHANGED <<vars, at, wire, recorder, before, run, commit_id, disk, repo>>

\* The process ends where it is: Ctrl+C, a kill, or a file that cannot be
\* written.  The file under its hands may be torn.
CutShort ==
  /\ place \notin {"idle", "exited"}
  /\ Ends(1)
  /\ disk' \in {disk,
       IF place = "summarising" THEN [disk EXCEPT !.summary = Torn]
       ELSE IF place = "writing" THEN [disk EXCEPT !.exchanges = Torn] ELSE disk}
  /\ example' \in {example,
       IF place = "promoting" THEN [example EXCEPT !.summary = Torn]
       ELSE IF place = "promoting_exchanges" THEN [example EXCEPT !.exchanges = Torn]
       ELSE example}
  /\ repo' = [repo EXCEPT !.evidence = @ \/ example' # example]
  /\ run' = [run EXCEPT !.trouble = TRUE, !.outside = TRUE]
  /\ UNCHANGED <<vars, at, wire, recorder, before, commit_id>>

\* Somebody edits the sources, or commits what is in the working tree.
EditOrCommit ==
  /\ \/ repo.sources < MaxVersion /\ repo' = [repo EXCEPT !.sources = @ + 1]
     \/ ~ Clean /\ repo' = [repo EXCEPT !.head = repo.sources, !.evidence = FALSE]
  /\ run' = [run EXCEPT !.untouched = FALSE]
  /\ UNCHANGED <<vars, place, at, wire, recorder, before, commit_id, disk, example, exit>>

-----------------------------------------------------------------------------
\* What the main thread does by itself, time-outs included.
Main ==
  \/ LoadFixture \/ ServerStarted \/ StartFails
  \/ JudgeAlone \/ ContractFails \/ TakeSnapshot \/ JudgeSnapshot \/ MoveClock
  \/ CancelPolicy \/ Send \/ TimeOut \/ CasesDone
  \/ StopServer \/ GitStatus \/ GitHead \/ WriteSummary \/ WriteExchanges
  \/ Judged \/ CopySummary \/ CopyExchanges

Server ==
  \/ AnswerFetch
  \/ \E w \in Workers : TakeCall(w) \/ ServerRuns(w) \/ AnswerCall(w)

\* The server's threads are those of the process.
SuiteNext ==
  \/ StartRun \/ Main \/ CutShort
  \/ place \notin {"idle", "exited"} /\ Server
  \/ EditOrCommit

\* The main thread moves; its waits have deadlines.  Nothing is assumed of the server.
SuiteSpec == SuiteInit /\ [][SuiteNext]_allSuiteVars /\ WF_allSuiteVars(Main)

-----------------------------------------------------------------------------
\* Properties.

\* Every variable has its type, and the counts are within those of a whole run.
SuiteTypeOK ==
  /\ place \in {"idle", "loading", "starting", "running", "waiting", "stopping",
                "asking_status", "asking_head", "summarising", "writing", "judging",
                "promoting", "promoting_exchanges", "exited"}
  /\ at \in 1 .. Len(script) + 1
  /\ wire \in {"none", "sent"}
  /\ recorder \in [cases : 0 .. Cardinality(Judging),
                   exchanges : 0 .. Cardinality(Exchanging), failed : BOOLEAN]
  /\ run \in [number : Nat, promote : BOOLEAN, code : Nat, trouble : BOOLEAN,
              outside : BOOLEAN, untouched : BOOLEAN]
  /\ run.outside => run.trouble
  /\ repo \in [sources : Nat, head : Nat, evidence : BOOLEAN]
  /\ place \in {"idle", "loading"} => recorder.cases = 0
  /\ exit # None <=> place = "exited"
  /\ exit \in {None, Some(0), Some(1)}

\* Every case of the suite is what the servicing code answers, on whichever
\* threads the server runs the calls: a run fails only when something outside the
\* code went wrong, which an answer of status 500 is not (api_suite.py, _run_cases).
ExpectationsHold == recorder.failed => run.outside

\* While the suite reads the store, moves the clock or changes a policy, no call
\* is under way, so its snapshots, which take no lock, are whole (store.py,
\* snapshot).
ReadsAlone ==
  place = "running" => lock = Nobody /\ \A w \in Workers : task[w] = Idle

Whole(record) ==
  /\ record.passed
  /\ record.cases = Cardinality(Judging)
  /\ record.exchange_count = Cardinality(Exchanging)

\* A run that exits with 0 ran every case to its verdict, and its two files are
\* there and whole; with --promote the example is this run's, both files
\* (api_suite.py, run_api_suite).
SuccessIsComplete ==
  exit = Some(0) =>
    /\ ~ run.trouble
    /\ disk.summary # None /\ Whole(disk.summary[1]) /\ disk.summary[1].run = run.number
    /\ disk.exchanges = Some(exchanges)
    /\ run.promote => example = disk

\* Whatever was cut short, a file of the example that is not torn is a whole file of
\* a run that passed every case (api_suite.py, the two copies of --promote).  That
\* both files are of one run is only so when the promotion ended: SuccessIsComplete.
ExampleIsEvidence ==
  /\ example.summary \notin {None, Torn} => Whole(example.summary[1])
  /\ example.exchanges \notin {None, Torn} =>
       example.exchanges[1].exchange_count = Cardinality(Exchanging)

\* If nobody touched the repository during the run, the commit a summary names is
\* the code that ran (artifacts.py, git_commit).
CommitIsWhatRan ==
  disk.summary \notin {None, Torn} /\ run.untouched =>
    disk.summary[1].git_commit \in {None, Some(run.code)}

\* The server has nothing to do while the suite acts; while the suite waits, the
\* server has its request and no other.
OneRequest ==
  /\ DOMAIN task = Workers
  /\ place \in {"idle", "loading", "starting", "running"} =>
       wire = "none" /\ lock = Nobody /\ \A w \in Workers : task[w] = Idle
  /\ place = "waiting" =>
       \/ wire = "sent" /\ lock = Nobody /\ \A w \in Workers : task[w] = Idle
       \/ /\ wire = "none"
          /\ \E w \in Workers :
               /\ \A other \in Workers \ {w} : task[other] = Idle
               /\ lock = IF task[w].step \in {"proposing", "applying"} THEN w ELSE Nobody

Past(steps, n) == {i \in steps : i < n}

\* The recorder holds a verdict and an exchange for each step that is past; an error
\* ends the cases with a failed verdict in the place of the step it befell.
CountsAgree ==
  /\ recorder.exchanges = Cardinality(Past(Exchanging, at))
  /\ ~ run.trouble => recorder.cases = Cardinality(Past(Judging, at))
  /\ run.trouble => recorder.cases \in 0 .. Cardinality(Past(Judging, at + 1))
  /\ run.trouble => place \notin {"idle", "loading", "starting", "running", "waiting"}
  /\ run.trouble /\ place # "exited" => recorder.failed
  /\ place \in {"idle", "loading", "starting"} => at = 1
  /\ place = "waiting" => at \in Exchanging
  /\ ~ recorder.failed =>
       \/ place \in {"idle", "loading", "starting", "running", "waiting"}
       \/ at = Len(script) + 1
       \/ exit = Some(1)

\* The files are those of the verdicts, and only a passed run is copied.
FilesFollow ==
  /\ \A files \in {disk, example} :
       files = [summary |-> files.summary, exchanges |-> files.exchanges]
  /\ place \in {"writing", "judging", "promoting", "promoting_exchanges"} =>
       disk.summary = Some(summary)
  /\ place \in {"judging", "promoting", "promoting_exchanges"} =>
       disk.exchanges = Some(exchanges)
  /\ place \in {"promoting", "promoting_exchanges"} => ~ recorder.failed /\ run.promote
  /\ place = "promoting_exchanges" => example.summary = disk.summary
  /\ exit = Some(0) =>
       /\ ~ recorder.failed /\ ~ run.trouble
       /\ disk.summary = Some(summary) /\ disk.exchanges = Some(exchanges)
       /\ at = Len(script) + 1
       /\ run.promote => example = disk
  /\ ExampleIsEvidence

\* HEAD is asked for when it holds what ran.
CommitFollows ==
  run.untouched =>
    /\ place # "idle" => repo.sources = run.code
    /\ place = "asking_head" => repo.head = repo.sources
    /\ commit_id \in {None, Some(run.code)}
    /\ CommitIsWhatRan

\* The inductive invariant of the suite.
SuiteInv == SuiteTypeOK /\ OneRequest /\ CountsAgree /\ FilesFollow /\ CommitFollows

\* The script as a sequence of stores: what the steps before the n-th leave behind
\* when every answer is the expected one.
offer(n) ==
  LET ready == script[n].answer
  IN [state |-> "pending", proposal_id |-> ready.proposal_id,
      change |-> ready.change, readback |-> ready.readback]

\* Steps 20, 21, 33 and 37 propose, and 24 applies the second proposal.
proposal_at(id, n) ==
  CASE id = FIRST_PROPOSAL_ID /\ n = 21 -> offer(20)
    [] id = FIRST_PROPOSAL_ID /\ n > 21 -> superseded(offer(20))
    [] id = CONTRACT_PROPOSAL_ID /\ n \in 22 .. 24 -> offer(21)
    [] id = CONTRACT_PROPOSAL_ID /\ n > 24 -> [state |-> "applied", result |-> contract_applied]
    [] id = POL3003_PROPOSAL_ID /\ n > 33 -> offer(33)
    [] id = STATUS_RECHECK_ID /\ n > 37 -> offer(37)
    [] OTHER -> Absent

\* Step 38 cancels the policy that step 24 gave its vehicle.
policy_at(p, n) ==
  IF p # "POL-1001" THEN Fixture[p]
  ELSE [policy_number |-> p,
        status        |-> IF n > 38 THEN "cancelled" ELSE "active",
        vehicles      |-> IF n > 24 THEN <<contract_vehicle>> ELSE << >>]

\* Step 34 moves the clock.
Outside(n) ==
  /\ now = IF n > 34 THEN advance_days(FIXED_INSTANT) ELSE FIXED_INSTANT
  /\ policies = [p \in OnFile |-> policy_at(p, n)]

Settled(n) == Outside(n) /\ proposals = [id \in ProposalIds |-> proposal_at(id, n)]

Seen(n) ==
  [ids |-> {id \in ProposalIds : proposal_at(id, n) # Absent},
   cover |-> [p \in OnFile |-> policy_at(p, n).vehicles]]

\* How far thread w is with the call of the n-th step.
UnderWay(w, n) ==
  LET step == script[n]
  IN /\ step.does = "call" /\ task[w].call = step.call
     /\ \/ task[w].step = "called" /\ Settled(n)
        \/ /\ task[w].step = "proposing" /\ n \in {20, 21, 33, 37}
           /\ task[w].change = step.answer.change
           /\ Outside(n)
           /\ proposals = [id \in ProposalIds |-> IF id = step.answer.proposal_id THEN Absent
                                                   ELSE proposal_at(id, n + 1)]
        \/ /\ task[w].step = "applying" /\ n = 24
           /\ task[w].pending = offer(21) /\ task[w].policy = policy_at("POL-1001", n)
           /\ Settled(n)
        \/ task[w].step = "returned" /\ task[w].result = step.answer /\ Settled(n + 1)

\* Until something outside the code goes wrong, the store, the clock and the thread
\* that has the call are where the script has them, and so is the last snapshot.
FollowsScript ==
  ~ run.outside =>
    /\ ~ run.trouble /\ ~ recorder.failed
    /\ place \in {"loading", "starting", "running"} => Settled(at)
    /\ place = "waiting" /\ wire = "sent" => Settled(at)
    /\ place = "waiting" /\ wire = "none" =>
         \A w \in Workers : task[w] # Idle => UnderWay(w, at)
    /\ place \in {"running", "waiting"} /\ at \in {18, 19} \cup 29 .. 31 =>
         before = Seen(at)

\* Every run ends, though the server never answers and never stops.
SuiteEnds == place \notin {"idle", "exited"} ~> place = "exited"
=============================================================================
