# A formal model of the policy-servicing demo

This directory models the program in `src/`: an insurance servicing API that adds a
vehicle to a policy in two steps (propose, then commit after the caller's yes), and
the terminal command that lets an ElevenLabs voice agent use it. The modules are
translated from the Python code; TLC checks them on small instances and TLAPS proves
their safety properties for every instance.

Paths below are relative to `src/src/` unless they start with another directory.

## 1. The system

| Part | Code | State | Operations |
|---|---|---|---|
| Value rules | `insurance_backend/domain.py` | none | `parse_vin`, `parse_effective_date`, `calendar_date`, `rejected`, `not_amendable`, `format_readback` |
| Store | `insurance_backend/store.py` | `_lock`, `_policies`, `_proposals` | `transaction`, get/set of a policy and a proposal, `pending_for_policy`, `replace_status`, `snapshot`, loading of the fixture file |
| Servicing | `insurance_backend/servicing.py` | none of its own; a clock and an id source | `lookup`, `propose`, `commit` |
| HTTP layer | `insurance_backend/http.py` | none | three routes, body models, `SystemClock`, `RandomIds` |
| Server lifecycle | `insurance_backend/server.py` | uvicorn's thread and its `should_exit` | `start_server`, `stop_server`, `serving` |
| Tool-call client | `agent/local_api.py` | an `httpx.Client` with a ten-second time-out | `plan_call`, `execute`, `handler` |
| Live session | `agent/elevenlabs.py` | the SDK's conversation, `_GuardedAudio`'s two flags, the `ended` event | `session`, `end`, `result_for_agent`, `_GuardedAudio.start` and `stop` |
| Agent command | `agent/cli.py`, `agent/run.py` | none | `resolve_agent_id`, `main`, `run_agent`, `_exit_code` |
| API suite | `verify/api_suite.py` | a movable clock, scripted ids, a recorder, the files of a run and of the example | scripted cases, one after the other, against an in-process server; `--promote` |
| Project validation, doctor | `verify/project_validation.py`, `verify/doctor.py` | none | pure checks of the configuration files |
| Verify command | `verify/cli.py`, `verify/artifacts.py` | files and git subprocesses | argument parsing, writing results |
| Configurations | `agent_configs/`, `tool_configs/`, `test_configs/`, `knowledge/` | | data for the ElevenLabs service |

### How the parts interact

The main thread of the `agent` command starts uvicorn on a thread of its own, opens an
HTTP client on the bound port and hands three handlers to the ElevenLabs SDK. The SDK's
thread opens the microphone, receives events from the service and calls the handlers. What the
microphone hears is sent by a callback on a thread of the audio library; when sending fails, the
callback ends the session itself. So three threads may call `_GuardedAudio.stop`: this one, the
SDK's when the service closes, and the main thread in `end`.
A handler sends one HTTP request and waits at most ten seconds. The route functions
are plain `def`s, so the server runs each on a thread of its pool; these threads share
the one `Store`, whose lock a call holds from its first read to its last write. When
the main thread leaves the session it closes the client and asks the server to exit.

The suite plays client, clock and operator at once: its main thread sends one request after the
other to a server of its own and, between two requests, reads the server's `Store` without its lock,
moves its clock and cancels a policy. What it leaves behind is evidence: two files
per run, which `--promote` copies over the tracked example, with the commit that `git` names.

### What is hard about it

* Calls of one policy overlap on several threads; each reads, decides and writes.
* A client that gave up after ten seconds has a call that still runs, later or never.
* The clock is read more than once in a commit, and New York's midnight may fall
  between two readings.
* An id source may raise half-way through a proposal or a commit.
* A policy is cancelled and reinstated between a readback and its confirmation.
* Ctrl+C is raised wherever the main thread happens to be, while the SDK's thread opens
  the microphone or ends the conversation by itself, and the microphone's thread ends it too.
* uvicorn may never stop, the service may never answer, and stopping the audio may raise.
* A request that the suite gave up still runs, on a store that the suite reads without a lock.
* A run of the suite may be cut short between its two files, and the repository may change
  between the run and the two `git` processes.

`PROJECT.json` lists these as hazards at their lines, with the properties that cover them.

### What makes each part correct

* *Store and servicing*: one pending proposal per policy; no car twice on a policy; a
  vehicle is added only by applying a proposal with exactly the change that was read back,
  once; what was checked under the lock still holds at the write; what an answer says is
  true when it is sent; a proposal is never edited, revived or rewritten; overlapping calls act as
  if they came one after the other.
* *Client and HTTP layer*: repeated or late calls agree on what became of a proposal; every
  request ends.
* *Live session and command*: the microphone is released, tool calls find their server and
  client until the conversation is over, the exit status is honest, and the run ends.
* *Suite*: each case is what the servicing code answers; nothing runs while it reads the store; a
  status of 0, and the example, mean a whole passed run of the code that is named; every run ends.
* *Doctor*: it passes the consistent projects, and fixtures from which the API can serve.

## 2. The modules

```
Domain <- Servicing <- ToolCalls <- MCToolCalls, ToolCallsProofs
  |          |               \- (INSTANCE) Conversation   what a conversation comes to
  |          |- ApiSuite <- MCApiSuite, ApiSuiteProofs <- ApiScriptProofs
  |          |- MCServicing
  |          |- (INSTANCE) VehicleLedger         what happens to a policy
  |          |- (INSTANCE) AtomicServicing       what a client may think of its calls
  |          \- ServicingProofs <- AtomicProofs, ToolCallsProofs <- ConversationProofs (of both)
  \- FixtureFile <- ProjectValidation <- MCProjectValidation, ProjectValidationProofs
        \- (extended by MCServicing and MCApiSuite for their fixtures)
AtomicServicing <- Conversation
LiveRun <- MCLiveRun, LiveRunProofs
```

### Domain

The value rules as operators. A text is a member of a set; `Upper`, `VinShaped`,
`DateShaped` and `CalendarDay` give what the code does to texts: two spellings that fold
to one VIN are two texts until `parse_vin` makes them one, `compact` names a day in a
shape that `_EFFECTIVE_DATE_RE` refuses, and `month13` has the shape but names no day. The
wording of messages is left out, except the day a past-date rejection names. A readback is
the record of what the sentence speaks. An optional value is a sequence of length at most one.

### FixtureFile

`Store.from_fixture_file` as operators on what the file lists: `fixture_fault` is the first thing that
raises, and its kind, `loaded` the dictionary of policies, in which a later entry replaces an earlier one of its
number. ValueError, KeyError and TypeError are one kind, which doctor catches; a VIN that is no text raises
AttributeError, which it does not. The fixtures of `servicing_ledger` and of the suite are built by `loaded`.

### VehicleLedger (abstract)

What the servicing API promises, without ids, threads, locks or texts: per policy a list of
covered vehicles and at most one offered change. `Offer`, `Withdraw`, `Accept` and
`Restate` say when each may move.

### AtomicServicing (abstract)

What a client may think of the API: every call takes effect at one moment between its arrival and its
answer, and the answer is true at that moment. `offers[id]` is what became of the change read out under an
id, `client[c]` the call a client has out. `Refuse` may give any reason that is true, whatever order the code
checks in; `Look`, `ReadOut`, `Take` and `HearAgain` are the answers that are no refusal; `NoIdLeft` and `NoNumberLeft`
are the failures of an id source, of which the first has an effect. `Acceptable` asks for a date that was not past at
*some* reading of the clock: finding 1 is why it cannot ask for more.

Servicing implements it under this mapping (`KnownOffer`, `KnownCall`): while a thread is between
`ProposeChecked` and `ProposeStored`, the proposal it has superseded still waits, as no one else can look;
so the moment of a proposal is the release of the lock. For that the task remembers `prior`, the code's local variable
of that name.

### Conversation (abstract)

Extends AtomicServicing with the agent: what a conversation comes to, without threads, requests or losses. `heard[c]`
is what the agent has of its c-th tool call. It makes a call once (`Make`), and hears of it once, by an answer (`Arrive`) or by a failure
(`Fail`). A failure tells nothing of the effect: what was asked stays asked, has its effect later or never (`Vanish`),
and its answer arrives at an agent that no longer waits. A call that the API refuses unread asks nothing. Every call has at most one
effect, at one moment (`TakeEffect`).

### Servicing

| Variable | Code |
|---|---|
| `policies`, `proposals` | `Store._policies`, `Store._proposals` (`Absent`: not in the dictionary) |
| `now` | what `clock.now()` returns |
| `lock` | the thread inside `with self._lock` |
| `task[w]` | the call thread `w` runs: `called`, `proposing`, `applying`, `returned` |

A call that changes nothing is one step under the lock (`Lookup`, `ProposeRefused`,
`CommitAnswered`). A call that changes the store is two: `ProposeChecked` runs from taking the
lock to superseding the earlier proposal and `ProposeStored` stores the new one;
`CommitChecked` runs to the last check and `CommitStored` writes the policy and the proposal: in one
step, as nothing between the two assignments raises and whoever reads both holds the lock, except the suite's
`snapshot`, which `ReadsAlone` is about.
Between the two steps the clock may move and every other thread may act, as far as the
lock lets it. `ProposeRaised` and `CommitRaised` are an id source with nothing left
(the suite's `ScriptedIds`): the exception gives the lock back and leaves what was already written.
The readings of the clock under the checks are part of the checking step, and `CommitStored` reads `now`
again, as `_apply_pending` does.

`Tick` moves the clock to any other instant, because a wall clock may be set back and the suite
moves its own; `ReplaceStatus` is the suite's change of a policy's standing. `Receive` and
`Respond` are the server's pool handing a call to a thread and sending its answer.

New ids are drawn from the ids never used: `RandomIds` has 104 random bits, `ScriptedIds` a list
without repetition. `RepeatedIds` is the mutant that shows what this rests on. `FixtureAssumption`
says that the fixture lists no car twice on a policy and files each policy under its own
number; the fixture file in the repository satisfies it, and `from_fixture_file` does not check the first part.
`PassedFixtureServes` (ProjectValidation) says when a file that loads satisfies it.

### ToolCalls

Extends Servicing with the agent's side. `tool[c]` is the c-th call as its client sees it,
`wire[c]` where its request is, `carries[w]` which call thread `w` runs. `CallUnplannable` is a
`plan_call` that fails without a request; `CallPlanned` sends one; `RefuseBody` is the 422 of a
malformed body; `TakeRequest` and `SendAnswer` put Servicing's `Receive` and `Respond` on the wire; `GiveUp`
is the time-out or a broken connection, possible at any time while the client waits;
`LoseRequest` is a given-up request that never reaches a thread. A request whose client gave up
may be taken later. The agent says what it likes, but commits only ids it has heard, or those
in `GuessedIds`. `Hears` is `result_for_agent`: only a 200 exchange is heard.

It implements Conversation (`CallsCountOnce`), with the tool calls as the clients of the API: `KnownRequest` takes a request
on the wire for one that is asked, whether or not anyone waits for it, and from then on what its thread is at (`KnownCall`);
`KnownReport` is what the agent has of it, a result or an error.

### LiveRun

One run of the command. `main` is the place of the main thread, from `resolving` to `exited`;
`server`, `client`, `sdk`, `guard`, `mic` and `service` are uvicorn, the client, the SDK's thread,
`_GuardedAudio`'s flags, the inner audio and the conversation object. Ending a session
is a list of steps that a thread still has to do (`todo`), because the main thread, the
SDK's and the microphone's (`Threads`) may be ending it together: `CheckAudio` tests the guard's flags, `ClaimAudio`
sets the one, `StopAudio` stops the inner audio, `MarkEnded` is the SDK setting its own flag and calling
back. `SendFails` begins it on the microphone's thread, at any callback while the microphone is on, and again at the
next. `stops` is a history variable: how often each thread called the inner stop. An inner stop on the microphone's
thread stops a stream from inside the stream's callback, so it may never return. `HangUp` is Ctrl+C at each place:
caught during `start_session` and the first wait,
unwinding through `finally: end()` and the `with` statement elsewhere inside them, and ending the process
outside. The place `starting` also stands for what comes before the `try` of `session` and `ending` for the
entry of the first `end()`, so at these a Ctrl+C may be caught or not.

Outside the repository, and modelled from how it uses them: the SDK's thread
(`Connect` to `SdkDone`), the microphone's thread (`SendFails`), uvicorn's thread, and the delivery of requests.
`PROJECT.json` marks those definitions external.

### ApiSuite

Extends Servicing with the suite's main thread. `script` is what `_run_cases` does, step by step in its order, with the
answers it expects: a verdict on the contracts or on the OpenAPI document alone (`judge`, taken as passed), a request the
framework answers by itself (`fetch`), a call (`call`), and what the suite does to the store and the clock. `place` is where the
main thread is, `at` the step of the script, `wire` whether its request still waits for a thread, `recorder` the `Recorder`'s
counts. `Receive`, `Run` and `Respond` are Servicing's; `InOrder` makes `ScriptedIds` give its ids in order; the script makes as
many proposals as there are ids, so the list is never found empty. `TimeOut` is the client's
five seconds, possible as long as it waits; the request stays on the wire and its thread goes on, also into the `finally` and
the writing of files. `StartFails` and `ContractFails` are exceptions that become the failed verdict `server_lifecycle`
(`Raises`). `run.trouble` says that something ended the cases, `run.outside` that it came from outside the servicing
code; an answer of status 500 raises too, and is the code's own.
`GitStatus` and `GitHead` are the two processes of `git_commit`; `WriteSummary`, `WriteExchanges`, `CopySummary` and `CopyExchanges`
the four writes. `CutShort` ends the process anywhere and may leave the file under its hands torn. `EditOrCommit` is a person
at the repository. The model has 36 verdicts and 25 exchanges in a whole run, as `artifacts/example-run` has.

### ProjectValidation

`verify doctor`. `project` is what is on disk, `place` and `position` where the checks are,
`tool_ids` and `test_ids` the two dictionaries in the order their keys were registered, `failures` what
was found. `CheckTool` and `CheckTest` are one turn of the two loops with all their early
`continue`s; `LinkAgent` compares the agent with what was registered. `raises` is where a check ends in an
exception instead of a failure. `Consistent` is the reference: what a consistent project is,
without dictionaries or an order of checking. Fields that are only compared with a constant
are one flag (`client_behavior`, `scenario`); times are in tenths of a second. `Kept` is the filter of the code's list
comprehensions, by positions, so that the prover can open it. `Readable` says what the code goes through as a list.

### The proofs and the MC modules

Each `...Proofs` module extends the module it is named after; `AtomicProofs` and `ToolCallsProofs` also extend
`ServicingProofs`, whose theorems they use, and `ConversationProofs` extends these two. `ApiScriptProofs` extends
`ApiSuiteProofs`: the one is about what the script's answers are, the other about what holds whatever they are. See
section 5. The `MC` modules hold only values for constants. Operators whose comment starts "A mistake" are plausible
bugs; each replaces the definition next to it to show that a property of some run notices.

## 3. What TLC checks

| Run | Module, configuration | Shows |
|---|---|---|
| `servicing_race` | `MCServicing`, `Servicing_race.cfg` | `TypeOK`, `AtMostOnePending`, `InsideTheLock`, `NoVehicleTwice`, `PendingNotCovered`, `BooksBalance`, `AnswersStand`: two threads, two cars of which one is spelled in two cases, a policy that is cancelled and reinstated at any time, three proposal ids and two confirmation numbers that run out |
| `servicing_ledger` | `Servicing_ledger.cfg` | `LedgerKept` and `CallsAreAtomic` (the refinements of `VehicleLedger` and `AtomicServicing`), `ChangeIsBound`, the inductive invariant `IInv` and `HeldFromCall`, from a fixture with a vehicle and a cancelled second policy, with a malformed date, an unknown policy, a clock on both sides of midnight and id sources that run out |
| `servicing_midnight` | `Servicing_midnight.cfg` | violates `AppliedNotBackdated` (finding 1) |
| `tool_reports` | `MCToolCalls`, `ToolCalls_reports.cfg` | `ToolInv` (the inductive invariant), `ReportsAgree`, `SupersededIsFinal`: four tool calls with time-outs, losses and late execution |
| `tool_served` | `ToolCalls_served.cfg` | `EveryRequestEnds` under `ToolFairness`, and `CallsCountOnce` (the refinement of `Conversation`), with undeclared parameters, malformed bodies, guessed ids and an id source that runs out |
| `tool_escalation` | `ToolCalls_escalation.cfg` | violates `EscalationIsTrue` (finding 2) |
| `live_session` | `MCLiveRun`, `LiveRun_session.cfg` | `LiveInv` (the inductive invariant), `MicrophoneReleased`, `OneStopEach`, `ToolsAreServed`, `ExitIsHonest`, and `RunEnds` under `LiveFairness`: every source of the agent id, remote closes, failed sends, and up to two Ctrl+C anywhere |
| `live_hangup` | `LiveRun_hangup.cfg` | violates `HangUpExitsZero` (finding 3) |
| `doctor_verdict` | `MCProjectValidation`, `ProjectValidation_verdict.cfg` | `DoctorInv` (the inductive invariant), `PassedIsConsistent`, `ConsistentIsPassed`: doctor's verdict is the reference's; `PassedFixtureServes`: passed fixtures open the API |
| `doctor_times` | `ProjectValidation_times.cfg` | violates `PassedTimesIncrease` (finding 4) |
| `doctor_order` | `ProjectValidation_order.cfg` | violates `PassedFollowsRegistry` (finding 5) |
| `suite_evidence` | `MCApiSuite`, `ApiSuite_suite.cfg` | `SuiteInv` and `FollowsScript` (the two parts of the inductive invariant), `ExpectationsHold`, `ReadsAlone`, `SuccessIsComplete`, `ExampleIsEvidence`, `CommitIsWhatRan`, and `SuiteEnds`: two runs with time-outs, promotions, interruptions and edits anywhere |

### Bounds, and why they are enough

* *Two threads*: every hazard is a race of two; the lock admits one writer, and a third thread
  repeats the second's part. The theorems of section 5 have no such bound.
* *Three proposal ids* let a proposal be superseded twice, or be applied and followed by
  two others; *two confirmation numbers* let two changes be applied and a third commit fail.
  An id source that runs out is the suite's `ScriptedIds`, so the bound is a behaviour too.
* *One or two policies*: nothing in the code relates two policies but the id space;
  `servicing_ledger` has two, two proposal ids and one confirmation number.
* *Three instants, two days*: the order of a date and today is all the code looks at.
* *Four tool calls* (`MaxToolCalls`) allow propose, given-up propose, commit and its retry; `tool_served` has three,
  without symmetry, and one id: a given-up propose, another that supersedes it and finds no id left, and the commit of the first. A clock
  that moves and a proposal that replaces another are in `servicing_ledger`, for `CallsAreAtomic`.
* *Two Ctrl+C* (`MaxHangUps`): the first is caught and the second unwinds; a third would find the
  main thread at a place where the second already found it. *Failed sends* have no bound: the microphone's
  thread may end the session again at each callback, and `stops` stays within one for each thread all the same.
* *Projects*: one consistent project and each that differs from it in one or two parts (3488 of them),
  so that an entry refused early meets a second defect it could hide. Three tools, and one test of each
  kind of the manifest.
* *Two runs of the suite* (`MaxRuns`): the second meets the example and the repository as the first left them;
  nothing else passes from run to run. *Two versions of the sources* (`MaxVersion`): the one that ran and another.
  Threads, ids and texts are the script's own.
* Symmetry is used only where the configuration's values are interchangeable (threads, ids and numbers, and in
  `tool_reports` the two VINs), and only for invariants and for properties of single steps, whose
  formulas treat those values alike; never with liveness.

Deadlock is checked in the Servicing and ToolCalls runs (the environment can always move, so it cannot
hide there: a stuck call is what `EveryRequestEnds` looks for). `LiveRun`, `ProjectValidation` and `ApiSuite`
really stop, so their configurations say `CHECK_DEADLOCK FALSE`.

### Fairness

* `ToolFairness`: a request on the wire is refused or taken by some free thread in the end, and
  each thread of the pool runs its call and its answer is sent. That is the event loop and the
  operating system's scheduler. It is weak fairness per thread: no order is assumed in which the lock is
  given, and TLC shows that none is needed, because only finitely many calls compete. Nothing is
  assumed of the agent, the clock or the caller.
* `LiveFairness`: the main thread moves when it can (its deadlines of five seconds pass), and the
  SDK's thread does what needs no one else: its connection attempt ends, audio opens or fails, and
  its loop looks at the stop flag. An inner stop that one of these two threads calls is assumed to return or raise.
  Nothing is assumed of uvicorn, of the service, of the person or of the microphone's thread, so the run ends though
  the server hangs and a stop on the microphone's thread never returns.
* `SuiteSpec`: the suite's main thread moves when it can, its deadlines included. Nothing is assumed of the server's
  threads: `SuiteEnds` holds because each wait has a time-out. The two `git` processes have none and are assumed
  to return.

### What the properties are about

`InsideTheLock`, `AnswersStand`, `BooksBalance` and `ReportsAgree` relate two pieces of state across steps of several
threads. `AnswersStand` says what a client may rely on between the moment the lock is given back and the moment the
answer arrives: an applied result is the one on file, a readback is of the change on file, and "superseded" is for
good. `MicrophoneReleased` names the only ways in which the microphone can stay on: audio that failed to stop, a
session that failed to start or to be waited for, a Ctrl+C before the guard was marked started, a second Ctrl+C, or a
stop that the microphone's own thread claimed and has not finished, for which nobody waits. `OneStopEach` says what
`_GuardedAudio` is worth. Two threads can pass its test together: the microphone's with either of the others, in a
conversation nobody hung up; the main thread and the SDK's only when a hang-up or a failed wait began the one while
the other was at it. But no thread stops the inner audio twice, although `end` and `end_session` each ask for it,
stopping may raise, and each failed send asks again; that needs the flag to be set before the inner stop is called.
Whether a stop by each of two threads harms is up to the audio interface. `ToolsAreServed`
speaks of the time in which the conversation can begin a tool call; a handler that began earlier runs on a thread of
the SDK's pool and may still be at it when the client closes. `CallsAreAtomic` is linearizability: no interleaving, no
failing id source and no moving clock gives two clients answers that a single history of calls does not explain.
`CallsCountOnce` is what the agent may believe after any mixture of time-outs, retries and losses: an answer was true
at a moment between its call and its hearing, and a call that it made once never counts twice, although a request runs
on when its client has given it up. `FollowsScript` says of every moment of a run what the forty cases share: which
proposals wait, are superseded or applied, what the policies cover, which day it is, and how far the thread that runs
the call has come. `ExpectationsHold` makes the script a check of the model too: each answer written in `_run_cases`
is the one that the modelled code gives, on whichever threads the calls run, so a run can fail only through trouble
from outside; a status of 500 would not be that. `SuccessIsComplete` and `ExampleIsEvidence` say what a status of 0 and a tracked example are worth.
After a promotion that was cut short the example may hold the files of two runs; only status 0 excludes it.
`CommitIsWhatRan` needs a repository that nobody touches during the run; with an edit and a commit during the run the
summary names code that did not run. `RunEnds` has one exception, `slips`: when stopping the audio raises inside the
SDK's `end_session`, the SDK is never told to stop, and the second wait can last until the service ends the
conversation. A send that failed is another way to end it: what counts is that the stop flag was set.

## 4. Findings

1. **A vehicle can be applied on the day after its effective date** (`servicing_midnight`). `commit`
   checks the date against one clock reading (`insurance_backend/servicing.py:177`) and stamps `applied_at`
   with another (`:202`). `knowledge/policy-servicing-rules.md:28`: "The API rejects any date earlier than
   its calendar date in America/New_York."
2. **An escalation can be answered though a change was made** (`tool_escalation`). A commit that timed
   out is applied all the same; the agent, told of a failed call, proposes again and hears
   `vehicle_already_on_policy` with recovery `escalate`. `knowledge/policy-servicing-rules.md:15`: "`escalate`
   means stop changing the policy, state that no change was applied".
3. **Ctrl+C can exit with status 1** (`live_hangup`). A hang-up that `session` catches before the
   service has sent an id gives a record without one, which `_exit_code` turns into 1. `README.md:60`: "A
   normal end, a remote close, and Ctrl+C exit with status 0."

4. **Times of a recorded history may go back** (`doctor_times`). `verify/project_validation.py:380` truncates
   the previous time to whole seconds, so 2.9 s followed by 2.2 s passes the check whose message (`:376`) is
   "must increase". `PassedIsConsistent` therefore speaks of whole seconds.
5. **The agent's tools are compared with another order than the message says** (`doctor_order`). `:446` takes the
   order of `ROUTES`; the message (`:451`) says "must match tools.json order". In the repository the two
   orders are the same.

Doctor also passes a project in which two tools have one id, an agent with an attached item that has no id, and a
history that begins up to a second before zero (`previous` starts at -1). No document says otherwise;
`ConsistentIsPassed` is stated for distinct ids, and the reference passes over attached items without an id as the
code does.

## 5. What is proved

Everything here holds for every value of the constants that satisfies the named assumptions of the modules: every
fixture, number of threads and of tool calls, every set of texts, ids, policies and instants, any number of hang-ups
and of runs. The assumptions say what a text folds to (`TextsAssumption`), that dates name days (`DatesAssumption`),
that the fixture lists no car twice and files each policy under its number (`FixtureAssumption`), that `Nobody` is no
thread, that bounds are numbers, that the routes and the manifest list nothing twice, under config paths that are safe
(`ProjectAssumption`), and that a project has lists and numbers where the code goes through lists and numbers
(`FilesAssumption`); and, for the suite's answers alone, what its fixture file lists, what its texts fold to and name,
which days its two instants are, and its ids and confirmation number (`ScriptAssumption`). TLC evaluates all of them
on every run.

### The servicing API (`ServicingProofs`)

| Theorem | Statement |
|---|---|
| `TypeCorrect` | `Spec => []TypeOK` |
| `Inductive` | `Spec => []IInv` |
| `OnePending`, `LockProtects`, `NoDuplicateCover`, `WaitingIsNew`, `Balanced`, `AnswersTrue` | each safety invariant of `servicing_race` |
| `Bound` | `Spec => ChangeIsBound` |
| `Implements` | `Spec => LedgerKept`: Servicing implements `VehicleLedger` |

The invariants are not inductive one by one. `AtMostOnePending` needs to know that a thread that is
storing a proposal has superseded the earlier one and that no other thread has stored one since, which
is `InsideTheLock`; `NoVehicleTwice` needs that a thread that is applying still sees the policy it checked;
`BooksBalance` needs that the policy it writes is the one on file plus one vehicle, that the pending
proposal is filed under its own id (`KeysMatch`) and that its car is new; `AnswersStand` needs that no step
moves an applied or superseded proposal. `IInv` is the conjunction. `StepIInv`
proves that each action preserves it, one lemma per action (`ProposeCheckedStep`,
`CommitStoredStep` and so on), over three families of lemmas: type preservation, "a quiet step" (one that leaves the
store and the lock's holder alone) and "others stand" (answers on their way survive a step of another thread).

`Implements` maps `offered[p]` to the changes of the pending proposals of policy `p`. `ProposeChecked` is a `Withdraw`
when something was pending and a stutter otherwise, `ProposeStored` an `Offer`, `CommitStored` an `Accept`,
`ReplaceStatus` a `Restate`; every other action stutters. `IInv` provides what the abstract guards ask for.

### Overlapping calls (`AtomicProofs`)

`WritesOwnCall` is `Spec => []HeldFromCall`: what a thread is about to write under the lock is the change its own call
named, on a date that was not past at some reading of the clock, or the proposal its own call confirms; and what it holds in `prior` are
superseded proposals of its policy. `IInv` does not say this: it relates a held change to the store, not to the words of
the call.

`Linearizable` is `Spec => CallsAreAtomic`: Servicing implements `AtomicServicing`. The proof follows the mapping of
section 2. `Receive` and `Respond` are the arrival and the answer; `Lookup`, `ProposeRefused` and `CommitAnswered`
each a call that takes effect and is answered truly; `ProposeChecked` a stutter, because a superseded proposal that is
in the `prior` of the thread inside the lock still counts as waiting (`BeingReplaced`), and `ProposeStored` the moment
the proposal takes effect, `prior` included. `CommitChecked` is a stutter, `CommitStored` the moment of `Take`.
`ProposeRaised` after a supersession is `NoIdLeft`, the failure that has an effect. Refusals are shown true one reason
at a time (`TrueCodeRefuses`, `PastRefuses`). That nobody sees a proposal half replaced is `InsideTheLock`: only the
lock's holder replaces (`OnlyHolderReplaces`).

### Tool calls (`ToolCallsProofs`)

`Conversing` is `ToolSpec => Spec`: whatever agents and networks do, the API goes through a behaviour of its own
specification, so every theorem above holds in a conversation. `ToolInductive` is `ToolSpec => []ToolInv`, `ToolTypeCorrect` its type
part; `ReportsTrue` and `SupersededStays` are the two invariants of `tool_reports`.

`ReportsAgree` compares what two calls were told, at two times. The invariant that carries it is `OutcomesStand`: each
answer that the agent holds is still true of the store, however old it is; two true answers on one proposal agree. `OutcomesStand` is the
continuation of `AnswersStand` beyond the moment of sending, and every step of every thread preserves it because no step
revives or rewrites a proposal. `RequestsRunOnce` ties a thread to the one call it runs for, so that a late answer is
filed under the call that asked.

### A conversation (`ConversationProofs`)

`CountedOnce` is `ToolSpec => CallsCountOnce`: ToolCalls implements Conversation. `TalkMoves` maps each step to a step
of Conversation or a stutter; it needs `ToolInv` and `HeldFromCall`, the invariants of the two modules that this one
extends.

The steps of a thread are not proved again. `AtomicProofs` says what thread w's step is among calls that belong to
threads; `CarriedIs` says that what is known of a tool call on the API's side is what is known of the thread that
carries it, and by `RequestsRunOnce` it is one thread at most; so `EffectMoves` transfers each effect from the thread
to the tool call, and `WhoseStep` finds the call whose step it is. What is new in the proof are the steps on the wire.
`CallPlanned` is a `Make` that asks or, with a malformed body, does not. `GiveUp` is a `Fail` that leaves the call
asked (`RequestKept`); `LoseRequest` after it a `Vanish`; and an answer that comes later changes nothing that was
heard. `TakeRequest` is a stutter: the request was asked when it was sent. `SendAnswer` is an `Arrive`, which hands
over the result if the agent waits for it.

### The live session (`LiveRunProofs`)

`LiveInductive` is `LiveSpec => []LiveInv`; `MicrophoneOff`, `OneStopPerThread`, `ServedThroughout` and `ExitTrue`
follow from it. `LiveInv` says how far server, client, SDK and `end()` have come at each place of the main thread
(`MainLeads`), when the audio may be on and stopped (`AudioInOrder`), which steps of the clean-up each thread may
still have to do when a session ends plainly (`EndsInOrder`), that what was recorded is so (`RecordIsTrue`), and who
has stopped the audio (`StopsInOrder`): a thread that has found it running has not stopped it, and one that has
stopped it left the flag set, so its next test fails. `OneStopEach` alone is not inductive, as it says nothing of the
thread that is between its test and its stop.
`MicrophoneReleased` alone is not inductive: that the microphone is off when session has returned rests on which of
the two stops is still ahead, and on whose list. The hang-up is one lemma (`HungUp`), as it may fall at any place.

### The suite (`ApiSuiteProofs`)

`SuiteInductive` is `SuiteSpec => []SuiteInv`; `SuiteReadsAlone`, `SuccessComplete`, `EvidenceIsEarned` and
`CommitRan` are four of the properties of `suite_evidence`. The parts of `SuiteInv`: while the main thread acts, no
thread of the server has a call and nothing is on the wire, and while it waits, one has (`OneRequest`); the recorder
has one verdict for each judging step that is past and one exchange for each request (`CountsAgree`, by cardinalities
of sets of steps, whose arithmetic is the lemma `Counting`); each file is the summary or the exchanges of the recorder
as it stands, and only a passed run is copied (`FilesFollow`); and HEAD is asked for when it holds what ran
(`CommitFollows`). These theorems do not depend on what the server answers: a wrong answer is a failed verdict. They
depend on the script only in that it begins with a verdict.

### The suite's cases (`ApiScriptProofs`)

`ScriptFollowed` is `SuiteSpec => []FollowsScript` and `ExpectationsMet` is `SuiteSpec => []ExpectationsHold`: each
answer that `_run_cases` expects is the one that the servicing code gives, with any number of threads, texts, ids and
instants beyond those of the script. `ExpectationsHold` says only that no case has failed; that the next one will not
either needs the store that all earlier ones left. `FollowsScript` describes it as a function of the step:
`Settled(n)` is the store and the clock before step n (`policy_at`, `proposal_at`), `UnderWay(w, n)` the stages of
thread w in the call of step n.

The argument goes from one store to the next. `SuiteInv` gives that at most one thread has a call, and that it has one
while the main thread waits with nothing on the wire. From `Settled(n)` the thread can do one thing only
(`FirstStep`): answer what is written and leave `Settled(n + 1)`, or go half-way. Four calls go half-way to a proposal
and one to a commit; the former with the earlier proposal superseded already (`HalfSuperseded`), and then `InOrder`
decides which id comes next (`NextId`), as all before it are used; `StoresProposal` and `StoresCommit` finish. That
nothing raises meanwhile is `NothingRaises`: no answer of the script has status 500, and the answer under way is the
script's.
`AnswerAsWritten` then makes the verdict a passed one, and `SuiteMoves` the steps of the main thread itself: the
clock, the cancelled policy, the snapshots that two cases compare (`SnapshotIsSeen`, `SeenKept`). What each call
answers is proved for groups of steps (`LookupsAnswer`, `ProposalsRefused`, `CommitsAnswer`, `ProposalsTaken`). The
script is a concatenation, from which the provers cannot read the n-th step, so `Joined` and `Parts` find the
place of each of its parts, `Steps` writes it out and `Kinds` says what each step is.

### Doctor's verdict (`ProjectValidationProofs`)

`PassedConsistent` and `ConsistentPassed` are the two directions of one claim: the loops of doctor, with their early
`continue`s and their dictionaries, decide `Consistent`, for any number of routes, tests, entries, parameters, mocks
and turns. `PassedServes` says what the fixtures of a passed project are worth to the API. All three follow from
`DoctorInductive`, which is `DoctorSpec => []DoctorInv`.

The verdict at the end says nothing of the loops, so `DoctorInv` has a part for each direction. `GoodSoFar`: as long
as nothing was found, every entry that the loops have passed is registered, in its place in the registry, and is what
the reference asks for. `CleanSoFar`: of a consistent project nothing was found so far. Neither holds alone: that a
consistent project is not found to have a duplicate needs the entries registered so far to be those of the registry.

The reference counts and the code does not: `Consistent` wants as many entries as there are routes, and an entry for
each; the code refuses duplicates and asks at the end what is missing. `CountKeys` and `EveryEntry` connect the two by
cardinality: if as many entries as keys give each key an entry, then each entry has a key that no other has.
`ToolIdIs` and `TestIdIs` connect the reference's choice of an entry with the dictionaries. `HistoryGood` and
`HistoryTaken` are about times: with whole seconds, what is later than the previous whole second is later than the
previous turn (`Grows` carries that to every pair of turns); and a history in order, whatever its fractions, is later
than each whole second before it. Induction over the turns is done over sets of numbers: `Least` (every set of natural
numbers that is not empty has a least one) follows from the library's well-founded orders, and `Counted` is induction
for a set in place of a formula. `PreviousIs` uses it to open the recursive function `previous`.

The proofs led to four changes of the module: `Playable` asks for a first time of 0 or later, as with times like -0.5
s and -0.3 s a history in order is refused; kinds of tests are the two of the manifest; routes and stems are safe
paths; and `DoctorTypeOK` says what is read.

### What is only model-checked

* Liveness (`EveryRequestEnds`, `RunEnds`, `SuiteEnds`) is beyond the prover. Every safety property of a passing run has its theorem.
* The runs that expect a violation show what the code does in one instance; there is nothing to prove.

## 6. What is not modelled

* The JSON of results and `/healthz`; quoting of path parameters; elapsed times; printed lines; argument parsing
  and `.env`.
* A tool handler that is still running when the session returns: the SDK's pool and what httpx does to a client
  that is closed under a request are outside the repository.
* `discriminated_schema`, which resolves references in the OpenAPI document that FastAPI generates; `to_json`, the time stamp of a run.
* A project file that is not UTF-8: reading it raises UnicodeDecodeError, which neither doctor nor `project_validation.py` catches
  (`:533`), so doctor ends with a traceback and status 1.
* Texts are members of a set: that `str.upper` can lengthen one is a possible value of `Upper`, not computed.
* The configurations and prompts: what the ElevenLabs agent says. `ToolCalls` lets the agent make any call
  it has the words and the ids for.

## 7. Plan

In this order:

1. *Done*: `Domain`, `Servicing`, `VehicleLedger`, their runs and theorems; `ToolCalls`; `LiveRun`;
   `ProjectValidation`; `AtomicServicing`; `FixtureFile`; `ApiSuite`.
2. *Done*: proofs about `AtomicServicing`, `ToolCalls`, `LiveRun`, `ApiSuite` and `ProjectValidation`.
3. *Done*: `Conversation`, what an agent's conversation may report, with ToolCalls proved to implement it; the answers of the
   suite's script, proved from the store that its earlier cases left.
