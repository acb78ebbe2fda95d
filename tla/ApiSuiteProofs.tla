----------------------------- MODULE ApiSuiteProofs -----------------------------
(***************************************************************************)
(* The theorems of ApiSuite: whatever the server does, wherever the suite   *)
(* is cut short and however the repository changes under it.                *)
(***************************************************************************)
EXTENDS ApiSuite, FiniteSetTheorems, SequenceTheorems, TLAPS

-----------------------------------------------------------------------------
(* The script, and counting its steps.                                     *)

\* A literal list of steps.
Literal(s, n) == s \in [1 .. n -> {s[i] : i \in 1 .. n}]

\* A list that is written out is as long as it is written.
LEMMA LiteralLists ==
  ASSUME NEW s, NEW n \in Nat, Literal(s, n), NEW S, {s[i] : i \in 1 .. n} \subseteq S
  PROVE  s \in Seq(S) /\ Len(s) = n
<1>1. s \in [1 .. n -> S]
  BY DEF Literal
<1> QED
  BY <1>1, IsASeq, LenProperties

\* A list that begins with a verdict.
Opens(s, S) == s \in Seq(S) /\ Len(s) >= 1 /\ s[1].does = "judge"

\* A list that opens as it should opens so whatever follows.
LEMMA Continued ==
  ASSUME NEW S, NEW s, NEW t, Opens(s, S), t \in Seq(S)
  PROVE  Opens(s \o t, S)
<1>1. s \in Seq(S) /\ Len(s) \in Nat /\ Len(t) \in Nat /\ Len(s) >= 1
  BY LenProperties DEF Opens
<1>2. s \o t \in Seq(S) /\ Len(s \o t) = Len(s) + Len(t) /\ (s \o t)[1] = s[1]
  BY <1>1, ConcatProperties
<1> QED
  BY <1>1, <1>2 DEF Opens

\* The script is a list that begins with a verdict, that on the first contract.
LEMMA Script == /\ Len(script) \in Nat /\ Len(script) >= 1
                /\ DOMAIN script = 1 .. Len(script)
                /\ script[1].does = "judge"
<1> DEFINE In(s, n) == {s[i] : i \in 1 .. n}
           S == In(opening, 10) \cup In(unknown_and_invalid, 5) \cup In(pol_1001, 12)
                  \cup In(pol_2002, 4) \cup In(pol_3003, 5) \cup In(commit_recheck, 4)
<1>1. /\ In(opening, 10) \subseteq S /\ In(unknown_and_invalid, 5) \subseteq S
      /\ In(pol_1001, 12) \subseteq S /\ In(pol_2002, 4) \subseteq S
      /\ In(pol_3003, 5) \subseteq S /\ In(commit_recheck, 4) \subseteq S
  <2> HIDE DEF In
  <2> QED
    OBVIOUS
<1> HIDE DEF S
<1>2. Literal(opening, 10) /\ opening[1].does = "judge"
  BY DEF Literal, opening, Judge
<1>3. /\ Literal(unknown_and_invalid, 5) /\ Literal(pol_1001, 12) /\ Literal(pol_2002, 4)
      /\ Literal(pol_3003, 5) /\ Literal(commit_recheck, 4)
  BY DEF Literal, unknown_and_invalid, pol_1001, pol_2002, pol_3003, commit_recheck
<1>4. Opens(opening, S)
  <2>1. opening \in Seq(S) /\ Len(opening) = 10
    BY <1>1, <1>2, LiteralLists
  <2> QED
    BY <1>2, <2>1 DEF Opens
<1>5. /\ unknown_and_invalid \in Seq(S) /\ pol_1001 \in Seq(S) /\ pol_2002 \in Seq(S)
      /\ pol_3003 \in Seq(S) /\ commit_recheck \in Seq(S)
  BY <1>1, <1>3, LiteralLists
<1>6. Opens(script, S)
  BY <1>4, <1>5, Continued DEF script
<1> QED
  BY <1>6, LenProperties DEF Opens

\* Each step with a request judges, and so does the first step.
LEMMA StepSets == /\ Exchanging \subseteq Judging /\ Judging \subseteq 1 .. Len(script)
                  /\ 1 \in Judging
BY Script DEF Exchanging, Judging

\* A step that becomes a past one counts if it is among those counted.
LEMMA Counting ==
  ASSUME NEW steps \in {Exchanging, Judging}
  PROVE  /\ Cardinality(steps) \in Nat
         /\ Cardinality(Past(steps, 1)) = 0
         /\ Past(steps, Len(script) + 1) = steps
         /\ \A n \in 1 .. Len(script) + 1 :
              /\ Cardinality(Past(steps, n)) \in Nat
              /\ Cardinality(Past(steps, n)) <= Cardinality(steps)
              /\ Cardinality(Past(steps, n + 1)) \in Nat
              /\ Cardinality(Past(steps, n + 1)) <= Cardinality(steps)
              /\ Cardinality(Past(steps, n + 1)) =
                   Cardinality(Past(steps, n)) + (IF n \in steps THEN 1 ELSE 0)
<1>1. /\ steps \in SUBSET (1 .. Len(script)) /\ Len(script) \in Nat
      /\ \A i \in steps : i \in Nat /\ 1 <= i /\ i < Len(script) + 1
  <2>1. steps \subseteq 1 .. Len(script) /\ Len(script) \in Nat
    BY StepSets, Script
  <2> QED
    BY <2>1
<1>2. IsFiniteSet(steps)
  <2>1. IsFiniteSet(1 .. Len(script))
    BY <1>1, FS_Interval
  <2> QED
    BY <1>1, <2>1, FS_Subset
<1>3. Past(steps, 1) = {} /\ Past(steps, Len(script) + 1) = steps
  <2>1. \A i \in steps : ~ (i < 1) /\ i < Len(script) + 1
    BY <1>1
  <2> QED
    BY <2>1 DEF Past
<1>4. ASSUME NEW n \in Nat
      PROVE  /\ IsFiniteSet(Past(steps, n))
             /\ Cardinality(Past(steps, n)) \in Nat
             /\ Cardinality(Past(steps, n)) <= Cardinality(steps)
  <2>1. Past(steps, n) \in SUBSET steps
    BY DEF Past
  <2> QED
    BY <1>2, <2>1, FS_Subset, FS_CardinalityType
<1>5. ASSUME NEW n \in 1 .. Len(script) + 1
      PROVE  Cardinality(Past(steps, n + 1)) =
               Cardinality(Past(steps, n)) + (IF n \in steps THEN 1 ELSE 0)
  <2>1. /\ n \in Nat /\ n \notin Past(steps, n)
        /\ \A i \in steps : i < n + 1 <=> i < n \/ i = n
    BY <1>1 DEF Past
  <2>2. CASE n \in steps
    <3>1. Past(steps, n + 1) = Past(steps, n) \cup {n}
      BY <2>1, <2>2 DEF Past
    <3> QED
      BY <1>4, <2>1, <2>2, <3>1, FS_AddElement
  <2>3. CASE n \notin steps
    <3>1. Past(steps, n + 1) = Past(steps, n)
      BY <2>1, <2>3 DEF Past
    <3> QED
      BY <1>4, <2>1, <2>3, <3>1
  <2> QED
    BY <2>2, <2>3
<1> QED
  BY <1>1, <1>2, <1>3, <1>4, <1>5, FS_EmptySet, FS_CardinalityType

\* What kind of step the script is at.
LEMMA AtStep ==
  ASSUME NEW kind, Step(kind)
  PROVE  /\ place = "running" /\ at \in 1 .. Len(script)
         /\ at \in Exchanging <=> kind \in {"fetch", "call"}
         /\ at \in Judging <=> kind \notin {"snapshot", "advance", "cancel"}
BY Script DEF Step, Exchanging, Judging

-----------------------------------------------------------------------------
(* One request at a time.                                                  *)

\* A call moves its own thread, and holds the lock while it changes the store.
LEMMA RunMoves ==
  ASSUME DOMAIN task = Workers, NEW w \in Workers, Run(w)
  PROVE  /\ task[w] # Idle
         /\ DOMAIN task' = Workers
         /\ \A other \in Workers \ {w} : task'[other] = task[other]
         /\ lock' = IF task'[w].step \in {"proposing", "applying"} THEN w ELSE Nobody
<1>1. ASSUME NEW result, NEW op, Enters(w, op), Answer(w, result)
      PROVE  /\ task[w] # Idle /\ DOMAIN task' = Workers /\ lock' = Nobody
             /\ \A other \in Workers \ {w} : task'[other] = task[other]
             /\ task'[w].step = "returned"
  BY <1>1 DEF Enters, Answer, Returned, Idle
<1>2. CASE Lookup(w)
  BY <1>1, <1>2 DEF Lookup
<1>3. CASE ProposeRefused(w)
  BY <1>1, <1>3 DEF ProposeRefused
<1>4. CASE CommitAnswered(w)
  BY <1>1, <1>4 DEF CommitAnswered
<1>5. CASE ProposeChecked(w)
  BY <1>5 DEF ProposeChecked, Enters, Idle
<1>6. CASE CommitChecked(w)
  BY <1>6 DEF CommitChecked, Enters, Idle
<1>7. CASE ProposeStored(w)
  BY <1>7 DEF ProposeStored, Returned, Idle
<1>8. CASE ProposeRaised(w)
  BY <1>8 DEF ProposeRaised, Returned, Idle
<1>9. CASE CommitStored(w)
  BY <1>9 DEF CommitStored, Returned, Idle
<1>10. CASE CommitRaised(w)
  BY <1>10 DEF CommitRaised, Returned, Idle
<1> QED
  BY <1>2, <1>3, <1>4, <1>5, <1>6, <1>7, <1>8, <1>9, <1>10 DEF Run

\* No step leaves two requests, or one while the main thread acts.
LEMMA RequestStep == ASSUME SuiteInv, SuiteNext PROVE OneRequest'
<1>0. SuiteTypeOK /\ OneRequest
  BY DEF SuiteInv
<1> USE <1>0 DEF SuiteTypeOK, OneRequest
<1>1. CASE StartRun
  BY <1>1 DEF StartRun
<1>2. CASE LoadFixture \/ ServerStarted \/ StartFails
  BY <1>2 DEF LoadFixture, ServerStarted, StartFails, GoTo, Ends, Raises, vars
<1>3. CASE JudgeAlone \/ TakeSnapshot \/ JudgeSnapshot
  BY <1>3 DEF JudgeAlone, TakeSnapshot, JudgeSnapshot, Step, Next_step, GoTo, vars
<1>4. CASE MoveClock \/ CancelPolicy
  BY <1>4 DEF MoveClock, CancelPolicy, ReplaceStatus, Step, Next_step, GoTo
<1>5. CASE ContractFails \/ TimeOut
  BY <1>5 DEF ContractFails, TimeOut, Raises, vars
<1>6. CASE Send
  BY <1>6 DEF Send, Step, vars
<1>7. CASE CasesDone \/ StopServer \/ GitStatus
  BY <1>7 DEF CasesDone, StopServer, GitStatus, GoTo, vars
<1>8. CASE GitHead \/ WriteSummary \/ WriteExchanges \/ Judged
  BY <1>8 DEF GitHead, WriteSummary, WriteExchanges, Judged, Ends, vars
<1>9. CASE CopySummary \/ CopyExchanges \/ CutShort
  BY <1>9 DEF CopySummary, CopyExchanges, CutShort, Ends, vars
<1>10. CASE AnswerFetch
  BY <1>10 DEF AnswerFetch, Record, vars
<1>11. ASSUME NEW w \in Workers, TakeCall(w)
       PROVE  OneRequest'
  <2>1. /\ DOMAIN task' = Workers /\ task'[w].step = "called" /\ lock' = lock
        /\ \A other \in Workers \ {w} : task'[other] = task[other]
    BY <1>11 DEF TakeCall, Receive
  <2>2. wire = "sent" /\ wire' = "none" /\ place' = place
    BY <1>11 DEF TakeCall
  <2> QED
    BY <2>1, <2>2
<1>12. ASSUME NEW w \in Workers, ServerRuns(w)
       PROVE  OneRequest'
  <2>1. Run(w) /\ place' = place /\ wire' = wire
    BY <1>12 DEF ServerRuns, suiteVars
  <2>2. place = "waiting" => \A other \in Workers \ {w} : task[other] = Idle
    BY <2>1, RunMoves
  <2> QED
    BY <2>1, <2>2, RunMoves
<1>13. ASSUME NEW w \in Workers, AnswerCall(w)
       PROVE  OneRequest'
  <2>1. /\ DOMAIN task' = Workers /\ task[w].step = "returned" /\ task'[w] = Idle
        /\ \A other \in Workers \ {w} : task'[other] = task[other]
        /\ lock' = lock /\ wire' = wire /\ task[w] # Idle
    BY <1>13 DEF AnswerCall, Respond, Idle
  <2>2. IF place = "waiting" THEN place' \in {"running", "stopping"} ELSE place' = place
    BY <1>13 DEF AnswerCall, Record, Raises
  <2>3. place = "waiting" =>
          wire = "none" /\ lock = Nobody /\ \A other \in Workers \ {w} : task[other] = Idle
    BY <2>1
  <2> QED
    BY <2>1, <2>2, <2>3
<1>14. CASE EditOrCommit
  BY <1>14 DEF EditOrCommit, vars
<1> QED
  BY <1>1, <1>2, <1>3, <1>4, <1>5, <1>6, <1>7, <1>8, <1>9, <1>10, <1>11, <1>12, <1>13, <1>14
     DEF SuiteNext, Main, Server

-----------------------------------------------------------------------------
(* Verdicts.                                                               *)

\* A value is not the absence of one.
LEMMA SomeIsNotNone == \A x : Some(x) # None
BY DEF Some, None

\* expect counts one case.
LEMMA Verdict ==
  ASSUME SuiteTypeOK, NEW actual, NEW expected, expect(actual, expected)
  PROVE  /\ recorder'.cases = recorder.cases + 1
         /\ recorder'.exchanges = recorder.exchanges
         /\ recorder.failed \/ actual # expected => recorder'.failed
BY DEF SuiteTypeOK, expect

\* An error is a failed verdict.
LEMMA Raised ==
  ASSUME SuiteTypeOK, NEW outside \in BOOLEAN, Raises(outside)
  PROVE  /\ place' = "stopping" /\ UNCHANGED <<at, fileVars, exit>>
         /\ recorder'.cases = recorder.cases + 1
         /\ recorder'.exchanges = recorder.exchanges
         /\ recorder'.failed
         /\ run' = [run EXCEPT !.trouble = TRUE, !.outside = outside]
         /\ run'.trouble /\ run'.outside = outside
         /\ run'.number = run.number /\ run'.promote = run.promote
         /\ run'.untouched = run.untouched /\ run'.code = run.code
<1>1. /\ place' = "stopping" /\ UNCHANGED <<at, fileVars, exit>>
      /\ expect("an error", "started")
      /\ run' = [run EXCEPT !.trouble = TRUE, !.outside = outside]
  BY DEF Raises
<1>2. recorder'.failed
  <2>1. recorder' = [recorder EXCEPT !.cases = @ + 1,
                                     !.failed = recorder.failed \/ "an error" # "started"]
    BY <1>1 DEF expect
  <2>2. "an error" # "started"
    OBVIOUS
  <2> QED
    BY <2>1, <2>2 DEF SuiteTypeOK
<1>3. /\ recorder'.cases = recorder.cases + 1
      /\ recorder'.exchanges = recorder.exchanges
  BY <1>1, Verdict
<1> QED
  BY <1>1, <1>2, <1>3 DEF SuiteTypeOK

\* A recorded answer counts one case and one exchange, and moves the script on.
LEMMA Recorded ==
  ASSUME SuiteTypeOK, NEW actual, NEW expected, Record(actual, expected)
  PROVE  /\ place' = "running" /\ at' = at + 1 /\ UNCHANGED <<run, fileVars, exit>>
         /\ recorder'.cases = recorder.cases + 1
         /\ recorder'.exchanges = recorder.exchanges + 1
         /\ recorder.failed => recorder'.failed
BY DEF SuiteTypeOK, Record

-----------------------------------------------------------------------------
(* Counting verdicts and exchanges.                                        *)

\* The counts follow the script.
LEMMA CountsStep == ASSUME SuiteInv, SuiteNext PROVE CountsAgree'
<1>0. SuiteTypeOK /\ CountsAgree
  BY DEF SuiteInv
<1>1. at \in 1 .. Len(script) + 1 /\ Len(script) \in Nat /\ at \in Nat
  BY <1>0, Script DEF SuiteTypeOK
<1>2. /\ Cardinality(Past(Exchanging, 1)) = 0
      /\ Cardinality(Past(Exchanging, at)) \in Nat
      /\ Cardinality(Past(Exchanging, at + 1)) =
           Cardinality(Past(Exchanging, at)) + (IF at \in Exchanging THEN 1 ELSE 0)
  BY <1>1, Counting
<1>3. /\ Cardinality(Past(Judging, 1)) = 0
      /\ Cardinality(Past(Judging, at)) \in Nat
      /\ Cardinality(Past(Judging, at + 1)) \in Nat
      /\ Cardinality(Past(Judging, at + 1)) =
           Cardinality(Past(Judging, at)) + (IF at \in Judging THEN 1 ELSE 0)
  BY <1>1, Counting
<1>4. Exchanging \subseteq Judging /\ 1 \in Judging
  BY StepSets
<1>5. recorder.cases \in Nat /\ recorder.exchanges \in Nat
  BY <1>0, <1>2, <1>3 DEF CountsAgree
<1> USE <1>0, <1>1 DEF CountsAgree
\* A step of the script is past.
<1>6. ASSUME at \in 1 .. Len(script), place = "running" \/ place = "waiting",
             place' = "running", at' = at + 1, UNCHANGED <<run, exit>>,
             recorder'.cases = recorder.cases + (IF at \in Judging THEN 1 ELSE 0),
             recorder'.exchanges = recorder.exchanges + (IF at \in Exchanging THEN 1 ELSE 0)
      PROVE  CountsAgree'
  BY <1>2, <1>3, <1>6
\* An error.
<1>7. ASSUME NEW outside \in BOOLEAN, Raises(outside), at \in Judging, ~ run.trouble
      PROVE  CountsAgree'
  <2>1. /\ place' = "stopping" /\ at' = at
        /\ recorder'.cases = recorder.cases + 1 /\ recorder'.exchanges = recorder.exchanges
        /\ recorder'.failed /\ run'.trouble
    BY <1>7, Raised
  <2> QED
    BY <1>3, <1>5, <1>7, <2>1
\* The main thread goes on after the cases.
<1>8. ASSUME place \notin {"idle", "loading", "starting", "running", "waiting", "exited"},
             place' \notin {"idle", "loading", "starting", "running", "waiting"},
             UNCHANGED <<at, recorder, run>>
      PROVE  CountsAgree'
  <2>1. exit # Some(1)
    BY <1>8, SomeIsNotNone DEF SuiteTypeOK
  <2> QED
    BY <1>8, <2>1
<1>9. CASE StartRun
  BY <1>2, <1>3, <1>9 DEF StartRun
<1>10. CASE LoadFixture \/ ServerStarted
  BY <1>10 DEF LoadFixture, ServerStarted, GoTo, Ends
<1>11. CASE StartFails
  BY <1>4, <1>7, <1>11 DEF StartFails
<1>12. CASE JudgeAlone \/ JudgeSnapshot
  <2>1. \E actual, expected : expect(actual, expected)
    BY <1>12 DEF JudgeAlone, JudgeSnapshot
  <2>2. place' = "running" /\ at' = at + 1 /\ UNCHANGED <<run, exit>>
    BY <1>12 DEF JudgeAlone, JudgeSnapshot, Next_step, GoTo
  <2>3. Step("judge") \/ Step("unmoved") \/ Step("covered")
    BY <1>12 DEF JudgeAlone, JudgeSnapshot
  <2>4. place = "running" /\ at \in 1 .. Len(script) /\ at \in Judging /\ at \notin Exchanging
    BY <2>3, AtStep
  <2> QED
    BY <1>5, <1>6, <2>1, <2>2, <2>4, Verdict
<1>13. CASE TakeSnapshot \/ MoveClock \/ CancelPolicy
  <2>1. place = "running" /\ at \in 1 .. Len(script) /\ at \notin Judging /\ at \notin Exchanging
    BY <1>13, AtStep DEF TakeSnapshot, MoveClock, CancelPolicy
  <2>2. place' = "running" /\ at' = at + 1 /\ UNCHANGED <<recorder, run, exit>>
    BY <1>13, <2>1 DEF TakeSnapshot, MoveClock, CancelPolicy, Next_step, GoTo
  <2> QED
    BY <1>5, <1>6, <2>1, <2>2
<1>14. CASE ContractFails
  <2>1. Step("judge") /\ Raises(TRUE)
    BY <1>14 DEF ContractFails
  <2>2. place = "running" /\ at \in Judging
    BY <2>1, AtStep
  <2>3. ~ run.trouble
    BY <1>4, <2>2
  <2> QED
    BY <1>7, <2>1, <2>2, <2>3
<1>15. CASE TimeOut
  BY <1>4, <1>7, <1>15 DEF TimeOut
<1>16. CASE Send
  BY <1>16, AtStep DEF Send
<1>17. CASE CasesDone
  BY <1>17 DEF CasesDone, GoTo
<1>18. CASE StopServer \/ GitStatus
  BY <1>8, <1>18 DEF StopServer, GitStatus, GoTo
<1>19. CASE GitHead \/ WriteSummary \/ WriteExchanges
  BY <1>8, <1>19 DEF GitHead, WriteSummary, WriteExchanges
<1>20. CASE Judged
  BY <1>8, <1>20 DEF Judged, Ends
<1>21. CASE CopySummary \/ CopyExchanges
  BY <1>8, <1>21 DEF CopySummary, CopyExchanges, Ends
<1>22. CASE CutShort
  BY <1>2, <1>3, <1>22 DEF CutShort, Ends, SuiteTypeOK
<1>23. CASE AnswerFetch
  <2>1. CASE place = "waiting"
    <3>1. Record(framework_status(script[at]), script[at].status)
      BY <1>23, <2>1 DEF AnswerFetch
    <3>2. at \in Judging /\ at \in Exchanging /\ at \in 1 .. Len(script)
      BY <1>4, <2>1, StepSets
    <3> QED
      BY <1>5, <1>6, <2>1, <3>1, <3>2, Recorded
  <2> QED
    BY <1>23, <2>1 DEF AnswerFetch
<1>24. ASSUME NEW w \in Workers, AnswerCall(w)
       PROVE  CountsAgree'
  <2>1. CASE place = "waiting"
    <3>1. Raises(FALSE) \/ Record(task[w].result, script[at].answer)
      BY <1>24, <2>1 DEF AnswerCall
    <3>2. at \in Judging /\ at \in Exchanging /\ at \in 1 .. Len(script)
      BY <1>4, <2>1, StepSets
    <3> QED
      BY <1>5, <1>6, <1>7, <2>1, <3>1, <3>2, Recorded
  <2> QED
    BY <1>24, <2>1 DEF AnswerCall
<1>25. CASE \E w \in Workers : TakeCall(w) \/ ServerRuns(w)
  BY <1>25 DEF TakeCall, ServerRuns, suiteVars
<1>26. CASE EditOrCommit
  BY <1>26 DEF EditOrCommit, SuiteTypeOK
<1> QED
  BY <1>9, <1>10, <1>11, <1>12, <1>13, <1>14, <1>15, <1>16, <1>17, <1>18, <1>19, <1>20,
     <1>21, <1>22, <1>23, <1>24, <1>25, <1>26
     DEF SuiteNext, Main, Server

-----------------------------------------------------------------------------
(* The files, and the commit they name.                                    *)

\* The files follow the recorder.
LEMMA FilesStep == ASSUME SuiteInv, SuiteNext PROVE FilesFollow'
<1>0. SuiteTypeOK /\ FilesFollow /\ ExampleIsEvidence
  BY DEF SuiteInv, FilesFollow
<1> USE <1>0 DEF FilesFollow, fileVars
\* Nothing is written before the verdicts are in.
<1>1. ASSUME place # "exited", UNCHANGED <<disk, example, exit>>,
             place' \in {"starting", "running", "waiting", "stopping", "asking_status",
                        "asking_head", "summarising"}
      PROVE  FilesFollow'
  <2>1. exit # Some(0)
    BY <1>1, SomeIsNotNone DEF SuiteTypeOK
  <2> QED
    BY <1>1, <2>1 DEF ExampleIsEvidence
<1>2. CASE StartRun
  <2>1. exit' # Some(0)
    BY <1>2, SomeIsNotNone DEF StartRun
  <2> QED
    BY <1>2, <2>1 DEF StartRun, ExampleIsEvidence
<1>3. CASE LoadFixture
  <2>1. CASE place' = "exited"
    BY <1>3, <2>1 DEF LoadFixture, GoTo, Ends, ExampleIsEvidence, Some
  <2> QED
    BY <1>1, <1>3, <2>1 DEF LoadFixture, GoTo, Ends
<1>4. CASE ServerStarted \/ JudgeAlone \/ TakeSnapshot \/ JudgeSnapshot
  BY <1>1, <1>4 DEF ServerStarted, JudgeAlone, TakeSnapshot, JudgeSnapshot, Step, Next_step, GoTo
<1>5. CASE MoveClock \/ CancelPolicy \/ Send \/ CasesDone
  BY <1>1, <1>5 DEF MoveClock, CancelPolicy, Send, CasesDone, Step, Next_step, GoTo
<1>6. CASE StartFails \/ ContractFails \/ TimeOut
  <2>1. place # "exited" /\ Raises(TRUE)
    BY <1>6 DEF StartFails, ContractFails, TimeOut, Step
  <2> QED
    BY <1>1, <2>1, Raised
<1>7. CASE StopServer \/ GitStatus \/ GitHead
  BY <1>1, <1>7 DEF StopServer, GitStatus, GitHead, GoTo
<1>8. CASE WriteSummary
  <2>1. exit' # Some(0)
    BY <1>8, SomeIsNotNone DEF WriteSummary, SuiteTypeOK
  <2>2. disk'.summary = Some(summary)'
    BY <1>8 DEF WriteSummary, summary
  <2> QED
    BY <1>8, <2>1, <2>2 DEF WriteSummary, ExampleIsEvidence
<1>9. CASE WriteExchanges
  <2>1. exit' # Some(0)
    BY <1>9, SomeIsNotNone DEF WriteExchanges, SuiteTypeOK
  <2>2. disk'.summary = Some(summary)' /\ disk'.exchanges = Some(exchanges)'
    BY <1>9 DEF WriteExchanges, summary, exchanges
  <2> QED
    BY <1>9, <2>1, <2>2 DEF WriteExchanges, ExampleIsEvidence
<1>10. CASE Judged
  <2>1. CASE recorder.failed \/ run.promote
    <3>1. exit' # Some(0)
      BY <1>10, <2>1, SomeIsNotNone DEF Judged, Ends, SuiteTypeOK, Some
    <3> QED
      BY <1>10, <2>1, <3>1 DEF Judged, Ends, summary, exchanges, ExampleIsEvidence
  <2>2. CASE ~ recorder.failed /\ ~ run.promote
    <3>1. ~ run.trouble /\ at = Len(script) + 1
      BY <1>10, <2>2, SomeIsNotNone DEF Judged, SuiteInv, CountsAgree, SuiteTypeOK
    <3> QED
      BY <1>10, <2>2, <3>1 DEF Judged, Ends, summary, exchanges, ExampleIsEvidence
  <2> QED
    BY <2>1, <2>2
<1>11. CASE CopySummary \/ CopyExchanges
  <2>1. /\ ~ recorder.failed /\ run.promote /\ ~ run.trouble /\ at = Len(script) + 1
        /\ disk.summary = Some(summary) /\ disk.exchanges = Some(exchanges)
        /\ UNCHANGED <<disk, recorder, run, commit_id, at>>
    BY <1>11, SomeIsNotNone DEF CopySummary, CopyExchanges, SuiteInv, CountsAgree, SuiteTypeOK
  <2>2. Whole(summary) /\ exchanges.exchange_count = Cardinality(Exchanging)
    BY <2>1, Counting DEF SuiteInv, CountsAgree, Whole, summary, exchanges
  <2>3. CASE CopySummary
    <3>1. exit' # Some(0)
      BY <2>3, SomeIsNotNone DEF CopySummary, SuiteTypeOK
    <3> QED
      BY <2>1, <2>2, <2>3, <3>1 DEF CopySummary, summary, exchanges, ExampleIsEvidence, Some
  <2>4. CASE CopyExchanges
    <3>1. example' = [example EXCEPT !.exchanges = disk.exchanges] /\ example.summary = disk.summary
      BY <2>4 DEF CopyExchanges
    <3>2. example' = disk
      BY <3>1
    <3> QED
      BY <2>1, <2>2, <2>4, <3>2 DEF CopyExchanges, Ends, summary, exchanges, ExampleIsEvidence, Some
  <2> QED
    BY <1>11, <2>3, <2>4
\* What is torn is no evidence.
<1>12. CASE CutShort
  <2>1. exit' # Some(0) /\ place' = "exited"
    BY <1>12 DEF CutShort, Ends, Some
  <2>2. \/ disk' = disk
        \/ disk' = [disk EXCEPT !.summary = Torn]
        \/ disk' = [disk EXCEPT !.exchanges = Torn]
    BY <1>12 DEF CutShort
  <2>3. \/ example' = example
        \/ example' = [example EXCEPT !.summary = Torn]
        \/ example' = [example EXCEPT !.exchanges = Torn]
    BY <1>12 DEF CutShort
  <2> QED
    BY <2>1, <2>2, <2>3 DEF ExampleIsEvidence
<1>13. CASE AnswerFetch
  <2>1. CASE place = "waiting"
    BY <1>1, <1>13, <2>1, Recorded DEF AnswerFetch
  <2> QED
    BY <1>13, <2>1 DEF AnswerFetch, summary, exchanges, ExampleIsEvidence
<1>14. ASSUME NEW w \in Workers, AnswerCall(w)
       PROVE  FilesFollow'
  <2>1. CASE place = "waiting"
    <3>1. Raises(FALSE) \/ Record(task[w].result, script[at].answer)
      BY <1>14, <2>1 DEF AnswerCall
    <3> QED
      BY <1>1, <2>1, <3>1, Recorded, Raised
  <2> QED
    BY <1>14, <2>1 DEF AnswerCall, summary, exchanges, ExampleIsEvidence
<1>15. CASE \E w \in Workers : TakeCall(w) \/ ServerRuns(w)
  BY <1>15 DEF TakeCall, ServerRuns, suiteVars, summary, exchanges, ExampleIsEvidence
<1>16. CASE EditOrCommit
  BY <1>16 DEF EditOrCommit, SuiteTypeOK, summary, exchanges, ExampleIsEvidence
<1> QED
  BY <1>2, <1>3, <1>4, <1>5, <1>6, <1>7, <1>8, <1>9, <1>10, <1>11, <1>12, <1>13, <1>14,
     <1>15, <1>16
     DEF SuiteNext, Main, Server

\* The commit that is named follows HEAD.
LEMMA CommitStep == ASSUME SuiteInv, SuiteNext PROVE CommitFollows'
<1>0. SuiteTypeOK /\ CountsAgree /\ CommitFollows
  BY DEF SuiteInv
<1> USE <1>0 DEF SuiteTypeOK, CommitFollows, CommitIsWhatRan, fileVars, Some, None
<1>1. CASE StartRun
  BY <1>1 DEF StartRun
<1>2. CASE LoadFixture \/ ServerStarted \/ StartFails
  BY <1>2 DEF LoadFixture, ServerStarted, StartFails, GoTo, Ends, Raises, expect
<1>3. CASE JudgeAlone \/ JudgeSnapshot
  BY <1>3 DEF JudgeAlone, JudgeSnapshot, Step, Next_step, GoTo, expect
<1>4. CASE TakeSnapshot \/ MoveClock \/ CancelPolicy
  BY <1>4 DEF TakeSnapshot, MoveClock, CancelPolicy, Step, Next_step, GoTo
<1>5. CASE ContractFails \/ TimeOut
  BY <1>5 DEF ContractFails, TimeOut, Step, Raises, expect
<1>6. CASE Send \/ CasesDone \/ StopServer
  BY <1>6 DEF Send, CasesDone, StopServer, Step, GoTo
<1>7. CASE GitStatus \/ GitHead
  BY <1>7 DEF GitStatus, GitHead, GoTo, Clean
<1>8. CASE WriteSummary
  BY <1>8 DEF WriteSummary, summary
<1>9. CASE WriteExchanges
  BY <1>9 DEF WriteExchanges, exchanges
<1>10. CASE Judged
  BY <1>10 DEF Judged, Ends
<1>11. CASE CopySummary
  BY <1>11 DEF CopySummary
<1>12. CASE CopyExchanges
  BY <1>12 DEF CopyExchanges, Ends
<1>13. CASE CutShort
  <2>1. /\ place' = "exited" /\ commit_id' = commit_id
        /\ repo'.sources = repo.sources /\ repo'.head = repo.head
        /\ run'.untouched = run.untouched /\ run'.code = run.code
    BY <1>13 DEF CutShort, Ends
  <2>2. disk'.summary \in {disk.summary, Torn}
    <3>1. disk = [summary |-> disk.summary, exchanges |-> disk.exchanges]
      BY DEF SuiteInv, FilesFollow
    <3>2. \/ disk' = disk
          \/ disk' = [disk EXCEPT !.summary = Torn]
          \/ disk' = [disk EXCEPT !.exchanges = Torn]
      BY <1>13 DEF CutShort
    <3> QED
      BY <3>1, <3>2
  <2>3. place # "idle"
    BY <1>13 DEF CutShort
  <2> QED
    BY <2>1, <2>2, <2>3
<1>14. CASE AnswerFetch
  BY <1>14 DEF AnswerFetch, Record
<1>15. CASE \E w \in Workers : AnswerCall(w)
  BY <1>15 DEF AnswerCall, Record, Raises, expect
<1>16. CASE \E w \in Workers : TakeCall(w) \/ ServerRuns(w)
  BY <1>16 DEF TakeCall, ServerRuns, suiteVars
<1>17. CASE EditOrCommit
  BY <1>17 DEF EditOrCommit
<1> QED
  BY <1>1, <1>2, <1>3, <1>4, <1>5, <1>6, <1>7, <1>8, <1>9, <1>10, <1>11, <1>12, <1>13,
     <1>14, <1>15, <1>16, <1>17
     DEF SuiteNext, Main, Server

-----------------------------------------------------------------------------
(* The invariant.                                                          *)

\* With the counts in order the types stay.
LEMMA SuiteTypes == ASSUME SuiteInv, SuiteNext, CountsAgree' PROVE SuiteTypeOK'
<1>0. SuiteTypeOK /\ CountsAgree
  BY DEF SuiteInv
<1>1. at \in 1 .. Len(script) + 1 /\ Len(script) \in Nat
  BY <1>0, Script DEF SuiteTypeOK
<1>2. at' \in 1 .. Len(script) + 1
  <2>1. at' \in {at, 1} \/ (at' = at + 1 /\ at \in DOMAIN script)
    <3>1. \A w \in Workers : AnswerCall(w) => at' = at \/ (at' = at + 1 /\ place = "waiting")
      BY DEF AnswerCall, Record, Raises
    <3>2. AnswerFetch => at' = at \/ (at' = at + 1 /\ place = "waiting")
      BY DEF AnswerFetch, Record
    <3>3. place = "waiting" => at \in DOMAIN script
      BY <1>0 DEF CountsAgree, Exchanging
    <3>4. CASE Server
      BY <3>1, <3>2, <3>3, <3>4 DEF Server, TakeCall, ServerRuns, suiteVars
    <3> QED
      BY <3>4 DEF SuiteNext, Main, StartRun, LoadFixture, ServerStarted, StartFails, JudgeAlone,
         ContractFails, TakeSnapshot, JudgeSnapshot, MoveClock, CancelPolicy, Send, TimeOut,
         CasesDone, StopServer, GitStatus, GitHead, WriteSummary, WriteExchanges, Judged,
         CopySummary, CopyExchanges, CutShort, EditOrCommit, Step, Next_step, Raises
  <2> QED
    BY <1>1, <2>1, Script
<1>3. recorder'.exchanges \in 0 .. Cardinality(Exchanging)
  <2>1. /\ Cardinality(Past(Exchanging, at')) \in Nat /\ Cardinality(Exchanging) \in Nat
        /\ Cardinality(Past(Exchanging, at')) <= Cardinality(Exchanging)
    BY <1>2, Counting
  <2> QED
    BY <2>1 DEF CountsAgree
<1>4. recorder'.cases \in 0 .. Cardinality(Judging)
  <2>1. /\ Cardinality(Past(Judging, at')) \in Nat /\ Cardinality(Judging) \in Nat
        /\ Cardinality(Past(Judging, at')) <= Cardinality(Judging)
        /\ Cardinality(Past(Judging, at' + 1)) \in Nat
        /\ Cardinality(Past(Judging, at' + 1)) <= Cardinality(Judging)
    BY <1>2, Counting
  <2> QED
    BY <2>1 DEF CountsAgree
<1>5. place' \in {"idle", "loading"} => recorder'.cases = 0
  <2>1. place' \in {"idle", "loading"} => at' = 1 /\ ~ run'.trouble
    BY DEF CountsAgree
  <2> QED
    BY <2>1, Counting DEF CountsAgree
<1>6. recorder' \in [cases : {recorder'.cases}, exchanges : {recorder'.exchanges},
                     failed : BOOLEAN]
  <2>1. \/ recorder' = recorder
        \/ recorder' = [cases |-> 0, exchanges |-> 0, failed |-> FALSE]
        \/ \E actual, expected : expect(actual, expected) \/ Record(actual, expected)
    BY DEF SuiteNext, Main, Server, AnswerFetch, TakeCall, ServerRuns, AnswerCall, suiteVars,
       StartRun, LoadFixture, ServerStarted, StartFails, JudgeAlone, ContractFails,
       TakeSnapshot, JudgeSnapshot, MoveClock, CancelPolicy, Send, TimeOut, CasesDone,
       StopServer, GitStatus, GitHead, WriteSummary, WriteExchanges, Judged, CopySummary,
       CopyExchanges, CutShort, EditOrCommit, Raises
  <2>2. ASSUME NEW C, NEW E, NEW failed \in BOOLEAN,
               recorder' = [cases |-> C, exchanges |-> E, failed |-> failed]
        PROVE  recorder' \in [cases : {recorder'.cases}, exchanges : {recorder'.exchanges},
                              failed : BOOLEAN]
    BY ONLY <2>2
  <2>3. /\ recorder.failed \in BOOLEAN
        /\ recorder = [cases |-> recorder.cases, exchanges |-> recorder.exchanges,
                       failed |-> recorder.failed]
    BY <1>0 DEF SuiteTypeOK
  <2>4. CASE recorder' = recorder
    BY <2>2, <2>3, <2>4
  <2>5. CASE recorder' = [cases |-> 0, exchanges |-> 0, failed |-> FALSE]
    BY <2>2, <2>5
  <2>6. ASSUME NEW actual, NEW expected, expect(actual, expected) \/ Record(actual, expected)
        PROVE  recorder' \in [cases : {recorder'.cases}, exchanges : {recorder'.exchanges},
                              failed : BOOLEAN]
    <3> DEFINE failed == recorder.failed \/ actual # expected
    <3>1. failed \in BOOLEAN
      OBVIOUS
    <3>2. expect(actual, expected) =>
            recorder' = [recorder EXCEPT !.cases = recorder.cases + 1, !.failed = failed]
      BY DEF expect
    <3>3. Record(actual, expected) =>
            recorder' = [cases |-> recorder.cases + 1, exchanges |-> recorder.exchanges + 1,
                         failed |-> failed]
      BY DEF Record
    <3> HIDE DEF failed
    <3>4. expect(actual, expected) =>
            recorder' = [cases |-> recorder.cases + 1, exchanges |-> recorder.exchanges,
                         failed |-> failed]
      BY <2>3, <3>2
    <3> QED
      BY <2>2, <2>6, <3>1, <3>3, <3>4
  <2> QED
    BY <2>1, <2>4, <2>5, <2>6
<1>7. /\ run' \in [number : Nat, promote : BOOLEAN, code : Nat, trouble : BOOLEAN,
                   outside : BOOLEAN, untouched : BOOLEAN]
      /\ run'.outside => run'.trouble
  <2>1. \/ run' = run
        \/ \E outside \in BOOLEAN : run' = [run EXCEPT !.trouble = TRUE, !.outside = outside]
        \/ run' = [run EXCEPT !.untouched = FALSE]
        \/ \E promote \in BOOLEAN :
             run' = [number |-> run.number + 1, promote |-> promote, code |-> repo.sources,
                     trouble |-> FALSE, outside |-> FALSE, untouched |-> TRUE]
    BY DEF SuiteNext, Main, Server, AnswerFetch, TakeCall, ServerRuns, AnswerCall, suiteVars,
       StartRun, LoadFixture, ServerStarted, StartFails, JudgeAlone, ContractFails,
       TakeSnapshot, JudgeSnapshot, MoveClock, CancelPolicy, Send, TimeOut, CasesDone,
       StopServer, GitStatus, GitHead, WriteSummary, WriteExchanges, Judged, CopySummary,
       CopyExchanges, CutShort, EditOrCommit, Raises, Record, GoTo, Next_step
  <2>2. /\ run \in [number : Nat, promote : BOOLEAN, code : Nat, trouble : BOOLEAN,
                     outside : BOOLEAN, untouched : BOOLEAN]
        /\ run.outside => run.trouble
        /\ repo.sources \in Nat /\ run.number + 1 \in Nat
    BY <1>0 DEF SuiteTypeOK
  <2>3. CASE \E promote \in BOOLEAN :
               run' = [number |-> run.number + 1, promote |-> promote, code |-> repo.sources,
                       trouble |-> FALSE, outside |-> FALSE, untouched |-> TRUE]
    BY <2>2, <2>3
  <2> QED
    BY <2>1, <2>2, <2>3
<1>8. repo' \in [sources : Nat, head : Nat, evidence : BOOLEAN]
  <2>1. CASE repo' = repo
    BY <1>0, <2>1 DEF SuiteTypeOK
  <2>2. CASE CutShort
    BY <1>0, <2>2 DEF CutShort, SuiteTypeOK
  <2>3. CASE EditOrCommit
    <3>1. /\ repo.sources + 1 \in Nat /\ repo.sources \in Nat
          /\ repo \in [sources : Nat, head : Nat, evidence : BOOLEAN]
      BY <1>0 DEF SuiteTypeOK
    <3>2. \/ repo' = [repo EXCEPT !.sources = repo.sources + 1]
          \/ repo' = [repo EXCEPT !.head = repo.sources, !.evidence = FALSE]
      BY <2>3 DEF EditOrCommit
    <3> QED
      BY <3>1, <3>2
  <2>4. CASE CopySummary
    BY <1>0, <2>4 DEF CopySummary, SuiteTypeOK
  <2> QED
    BY <2>1, <2>2, <2>3, <2>4
       DEF SuiteNext, Main, Server, AnswerFetch, TakeCall, ServerRuns, AnswerCall, suiteVars,
       fileVars, StartRun, LoadFixture, ServerStarted, StartFails, JudgeAlone, ContractFails,
       TakeSnapshot, JudgeSnapshot, MoveClock, CancelPolicy, Send, TimeOut, CasesDone,
       StopServer, GitStatus, GitHead, WriteSummary, WriteExchanges, Judged, CopyExchanges,
       Raises, Record, GoTo, Next_step
<1>9. /\ place' \in {"idle", "loading", "starting", "running", "waiting", "stopping",
                     "asking_status", "asking_head", "summarising", "writing", "judging",
                     "promoting", "promoting_exchanges", "exited"}
      /\ wire' \in {"none", "sent"}
      /\ exit' # None <=> place' = "exited"
      /\ exit' \in {None, Some(0), Some(1)}
  BY <1>0, SomeIsNotNone
     DEF SuiteNext, Main, Server, AnswerFetch, TakeCall, ServerRuns, AnswerCall, suiteVars,
     StartRun, LoadFixture, ServerStarted, StartFails, JudgeAlone, ContractFails,
     TakeSnapshot, JudgeSnapshot, MoveClock, CancelPolicy, Send, TimeOut, CasesDone,
     StopServer, GitStatus, GitHead, WriteSummary, WriteExchanges, Judged, CopySummary,
     CopyExchanges, CutShort, EditOrCommit, Raises, Record, GoTo, Next_step, Ends, Step,
     SuiteTypeOK
<1> QED
  BY <1>2, <1>3, <1>4, <1>5, <1>6, <1>7, <1>8, <1>9 DEF SuiteTypeOK

\* The invariant holds before the first run.
LEMMA SuiteStart == SuiteInit => SuiteInv
<1> SUFFICES ASSUME SuiteInit PROVE SuiteInv
  OBVIOUS
<1>1. /\ place = "idle" /\ at = 1 /\ wire = "none" /\ exit = None /\ commit_id = None
      /\ recorder = [cases |-> 0, exchanges |-> 0, failed |-> FALSE]
      /\ run = [number |-> 0, promote |-> FALSE, code |-> 1,
                trouble |-> FALSE, outside |-> FALSE, untouched |-> TRUE]
      /\ disk = [summary |-> None, exchanges |-> None]
      /\ example = [summary |-> None, exchanges |-> None]
  BY DEF SuiteInit
<1>2. repo \in [sources : Nat, head : Nat, evidence : BOOLEAN]
  <2>1. repo \in [sources : 1 .. MaxVersion, head : {1}, evidence : {FALSE}]
    BY DEF SuiteInit
  <2>2. PICK s \in 1 .. MaxVersion, h \in {1}, e \in {FALSE} :
          repo = [sources |-> s, head |-> h, evidence |-> e]
    BY <2>1, Zenon
  <2>3. s \in Nat /\ h \in Nat /\ e \in BOOLEAN
    BY SuiteAssumption, <2>2
  <2> QED
    BY <2>2, <2>3
<1>3. task = [w \in Workers |-> Idle] /\ lock = Nobody
  BY DEF SuiteInit, Init
<1>4. /\ Cardinality(Judging) \in Nat /\ Cardinality(Exchanging) \in Nat
      /\ Cardinality(Past(Judging, 1)) = 0 /\ Cardinality(Past(Exchanging, 1)) = 0
  BY Counting
<1>5. SuiteTypeOK
  BY <1>1, <1>2, <1>4, Script DEF SuiteTypeOK, None
<1>6. OneRequest
  BY <1>1, <1>3 DEF OneRequest
<1>7. CountsAgree
  BY <1>1, <1>4 DEF CountsAgree
<1>8. FilesFollow /\ CommitFollows
  BY <1>1, SomeIsNotNone DEF FilesFollow, CommitFollows, ExampleIsEvidence, CommitIsWhatRan
<1> QED
  BY <1>5, <1>6, <1>7, <1>8 DEF SuiteInv

\* A step that changes nothing the suite or the server has.
LEMMA SuiteStutters == SuiteInv /\ UNCHANGED allSuiteVars => SuiteInv'
<1> SUFFICES ASSUME SuiteInv, UNCHANGED allSuiteVars PROVE SuiteInv'
  OBVIOUS
<1>1. /\ UNCHANGED <<task, lock>> /\ UNCHANGED <<place, at, wire, recorder, run>>
      /\ UNCHANGED <<commit_id, disk, example, repo, exit>>
  BY DEF allSuiteVars, suiteVars, vars
<1>2. SuiteTypeOK'
  BY <1>1 DEF SuiteInv, SuiteTypeOK
<1>3. OneRequest'
  BY <1>1 DEF SuiteInv, OneRequest
<1>4. CountsAgree'
  BY <1>1 DEF SuiteInv, CountsAgree
<1>5. FilesFollow' /\ CommitFollows'
  BY <1>1 DEF SuiteInv, FilesFollow, CommitFollows, ExampleIsEvidence, CommitIsWhatRan,
              summary, exchanges
<1> QED
  BY <1>2, <1>3, <1>4, <1>5 DEF SuiteInv

-----------------------------------------------------------------------------
(* The theorems.                                                           *)

\* Every reachable state of the suite has the counts, the files, the commit and the
\* one request that go together (api_suite.py, _run_cases and run_api_suite).
THEOREM SuiteInductive == SuiteSpec => []SuiteInv
<1>1. SuiteInv /\ [SuiteNext]_allSuiteVars => SuiteInv'
  <2> SUFFICES ASSUME SuiteInv, SuiteNext PROVE SuiteInv'
    BY SuiteStutters
  <2> QED
    BY RequestStep, CountsStep, FilesStep, CommitStep, SuiteTypes DEF SuiteInv
<1> QED
  BY SuiteStart, <1>1, PTL DEF SuiteSpec

\* While the suite reads the store, moves the clock or changes a policy without the
\* lock, no thread of the server has a call (store.py, snapshot).
THEOREM SuiteReadsAlone == SuiteSpec => []ReadsAlone
<1>1. SuiteInv => ReadsAlone
  BY DEF SuiteInv, OneRequest, ReadsAlone
<1> QED
  BY SuiteInductive, <1>1, PTL

\* A run that exits with 0 ran every case to its verdict and left both its files, and
\* what it promoted is what it wrote (api_suite.py, run_api_suite).
THEOREM SuccessComplete == SuiteSpec => []SuccessIsComplete
<1>1. SuiteInv => SuccessIsComplete
  <2> SUFFICES ASSUME SuiteInv, exit = Some(0) PROVE SuccessIsComplete
    BY DEF SuccessIsComplete
  <2>1. /\ ~ recorder.failed /\ ~ run.trouble /\ at = Len(script) + 1
        /\ disk.summary = Some(summary) /\ disk.exchanges = Some(exchanges)
        /\ run.promote => example = disk
    BY DEF SuiteInv, FilesFollow
  <2>2. Whole(summary) /\ summary.run = run.number
    BY <2>1, Counting DEF SuiteInv, CountsAgree, Whole, summary
  <2>3. disk.summary # None /\ disk.summary[1] = summary
    BY <2>1, SomeIsNotNone DEF Some
  <2> QED
    BY <2>1, <2>2, <2>3 DEF SuccessIsComplete
<1> QED
  BY SuiteInductive, <1>1, PTL

\* Wherever a promotion is cut short, a whole file of the tracked example is that of
\* a run that passed every case (api_suite.py, the copies of --promote).
THEOREM EvidenceIsEarned == SuiteSpec => []ExampleIsEvidence
<1>1. SuiteInv => ExampleIsEvidence
  BY DEF SuiteInv, FilesFollow
<1> QED
  BY SuiteInductive, <1>1, PTL

\* The commit that a summary names is the code that ran, if the repository was left
\* alone during the run (artifacts.py, git_commit).
THEOREM CommitRan == SuiteSpec => []CommitIsWhatRan
<1>1. SuiteInv => CommitIsWhatRan
  BY DEF SuiteInv, CommitFollows, CommitIsWhatRan
<1> QED
  BY SuiteInductive, <1>1, PTL
=============================================================================
