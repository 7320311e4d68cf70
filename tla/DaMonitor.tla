------------------------------ MODULE DaMonitor ------------------------------
(***************************************************************************)
(* The integration test as a delivery gate: the build commands of          *)
(* configuration/awscsdk-buildspec-test.yml start the application in the   *)
(* background, start a Device Advisor suite run and call                   *)
(* scripts/da-monitor.sh, which polls the run until it knows the verdict.  *)
(* The suite run and the application are actors of their own.              *)
(***************************************************************************)
EXTENDS Naturals

VARIABLES
    build,           \* the build command that runs, or how the build ended
    app,             \* the background process of line 17
    suite,           \* the status of the suite run, kept by the service
    statusFile,      \* ${STATUS_FILE}; "" when the call that fills it failed
    monitor,         \* where da-monitor.sh stands
    IN_PROGRESS, MONITOR_STATUS

vars == <<build, app, suite, statusFile, monitor, IN_PROGRESS, MONITOR_STATUS>>

Verdicts == {"PASS", "FAIL", "PASS_WITH_WARNINGS", "ERROR"}
Statuses == Verdicts \cup {"PENDING", "RUNNING", "STOPPING", "STOPPED"}
------------------------------------------------------------------------------
(* The build.  A command that fails ends the build phase there. *)

StartApp ==
    /\ build = "app"
    /\ app' = "running"
    /\ build' = "start"
    /\ UNCHANGED <<suite, statusFile, monitor, IN_PROGRESS, MONITOR_STATUS>>

StartSuiteRun ==
    /\ build = "start"
    /\ \/ suite' = "PENDING" /\ monitor' = "fetch" /\ build' = "monitor"
       \/ build' = "failed" /\ UNCHANGED <<suite, monitor>>
    /\ UNCHANGED <<app, statusFile, IN_PROGRESS, MONITOR_STATUS>>

MonitorReturnsIgnored ==
    /\ build = "monitor"
    /\ monitor = "exited"
    /\ build' = "kill"
    /\ UNCHANGED <<app, suite, statusFile, monitor, IN_PROGRESS, MONITOR_STATUS>>

MonitorReturns ==
    /\ build = "monitor"
    /\ monitor = "exited"
    /\ build' = IF MONITOR_STATUS = 0 THEN "kill" ELSE "failed"
    /\ UNCHANGED <<app, suite, statusFile, monitor, IN_PROGRESS, MONITOR_STATUS>>

KillIfRunning ==
    /\ build = "kill"
    /\ app' = IF app = "running" THEN "killed" ELSE app
    /\ build' = "log"
    /\ UNCHANGED <<suite, statusFile, monitor, IN_PROGRESS, MONITOR_STATUS>>

\* kill fails when the process has ended by itself.
KillApp ==
    /\ build = "kill"
    /\ \/ app = "running" /\ app' = "killed" /\ build' = "log"
       \/ app = "ended" /\ build' = "failed" /\ UNCHANGED app
    /\ UNCHANGED <<suite, statusFile, monitor, IN_PROGRESS, MONITOR_STATUS>>

PrintLog ==
    /\ build = "log"
    /\ build' = "succeeded"
    /\ UNCHANGED <<app, suite, statusFile, monitor, IN_PROGRESS, MONITOR_STATUS>>

BuildOver == build \in {"succeeded", "failed"} /\ UNCHANGED vars
------------------------------------------------------------------------------
(* The actors the scripts wait for. *)

AppEnds ==
    /\ app = "running"
    /\ app' = "ended"
    /\ UNCHANGED <<build, suite, statusFile, monitor, IN_PROGRESS, MONITOR_STATUS>>

SuiteProceeds ==
    /\ \/ suite = "PENDING"  /\ suite' = "RUNNING"
       \/ suite = "RUNNING"  /\ suite' \in Verdicts
       \/ suite = "STOPPING" /\ suite' = "STOPPED"
    /\ UNCHANGED <<build, app, statusFile, monitor, IN_PROGRESS, MONITOR_STATUS>>

SuiteIsStopped ==
    /\ suite \in {"PENDING", "RUNNING"}
    /\ suite' = "STOPPING"
    /\ UNCHANGED <<build, app, statusFile, monitor, IN_PROGRESS, MONITOR_STATUS>>
------------------------------------------------------------------------------
(* da-monitor.sh *)

FetchSucceeds ==
    /\ monitor = "fetch"
    /\ statusFile' = suite
    /\ monitor' = "judge"
    /\ UNCHANGED <<build, app, suite, IN_PROGRESS, MONITOR_STATUS>>

\* The redirection has emptied the file; the script does not look at $?.
FetchFails ==
    /\ monitor = "fetch"
    /\ statusFile' = ""
    /\ monitor' = "judge"
    /\ UNCHANGED <<build, app, suite, IN_PROGRESS, MONITOR_STATUS>>

FailureStatusesNoStopped == {"FAIL", "STOPPING"}

FailureStatuses == {"FAIL", "STOPPING", "STOPPED"}

JudgeOthersPass ==
    /\ monitor = "judge"
    /\ IN_PROGRESS' = IF statusFile \in {"PENDING", "RUNNING"} THEN 1 ELSE 0
    /\ MONITOR_STATUS' = IF statusFile \in FailureStatuses THEN 1 ELSE 0
    /\ monitor' = IF IN_PROGRESS' = 1 THEN "sleep" ELSE "exited"
    /\ UNCHANGED <<build, app, suite, statusFile>>

\* The chain of tests on overall_status, and the test of the loop.
Judge ==
    /\ monitor = "judge"
    /\ IF statusFile \in FailureStatuses \cup {"PASS"}
       THEN /\ MONITOR_STATUS' = IF statusFile = "PASS" THEN 0 ELSE 1
            /\ IN_PROGRESS' = 0
            /\ monitor' = "exited"
       ELSE /\ monitor' = "sleep"
            /\ UNCHANGED <<IN_PROGRESS, MONITOR_STATUS>>
    /\ UNCHANGED <<build, app, suite, statusFile>>

SleepOver ==
    /\ monitor = "sleep"
    /\ monitor' = "fetch"
    /\ UNCHANGED <<build, app, suite, statusFile, IN_PROGRESS, MONITOR_STATUS>>
------------------------------------------------------------------------------
Init ==
    /\ build = "app" /\ app = "none"
    /\ suite = "none"
    /\ statusFile = ""
    /\ monitor = "none"
    /\ IN_PROGRESS = 1 /\ MONITOR_STATUS = 0

Monitor == FetchSucceeds \/ FetchFails \/ Judge \/ SleepOver
Build   == StartApp \/ StartSuiteRun \/ MonitorReturns \/ KillApp \/ PrintLog
Suite   == SuiteProceeds \/ SuiteIsStopped

Next == Build \/ BuildOver \/ AppEnds \/ Suite \/ Monitor

\* The scripts run, the service decides every run, and a call repeated for ever
\* gets through again and again.
Fairness == /\ WF_vars(Build) /\ WF_vars(SuiteProceeds) /\ WF_vars(Monitor)
            /\ SF_vars(FetchSucceeds)

Spec == Init /\ [][Next]_vars /\ Fairness
------------------------------------------------------------------------------
\* The variables keep their ranges.
TypeOK ==
    /\ build \in {"app", "start", "monitor", "kill", "log", "succeeded", "failed"}
    /\ app \in {"none", "running", "ended", "killed"}
    /\ suite \in Statuses \cup {"none"}
    /\ statusFile \in Statuses \cup {""}
    /\ monitor \in {"none", "fetch", "judge", "sleep", "exited"}
    /\ IN_PROGRESS \in {0, 1} /\ MONITOR_STATUS \in {0, 1}

\* The gate never opens for a run that has not passed: not on a failed poll, a
\* stale status file, or a run that somebody stops while it is being polled.
GateOpensOnPassOnly == build = "succeeded" => suite = "PASS"

\* "exit here with the related error code (PASS=0, FAIL=1)" (line 52): the exit
\* code agrees with what the run is by then, though the poll is older.
ExitCodeTellsVerdict ==
    monitor = "exited" =>
        /\ MONITOR_STATUS = 0 <=> suite = "PASS"
        /\ MONITOR_STATUS = 1 <=> suite \in FailureStatuses

\* An application that ends by itself, before the run is judged or between its
\* verdict and the kill of line 20, makes the build fail in the end, whatever
\* the verdict is: a test whose subject has died is never reported as passed.
EndedAppFailsBuild ==
    app = "ended" /\ suite \in {"PASS", "FAIL", "STOPPED"} ~> build = "failed"

\* A run that ends as PASS, FAIL or STOPPED is noticed, in spite of failed
\* polls, and ends the build.
HandledRunsEnd ==
    suite \in {"PASS", "FAIL", "STOPPED"} ~> build \in {"succeeded", "failed"}
==============================================================================
