--------------------------- MODULE DaMonitorProofs ---------------------------
(***************************************************************************)
(* Proofs about DaMonitor.tla: what the exit code of the script and the    *)
(* result of the build say about the suite run.                            *)
(***************************************************************************)
EXTENDS DaMonitor, TLAPS

\* A verdict read from the status file is still the verdict: it is stable.
FileIsStable ==
    monitor \in {"judge", "sleep", "exited"} =>
        /\ statusFile = "PASS" => suite = "PASS"
        /\ statusFile \in FailureStatuses => suite \in FailureStatuses

BuildFollowsMonitor ==
    /\ build \in {"app", "start"} => monitor = "none" /\ suite = "none"
    /\ build = "monitor" => monitor # "none"
    /\ monitor # "none" => suite # "none"
    /\ build \in {"kill", "log", "succeeded"} => monitor = "exited" /\ MONITOR_STATUS = 0
    /\ monitor # "exited" => MONITOR_STATUS = 0 /\ app # "killed"
    /\ app = "killed" => build \in {"log", "succeeded"}
    /\ build = "app" <=> app = "none"

IInv == TypeOK /\ FileIsStable /\ BuildFollowsMonitor /\ ExitCodeTellsVerdict

LEMMA Initially == Init => IInv
BY DEF Init, IInv, TypeOK, FileIsStable, BuildFollowsMonitor,
   ExitCodeTellsVerdict, Statuses, Verdicts, FailureStatuses

LEMMA BuildSteps == ASSUME IInv, Build \/ AppEnds \/ BuildOver PROVE IInv'
<1>1. CASE StartApp
  <2>1. TypeOK'
      BY <1>1 DEF StartApp, IInv, TypeOK, Statuses, Verdicts, BuildFollowsMonitor
  <2>2. FileIsStable' /\ ExitCodeTellsVerdict'
      BY <1>1 DEF StartApp, IInv, TypeOK, FileIsStable, ExitCodeTellsVerdict,
         BuildFollowsMonitor, FailureStatuses
  <2>3. BuildFollowsMonitor'
      BY <1>1 DEF StartApp, IInv, TypeOK, BuildFollowsMonitor
  <2> QED
      BY <2>1, <2>2, <2>3 DEF IInv
<1>2. CASE StartSuiteRun
  <2>1. TypeOK'
      BY <1>2 DEF StartSuiteRun, IInv, TypeOK, Statuses, Verdicts, BuildFollowsMonitor
  <2>2. FileIsStable' /\ ExitCodeTellsVerdict'
      BY <1>2 DEF StartSuiteRun, IInv, TypeOK, FileIsStable, ExitCodeTellsVerdict,
         BuildFollowsMonitor, FailureStatuses
  <2>3. BuildFollowsMonitor'
      BY <1>2 DEF StartSuiteRun, IInv, TypeOK, BuildFollowsMonitor
  <2> QED
      BY <2>1, <2>2, <2>3 DEF IInv
<1>3. CASE MonitorReturns
  <2>1. TypeOK'
      BY <1>3 DEF MonitorReturns, IInv, TypeOK, Statuses, Verdicts, BuildFollowsMonitor
  <2>2. FileIsStable' /\ ExitCodeTellsVerdict'
      BY <1>3 DEF MonitorReturns, IInv, TypeOK, FileIsStable, ExitCodeTellsVerdict,
         BuildFollowsMonitor, FailureStatuses
  <2>3. BuildFollowsMonitor'
      BY <1>3 DEF MonitorReturns, IInv, TypeOK, BuildFollowsMonitor
  <2> QED
      BY <2>1, <2>2, <2>3 DEF IInv
<1>4. CASE KillApp
  <2>1. TypeOK'
      BY <1>4 DEF KillApp, IInv, TypeOK, Statuses, Verdicts, BuildFollowsMonitor
  <2>2. FileIsStable' /\ ExitCodeTellsVerdict'
      BY <1>4 DEF KillApp, IInv, TypeOK, FileIsStable, ExitCodeTellsVerdict,
         BuildFollowsMonitor, FailureStatuses
  <2>3. BuildFollowsMonitor'
      BY <1>4 DEF KillApp, IInv, TypeOK, BuildFollowsMonitor
  <2> QED
      BY <2>1, <2>2, <2>3 DEF IInv
<1>5. CASE AppEnds
  <2>1. TypeOK'
      BY <1>5 DEF AppEnds, IInv, TypeOK, Statuses, Verdicts, BuildFollowsMonitor
  <2>2. FileIsStable' /\ ExitCodeTellsVerdict'
      BY <1>5 DEF AppEnds, IInv, TypeOK, FileIsStable, ExitCodeTellsVerdict,
         BuildFollowsMonitor, FailureStatuses
  <2>3. BuildFollowsMonitor'
      BY <1>5 DEF AppEnds, IInv, TypeOK, BuildFollowsMonitor
  <2> QED
      BY <2>1, <2>2, <2>3 DEF IInv
<1>6. CASE BuildOver
  <2>1. TypeOK'
      BY <1>6 DEF BuildOver, vars, IInv, TypeOK, Statuses, Verdicts, BuildFollowsMonitor
  <2>2. FileIsStable' /\ ExitCodeTellsVerdict'
      BY <1>6 DEF BuildOver, vars, IInv, TypeOK, FileIsStable, ExitCodeTellsVerdict,
         BuildFollowsMonitor, FailureStatuses
  <2>3. BuildFollowsMonitor'
      BY <1>6 DEF BuildOver, vars, IInv, TypeOK, BuildFollowsMonitor
  <2> QED
      BY <2>1, <2>2, <2>3 DEF IInv
<1>7. CASE PrintLog
  <2>1. TypeOK'
      BY <1>7 DEF PrintLog, IInv, TypeOK, Statuses, Verdicts, BuildFollowsMonitor
  <2>2. FileIsStable' /\ ExitCodeTellsVerdict'
      BY <1>7 DEF PrintLog, IInv, TypeOK, FileIsStable, ExitCodeTellsVerdict,
         BuildFollowsMonitor, FailureStatuses
  <2>3. BuildFollowsMonitor'
      BY <1>7 DEF PrintLog, IInv, TypeOK, BuildFollowsMonitor
  <2> QED
      BY <2>1, <2>2, <2>3 DEF IInv
<1> QED
    BY <1>1, <1>2, <1>3, <1>4, <1>5, <1>6, <1>7 DEF Build

LEMMA SuiteSteps == ASSUME IInv, Suite PROVE IInv'
<1>1. CASE SuiteProceeds
  <2>1. TypeOK'
      BY <1>1 DEF SuiteProceeds, IInv, TypeOK, Statuses, Verdicts, BuildFollowsMonitor
  <2>2. FileIsStable' /\ ExitCodeTellsVerdict'
      BY <1>1 DEF SuiteProceeds, IInv, TypeOK, FileIsStable, ExitCodeTellsVerdict,
         BuildFollowsMonitor, FailureStatuses
  <2>3. BuildFollowsMonitor'
      BY <1>1 DEF SuiteProceeds, IInv, TypeOK, BuildFollowsMonitor, Verdicts
  <2> QED
      BY <2>1, <2>2, <2>3 DEF IInv
<1>2. CASE SuiteIsStopped
  <2>1. TypeOK'
      BY <1>2 DEF SuiteIsStopped, IInv, TypeOK, Statuses, Verdicts, BuildFollowsMonitor
  <2>2. FileIsStable' /\ ExitCodeTellsVerdict'
      BY <1>2 DEF SuiteIsStopped, IInv, TypeOK, FileIsStable, ExitCodeTellsVerdict,
         BuildFollowsMonitor, FailureStatuses
  <2>3. BuildFollowsMonitor'
      BY <1>2 DEF SuiteIsStopped, IInv, TypeOK, BuildFollowsMonitor
  <2> QED
      BY <2>1, <2>2, <2>3 DEF IInv
<1> QED
    BY <1>1, <1>2 DEF Suite

LEMMA MonitorSteps == ASSUME IInv, Monitor PROVE IInv'
<1>1. CASE FetchSucceeds
  <2>1. TypeOK'
      BY <1>1 DEF FetchSucceeds, IInv, TypeOK, Statuses, Verdicts, BuildFollowsMonitor
  <2>2. FileIsStable' /\ ExitCodeTellsVerdict'
      BY <1>1 DEF FetchSucceeds, IInv, TypeOK, FileIsStable, ExitCodeTellsVerdict,
         BuildFollowsMonitor, FailureStatuses
  <2>3. BuildFollowsMonitor'
      BY <1>1 DEF FetchSucceeds, IInv, TypeOK, BuildFollowsMonitor
  <2> QED
      BY <2>1, <2>2, <2>3 DEF IInv
<1>2. CASE FetchFails
  <2>1. TypeOK'
      BY <1>2 DEF FetchFails, IInv, TypeOK, Statuses, Verdicts, BuildFollowsMonitor
  <2>2. FileIsStable' /\ ExitCodeTellsVerdict'
      BY <1>2 DEF FetchFails, IInv, TypeOK, FileIsStable, ExitCodeTellsVerdict,
         BuildFollowsMonitor, FailureStatuses
  <2>3. BuildFollowsMonitor'
      BY <1>2 DEF FetchFails, IInv, TypeOK, BuildFollowsMonitor
  <2> QED
      BY <2>1, <2>2, <2>3 DEF IInv
<1>3. CASE Judge
  <2>1. TypeOK'
      BY <1>3 DEF Judge, IInv, TypeOK, Statuses, Verdicts, BuildFollowsMonitor
  <2>2. FileIsStable' /\ ExitCodeTellsVerdict'
    <3>1. /\ statusFile = "PASS" => suite = "PASS"
          /\ statusFile \in FailureStatuses => suite \in FailureStatuses
        BY <1>3 DEF Judge, IInv, FileIsStable
    <3>2. /\ UNCHANGED <<suite, statusFile>>
          /\ monitor' = "exited" =>
                \/ statusFile = "PASS" /\ MONITOR_STATUS' = 0
                \/ statusFile \in FailureStatuses /\ MONITOR_STATUS' = 1
        BY <1>3 DEF Judge, FailureStatuses
    <3>3. "PASS" \notin FailureStatuses
        BY DEF FailureStatuses
    <3> QED
        BY <3>1, <3>2, <3>3 DEF FileIsStable, ExitCodeTellsVerdict
  <2>3. BuildFollowsMonitor'
      BY <1>3 DEF Judge, IInv, TypeOK, BuildFollowsMonitor
  <2> QED
      BY <2>1, <2>2, <2>3 DEF IInv
<1>4. CASE SleepOver
  <2>1. TypeOK'
      BY <1>4 DEF SleepOver, IInv, TypeOK, Statuses, Verdicts, BuildFollowsMonitor
  <2>2. FileIsStable' /\ ExitCodeTellsVerdict'
      BY <1>4 DEF SleepOver, IInv, TypeOK, FileIsStable, ExitCodeTellsVerdict,
         BuildFollowsMonitor, FailureStatuses
  <2>3. BuildFollowsMonitor'
      BY <1>4 DEF SleepOver, IInv, TypeOK, BuildFollowsMonitor
  <2> QED
      BY <2>1, <2>2, <2>3 DEF IInv
<1> QED
    BY <1>1, <1>2, <1>3, <1>4 DEF Monitor

LEMMA Invariance == Spec => []IInv
<1>1. IInv /\ UNCHANGED vars => IInv'
    BY DEF IInv, TypeOK, FileIsStable, BuildFollowsMonitor,
       ExitCodeTellsVerdict, vars
<1>2. IInv /\ [Next]_vars => IInv'
    BY <1>1, BuildSteps, SuiteSteps, MonitorSteps DEF Next
<1> QED
    BY <1>2, Initially, PTL DEF Spec
------------------------------------------------------------------------------
\* The exit code of da-monitor.sh is the verdict of the run, whatever polls
\* failed on the way and however old the last status is.
THEOREM ExitCodeIsVerdict == Spec => []ExitCodeTellsVerdict
<1>1. IInv => ExitCodeTellsVerdict
    BY DEF IInv
<1> QED
    BY <1>1, Invariance, PTL

\* The build succeeds only for a run that has passed.
THEOREM GateIsSound == Spec => []GateOpensOnPassOnly
<1>1. IInv => GateOpensOnPassOnly
    BY DEF IInv, BuildFollowsMonitor, ExitCodeTellsVerdict, GateOpensOnPassOnly
<1> QED
    BY <1>1, Invariance, PTL
==============================================================================
