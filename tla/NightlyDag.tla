------------------------------ MODULE NightlyDag ------------------------------
(***************************************************************************)
(* The nightly DAG as Airflow runs it: tasks in a chain, retries, trigger  *)
(* rules and the state of the run, with what the tasks leave behind for a  *)
(* reader: contract reports, their summary, the warehouse and the          *)
(* dashboard page.                                                         *)
(*                                                                         *)
(* A table, a mart or a report is abstracted to the night it was made in,  *)
(* a report also to its status.  The stream consumer, which the DAG does   *)
(* not run, writes the report of its own contract into the same directory. *)
(***************************************************************************)
EXTENDS Naturals, Sequences, FiniteSets

CONSTANTS
    None,        \* a file that does not exist, or is cut off and cannot be read
    ContractsOf, \* contracts each task enforces, in code order
    StreamContract, \* the contract the stream consumer enforces on every micro-batch
    Verdicts,    \* what a night's data can make of the batch contracts
    StreamSays,  \* statuses the stream contract can have
    MaxNights, MaxFaults  \* bounds on the environment

Chain == <<"ingest", "bronze", "silver", "gold", "export", "warehouse_load",
           "dbt_build", "dashboard", "contract_summary">>
Tasks == {Chain[i] : i \in 1 .. Len(Chain)}
Leaf == Chain[Len(Chain)]
Upstream(t) == {Chain[i] : i \in {j \in 1 .. Len(Chain) - 1 : Chain[j + 1] = t}}
RetriesOf == [t \in Tasks |-> IF t = "ingest" THEN 3 ELSE 1]

\* Mutant: contract_summary with the default trigger rule.
AllDoneNever == {}

\* Mutant: trigger_rule="all_done" on the dashboard as well.
AllDoneDashboardToo == {"dashboard", "contract_summary"}

\* Tasks with trigger_rule="all_done".
AllDone == {"contract_summary"}

BatchContracts == UNION {{ContractsOf[t][i] : i \in 1 .. Len(ContractsOf[t])} : t \in Tasks}
Contracts == BatchContracts \cup {StreamContract}

\* ContractReport.status: an error-severity check failed, only warn-severity ones did, none.
Statuses == {"FAILED", "PASSED_WITH_WARNINGS", "PASSED"}
Report == [night : Nat, status : Statuses]
Summary == [night : Nat, of : [Contracts -> Report \cup {None}], status : Statuses]

\* Only bronze, silver and gold call enforce().
ASSUME NightlyAssumption ==
    /\ DOMAIN ContractsOf = Tasks /\ \A t \in Tasks : Len(ContractsOf[t]) \in Nat
    /\ \A t \in Tasks \ {"bronze", "silver", "gold"} : ContractsOf[t] = <<>>
    /\ StreamContract \notin BatchContracts
    /\ Verdicts \subseteq [BatchContracts -> Statuses] /\ Verdicts # {}
    /\ StreamSays \subseteq Statuses
    /\ MaxNights \in Nat /\ MaxFaults \in Nat
    /\ None \notin Nat \cup Report \cup Summary

VARIABLES
    night,    \* number of the DAG run
    dagRun,   \* its state
    state,    \* state of each of its task instances
    attempt,  \* attempts of each task
    checked,  \* contracts the running task has enforced
    verdict,  \* what the night's data makes of each batch contract
    report,   \* reports/contracts/<contract>__latest.json
    summary,  \* reports/contract_summary.json
    served,   \* the night the warehouse's raw tables are of
    marts,    \* the night the dbt marts are of
    page,     \* the dashboard page: night of its numbers, contract summary it shows
    raised,   \* contracts that failed a task of this night
    pageBefore, \* the page when the night began
    faults    \* transient failures so far

files == <<report, summary, served, marts, page>>
vars == <<night, dagRun, state, attempt, checked, verdict, files, raised, pageBefore, faults>>

Ended == {"success", "failed", "upstream_failed"}
Init ==
    /\ night = 0 /\ dagRun = "none"
    /\ state = [t \in Tasks |-> "none"] /\ attempt = [t \in Tasks |-> 0]
    /\ checked = 0 /\ verdict \in Verdicts
    /\ report = [c \in Contracts |-> None]
    /\ summary = None /\ served = None /\ marts = None /\ page = None
    /\ raised = {} /\ pageBefore = None /\ faults = 0

-----------------------------------------------------------------------------
(* The scheduler *)

\* 03:00, one run at a time.
StartRun ==
    /\ dagRun # "running" /\ night < MaxNights
    /\ night' = night + 1 /\ dagRun' = "running"
    /\ state' = [t \in Tasks |-> "none"] /\ attempt' = [t \in Tasks |-> 0]
    /\ verdict' \in Verdicts
    /\ raised' = {} /\ pageBefore' = page
    /\ UNCHANGED <<checked, files, faults>>

Triggered(t) ==
    \A u \in Upstream(t) : state[u] \in IF t \in AllDone THEN Ended ELSE {"success"}

\* Mutant: a retry forgets the attempts before it.
BeginAfresh(t) ==
    /\ dagRun = "running" /\ state[t] = "none" /\ Triggered(t)
    /\ state' = [state EXCEPT ![t] = "running"]
    /\ attempt' = [attempt EXCEPT ![t] = 1]
    /\ checked' = 0
    /\ UNCHANGED <<night, dagRun, verdict, files, raised, pageBefore, faults>>

\* A task whose upstream task is done starts, again if it is up for retry.
Begin(t) ==
    /\ dagRun = "running" /\ state[t] = "none" /\ Triggered(t)
    /\ state' = [state EXCEPT ![t] = "running"]
    /\ attempt' = [attempt EXCEPT ![t] = @ + 1]
    /\ checked' = 0
    /\ UNCHANGED <<night, dagRun, verdict, files, raised, pageBefore, faults>>

Skip(t) ==
    /\ dagRun = "running" /\ state[t] = "none" /\ t \notin AllDone
    /\ \E u \in Upstream(t) : state[u] \in {"failed", "upstream_failed"}
    /\ state' = [state EXCEPT ![t] = "upstream_failed"]
    /\ UNCHANGED <<night, dagRun, attempt, checked, verdict, files, raised, pageBefore, faults>>

\* Airflow takes the state of the run from its leaves.
EndRun ==
    /\ dagRun = "running" /\ \A t \in Tasks : state[t] \in Ended
    /\ dagRun' = IF state[Leaf] = "success" THEN "success" ELSE "failed"
    /\ UNCHANGED <<night, state, attempt, checked, verdict, files, raised, pageBefore, faults>>

-----------------------------------------------------------------------------
(* The tasks *)

Retried(t) == attempt[t] <= RetriesOf[t]

\* The process exits non-zero.
Exit(t) == state' = [state EXCEPT ![t] = IF Retried(t) THEN "none" ELSE "failed"]

\* Mutant: an existing latest report is kept.
ReportOnce(c, status) ==
    report' = [report EXCEPT ![c] = IF @ = None THEN [night |-> night, status |-> status] ELSE @]

\* write_report, before validate raises.
WriteReport(c, status) == report' = [report EXCEPT ![c] = [night |-> night, status |-> status]]

\* Contracts the night's data breaks; a check of severity "warn" breaks none.
Broken == {c \in BatchContracts : verdict[c] = "FAILED"}

\* The running task enforces its next contract, with contracts.on_violation=fail.
Enforce(t) ==
    /\ state[t] = "running" /\ checked < Len(ContractsOf[t])
    /\ LET c == ContractsOf[t][checked + 1] IN
       /\ WriteReport(c, verdict[c])
       /\ checked' = checked + 1
       /\ IF c \in Broken THEN Exit(t) /\ raised' = raised \cup {c}
                          ELSE UNCHANGED <<state, raised>>
    /\ UNCHANGED <<night, dagRun, attempt, verdict, summary, served, marts, page, pageBefore,
                   faults>>

\* A consumer, run by hand at any time of any night, enforces its contract on a micro-batch:
\* the report is cut off while it is rewritten, or says what the batch made of the contract.
StreamReports ==
    /\ \E r \in {None} \cup [night : {night}, status : StreamSays] :
         report' = [report EXCEPT ![StreamContract] = r]
    /\ UNCHANGED <<night, dagRun, state, attempt, checked, verdict, summary, served, marts, page,
                   raised, pageBefore, faults>>

Shows(of, status) == \E c \in Contracts : of[c] # None /\ of[c].status = status

\* The worst status of the reports that can be read.
Worst(of) == IF Shows(of, "FAILED") THEN "FAILED"
             ELSE IF Shows(of, "PASSED_WITH_WARNINGS") THEN "PASSED_WITH_WARNINGS" ELSE "PASSED"

\* Every latest report there is, whichever run or process wrote it.
Summarised == [night |-> night, of |-> report, status |-> Worst(report)]

\* The summary the dashboard finds, or makes when there is none.
ContractSummary == IF summary = None THEN Summarised ELSE summary

\* What a task that succeeds leaves behind: the load, the marts, the page, the summary.
Leave(t) ==
    \/ t = "warehouse_load" /\ served' = night /\ UNCHANGED <<marts, summary, page>>
    \/ t = "dbt_build" /\ marts' = served /\ UNCHANGED <<served, summary, page>>
    \/ /\ t = "dashboard"
       /\ summary' = ContractSummary
       /\ page' = [numbers |-> marts, contracts |-> summary']
       /\ UNCHANGED <<served, marts>>
    \/ t = "contract_summary" /\ summary' = Summarised /\ UNCHANGED <<served, marts, page>>
    \/ /\ t \in {"ingest", "bronze", "silver", "gold", "export"}
       /\ UNCHANGED <<served, marts, summary, page>>

Succeed(t) ==
    /\ state[t] = "running" /\ checked = Len(ContractsOf[t])
    /\ Leave(t)
    /\ state' = [state EXCEPT ![t] = "success"]
    /\ UNCHANGED <<night, dagRun, attempt, checked, verdict, report, raised, pageBefore, faults>>

\* A download, an object-store write or the process fails.
Fault(t) ==
    /\ state[t] = "running" /\ faults < MaxFaults
    /\ faults' = faults + 1
    /\ Exit(t)
    /\ UNCHANGED <<night, dagRun, attempt, checked, verdict, files, raised, pageBefore>>

Scheduler == EndRun \/ \E t \in Tasks : Begin(t) \/ Skip(t) \/ Enforce(t) \/ Succeed(t)

Next == StartRun \/ Scheduler \/ StreamReports \/ \E t \in Tasks : Fault(t)

\* The scheduler and the tasks it starts keep going; no night has to begin, nothing has to
\* fail.
Spec == Init /\ [][Next]_vars /\ WF_vars(Scheduler)

-----------------------------------------------------------------------------
TypeOK ==
    /\ night \in 0 .. MaxNights
    /\ dagRun \in {"none", "running", "success", "failed"}
    /\ state \in [Tasks -> Ended \cup {"none", "running"}]
    /\ attempt \in [Tasks -> Nat] /\ \A t \in Tasks : attempt[t] <= 1 + RetriesOf[t]
    /\ checked \in Nat
    /\ verdict \in Verdicts /\ raised \subseteq Broken
    /\ report \in [Contracts -> Report \cup {None}]
    /\ served \in Nat \cup {None} /\ marts \in Nat \cup {None}
    /\ faults \in 0 .. MaxFaults

\* A night in which a contract raised ends with a summary of that night which says FAILED and
\* shows the breach, although every task between the breach and the summary was skipped
\* (streamlake_batch.py contract_summary).  The task's one retry absorbs one fault.
BreachReported ==
    dagRun \in {"success", "failed"} /\ raised # {} /\ faults <= RetriesOf["contract_summary"] =>
        /\ summary # None /\ summary.night = night /\ summary.status = "FAILED"
        /\ \A c \in raised : summary.of[c] = [night |-> night, status |-> "FAILED"]

\* When every task of a night succeeded, its summary shows what this night made of every batch
\* contract: no report of an earlier night or of a failed attempt lingers, none of this night's
\* warnings is lost, and only a failure of the stream consumer's own contract, of whatever
\* night, can make it FAILED.
CleanNightReported ==
    dagRun = "success" /\ (\A t \in Tasks : state[t] = "success") =>
        /\ summary.night = night
        /\ \A c \in BatchContracts :
             /\ summary.of[c] = [night |-> night, status |-> verdict[c]]
             /\ verdict[c] # "FAILED"
             /\ verdict[c] = "PASSED_WITH_WARNINGS" => summary.status # "PASSED"
        /\ summary.status = "FAILED" =>
             /\ summary.of[StreamContract] # None
             /\ summary.of[StreamContract].status = "FAILED"

\* A breach leaves the dashboard page, numbers and contract results alike, as it was
\* (streamlake_batch.py, "downstream tasks never start").
BreachFreezesPage == raised # {} => page = pageBefore

\* Every run ends: no breach, fault or skipped task leaves it hanging.
RunEnds == dagRun = "running" ~> dagRun # "running"

-----------------------------------------------------------------------------
(* What the documentation says and the code does not do. *)

\* contracts/engine.py:5: a breach "raises DataContractViolation, which fails the task, which
\* fails the Airflow DAG".
BreachFailsRun == dagRun = "success" => raised = {}
===============================================================================
