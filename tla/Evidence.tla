------------------------------- MODULE Evidence -------------------------------
(***************************************************************************)
(* How the experiments come to a verdict: a sweep                          *)
(* (cxl_nic/integration_matrix.py, integration_gate_sweep.py) starts one   *)
(* process of cxl_nic/integration.py for each arm, which runs its cases    *)
(* one after the other; each case starts a server and a guest, and each    *)
(* level leaves a report in a directory of its own.  Any step may raise;   *)
(* processes may be interrupted or killed.                                 *)
(*                                                                         *)
(* What happens in a case is Integration; here it ends well or raises.     *)
(* Operating system, server and guest are external.                        *)
(***************************************************************************)
EXTENDS Naturals, Sequences

CONSTANTS
    CasesOf,         \* CasesOf[a]: the modes that arm a runs
    OwnCaches,       \* values of llc_owner = "qemu": the guest has an ingress too
    MaxAttempts,     \* bound on the runs of the sweep with one output
    MaxDisturbances  \* bound on interrupts, kills and failures of cleanup

ASSUME PlanAssumption == CasesOf \in Seq(Seq(STRING))

VARIABLES
    attempt,                               \* runs of the sweep so far
    sweep_attempt, main_attempt,           \* the runs that sweep and process are part of
    dirs, files,                           \* directories made, reports written
    sweep, arm, sweep_status,              \* the sweep
    main, case, cases, main_status, exit,  \* the process of an arm
    step, cleaning, case_status, raising,  \* its present case
    held, reachable,                       \* what the case holds; who listens
    proven,                                \* history: cases all of whose checks held
    disturbances, forced                   \* history: cleanup was cut off

disk == <<dirs, files>>
attempts == <<attempt, sweep_attempt, main_attempt>>
sweep_state == <<attempts, sweep, arm, sweep_status>>
main_state == <<main, case, cases, main_status, exit>>
case_state == <<step, cleaning, case_status, held, reachable>>
history == <<proven, disturbances, forced>>
evars == <<disk, sweep_state, main_state, case_state, raising, history>>

Arms == DOMAIN CasesOf

Output == <<>>
ArmOutput == <<arm>>
CaseOutput == <<arm, case>>

Expected(mode) == IF mode = "adversarial" THEN "passed" ELSE "expected_rejection"

EInit ==
    /\ attempt = 0 /\ sweep_attempt = 0 /\ main_attempt = 0
    /\ dirs = {} /\ files = {}
    /\ sweep = "off" /\ arm = 1 /\ sweep_status = "running"
    /\ main = "off" /\ case = 1 /\ cases = <<>> /\ main_status = "running" /\ exit = 0
    /\ step = "off" /\ cleaning = 1 /\ case_status = "running" /\ raising = "no"
    /\ held = {} /\ reachable = {} /\ proven = {}
    /\ disturbances = 0 /\ forced = FALSE

Report(path, status, list) ==
    [path |-> path, status |-> status, cases |-> list,
     attempt |-> IF path = Output THEN sweep_attempt ELSE main_attempt]

Written(report) == {f \in files : f.path # report.path} \cup {report}
--------------------------------------------------------------------------------
(* The sweep.                                                              *)

(* Mutant: mkdir with exist_ok.                                            *)
AnyDirectory(path) == TRUE

Fresh(path) == path \notin dirs

(* mkdir refuses a directory that exists, before anything is written. The  *)
(* process of an arm may have outlived the sweep that started it.          *)
StartSweep ==
    /\ sweep = "off" /\ attempt < MaxAttempts
    /\ attempt' = attempt + 1
    /\ IF Fresh(Output)
       THEN /\ dirs' = dirs \cup {Output} /\ sweep_attempt' = attempt'
            /\ sweep' = "arms" /\ arm' = 1 /\ sweep_status' = "running"
       ELSE UNCHANGED <<dirs, sweep_attempt, sweep, arm, sweep_status>>
    /\ UNCHANGED <<files, main_attempt, main_state, case_state, raising, history>>

StartArm ==
    /\ sweep = "arms" /\ main = "off" /\ arm \in Arms
    /\ IF Fresh(ArmOutput)
       THEN main' = "pins" /\ dirs' = dirs \cup {ArmOutput} /\ UNCHANGED exit
       ELSE main' = "exited" /\ exit' = 1 /\ UNCHANGED dirs
    /\ case' = 1 /\ cases' = <<>> /\ main_status' = "running"
    /\ main_attempt' = sweep_attempt
    /\ UNCHANGED <<files, attempt, sweep_attempt, sweep, arm, sweep_status, case_state, raising,
                   history>>

(* The output of the process is stored, then its exit status looked at.    *)
ArmReturns ==
    /\ sweep = "arms" /\ main = "exited"
    /\ main' = "off"
    /\ \E stored \in BOOLEAN :
        IF stored /\ exit = 0
        THEN arm' = arm + 1 /\ UNCHANGED <<sweep, sweep_status>>
        ELSE sweep' = "write" /\ sweep_status' = "failed" /\ UNCHANGED arm
    /\ UNCHANGED <<disk, attempts, case, cases, main_status, exit, case_state, raising, history>>

Loads(a) ==
    \E f \in files :
        /\ f.path = <<a>> /\ f.status = "passed"
        /\ f.cases = [c \in 1..Len(CasesOf[a]) |-> Expected(CasesOf[a][c])]

(* All reports of the arms are read, and the arms held against each other. *)
Compare ==
    /\ sweep = "arms" /\ arm \notin Arms
    /\ sweep' = "write"
    /\ \E matched \in BOOLEAN :
        sweep_status' = IF matched /\ \A a \in Arms : Loads(a) THEN "passed" ELSE "failed"
    /\ UNCHANGED <<disk, attempts, arm, main_state, case_state, raising, history>>

WriteComparison ==
    /\ sweep = "write"
    /\ files' = Written(Report(Output, sweep_status, <<>>))
    /\ sweep' = "off"
    /\ UNCHANGED <<dirs, attempts, arm, sweep_status, main_state, case_state, raising, history>>
--------------------------------------------------------------------------------
(* The process of an arm.                                                  *)

(* Mutant: the verdict is there before the cases are.                      *)
Presumed(status) == "passed"

AsIs(status) == status

(* An exception makes the report a failure; an interrupt is not an         *)
(* Exception and leaves its status alone.                                  *)
MainFails(how) ==
    /\ main' = "write" /\ raising' = how
    /\ main_status' = IF how = "error" THEN "failed" ELSE AsIs(main_status)

CheckPins ==
    /\ main = "pins"
    /\ \/ main' = "cases" /\ UNCHANGED <<main_status, raising>>
       \/ MainFails("error")
    /\ UNCHANGED <<disk, sweep_state, case, cases, exit, case_state, history>>

(* Making the directory, finding a free port and opening the log come      *)
(* before the try clause: what is raised there leaves no report.           *)
StartCase ==
    /\ main = "cases" /\ step = "off" /\ case <= Len(CasesOf[arm])
    /\ \/ /\ dirs' = dirs \cup {CaseOutput}
          /\ step' = "server" /\ cleaning' = 1 /\ case_status' = "running"
          /\ held' = {"log"} /\ reachable' = {}
          /\ UNCHANGED <<main, main_status, raising>>
       \/ /\ dirs' \in {dirs, dirs \cup {CaseOutput}}
          /\ MainFails("error")
          /\ UNCHANGED case_state
    /\ UNCHANGED <<files, sweep_state, case, cases, exit, history>>

FinishMain ==
    /\ main = "cases" /\ step = "off" /\ case > Len(CasesOf[arm])
    /\ main_status' = "passed" /\ main' = "write"
    /\ UNCHANGED <<disk, sweep_state, case, cases, exit, case_state, raising, history>>

WriteMain ==
    /\ main = "write"
    /\ files' = Written(Report(ArmOutput, main_status, cases))
    /\ main' = "exited" /\ exit' = IF raising = "no" THEN 0 ELSE 1
    /\ raising' = "no"
    /\ UNCHANGED <<dirs, sweep_state, case, cases, main_status, case_state, history>>
--------------------------------------------------------------------------------
(* A case.                                                                 *)

Trying ==
    step \in {"server", "connect", "configure", "guest", "output", "ingress", "loop", "checks"}

Step(from, to, more) ==
    /\ step = from /\ step' = to
    /\ held' = held \cup more
    /\ UNCHANGED <<disk, sweep_state, main_state, cleaning, case_status, reachable, raising,
                   history>>

StartServer == Step("server", "connect", {"server"})

Connect == "server" \in reachable /\ Step("connect", "configure", {"client"})

Configure == Step("configure", "guest", {})

StartGuest == Step("guest", "output", {"guest"})

OpenOutput ==
    \E own \in OwnCaches : Step("output", IF own THEN "ingress" ELSE "loop", {"output"})

ConnectIngress == "guest" \in reachable /\ Step("ingress", "loop", {"cache_client"})

(* The processes come to listen, or not.                                   *)
Listens ==
    /\ \E p \in held \cap {"server", "guest"} : p \notin reachable /\ reachable' = reachable \cup {p}
    /\ UNCHANGED <<disk, sweep_state, main_state, step, cleaning, case_status, held, raising,
                   history>>

RunLoop ==
    /\ step = "loop"
    /\ step' = "checks" /\ case_status' = Expected(CasesOf[arm][case])
    /\ UNCHANGED <<disk, sweep_state, main_state, cleaning, held, reachable, raising, history>>

ChecksHold == Step("checks", "cleanup", {})

(* Any step raises, the wait for a connection at its deadline.             *)
CaseRaises ==
    /\ Trying
    /\ raising' = "error" /\ case_status' = "failed"
    /\ step' = "cleanup"
    /\ UNCHANGED <<disk, sweep_state, main_state, cleaning, held, reachable, history>>

(* Mutant: the server is left to see that its client is gone.              *)
LeaveServer ==
    <<{"guest"}, {"output"}, {"client"}, {"cache_client"}, {}, {"log"}, {}, {}>>

(* The steps of the finally clause: what each lets go.                     *)
Cleanup ==
    <<{"guest"}, {"output"}, {"client"}, {"cache_client"}, {"server"}, {"log"}, {}, {}>>

LeaveCase(how) == step' = "off" /\ MainFails(how)

CleanUp ==
    /\ step = "cleanup" /\ cleaning < Len(Cleanup)
    /\ held' = held \ Cleanup[cleaning]
    /\ cleaning' = cleaning + 1
    /\ UNCHANGED <<disk, sweep_state, main_state, step, case_status, reachable, raising, history>>

(* The last of these steps writes the report.                              *)
WriteCase ==
    /\ step = "cleanup" /\ cleaning = Len(Cleanup)
    /\ files' = Written(Report(CaseOutput, case_status, <<>>))
    /\ IF raising = "no"
       THEN step' = "logs" /\ UNCHANGED <<main, main_status, raising>>
       ELSE LeaveCase(raising)
    /\ UNCHANGED <<dirs, sweep_state, case, cases, exit, cleaning, case_status, held, reachable,
                   history>>

(* Mutant: the report stays as it is.                                      *)
Kept(report) == files

Corrected(report) == Written(report)

CheckLogs ==
    /\ step = "logs"
    /\ \/ /\ step' = "off"
          /\ proven' = proven \cup {CaseOutput}
          /\ cases' = Append(cases, case_status) /\ case' = case + 1
          /\ UNCHANGED <<files, main, main_status, case_status, raising>>
       \/ /\ case_status' = "failed"
          /\ files' = Corrected(Report(CaseOutput, "failed", <<>>))
          /\ LeaveCase("error")
          /\ UNCHANGED <<case, cases, proven>>
    /\ UNCHANGED <<dirs, sweep_state, exit, cleaning, held, reachable, disturbances, forced>>
--------------------------------------------------------------------------------
(* Interrupts, kills, and steps of the cleanup that fail.                  *)

Disturb(cut) ==
    /\ disturbances < MaxDisturbances
    /\ disturbances' = disturbances + 1
    /\ forced' = (forced \/ cut)
    /\ UNCHANGED proven

Alive == main \in {"pins", "cases", "write"}

(* The rest of the finally clause is not run.                              *)
CleanupFails ==
    /\ step = "cleanup"
    /\ Disturb(TRUE)
    /\ LeaveCase("error")
    /\ UNCHANGED <<disk, sweep_state, case, cases, exit, cleaning, case_status, held, reachable>>

InterruptMain ==
    /\ main \in {"pins", "cases"}
    /\ IF Trying
       THEN /\ Disturb(FALSE)
            /\ raising' = "interrupt" /\ step' = "cleanup"
            /\ UNCHANGED <<main, main_status>>
       ELSE Disturb(step = "cleanup") /\ LeaveCase("interrupt")
    /\ UNCHANGED <<disk, sweep_state, case, cases, exit, cleaning, case_status, held, reachable>>

(* The report being written may be left in part.                           *)
Die ==
    /\ main' = "exited" /\ exit' = 1 /\ step' = "off" /\ raising' = "no"
    /\ \/ UNCHANGED files
       \/ main = "write" /\ files' = Written(Report(ArmOutput, "torn", <<>>))
       \/ step = "cleanup" /\ cleaning = Len(Cleanup)
          /\ files' = Written(Report(CaseOutput, "torn", <<>>))
    /\ UNCHANGED <<dirs, case, cases, main_status, cleaning, case_status, held, reachable>>

KillMain == Alive /\ Disturb(TRUE) /\ Die /\ UNCHANGED sweep_state

(* Interrupted while it waits for the process of an arm, the sweep gives   *)
(* it a moment and kills it.                                               *)
InterruptSweep ==
    /\ sweep = "arms"
    /\ Disturb(FALSE)
    /\ sweep' = IF main = "off" THEN "write" ELSE "reap"
    /\ UNCHANGED <<disk, attempts, arm, sweep_status, main_state, case_state, raising>>

Reap ==
    /\ sweep = "reap"
    /\ IF Alive
       THEN /\ Die /\ forced' = TRUE /\ UNCHANGED <<sweep, proven, disturbances>>
       ELSE /\ main' = "off" /\ sweep' = "write"
            /\ UNCHANGED <<disk, case, cases, main_status, exit, case_state, raising, history>>
    /\ UNCHANGED <<attempts, arm, sweep_status>>

(* The process of the arm goes on by itself, and nobody reads how it ended. *)
KillSweep ==
    /\ sweep # "off"
    /\ Disturb(FALSE)
    /\ sweep' = "off"
    /\ UNCHANGED <<disk, attempts, arm, sweep_status, main_state, case_state, raising>>

OrphanEnds ==
    /\ sweep = "off" /\ main = "exited"
    /\ main' = "off"
    /\ UNCHANGED <<disk, sweep_state, case, cases, main_status, exit, case_state, raising, history>>
--------------------------------------------------------------------------------
Sweep == StartArm \/ ArmReturns \/ Compare \/ WriteComparison \/ Reap

Main == CheckPins \/ StartCase \/ FinishMain \/ WriteMain \/ OrphanEnds

(* Mutant: the wait for a connection has no deadline.                      *)
Patient == step \notin {"connect", "ingress"} /\ CaseRaises

Raises == CaseRaises

Case ==
    \/ StartServer \/ Connect \/ Configure \/ StartGuest \/ OpenOutput
    \/ ConnectIngress \/ RunLoop \/ ChecksHold \/ Raises \/ CleanUp \/ WriteCase \/ CheckLogs

Disturbance == CleanupFails \/ InterruptMain \/ KillMain \/ InterruptSweep \/ KillSweep

ENext == StartSweep \/ Sweep \/ Main \/ Case \/ Listens \/ Disturbance

(* Each process goes on; the loop and each wait of a case has a deadline.  *)
ESpec ==
    EInit /\ [][ENext]_evars /\ WF_evars(Sweep) /\ WF_evars(Main) /\ WF_evars(Case)
--------------------------------------------------------------------------------
Holds(path, status) == \E f \in files : f.path = path /\ f.status = status

(* A report says passed only when everything under it was run, every check *)
(* held and each case ended as its mode has to, whatever was interrupted   *)
(* or killed (integration.py:731-741, integration_matrix.py:213-217).      *)
PassedMeansProven ==
    /\ \A a \in Arms : Holds(<<a>>, "passed") =>
        \A c \in 1..Len(CasesOf[a]) :
            <<a, c>> \in proven /\ Holds(<<a, c>>, Expected(CasesOf[a][c]))
    /\ Holds(Output, "passed") => \A a \in Arms : Holds(<<a>>, "passed")

(* The report of a case that is over says that it ended well just when all *)
(* checks held, the look at the log after the report was written included  *)
(* (integration.py:617-631); not so if the case was disturbed.             *)
CaseReportsHold ==
    disturbances = 0 =>
        \A a \in Arms : \A c \in 1..Len(CasesOf[a]) :
            step = "off" \/ <<a, c>> # CaseOutput =>
                (Holds(<<a, c>>, Expected(CasesOf[a][c])) <=> <<a, c>> \in proven)

(* When the processes are gone so are server, guest and connections,       *)
(* wherever a case raised or was interrupted before its cleanup            *)
(* (integration.py:606-615).                                               *)
LeftClean == sweep = "off" /\ main = "off" /\ ~forced => held = {}

(* "A fresh directory avoids mixing evidence from separate executions"     *)
(* (verify.py:185; integration.py:696, integration_matrix.py:196).         *)
OneExecution == \A f, g \in files : f.attempt = g.attempt

(* A sweep comes to its end though server and guest may never answer.      *)
SweepEnds == sweep # "off" ~> sweep = "off"
================================================================================
