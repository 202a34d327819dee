------------------------------- MODULE Backup -------------------------------
(***************************************************************************)
(* The nightly backup (deploy/scripts/backup-volumes.sh), the systemd unit *)
(* that runs it and the metrics written after it (backup-metrics.sh), with *)
(* commands that fail, signals, SIGKILL and reboots in between.            *)
(* backup-postgres.sh is the same script for one archive and no service.   *)
(* A step is a command.  No run goes on past midnight.                     *)
(***************************************************************************)
EXTENDS Integers, Sequences, FiniteSetsExt

CONSTANTS
  Volumes,     (* The sequence VOLUMES.                                    *)
  Stopping,    (* Those whose service is stopped while they are copied.    *)
  Week,        (* Days in a week.                                          *)
  Month,       (* Days in a month.                                         *)
  KeepDaily,   (* Days an archive is kept in each of the directories.      *)
  KeepWeekly,
  KeepMonthly,
  MaxFaults,   (* Bound on what goes wrong.                                *)
  MaxDay       (* Bound on the calendar.                                   *)

ASSUME BackupAssumption ==
  /\ Len(Volumes) \in Nat \ {0}
  /\ DOMAIN Volumes = 1..Len(Volumes)
  /\ {Week, Month, KeepDaily, KeepWeekly, KeepMonthly} \subseteq Nat \ {0}
  /\ MaxFaults \in Nat
  /\ MaxDay \in Nat

VARIABLES
  day,      (* Today.                                                      *)
  faults,   (* What went wrong so far.                                     *)
  pc,       (* The command the run is at.                                  *)
  i,        (* Index of the volume it is at.                               *)
  asked,    (* STOPPED_SERVICE is set.                                     *)
  result,   (* What systemd says of the run, SERVICE_RESULT.               *)
  stopped,  (* The service is stopped.                                     *)
  tmp,      (* Temporary files.                                            *)
  files,    (* Archives, by directory.                                     *)
  metrics,  (* The metrics file.                                           *)
  excused,  (* The service is stopped for a reason no trap can see;        *)
            (* history.                                                    *)
  good,     (* Days whose last run succeeded; history.                     *)
  reported  (* Days of which node_exporter was told a success; history.    *)

run == <<pc, i, asked, result>>
disk == <<tmp, files>>
history == <<good, reported>>
vars == <<day, faults, run, stopped, excused, disk, metrics, history>>

Days == 0..MaxDay

Directories == {"daily", "weekly", "monthly"}

(* An archive that was cut short is not whole.                             *)
Archive == [vol : {Volumes[n] : n \in DOMAIN Volumes}, date : Days, whole : BOOLEAN]

(* Where there is no value the line is missing.                            *)
None == -1
Metrics == [lastRun : Days \cup {None}, success : BOOLEAN,
            lastSuccess : Days \cup {None}]

Init ==
  /\ day = 0
  /\ faults = 0
  /\ pc = "idle"
  /\ i = 1
  /\ asked = FALSE
  /\ result = "success"
  /\ stopped = FALSE
  /\ tmp = {}
  /\ files = [dir \in Directories |-> {}]
  /\ metrics = [lastRun |-> None, success |-> FALSE, lastSuccess |-> None]
  /\ excused = FALSE
  /\ good = {}
  /\ reported = {}

-----------------------------------------------------------------------------

vol == Volumes[i]

Sunday == day % Week = 0
FirstSunday == Sunday /\ day % Month < Week

(* A file with the name of this volume's archive of today takes the place  *)
(* of one that was there.                                                  *)
Written(set, whole) == {f \in set : f.vol # vol \/ f.date # day}
                         \cup {[vol |-> vol, date |-> day, whole |-> whole]}

Removed(set) == {f \in set : f.vol # vol \/ f.date # day}

Goto(command) == pc' = command /\ UNCHANGED <<i, asked, result>>

(* set -e, or the end of the script: the EXIT trap runs.                   *)
ExitWith(status) == pc' = "cleanup" /\ result' = status /\ UNCHANGED <<i, asked>>

Fault == faults < MaxFaults /\ faults' = faults + 1

(* A run of the day by the timer, or by hand after it.                     *)
Begin ==
  /\ pc = "idle"
  /\ pc' = "stop"
  /\ i' = 1
  /\ asked' = FALSE
  /\ result' = "success"
  /\ good' = good \ {day}
  /\ UNCHANGED <<day, faults, stopped, excused, disk, metrics, reported>>

files_ == <<day, disk, metrics, history>>

StopService ==
  /\ pc = "stop"
  /\ vol \in Stopping
  /\ stopped' = TRUE
  /\ asked' = TRUE
  /\ pc' = "dump"
  /\ UNCHANGED <<faults, i, result, excused, files_>>

NoService ==
  /\ pc = "stop"
  /\ vol \notin Stopping
  /\ Goto("dump")
  /\ UNCHANGED <<faults, stopped, excused, files_>>

(* compose stop fails, or a signal comes before STOPPED_SERVICE is set:    *)
(* the service may be down and the trap does not know.                     *)
StopFails ==
  /\ pc = "stop"
  /\ vol \in Stopping
  /\ Fault
  /\ \E down \in {stopped, TRUE} : stopped' = down /\ excused' = down
  /\ ExitWith("failure")
  /\ UNCHANGED files_

service == <<stopped, excused>>

(* The shell creates the file before the command writes to it.             *)
Dump ==
  /\ pc = "dump"
  /\ tmp' = Written(tmp, FALSE)
  /\ Goto("dumping")
  /\ UNCHANGED <<day, faults, service, files, metrics, history>>

(* A pipe that breaks without an error leaves a file that is not whole.    *)
Dumped ==
  /\ pc = "dumping"
  /\ \/ tmp' = Written(tmp, TRUE) /\ UNCHANGED faults
     \/ tmp' = Written(tmp, FALSE) /\ Fault
  /\ Goto("start")
  /\ UNCHANGED <<day, service, files, metrics, history>>

(* start_stopped_service: an error of compose start is ignored.            *)
Start ==
  IF asked
  THEN \/ stopped' = FALSE /\ excused' = FALSE /\ UNCHANGED faults
       \/ Fault /\ excused' = TRUE /\ UNCHANGED stopped
  ELSE UNCHANGED <<service, faults>>

StartService ==
  /\ pc = "start"
  /\ Start
  /\ asked' = FALSE
  /\ pc' = "check"
  /\ UNCHANGED <<i, result, files_>>

(* gzip -t.  Faulty variant: no check.                                     *)
NotChecked == TRUE
Checked == \E f \in tmp : f.vol = vol /\ f.date = day /\ f.whole

Check ==
  /\ pc = "check"
  /\ IF Checked THEN Goto("move") ELSE ExitWith("failure")
  /\ UNCHANGED <<faults, service, files_>>

Move ==
  /\ pc = "move"
  /\ \E f \in tmp :
       /\ f.vol = vol /\ f.date = day
       /\ files' = [files EXCEPT !["daily"] = Written(@, f.whole)]
  /\ tmp' = Removed(tmp)
  /\ Goto("promote")
  /\ UNCHANGED <<day, faults, service, metrics, history>>

NextVolume ==
  /\ IF i < Len(Volumes) THEN pc' = "stop" /\ i' = i + 1
                         ELSE pc' = "rotate" /\ UNCHANGED i
  /\ UNCHANGED <<asked, result>>

(* cp truncates the file it writes to, and is not done at once.            *)
Copy(dir) ==
  /\ files' = [files EXCEPT ![dir] = Written(@, FALSE)]
  /\ Goto(dir)
  /\ UNCHANGED <<day, faults, service, tmp, metrics, history>>

Copied(dir) ==
  /\ pc = dir
  /\ files' = [files EXCEPT ![dir] = Written(@, TRUE)]
  /\ UNCHANGED <<day, faults, service, tmp, metrics, history>>

Promote ==
  /\ pc = "promote"
  /\ IF Sunday THEN Copy("weekly")
               ELSE NextVolume /\ UNCHANGED <<faults, service, files_>>

PromoteFurther ==
  /\ pc = "further"
  /\ IF FirstSunday THEN Copy("monthly")
                    ELSE NextVolume /\ UNCHANGED <<faults, service, files_>>

Weekly  == Copied("weekly") /\ Goto("further")
Monthly == Copied("monthly") /\ NextVolume

Keep(dir) == CASE dir = "daily"  -> KeepDaily
               [] dir = "weekly" -> KeepWeekly
               [] OTHER          -> KeepMonthly

(* The age in whole days, of the copy and not of its name.                 *)
Fresh(set, days) == {f \in set : day - f.date <= days}

Rotate ==
  /\ pc = "rotate"
  /\ files' = [dir \in Directories |-> Fresh(files[dir], Keep(dir))]
  /\ tmp' = Fresh(tmp, 1)
  /\ ExitWith("success")
  /\ UNCHANGED <<day, faults, service, metrics, history>>

(* The trap.  Faulty variant: it does not start the service.               *)
CleanupFilesOnly ==
  /\ pc = "cleanup"
  /\ tmp' = Removed(tmp)
  /\ pc' = "post"
  /\ good' = IF result = "success" THEN good \cup {day} ELSE good
  /\ UNCHANGED <<day, faults, i, asked, result, service, files, metrics, reported>>

Cleanup ==
  /\ pc = "cleanup"
  /\ tmp' = Removed(tmp)
  /\ Start
  /\ asked' = FALSE
  /\ pc' = "post"
  /\ good' = IF result = "success" THEN good \cup {day} ELSE good
  /\ UNCHANGED <<day, i, result, files, metrics, reported>>

-----------------------------------------------------------------------------
(* What goes wrong.                                                        *)

Running == pc \notin {"idle", "cleanup", "post"}

(* A command fails and writes no more, or SIGTERM arrives: the trap runs.  *)
Break ==
  /\ Running
  /\ Fault
  /\ ExitWith("failure")
  /\ UNCHANGED <<service, files_>>

(* SIGKILL leaves the trap no time.                                        *)
KillRun ==
  /\ Running \/ pc = "cleanup"
  /\ Fault
  /\ pc' = "post"
  /\ result' = "failure"
  /\ excused' = (excused \/ stopped)
  /\ UNCHANGED <<i, asked, stopped, files_>>

(* A machine that goes down takes the unit with it; a container that was   *)
(* stopped stays so (restart: unless-stopped).                             *)
Reboot ==
  /\ pc # "idle"
  /\ Fault
  /\ Goto("idle")
  /\ excused' = (excused \/ stopped)
  /\ UNCHANGED <<stopped, files_>>

-----------------------------------------------------------------------------
(* ExecStopPost.                                                           *)

(* Faulty variant: a failed run leaves no record of the last good one.     *)
LastSuccessErased == IF result = "success" THEN day ELSE None

LastSuccess == IF result = "success" THEN day ELSE metrics.lastSuccess

(* The file is written aside and swapped in.                               *)
WriteMetrics ==
  /\ pc = "post"
  /\ metrics' = [lastRun |-> day, success |-> result = "success",
                 lastSuccess |-> LastSuccess]
  /\ reported' = IF result = "success" THEN reported \cup {day} ELSE reported
  /\ Goto("idle")
  /\ UNCHANGED <<day, faults, service, disk, good>>

(* It cannot be written: the old one stays, the script succeeds.           *)
WriteFails ==
  /\ pc = "post"
  /\ Fault
  /\ Goto("idle")
  /\ UNCHANGED <<service, files_>>

NewDay ==
  /\ pc = "idle"
  /\ day < MaxDay
  /\ day' = day + 1
  /\ UNCHANGED <<faults, run, service, disk, metrics, history>>

Next == \/ Begin \/ StopService \/ NoService \/ StopFails \/ Dump \/ Dumped
        \/ StartService \/ Check \/ Move \/ Promote \/ PromoteFurther
        \/ Weekly \/ Monthly \/ Rotate \/ Cleanup
        \/ Break \/ KillRun \/ Reboot \/ WriteMetrics \/ WriteFails \/ NewDay

Spec == Init /\ [][Next]_vars

-----------------------------------------------------------------------------
(* Properties.                                                             *)

Archives == UNION {files[dir] : dir \in Directories}

(* Whenever a run is cut short (backup-volumes.sh:119-136), a file with a  *)
(* final name in daily/ is whole; a copy in weekly/ or monthly/ may not be *)
(* after a run that failed, and is once a run of that day succeeded.       *)
ArchivesAreWhole ==
  /\ files \in [Directories -> SUBSET Archive] /\ tmp \subseteq Archive
  /\ \A f \in Archives : ~f.whole => f \notin files["daily"] /\ f.date \notin good

(* Grafana is down while its volume is copied, and between runs only if    *)
(* Docker failed or the script was not given the time to start it          *)
(* (backup-volumes.sh:78-92, 103-117).                                     *)
DownForTheCopyOnly ==
  /\ pc = "dumping" /\ vol \in Stopping => stopped
  /\ pc \in {"idle", "post"} /\ stopped => excused

(* What failed is not reported as a success, no failure erases the day of  *)
(* the last success (backup-metrics.sh:57-67), and of every volume there   *)
(* is a whole archive at least as recent: rotation runs after a run that   *)
(* went well and never takes the last one.                                 *)
MetricsTellTheTruth ==
  /\ metrics \in Metrics
  /\ reported # {} => metrics.lastSuccess = Max(reported)
  /\ metrics.lastSuccess # None =>
       \A n \in DOMAIN Volumes :
         \E f \in files["daily"] :
           f.vol = Volumes[n] /\ f.whole /\ f.date >= metrics.lastSuccess

=============================================================================
