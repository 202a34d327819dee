------------------------------ MODULE BackupProofs ------------------------------
(***************************************************************************)
(* What holds of the nightly backup for any volumes, any calendar, any     *)
(* retention and any number of faults.                                     *)
(*                                                                         *)
(* An archive can be judged only when the run that wrote it is over; the   *)
(* invariant says what the run still has to repair at each command.        *)
(***************************************************************************)
EXTENDS Backup, TLAPS

Indices == 1..Len(Volumes)

Types ==
  /\ day \in Days
  /\ pc \in {"idle", "stop", "dump", "dumping", "start", "check", "move", "promote",
             "weekly", "further", "monthly", "rotate", "cleanup", "post"}
  /\ i \in Indices
  /\ asked \in BOOLEAN
  /\ result \in {"success", "failure"}
  /\ stopped \in BOOLEAN
  /\ tmp \subseteq Archive
  /\ files \in [Directories -> SUBSET Archive]
  /\ metrics \in Metrics
  /\ excused \in BOOLEAN
  /\ good \subseteq Days
  /\ reported \subseteq Days

(* The service is stopped for the copy; the trap knows of it, or is        *)
(* excused.                                                                *)
ServiceKnown ==
  /\ pc \in {"dump", "dumping"} /\ vol \in Stopping => stopped
  /\ stopped => asked \/ excused
  /\ pc \in {"idle", "post"} /\ stopped => excused

(* There is one temporary file of a name, and what is moved was checked.   *)
TemporaryFiles ==
  /\ \A f, g \in tmp : f.vol = g.vol /\ f.date = g.date => f.whole = g.whole
  /\ pc = "move" => Checked

(* Nothing is dated later than today.                                      *)
Dated ==
  /\ \A dir \in Directories : \A f \in files[dir] : f.date <= day
  /\ \A d \in good \cup reported : d <= day
  /\ day \in good => pc \in {"idle", "post"}

(* The copies the run has still to write into a directory.                 *)
ToCopy(dir) ==
  CASE pc \in {"stop", "dump", "dumping", "start", "check", "move", "promote", dir}
         -> i..Len(Volumes)
    [] dir = "monthly" /\ pc \in {"weekly", "further"} -> i..Len(Volumes)
    [] dir = "weekly" /\ pc \in {"further", "monthly"} -> (i + 1)..Len(Volumes)
    [] OTHER -> {}

(* What is not whole is a copy; one of today will be written again unless  *)
(* the run fails.                                                          *)
Copies ==
  /\ \A f \in files["daily"] : f.whole
  /\ \A dir \in {"weekly", "monthly"} : \A f \in files[dir] :
       ~f.whole =>
         /\ f.date \notin good
         /\ f.date = day => IF dir = "weekly" THEN Sunday ELSE FirstSunday
         /\ f.date = day /\ pc \notin {"idle", "post"} /\ result = "success" =>
              \E n \in ToCopy(dir) : f.vol = Volumes[n]

(* The volumes whose archive of today is in place.                         *)
Moved ==
  CASE pc \in {"stop", "dump", "dumping", "start", "check", "move"} -> 1..(i - 1)
    [] pc \in {"promote", "weekly", "further", "monthly"} -> 1..i
    [] pc = "rotate" -> Indices
    [] pc \in {"cleanup", "post"} /\ result = "success" -> Indices
    [] OTHER -> {}

HasToday(n) == \E f \in files["daily"] :
                 f.vol = Volumes[n] /\ f.whole /\ f.date = day

Progress ==
  /\ \A n \in Moved : HasToday(n)
  /\ pc \notin {"idle", "cleanup", "post"} => result = "success"
  /\ pc \in {"weekly", "further", "monthly"} => Sunday
  /\ pc = "monthly" => FirstSunday

(* The day of the last success is there once a success was reported.       *)
Reported == IF reported = {} THEN metrics.lastSuccess = None
                             ELSE metrics.lastSuccess \in reported

IInv == /\ Types
        /\ ServiceKnown
        /\ TemporaryFiles
        /\ Dated
        /\ Copies
        /\ Progress
        /\ MetricsTellTheTruth
        /\ Reported

-----------------------------------------------------------------------------
(* The names of files.                                                     *)
LEMMA WrittenIs ==
  ASSUME Types, NEW set, set \subseteq Archive, NEW whole \in BOOLEAN
  PROVE  /\ Written(set, whole) \subseteq Archive
         /\ \A f \in Written(set, whole) :
              \/ f \in set /\ (f.vol # vol \/ f.date # day)
              \/ f.vol = vol /\ f.date = day /\ f.whole = whole
         /\ \A f \in set : f.vol # vol \/ f.date # day => f \in Written(set, whole)
         /\ \E f \in Written(set, whole) : f.vol = vol /\ f.date = day /\ f.whole = whole
<1> DEFINE today == [vol |-> vol, date |-> day, whole |-> whole]
<1>1. vol \in {Volumes[n] : n \in DOMAIN Volumes}
  BY BackupAssumption DEF vol, Types, Indices
<1>2. today \in Archive /\ today.vol = vol /\ today.date = day /\ today.whole = whole
  BY <1>1 DEF Types, Archive
<1>3. Written(set, whole) = {f \in set : f.vol # vol \/ f.date # day} \cup {today}
  BY DEF Written
<1> HIDE DEF today
<1> QED
  BY <1>2, <1>3

(* What is moved into place is whole, and nothing else changes there.      *)
LEMMA WholeIsMoved ==
  ASSUME IInv, Move
  PROVE  /\ pc = "move" /\ day' = day
         /\ files' \in [Directories -> SUBSET Archive]
         /\ files'["weekly"] = files["weekly"]
         /\ files'["monthly"] = files["monthly"]
         /\ \A f \in files'["daily"] :
              \/ f \in files["daily"] /\ (f.vol # vol \/ f.date # day)
              \/ f.vol = vol /\ f.date = day /\ f.whole
         /\ \A f \in files["daily"] :
              f.vol # vol \/ f.date # day => f \in files'["daily"]
         /\ \E f \in files'["daily"] : f.vol = vol /\ f.date = day /\ f.whole
<1> DEFINE new == Written(files["daily"], TRUE)
<1>1. PICK f \in tmp :
        /\ f.vol = vol /\ f.date = day
        /\ files' = [files EXCEPT !["daily"] = Written(files["daily"], f.whole)]
  BY DEF Move
<1>2. f.whole = TRUE
  BY <1>1 DEF Move, IInv, TemporaryFiles, Checked, Types, Archive
<1>3. files' = [files EXCEPT !["daily"] = new]
  BY <1>1, <1>2
<1>4. files \in [Directories -> SUBSET Archive] /\ files["daily"] \subseteq Archive
  BY DEF IInv, Types, Directories
<1>5. /\ new \subseteq Archive
      /\ \A g \in new :
           \/ g \in files["daily"] /\ (g.vol # vol \/ g.date # day)
           \/ g.vol = vol /\ g.date = day /\ g.whole = TRUE
      /\ \A g \in files["daily"] : g.vol # vol \/ g.date # day => g \in new
      /\ \E g \in new : g.vol = vol /\ g.date = day /\ g.whole = TRUE
  <2>1. Types /\ TRUE \in BOOLEAN
    BY DEF IInv
  <2> QED
    BY <1>4, <2>1, WrittenIs, Zenon
<1> HIDE DEF new
<1> QED
  BY <1>3, <1>4, <1>5 DEF Directories, Move, history

(* Where a copy is written, the others stay.                               *)
LEMMA CopyIs ==
  ASSUME IInv, NEW dir \in {"weekly", "monthly"}, NEW whole \in BOOLEAN,
         files' = [files EXCEPT ![dir] = Written(@, whole)]
  PROVE  /\ files' \in [Directories -> SUBSET Archive]
         /\ files'["daily"] = files["daily"]
         /\ \A other \in {"weekly", "monthly"} \ {dir} : files'[other] = files[other]
         /\ \A f \in files'[dir] :
              \/ f \in files[dir] /\ (f.vol # vol \/ f.date # day)
              \/ f.vol = vol /\ f.date = day /\ f.whole = whole
<1> DEFINE new == Written(files[dir], whole)
<1>1. files \in [Directories -> SUBSET Archive] /\ files[dir] \subseteq Archive
  BY DEF IInv, Types, Directories
<1>2. /\ new \subseteq Archive
      /\ \A f \in new :
           \/ f \in files[dir] /\ (f.vol # vol \/ f.date # day)
           \/ f.vol = vol /\ f.date = day /\ f.whole = whole
  <2>1. Types
    BY DEF IInv
  <2> QED
    BY <1>1, <2>1, WrittenIs
<1>3. files' = [files EXCEPT ![dir] = new]
  OBVIOUS
<1> HIDE DEF new
<1> QED
  BY <1>1, <1>2, <1>3 DEF Directories

(* What the four commands that copy have in common.                        *)
LEMMA CopyEffect ==
  ASSUME IInv, Promote \/ PromoteFurther \/ Weekly \/ Monthly
  PROVE  /\ UNCHANGED <<day, asked, result, stopped, excused, tmp, metrics, good, reported>>
         /\ files' \in [Directories -> SUBSET Archive]
         /\ files'["daily"] = files["daily"]
         /\ pc \in {"promote", "weekly", "further", "monthly"}
         /\ \/ pc' \in {"weekly", "further", "monthly"} /\ i' = i
            \/ pc' = "stop" /\ i < Len(Volumes) /\ i' = i + 1
            \/ pc' = "rotate" /\ i >= Len(Volumes) /\ i' = i
<1>1. \/ files' = files
      \/ \E dir \in {"weekly", "monthly"}, whole \in BOOLEAN :
           files' = [files EXCEPT ![dir] = Written(@, whole)]
  BY DEF Promote, PromoteFurther, Weekly, Monthly, Copy, Copied, files_, disk
<1>2. files' \in [Directories -> SUBSET Archive] /\ files'["daily"] = files["daily"]
  BY <1>1, CopyIs DEF IInv, Types
<1>3. i \in Int /\ Len(Volumes) \in Int
  BY BackupAssumption DEF IInv, Types, Indices
<1>4. /\ UNCHANGED <<day, asked, result, stopped, excused, tmp, metrics, good, reported>>
      /\ pc \in {"promote", "weekly", "further", "monthly"}
  BY DEF Promote, PromoteFurther, Weekly, Monthly, Goto, NextVolume, Copy, Copied,
         service, files_, disk, history
<1>5. \/ pc' \in {"weekly", "further", "monthly"} /\ i' = i
      \/ NextVolume
  BY DEF Promote, PromoteFurther, Weekly, Monthly, Goto, Copy, Copied
<1>6. \/ pc' \in {"weekly", "further", "monthly"} /\ i' = i
      \/ pc' = "stop" /\ i < Len(Volumes) /\ i' = i + 1
      \/ pc' = "rotate" /\ i >= Len(Volumes) /\ i' = i
  BY <1>3, <1>5 DEF NextVolume
<1> QED
  BY <1>2, <1>4, <1>6

(* Rotation keeps the archives of today.                                   *)
LEMMA TodayIsFresh ==
  ASSUME IInv, Rotate, NEW f \in files["daily"], f.date = day
  PROVE  f \in files'["daily"]
<1>1. files'["daily"] = Fresh(files["daily"], KeepDaily)
  BY DEF Rotate, Directories, Keep
<1>2. day - f.date <= KeepDaily
  BY BackupAssumption DEF IInv, Types, Days
<1> QED
  BY <1>1, <1>2 DEF Fresh

(* An element that no other exceeds is the largest.                        *)
LEMMA LargestIsMax ==
  ASSUME NEW S \in SUBSET Int, NEW m \in S, \A x \in S : x <= m
  PROVE  Max(S) = m
<1>1. m \in S /\ \A y \in S : m >= y
  OBVIOUS
<1>2. ASSUME NEW x \in S, \A y \in S : x >= y
      PROVE  x = m
  BY <1>1, <1>2
<1> QED
  BY <1>1, <1>2 DEF Max

(* The day of the last success has been.                                   *)
LEMMA LastSuccessIsPast ==
  ASSUME IInv, metrics.lastSuccess # None
  PROVE  metrics.lastSuccess <= day
BY DEF IInv, Reported, Dated

(* The steps that touch no file.                                           *)
LEMMA StopServiceStep ==
  ASSUME IInv, StopService \/ NoService \/ StopFails \/ StartService \/ Check
  PROVE  IInv'
<1>1. Types'
    BY DEF IInv, Types, StopService, NoService, StopFails, StartService,
     Check, vol, Goto, ExitWith, Start, service, files_, disk, history,
     Checked
<1>2. ServiceKnown'
  <2>1. CASE StopService
    BY <2>1 DEF IInv, Types, ServiceKnown, StopService, vol
  <2>2. CASE NoService
    BY <2>2 DEF IInv, Types, ServiceKnown, NoService, Goto, service, vol
  <2>3. CASE StopFails
    BY <2>3 DEF IInv, Types, ServiceKnown, StopFails, ExitWith, vol
  <2>4. CASE StartService
    BY <2>4 DEF IInv, Types, ServiceKnown, StartService, Start, service, vol
  <2>5. CASE Check
    BY <2>5 DEF IInv, Types, ServiceKnown, Check, Goto, ExitWith, service, vol
  <2> QED
    BY <2>1, <2>2, <2>3, <2>4, <2>5
<1>3. TemporaryFiles'
    BY DEF IInv, TemporaryFiles, Types, StopService, NoService, StopFails,
     StartService, Check, vol, Goto, ExitWith, files_, disk, Checked
<1>4. Dated'
    BY DEF IInv, Dated, Types, StopService, NoService, StopFails,
     StartService, Check, Goto, ExitWith, files_, disk, history
<1>5. Copies'
    BY DEF IInv, Copies, FirstSunday, Sunday, ToCopy, Types, StopService,
     NoService, StopFails, StartService, Check, vol, Goto, ExitWith, files_,
     disk, history
<1>6. Progress'
    BY DEF IInv, FirstSunday, HasToday, Indices, Moved, Progress, Sunday,
     Types, StopService, NoService, StopFails, StartService, Check, vol,
     Goto, ExitWith, files_, disk
<1>7. MetricsTellTheTruth'
    BY DEF IInv, MetricsTellTheTruth, Types, StopService, NoService,
     StopFails, StartService, Check, Goto, ExitWith, files_, disk, history
<1>8. Reported'
    BY DEF IInv, Reported, Types, StopService, NoService, StopFails,
     StartService, Check, files_, history
<1> QED
  BY <1>1, <1>2, <1>3, <1>4, <1>5, <1>6, <1>7, <1>8 DEF IInv

(* What goes wrong.                                                        *)
LEMMA FaultStep ==
  ASSUME IInv, Break \/ KillRun \/ Reboot \/ WriteFails
  PROVE  IInv'
<1>1. Types'
    BY DEF IInv, Types, Break, KillRun, Reboot, WriteFails, vol, Goto,
     ExitWith, service, files_, disk, history, Running, Checked
<1>2. ServiceKnown'
    BY DEF IInv, ServiceKnown, Types, Break, KillRun, Reboot, WriteFails,
     vol, Goto, ExitWith, service, Running
<1>3. TemporaryFiles'
    BY DEF IInv, TemporaryFiles, Types, Break, KillRun, Reboot, WriteFails,
     vol, Goto, ExitWith, files_, disk, Running, Checked
<1>4. Dated'
    BY DEF IInv, Dated, Types, Break, KillRun, Reboot, WriteFails, Goto,
     ExitWith, files_, disk, history, Running
<1>5. Copies'
    BY DEF IInv, Copies, FirstSunday, Sunday, ToCopy, Types, Break, KillRun,
     Reboot, WriteFails, vol, Goto, ExitWith, files_, disk, history, Running
<1>6. Progress'
    BY DEF IInv, FirstSunday, HasToday, Indices, Moved, Progress, Sunday,
     Types, Break, KillRun, Reboot, WriteFails, vol, Goto, ExitWith, files_,
     disk, Running
<1>7. MetricsTellTheTruth'
    BY DEF IInv, MetricsTellTheTruth, Types, Break, KillRun, Reboot,
     WriteFails, Goto, ExitWith, files_, disk, history, Running
<1>8. Reported'
    BY DEF IInv, Reported, Types, Break, KillRun, Reboot, WriteFails,
     files_, history
<1> QED
  BY <1>1, <1>2, <1>3, <1>4, <1>5, <1>6, <1>7, <1>8 DEF IInv

(* The temporary file.                                                     *)
LEMMA DumpStep ==
  ASSUME IInv, Dump \/ Dumped
  PROVE  IInv'
<1>1. Types'
  <2>1. \E whole \in BOOLEAN : tmp' = Written(tmp, whole)
    BY DEF Dump, Dumped
  <2>2. tmp' \subseteq Archive
    BY <2>1, WrittenIs DEF IInv, Types
  <2> QED
    BY <2>2 DEF IInv, Types, Dump, Dumped, Goto, service, history
<1>2. ServiceKnown'
    BY BackupAssumption DEF IInv, Archive, Dated, Days, Directories,
     Indices, Moved, Progress, ServiceKnown, Types, Dump, Dumped, vol, Goto,
     Fault, service, history, Written, Checked
<1>3. TemporaryFiles'
  <2>1. PICK whole \in BOOLEAN : tmp' = Written(tmp, whole)
    BY DEF Dump, Dumped
  <2>2. \A f \in tmp' :
          \/ f \in tmp /\ (f.vol # vol \/ f.date # day)
          \/ f.vol = vol /\ f.date = day /\ f.whole = whole
    <3>1. Types /\ tmp \subseteq Archive
      BY DEF IInv, Types
    <3> QED
      BY <2>1, <3>1, WrittenIs, Zenon
  <2>3. pc' # "move"
    BY DEF Dump, Dumped, Goto
  <2> QED
    BY <2>2, <2>3 DEF IInv, TemporaryFiles
<1>4. Dated'
    BY DEF IInv, Dated, Types, Dump, Dumped, Goto, history, Written
<1>5. Copies'
    BY DEF IInv, Copies, FirstSunday, Sunday, ToCopy, Types, Dump, Dumped,
     vol, Goto, history, Written
<1>6. Progress'
    BY DEF IInv, FirstSunday, HasToday, Indices, Moved, Progress, Sunday,
     Types, Dump, Dumped, vol, Goto, Written
<1>7. MetricsTellTheTruth'
    BY DEF IInv, MetricsTellTheTruth, Types, Dump, Dumped, Goto, history,
     Written
<1>8. Reported'
    BY DEF IInv, Reported, Types, Dump, Dumped, history
<1> QED
  BY <1>1, <1>2, <1>3, <1>4, <1>5, <1>6, <1>7, <1>8 DEF IInv

(* The archive takes its name.                                             *)
LEMMA MoveStep ==
  ASSUME IInv, Move
  PROVE  IInv'
<1>1. Types'
  BY WholeIsMoved DEF IInv, Types, Move, Goto, service, history, Removed
<1>2. ServiceKnown'
    BY DEF IInv, ServiceKnown, Types, Move, vol, Goto, service
<1>3. TemporaryFiles'
    BY DEF IInv, TemporaryFiles, Types, Move, vol, Goto, Written, Removed,
     Checked
<1>4. Dated'
  <2>1. \A f \in files'["daily"] : f.date <= day
    BY WholeIsMoved DEF IInv, Types, Dated, Directories, Days
  <2>2. \A dir \in Directories : \A f \in files'[dir] : f.date <= day
    BY <2>1, WholeIsMoved DEF IInv, Dated, Directories
  <2> QED
    BY <2>2, WholeIsMoved DEF IInv, Dated, Move, Goto, history
<1>5. Copies'
  BY WholeIsMoved
     DEF IInv, Types, Copies, ToCopy, Sunday, FirstSunday, Move, Goto, history
<1>6. Progress'
  <2>1. ASSUME NEW n \in 1..i
        PROVE  HasToday(n)'
    <3>1. CASE Volumes[n] = vol
      BY <3>1, WholeIsMoved DEF HasToday
    <3>2. CASE Volumes[n] # vol
      <4>1. n \in 1..(i - 1)
        BY <3>2 DEF vol, IInv, Types, Indices
      <4>2. HasToday(n)
        BY <4>1, WholeIsMoved DEF IInv, Progress, Moved
      <4> QED
        BY <3>2, <4>2, WholeIsMoved DEF HasToday
    <3> QED
      BY <3>1, <3>2
  <2> QED
    BY <2>1, WholeIsMoved DEF IInv, Progress, Moved, Move, Goto
<1>7. MetricsTellTheTruth'
  <2>1. ASSUME metrics.lastSuccess # None, NEW n \in DOMAIN Volumes
        PROVE  \E f \in files'["daily"] :
                 f.vol = Volumes[n] /\ f.whole /\ f.date >= metrics.lastSuccess
    <3>1. metrics.lastSuccess <= day
      BY <2>1, LastSuccessIsPast DEF IInv
    <3>2. PICK f \in files["daily"] :
            f.vol = Volumes[n] /\ f.whole /\ f.date >= metrics.lastSuccess
      BY <2>1 DEF IInv, MetricsTellTheTruth
    <3> QED
      BY <3>1, <3>2, WholeIsMoved
  <2> QED
    BY <2>1 DEF IInv, MetricsTellTheTruth, Move, history
<1>8. Reported'
    BY DEF IInv, Reported, Types, Move, history
<1> QED
  BY <1>1, <1>2, <1>3, <1>4, <1>5, <1>6, <1>7, <1>8 DEF IInv

(* The copies.                                                             *)
LEMMA CopyStep ==
  ASSUME IInv, Promote \/ PromoteFurther \/ Weekly \/ Monthly
  PROVE  IInv'
<1>1. Types'
  BY CopyEffect, BackupAssumption DEF IInv, Types, Indices
<1>2. ServiceKnown'
    BY BackupAssumption DEF IInv, Archive, Dated, Days, Directories,
     Indices, Moved, Progress, ServiceKnown, Types, Promote, PromoteFurther,
     Weekly, Monthly, vol, Goto, NextVolume, Copy, Copied, service, files_,
     disk, history, Written
<1>3. TemporaryFiles'
    BY DEF IInv, TemporaryFiles, Types, Promote, PromoteFurther, Weekly,
     Monthly, vol, Goto, NextVolume, Copy, Copied, files_, disk, Written
<1>4. Dated'
    BY BackupAssumption DEF IInv, Archive, Dated, Days, Directories,
     Indices, Moved, Progress, Types, Promote, PromoteFurther, Weekly,
     Monthly, vol, Goto, NextVolume, Copy, Copied, service, files_, disk,
     history, Written
<1>5. Copies'
  <2> SUFFICES ASSUME NEW dir \in {"weekly", "monthly"}, NEW f \in files'[dir], ~f.whole
               PROVE  /\ f.date \notin good
                      /\ f.date = day => IF dir = "weekly" THEN Sunday ELSE FirstSunday
                      /\ f.date = day /\ result = "success" =>
                           \E n \in ToCopy(dir)' : f.vol = Volumes[n]
    BY CopyEffect DEF Copies, IInv, Sunday, FirstSunday
  <2>1. /\ i \in Int /\ Len(Volumes) \in Int /\ i <= Len(Volumes)
        /\ day \notin good /\ vol = Volumes[i]
        /\ FirstSunday => Sunday
    BY CopyEffect, BackupAssumption
       DEF IInv, Types, Indices, Dated, vol, FirstSunday
  <2>2. ASSUME f \in files[dir]
        PROVE  /\ f.date \notin good
               /\ f.date = day => IF dir = "weekly" THEN Sunday ELSE FirstSunday
               /\ f.date = day /\ result = "success" =>
                    \E n \in ToCopy(dir) : f.vol = Volumes[n]
    BY <2>2, CopyEffect DEF IInv, Copies
  <2>3. CASE Promote
    <3>1. CASE Sunday
      <4>1. /\ files' = [files EXCEPT !["weekly"] = Written(@, FALSE)]
            /\ pc = "promote" /\ pc' = "weekly" /\ i' = i
        BY <2>3, <3>1 DEF Promote, Copy, Goto
      <4>2. \/ f \in files[dir]
            \/ dir = "weekly" /\ f.vol = vol /\ f.date = day
        BY <4>1, CopyIs
      <4> QED
        BY <2>1, <2>2, <3>1, <4>1, <4>2 DEF ToCopy
    <3>2. CASE ~Sunday
      <4>1. files' = files
        BY <2>3, <3>2 DEF Promote, files_, disk
      <4> QED
        BY <2>1, <2>2, <3>2, <4>1
    <3> QED
      BY <3>1, <3>2
  <2>4. CASE PromoteFurther
    <3>1. CASE FirstSunday
      <4>1. /\ files' = [files EXCEPT !["monthly"] = Written(@, FALSE)]
            /\ pc = "further" /\ pc' = "monthly" /\ i' = i
        BY <2>4, <3>1 DEF PromoteFurther, Copy, Goto
      <4>2. \/ f \in files[dir]
            \/ dir = "monthly" /\ f.vol = vol /\ f.date = day
        BY <4>1, CopyIs
      <4> QED
        BY <2>1, <2>2, <3>1, <4>1, <4>2 DEF ToCopy
    <3>2. CASE ~FirstSunday
      <4>1. files' = files /\ pc = "further" /\ NextVolume
        BY <2>4, <3>2 DEF PromoteFurther, files_, disk
      <4> QED
        BY <2>1, <2>2, <3>2, <4>1 DEF ToCopy, NextVolume
    <3> QED
      BY <3>1, <3>2
  <2>5. CASE Weekly
    <3>1. /\ files' = [files EXCEPT !["weekly"] = Written(@, TRUE)]
          /\ pc = "weekly" /\ pc' = "further" /\ i' = i
      BY <2>5 DEF Weekly, Copied, Goto
    <3>2. f \in files[dir] /\ (dir = "weekly" => f.vol # vol \/ f.date # day)
      BY <3>1, CopyIs
    <3> QED
      BY <2>1, <2>2, <3>1, <3>2 DEF ToCopy
  <2>6. CASE Monthly
    <3>1. /\ files' = [files EXCEPT !["monthly"] = Written(@, TRUE)]
          /\ pc = "monthly" /\ NextVolume
      BY <2>6 DEF Monthly, Copied
    <3>2. f \in files[dir] /\ (dir = "monthly" => f.vol # vol \/ f.date # day)
      BY <3>1, CopyIs
    <3> QED
      BY <2>1, <2>2, <3>1, <3>2 DEF ToCopy, NextVolume
  <2> QED
    BY <2>3, <2>4, <2>5, <2>6
<1>6. Progress'
  <2>1. Sunday' = Sunday /\ FirstSunday' = FirstSunday
    BY CopyEffect DEF Sunday, FirstSunday
  <2>2. \A n \in Moved' : n \in Moved
    BY CopyEffect, BackupAssumption DEF Moved, IInv, Types, Indices
  <2>3. \A n \in Moved' : HasToday(n)'
    BY <2>2, CopyEffect DEF HasToday, IInv, Progress
  <2>4. /\ pc' \in {"weekly", "further", "monthly"} => Sunday
        /\ pc' = "monthly" => FirstSunday
    BY DEF IInv, Progress, Promote, PromoteFurther, Weekly, Monthly, Goto,
           NextVolume, Copy, Copied
  <2> QED
    BY <2>1, <2>3, <2>4, CopyEffect DEF IInv, Progress
<1>7. MetricsTellTheTruth'
    BY BackupAssumption DEF IInv, Archive, Dated, Days, Directories,
     Indices, MetricsTellTheTruth, Moved, Progress, Types, Promote,
     PromoteFurther, Weekly, Monthly, vol, Goto, NextVolume, Copy, Copied,
     service, files_, disk, history, Written
<1>8. Reported'
    BY DEF IInv, Reported, Types, Promote, PromoteFurther, Weekly, Monthly,
     Copy, Copied, files_, history
<1> QED
  BY <1>1, <1>2, <1>3, <1>4, <1>5, <1>6, <1>7, <1>8 DEF IInv

(* Old archives go.                                                        *)
LEMMA RotateStep ==
  ASSUME IInv, Rotate
  PROVE  IInv'
<1>1. Types'
    BY DEF IInv, Types, Rotate, vol, ExitWith, service, history, Fresh
<1>2. ServiceKnown'
    BY DEF IInv, ServiceKnown, Types, Rotate, vol, ExitWith, service
<1>3. TemporaryFiles'
    BY DEF IInv, TemporaryFiles, Types, Rotate, vol, ExitWith, Fresh
<1>4. Dated'
    BY DEF IInv, Dated, Types, Rotate, ExitWith, history, Fresh
<1>5. Copies'
    BY BackupAssumption DEF IInv, Archive, Copies, Dated, Days, Directories,
     FirstSunday, Indices, Moved, Progress, Sunday, ToCopy, Types, Rotate,
     vol, ExitWith, service, history, Fresh
<1>6. Progress'
  <2>1. ASSUME NEW n \in Indices
        PROVE  HasToday(n)'
    BY BackupAssumption, TodayIsFresh DEF IInv, Progress, Moved, HasToday, Rotate
  <2> QED
    BY <2>1 DEF IInv, Progress, Moved, Rotate, ExitWith
<1>7. MetricsTellTheTruth'
  <2>1. ASSUME metrics.lastSuccess # None, NEW n \in Indices
        PROVE  \E f \in files'["daily"] :
                 f.vol = Volumes[n] /\ f.whole /\ f.date >= metrics.lastSuccess
    <3>1. metrics.lastSuccess <= day
      BY <2>1, LastSuccessIsPast DEF IInv
    <3>2. PICK f \in files["daily"] : f.vol = Volumes[n] /\ f.whole /\ f.date = day
      BY DEF IInv, Progress, Moved, HasToday, Rotate
    <3>3. f \in files'["daily"]
      BY <3>2, TodayIsFresh DEF Rotate
    <3> QED
      BY <3>1, <3>2, <3>3
  <2> QED
    BY <2>1, BackupAssumption DEF IInv, MetricsTellTheTruth, Rotate, history, Indices
<1>8. Reported'
    BY DEF IInv, Reported, Types, Rotate, history
<1> QED
  BY <1>1, <1>2, <1>3, <1>4, <1>5, <1>6, <1>7, <1>8 DEF IInv

(* The trap.                                                               *)
LEMMA CleanupStep ==
  ASSUME IInv, Cleanup
  PROVE  IInv'
<1>1. Types'
  <2>1. stopped' \in BOOLEAN /\ excused' \in BOOLEAN
    BY DEF IInv, Types, Cleanup, Start, service
  <2> QED
    BY <2>1 DEF IInv, Types, Cleanup, Removed, Days
<1>2. ServiceKnown'
  <2>1. stopped' => excused'
    BY DEF IInv, ServiceKnown, Cleanup, Start, service
  <2>2. pc' = "post"
    BY DEF Cleanup
  <2> QED
    BY <2>1, <2>2 DEF ServiceKnown
<1>3. TemporaryFiles'
    BY DEF IInv, TemporaryFiles, Types, Cleanup, vol, Removed
<1>4. Dated'
    BY BackupAssumption DEF IInv, Archive, Dated, Days, Directories,
     Indices, Moved, Progress, Types, Cleanup, vol, Fault, Start, Removed
<1>5. Copies'
    BY DEF IInv, Copies, FirstSunday, Sunday, ToCopy, Types, Cleanup, vol
<1>6. Progress'
    BY DEF IInv, FirstSunday, HasToday, Indices, Moved, Progress, Sunday,
     Types, Cleanup, vol
<1>7. MetricsTellTheTruth'
    BY DEF IInv, MetricsTellTheTruth, Types, Cleanup
<1>8. Reported'
    BY DEF IInv, Reported, Types, Cleanup
<1> QED
  BY <1>1, <1>2, <1>3, <1>4, <1>5, <1>6, <1>7, <1>8 DEF IInv

(* The metrics file.                                                       *)
LEMMA MetricsStep ==
  ASSUME IInv, WriteMetrics
  PROVE  IInv'
<1>1. Types'
  <2>1. metrics' \in Metrics
    BY DEF IInv, Types, WriteMetrics, LastSuccess, Metrics
  <2> QED
    BY <2>1 DEF IInv, Types, WriteMetrics, Goto, service, disk
<1>2. ServiceKnown'
    BY DEF IInv, ServiceKnown, Types, WriteMetrics, Goto, service
<1>3. TemporaryFiles'
    BY DEF IInv, TemporaryFiles, Types, WriteMetrics, Goto, disk
<1>4. Dated'
    BY BackupAssumption DEF IInv, Archive, Dated, Days, Directories, Types,
     WriteMetrics, Goto, disk
<1>5. Copies'
    BY DEF IInv, Copies, FirstSunday, Sunday, ToCopy, Types, WriteMetrics,
     Goto, disk
<1>6. Progress'
    BY DEF IInv, FirstSunday, HasToday, Indices, Moved, Progress, Sunday,
     Types, WriteMetrics, Goto, disk
<1>7. MetricsTellTheTruth'
  <2>1. CASE result = "success"
    <3>1. metrics'.lastSuccess = day /\ reported' = reported \cup {day}
      BY <2>1 DEF WriteMetrics, LastSuccess
    <3>2. Max(reported') = day
      BY <3>1, LargestIsMax DEF IInv, Types, Dated, Days
    <3>3. \A n \in Indices : HasToday(n)
      BY <2>1 DEF IInv, Progress, Moved, WriteMetrics
    <3> QED
      BY <1>1, <3>1, <3>2, <3>3, BackupAssumption
         DEF MetricsTellTheTruth, Types, HasToday, Indices, WriteMetrics, disk,
             IInv, Archive, Directories, Days
  <2>2. CASE result # "success"
    <3>1. metrics'.lastSuccess = metrics.lastSuccess /\ UNCHANGED <<reported, files>>
      BY <2>2 DEF WriteMetrics, LastSuccess, disk
    <3> QED
      BY <1>1, <3>1 DEF IInv, MetricsTellTheTruth, Types
  <2> QED
    BY <2>1, <2>2
<1>8. Reported'
  <2>1. CASE result = "success"
    BY <2>1 DEF IInv, Types, Days, Reported, WriteMetrics, LastSuccess, None
  <2>2. CASE result # "success"
    BY <2>2 DEF IInv, Reported, WriteMetrics, LastSuccess
  <2> QED
    BY <2>1, <2>2
<1> QED
  BY <1>1, <1>2, <1>3, <1>4, <1>5, <1>6, <1>7, <1>8 DEF IInv

(* A run begins.                                                           *)
LEMMA BeginStep ==
  ASSUME IInv, Begin
  PROVE  IInv'
<1>1. Types'
  <2>1. i' \in Indices
    BY BackupAssumption DEF Begin, Indices
  <2> QED
    BY <2>1 DEF IInv, Types, Begin, disk
<1>2. ServiceKnown'
    BY DEF IInv, ServiceKnown, Types, Begin
<1>3. TemporaryFiles'
    BY DEF IInv, TemporaryFiles, Types, Begin, disk
<1>4. Dated'
    BY DEF IInv, Dated, Types, Begin, disk
<1>5. Copies'
    BY BackupAssumption DEF IInv, Archive, Copies, Dated, Days, Directories,
     FirstSunday, Indices, Sunday, ToCopy, Types, Begin, disk
<1>6. Progress'
    BY DEF IInv, FirstSunday, HasToday, Indices, Moved, Progress, Sunday,
     Types, Begin, disk
<1>7. MetricsTellTheTruth'
    BY DEF IInv, MetricsTellTheTruth, Types, Begin, disk
<1>8. Reported'
    BY DEF IInv, Reported, Types, Begin
<1> QED
  BY <1>1, <1>2, <1>3, <1>4, <1>5, <1>6, <1>7, <1>8 DEF IInv

(* A day goes by.                                                          *)
LEMMA NewDayStep ==
  ASSUME IInv, NewDay
  PROVE  IInv'
<1>1. Types'
    BY BackupAssumption DEF IInv, Archive, Days, Directories, Indices,
     Types, NewDay, run, service, disk, history
<1>2. ServiceKnown'
    BY DEF IInv, ServiceKnown, Types, NewDay, run, service
<1>3. TemporaryFiles'
    BY DEF IInv, TemporaryFiles, Types, NewDay, run, disk
<1>4. Dated'
    BY BackupAssumption DEF IInv, Archive, Dated, Days, Directories, Types,
     NewDay, run, disk, history
<1>5. Copies'
    BY BackupAssumption DEF IInv, Archive, Copies, Dated, Days, Directories,
     FirstSunday, Indices, Sunday, ToCopy, Types, NewDay, run, disk, history
<1>6. Progress'
    BY DEF IInv, FirstSunday, HasToday, Indices, Moved, Progress, Sunday,
     Types, NewDay, run, disk
<1>7. MetricsTellTheTruth'
    BY DEF IInv, MetricsTellTheTruth, Types, NewDay, run, disk, history
<1>8. Reported'
    BY DEF IInv, Reported, Types, NewDay, history
<1> QED
  BY <1>1, <1>2, <1>3, <1>4, <1>5, <1>6, <1>7, <1>8 DEF IInv

(* There is nothing yet.                                                   *)
LEMMA InitIInv == Init => IInv
<1> SUFFICES ASSUME Init
             PROVE  IInv
  OBVIOUS
<1>1. Types
  <2>1. 1 \in Indices /\ 0 \in Days
    BY BackupAssumption DEF Indices, Days
  <2>2. metrics \in Metrics
    BY DEF Init, Metrics
  <2> QED
    BY <2>1, <2>2 DEF Init, Types, Archive
<1>2. ServiceKnown /\ TemporaryFiles /\ Dated /\ Copies /\ Progress
  BY DEF Init, ServiceKnown, TemporaryFiles, Dated, Copies, Progress, Moved, Directories
<1>3. MetricsTellTheTruth /\ Reported
  BY <1>1 DEF Types, Init, MetricsTellTheTruth, Reported
<1> QED
  BY <1>1, <1>2, <1>3 DEF IInv

(* Nothing changes.                                                        *)
LEMMA StutterStep ==
  ASSUME IInv, UNCHANGED vars
  PROVE  IInv'
<1>1. /\ UNCHANGED <<day, pc, i, asked, result, stopped, excused, tmp, files>>
      /\ UNCHANGED <<metrics, good, reported>>
  BY DEF vars, run, disk, history
<1> QED
  BY <1>1
     DEF IInv, Types, ServiceKnown, TemporaryFiles, Dated, Copies, ToCopy, Progress,
         Moved, HasToday, MetricsTellTheTruth, Reported, vol, Checked, Sunday, FirstSunday

(* The invariant holds whatever fails and whenever.                        *)
THEOREM Invariance == Spec => []IInv
<1>1. ASSUME IInv, [Next]_vars
      PROVE  IInv'
  <2>1. CASE Next
    BY <1>1, <2>1, StopServiceStep, FaultStep, DumpStep, MoveStep, CopyStep,
       RotateStep, CleanupStep, MetricsStep, BeginStep, NewDayStep
       DEF Next
  <2>2. CASE UNCHANGED vars
    BY <1>1, <2>2, StutterStep
  <2> QED
    BY <1>1, <2>1, <2>2
<1> QED
  BY InitIInv, <1>1, PTL DEF Spec

(* An archive of daily/ is whole however often a run is cut short, and so  *)
(* is a copy once a run of its day succeeded (backup-volumes.sh:119-136).  *)
THEOREM FinalNamesAreWhole == Spec => []ArchivesAreWhole
<1>1. IInv => ArchivesAreWhole
  <2> SUFFICES ASSUME IInv
               PROVE  ArchivesAreWhole
    OBVIOUS
  <2>1. files \in [Directories -> SUBSET Archive] /\ tmp \subseteq Archive
    BY DEF IInv, Types
  <2>2. ASSUME NEW dir \in Directories, NEW f \in files[dir], ~f.whole
        PROVE  f \notin files["daily"] /\ f.date \notin good
    BY <2>2 DEF IInv, Copies, Directories
  <2> QED
    BY <2>1, <2>2 DEF ArchivesAreWhole, Archives
<1> QED
  BY <1>1, Invariance, PTL

(* The service is down for the copy, and after a run only if Docker failed *)
(* or the trap was given no time (backup-volumes.sh:78-92, 103-117).       *)
THEOREM ServicesComeBack == Spec => []DownForTheCopyOnly
<1>1. IInv => DownForTheCopyOnly
  BY DEF IInv, ServiceKnown, DownForTheCopyOnly
<1> QED
  BY <1>1, Invariance, PTL

(* The metrics speak of the last success, and every volume has a whole     *)
(* archive at least as recent (backup-metrics.sh:57-67).                   *)
THEOREM MetricsAreTrue == Spec => []MetricsTellTheTruth
<1>1. IInv => MetricsTellTheTruth
  BY DEF IInv
<1> QED
  BY <1>1, Invariance, PTL

=============================================================================
