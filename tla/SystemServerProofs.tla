------------------------ MODULE SystemServerProofs ------------------------
(***************************************************************************)
(* The accounting of system_server: for any bound on ticks, descriptors    *)
(* and messages, no SIGALRM is lost or counted twice; for any tree below   *)
(* ./fs/, and whatever cannot be opened in it, a printed size includes     *)
(* just the files the scan got to.                                         *)
(***************************************************************************)
EXTENDS SystemServer, SequenceTheorems, TLAPS

(* What the timer's counters range over.                                   *)
Counters ==
  /\ global_timer_sem \in Nat /\ toy_timer \in Nat /\ handled \in Nat
  /\ timerAt \in {"start", "wait", "count"}

(* The calls of get_directory_size that are in progress.                   *)
Frames == [dir : Folders \cup {Root}, total : SUBSET Entries]

active(d) == \E i \in 1..Len(calls) : calls[i].dir = d
finished(d) == \A e \in Entries : within[e] = d => e \in seen
counted == (seen \ Folders) \ failed

(* During a scan a directory that was opened either has its call in        *)
(* progress or has been read to the end, and the files counted so far are  *)
(* just those in the totals of the calls in progress.                      *)
WalkInv ==
  /\ calls \in Seq(Frames)
  /\ scan = "walk" =>
       /\ Len(calls) > 0
       /\ failed \subseteq seen
       /\ \A d \in opened : active(d) \/ finished(d)
       /\ \A e \in counted : \E i \in 1..Len(calls) : e \in calls[i].total
       /\ \A i \in 1..Len(calls) : calls[i].total \subseteq counted

ScanInv == WalkInv /\ SizesAddUp

ServerInv == Counters /\ TicksCounted /\ ScanInv

LEMMA ServerInitInv == Init => ServerInv
  <1> SUFFICES ASSUME Init PROVE ServerInv
    OBVIOUS
  <1>1. Counters /\ TicksCounted
    BY DEF Init, Counters, TicksCounted
  <1>2. ScanInv
    BY DEF Init, ScanInv, WalkInv, SizesAddUp
  <1>3. QED BY <1>1, <1>2 DEF ServerInv

(* A step that leaves the timer alone keeps its account, and one that      *)
(* leaves the scan alone keeps that.                                       *)
LEMMA TimerFrame ==
  ASSUME Counters, TicksCounted, UNCHANGED <<global_timer_sem, toy_timer, timerAt, handled>>
  PROVE  Counters' /\ TicksCounted'
  BY DEF Counters, TicksCounted

LEMMA DiskFrame ==
  ASSUME ScanInv, UNCHANGED <<scan, calls, seen, failed, size>>
  PROVE  ScanInv'
  BY DEF ScanInv, WalkInv, SizesAddUp, opened, active, finished, counted

(* timer_expire_signal_handler, in whichever thread it runs.               *)
LEMMA HandlerCounts ==
  ASSUME Counters, TicksCounted, timer_expire_signal_handler,
         UNCHANGED <<toy_timer, timerAt>>
  PROVE  Counters' /\ TicksCounted'
  BY DEF Counters, TicksCounted, timer_expire_signal_handler

(* timer_thread moves a tick from the semaphore to its hand and from there *)
(* to toy_timer.                                                           *)
LEMMA TimerStepCounts ==
  ASSUME Counters, TicksCounted, timerStep
  PROVE  Counters' /\ TicksCounted'
  <1>1. CASE set_periodic_timer
    BY <1>1 DEF set_periodic_timer, Counters, TicksCounted
  <1>2. CASE sem_wait
    BY <1>2 DEF sem_wait, Counters, TicksCounted
  <1>3. CASE sighandler_timer
    BY <1>3 DEF sighandler_timer, Counters, TicksCounted
  <1>4. QED BY <1>1, <1>2, <1>3 DEF timerStep

(* The scan starts with one call, or fails and counts nothing.             *)
LEMMA ScanStartInv ==
  ASSUME ScanInv, disk_service_thread
  PROVE  ScanInv'
  <1>1. seen' = {} /\ size' = {} BY DEF disk_service_thread
  <1>2. CASE scan' = "walk"
    <2>1. calls' = <<[dir |-> Root, total |-> {}]>> /\ failed' = {}
      BY <1>2 DEF disk_service_thread
    <2>2. [dir |-> Root, total |-> {}] \in Frames BY DEF Frames
    <2>3. /\ calls' \in Seq(Frames) /\ Len(calls') = 1
          /\ calls'[1].dir = Root /\ calls'[1].total = {}
      BY <2>1, <2>2
    <2>4. opened' = {Root} /\ counted' = {}
      BY <1>1, <2>1 DEF opened, counted
    <2>5. \A d \in opened' : active(d)'
      BY <2>3, <2>4 DEF active
    <2>6. \A i \in 1..Len(calls') : calls'[i].total \subseteq counted'
      BY <2>3, <2>4
    <2>7. WalkInv'
      BY <1>2, <2>1, <2>3, <2>4, <2>5, <2>6 DEF WalkInv
    <2>8. QED BY <1>2, <2>7 DEF ScanInv, SizesAddUp
  <1>3. CASE scan' = "done"
    <2>1. failed' = {Root} /\ UNCHANGED calls
      BY <1>3 DEF disk_service_thread
    <2>2. opened' = {} BY <1>1, <2>1 DEF opened
    <2>3. QED BY <1>1, <1>3, <2>1, <2>2 DEF ScanInv, WalkInv, SizesAddUp
  <1>4. QED BY <1>2, <1>3 DEF disk_service_thread

(* The innermost call takes the entry e.                                   *)
LEMMA ReaddirInv ==
  ASSUME ScanInv, NEW e \in Entries,
         count_file(e) \/ enter_directory(e) \/ skip_entry(e)
  PROVE  ScanInv'
  <1> DEFINE n == Len(calls)
  <1>1. /\ scan = "walk" /\ scan' = "walk"
        /\ e \notin seen /\ seen' = seen \cup {e}
        /\ e # Root
    BY ServerAssumption DEF count_file, enter_directory, skip_entry, readdir
  <1>2. /\ calls \in Seq(Frames) /\ n \in Nat /\ n > 0
        /\ failed \subseteq seen
        /\ \A d \in opened : active(d) \/ finished(d)
        /\ \A f \in counted : \E i \in 1..n : f \in calls[i].total
        /\ \A i \in 1..n : calls[i] \in Frames /\ calls[i].total \subseteq counted
    BY <1>1 DEF ScanInv, WalkInv
  <1>3. e \notin counted /\ e \notin failed BY <1>1, <1>2 DEF counted
  <1>4. \A d : finished(d) => finished(d)' BY <1>1 DEF finished
  <1>5. CASE count_file(e)
    <2>1. /\ calls' = [calls EXCEPT ![n].total = @ \cup {e}]
          /\ e \notin Folders /\ UNCHANGED failed
      BY <1>5 DEF count_file
    <2>2. n \in 1..n /\ calls[n] \in Frames BY <1>2
    <2>3. [calls[n] EXCEPT !.total = @ \cup {e}] \in Frames
      BY <2>2 DEF Frames
    <2>4. /\ calls' \in Seq(Frames) /\ Len(calls') = n
          /\ \A i \in 1..n : calls'[i].dir = calls[i].dir
          /\ \A i \in 1..n : i # n => calls'[i].total = calls[i].total
          /\ calls'[n].total = calls[n].total \cup {e}
      BY <1>2, <2>1, <2>2, <2>3 DEF Frames
    <2> HIDE DEF n
    <2>5. counted' = counted \cup {e} /\ opened' = opened
      BY <1>1, <1>3, <2>1 DEF counted, opened
    <2>6. \A d : active(d) => active(d)'
      BY <2>4 DEF active, n
    <2>7. \A f \in counted' : \E i \in 1..n : f \in calls'[i].total
      BY <1>2, <2>2, <2>4, <2>5
    <2>8. \A i \in 1..n : calls'[i].total \subseteq counted'
      BY <1>2, <2>4, <2>5
    <2>9. failed' \subseteq seen' BY <1>1, <1>2, <2>1
    <2>10. WalkInv'
      BY <1>1, <1>2, <1>4, <2>4, <2>5, <2>6, <2>7, <2>8, <2>9 DEF WalkInv
    <2>11. QED BY <1>1, <2>10 DEF ScanInv, SizesAddUp
  <1>6. CASE enter_directory(e)
    <2> DEFINE new == [dir |-> e, total |-> {}]
    <2>1. calls' = Append(calls, new) /\ e \in Folders /\ UNCHANGED failed
      BY <1>6 DEF enter_directory
    <2>2. new \in Frames BY <2>1 DEF Frames
    <2>3. new.dir = e /\ new.total = {} OBVIOUS
    <2> HIDE DEF new
    <2>4. /\ calls' \in Seq(Frames) /\ Len(calls') = n + 1
          /\ \A i \in 1..n : calls'[i] = calls[i]
          /\ calls'[n + 1] = new
      BY <1>2, <2>1, <2>2, AppendProperties
    <2> HIDE DEF n
    <2>5. counted' = counted /\ opened' \subseteq opened \cup {e}
      BY <1>1, <2>1 DEF counted, opened
    <2>6. active(e)'
      BY <1>2, <2>3, <2>4 DEF active
    <2>7. \A d : active(d) => active(d)'
      BY <1>2, <2>4 DEF active, n
    <2>8. \A f \in counted' : \E i \in 1..Len(calls') : f \in calls'[i].total
      BY <1>2, <2>4, <2>5
    <2>9. ASSUME NEW i \in 1..Len(calls') PROVE calls'[i].total \subseteq counted'
      <3>1. CASE i \in 1..n BY <1>2, <2>4, <2>5, <3>1
      <3>2. CASE i = n + 1 BY <2>3, <2>4, <3>2
      <3>3. QED BY <1>2, <2>4, <3>1, <3>2
    <2>10. failed' \subseteq seen' /\ Len(calls') > 0 BY <1>1, <1>2, <2>1, <2>4
    <2>11. WalkInv'
      BY <1>1, <1>2, <1>4, <2>4, <2>5, <2>6, <2>7, <2>8, <2>9, <2>10 DEF WalkInv
    <2>12. QED BY <1>1, <2>11 DEF ScanInv, SizesAddUp
  <1>7. CASE skip_entry(e)
    <2>1. UNCHANGED calls /\ failed' = failed \cup {e}
      BY <1>7 DEF skip_entry
    <2>2. counted' = counted /\ opened' = opened
      BY <1>1, <1>3, <2>1 DEF counted, opened
    <2>3. \A d : active(d) => active(d)' BY <2>1 DEF active
    <2>4. failed' \subseteq seen' BY <1>1, <1>2, <2>1
    <2>5. WalkInv'
      BY <1>1, <1>2, <1>4, <2>1, <2>2, <2>3, <2>4 DEF WalkInv
    <2>6. QED BY <1>1, <2>5 DEF ScanInv, SizesAddUp
  <1>8. QED BY <1>5, <1>6, <1>7

(* The innermost call returns: its directory is finished, and its total    *)
(* goes to the call below it or is printed.                                *)
LEMMA ReturnInv ==
  ASSUME ScanInv, return_size \/ print_size
  PROVE  ScanInv'
  <1> DEFINE n == Len(calls)
  <1>1. /\ scan = "walk" /\ UNCHANGED <<seen, failed>>
        /\ finished(calls[n].dir)
    BY DEF return_size, print_size, endOfDirectory, finished, Last
  <1>2. /\ calls \in Seq(Frames) /\ n \in Nat /\ n > 0
        /\ failed \subseteq seen
        /\ \A d \in opened : active(d) \/ finished(d)
        /\ \A f \in counted : \E i \in 1..n : f \in calls[i].total
        /\ \A i \in 1..n : calls[i] \in Frames /\ calls[i].total \subseteq counted
    BY <1>1 DEF ScanInv, WalkInv
  <1>3. counted' = counted /\ opened' = opened /\ \A d : finished(d)' <=> finished(d)
    BY <1>1 DEF counted, opened, finished
  <1>4. CASE return_size
    <2>1. /\ n > 1 /\ scan' = "walk"
          /\ calls' = [SubSeq(calls, 1, n - 1) EXCEPT ![n - 1].total =
                          @ \cup calls[n].total]
      BY <1>1, <1>4 DEF return_size, Front, Last
    <2> DEFINE rest == SubSeq(calls, 1, n - 1)
    <2>2. /\ rest \in Seq(Frames) /\ Len(rest) = n - 1
          /\ \A i \in 1..n - 1 : rest[i] = calls[i]
      BY <1>2, <2>1, SubSeqProperties
    <2>3. n - 1 \in 1..n - 1 /\ n - 1 \in 1..n /\ n \in 1..n BY <1>2, <2>1
    <2>4. calls' = [rest EXCEPT ![n - 1].total = @ \cup calls[n].total]
      BY <2>1
    <2> HIDE DEF rest, n
    <2>5. rest[n - 1] \in Frames /\ calls[n].total \in SUBSET Entries
      BY <1>2, <2>2, <2>3 DEF Frames
    <2>6. [rest[n - 1] EXCEPT !.total = @ \cup calls[n].total] \in Frames
      BY <2>5 DEF Frames
    <2>7. /\ calls' \in Seq(Frames) /\ Len(calls') = n - 1
          /\ \A i \in 1..n - 1 : calls'[i].dir = calls[i].dir
          /\ \A i \in 1..n - 1 : i # n - 1 => calls'[i].total = calls[i].total
          /\ calls'[n - 1].total = calls[n - 1].total \cup calls[n].total
      BY <2>2, <2>3, <2>4, <2>5, <2>6 DEF Frames
    <2>8. ASSUME NEW d, active(d) PROVE active(d)' \/ finished(d)
      <3>1. PICK i \in 1..n : calls[i].dir = d BY <2>8 DEF active, n
      <3>2. CASE i = n BY <1>1, <3>1, <3>2 DEF n
      <3>3. CASE i # n
        <4>1. i \in 1..n - 1 BY <1>2, <3>3
        <4>2. QED BY <2>7, <3>1, <4>1 DEF active
      <3>4. QED BY <3>2, <3>3
    <2>9. ASSUME NEW f \in counted' PROVE \E i \in 1..n - 1 : f \in calls'[i].total
      <3>1. PICK i \in 1..n : f \in calls[i].total BY <1>2, <1>3
      <3>2. CASE i = n \/ i = n - 1 BY <2>3, <2>7, <3>1, <3>2
      <3>3. CASE i # n /\ i # n - 1
        <4>1. i \in 1..n - 1 BY <1>2, <3>3
        <4>2. QED BY <2>7, <3>1, <3>3, <4>1
      <3>4. QED BY <3>2, <3>3
    <2>10. ASSUME NEW i \in 1..n - 1 PROVE calls'[i].total \subseteq counted'
      <3>1. i \in 1..n BY <1>2
      <3>2. QED BY <1>2, <1>3, <2>3, <2>7, <3>1
    <2>11. failed' \subseteq seen' /\ n - 1 > 0 BY <1>1, <1>2, <2>1
    <2>12. WalkInv'
      BY <1>2, <1>3, <2>7, <2>8, <2>9, <2>10, <2>11 DEF WalkInv
    <2>13. QED BY <2>1, <2>12 DEF ScanInv, SizesAddUp
  <1>5. CASE print_size
    <2>1. n = 1 /\ calls' = <<>> /\ scan' = "done" /\ size' = calls[n].total
      BY <1>5 DEF print_size, Last
    <2>2. \A d \in opened : finished(d)
      BY <1>1, <1>2, <2>1 DEF active
    <2>3. size' = counted
      <3>1. 1 \in 1..n /\ \A i \in 1..n : i = 1 BY <2>1
      <3>2. calls[1].total \subseteq counted BY <1>2, <3>1
      <3>3. \A f \in counted : f \in calls[1].total BY <1>2, <3>1
      <3>4. calls[1].total = counted BY <3>2, <3>3, Zenon
      <3>5. QED BY <2>1, <3>4
    <2>4. WalkInv' BY <2>1 DEF WalkInv
    <2>5. SizesAddUp'
      BY <1>1, <1>3, <2>2, <2>3 DEF SizesAddUp, finished, counted
    <2>6. QED BY <2>4, <2>5 DEF ScanInv
  <1>6. QED BY <1>4, <1>5

LEMMA ServerStepInv == ServerInv /\ [Next]_vars => ServerInv'
  <1> SUFFICES ASSUME ServerInv, [Next]_vars PROVE ServerInv'
    OBVIOUS
  <1> USE DEF ServerInv, timerVars, scanVars, diskVars, cameraVars
  <1>1. CASE system_server \/ tick \/ main_handles
    BY <1>1, TimerFrame, DiskFrame DEF system_server, tick, main_handles
  <1>2. CASE main_posts
    BY <1>2, HandlerCounts, DiskFrame DEF main_posts
  <1>3. ASSUME NEW s \in Services, other_takes(s) PROVE ServerInv'
    BY <1>3, HandlerCounts, DiskFrame DEF other_takes
  <1>4. CASE timerStep
    <2>1. UNCHANGED <<scan, calls, seen, failed, size>>
      BY <1>4 DEF timerStep, set_periodic_timer, sem_wait, sighandler_timer
    <2>2. QED BY <1>4, <2>1, TimerStepCounts, DiskFrame
  <1>5. CASE cameraStep \/ \E c \in Commands : camera_command(c)
    BY <1>5, TimerFrame, DiskFrame
    DEF cameraStep, hw_get_camera_module, camera_service_thread, camera_command
  <1>6. CASE inotify_add_watch \/ file_created
    BY <1>6, TimerFrame, DiskFrame DEF inotify_add_watch, file_created
  <1>7. CASE disk_service_thread
    BY <1>7, TimerFrame, ScanStartInv DEF disk_service_thread
  <1>8. CASE get_directory_size
    <2>1. UNCHANGED <<global_timer_sem, toy_timer, timerAt, handled>>
      BY <1>8 DEF get_directory_size, count_file, enter_directory, skip_entry,
         readdir, return_size, print_size, endOfDirectory
    <2>2. ScanInv'
      BY <1>8, ReaddirInv, ReturnInv DEF get_directory_size
    <2>3. QED BY <2>1, <2>2, TimerFrame
  <1>9. CASE UNCHANGED vars
    BY <1>9, TimerFrame, DiskFrame DEF vars
  <1>10. QED
    BY <1>1, <1>2, <1>3, <1>4, <1>5, <1>6, <1>7, <1>8, <1>9 DEF Next

(* The inductive invariant of system_server.                               *)
THEOREM ServerInvariant == Spec => []ServerInv
  BY ServerInitInv, ServerStepInv, PTL DEF Spec

(* Every SIGALRM a thread of system_server handles is counted exactly once *)
(* (system_server.c:64-68, 371-414), for any number of ticks.              *)
THEOREM EveryTickIsCounted == Spec => []TicksCounted
  BY ServerInvariant, PTL DEF ServerInv

(* A printed size includes just the files of the directories that could   *)
(* be opened (system_server.c:139-181), for any tree, any limit of         *)
(* descriptors and any entries that cannot be opened or looked at.         *)
THEOREM SizesAreSums == Spec => []SizesAddUp
  BY ServerInvariant, PTL DEF ServerInv, ScanInv

=============================================================================
