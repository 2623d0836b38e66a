---------------------------- MODULE SystemServer ----------------------------
(***************************************************************************)
(* The process system_server: its threads, as far as the sensor pipeline   *)
(* and the engine modules do not model what they do, and the SIGALRM that  *)
(* ticks through all of them.                                              *)
(*                                                                         *)
(* The kernel gives the process's SIGALRM to the main thread, unless that  *)
(* has it blocked: while it runs the handler or creates a thread.  Then    *)
(* any other thread takes it, and a thread that takes a signal in          *)
(* mq_receive, read or sem_wait returns from there with EINTR, because     *)
(* sa_flags is 0.                                                          *)
(***************************************************************************)
EXTENDS Naturals, Sequences, SequencesExt

CONSTANTS
  MaxTicks,    (* bound on SIGALRMs                                        *)
  MaxFds,      (* descriptors the process may still open                   *)
  Root,        (* the directory ./fs/                                      *)
  Entries,     (* what is below it                                         *)
  Folders,     (* the entries that are directories                         *)
  within,      (* the directory each entry is in                           *)
  QueueMax     (* length of /camera_queue                                  *)

ASSUME ServerAssumption ==
  /\ MaxTicks \in Nat /\ MaxFds \in Nat
  /\ QueueMax \in Nat \ {0}
  /\ Root \notin Entries /\ Folders \subseteq Entries
  /\ within \in [Entries -> Folders \cup {Root}]

Services == {"watchdog", "disk", "monitor", "camera", "timer", "engine"}
Order == <<"watchdog", "disk", "monitor", "camera", "timer", "engine">>
Commands == {"CAMERA_TAKE_PICTURE", "DUMP_STATE", "unknown"}

VARIABLES
  server,          (* "up", or what it died of                             *)
  created,         (* threads system_server has tried to create            *)
  thread,          (* by service: "none", "run", "ended"                   *)
  alarm,           (* SIGALRM: "off" until the timer is set; "idle";
                      "pending" for main; "handling": main runs the handler *)
  global_timer_sem,
  toy_timer,
  timerAt,         (* timer_thread: "start", "wait", "count"               *)
  handled,         (* runs of timer_expire_signal_handler: history         *)
  camera_queue,
  library,         (* the camera library: "none" until it is loaded        *)
  inotify,         (* "none"; "watched": ./fs/ is; "created": events are
                      there to be read                                     *)
  fds,             (* descriptors open for good                            *)
  scan,            (* the last scan of ./fs/: "none", "walk", "done"       *)
  calls,           (* its calls of get_directory_size, outermost first,
                      each with the files that total_size includes         *)
  seen,            (* the entries it has read: history                     *)
  failed,          (* those it could not open or stat: history             *)
  size             (* the files that the printed size includes, if one is  *)

vars == <<server, created, thread, alarm, global_timer_sem, toy_timer, timerAt,
          handled, camera_queue, library, inotify, fds, scan, calls, seen, failed,
          size>>
timerVars == <<alarm, global_timer_sem, toy_timer, timerAt, handled>>
scanVars == <<fds, scan, calls, seen, failed, size>>
diskVars == <<inotify, scanVars>>
cameraVars == <<camera_queue, library>>

Init ==
  /\ server = "up" /\ created = 0
  /\ thread = [s \in Services |-> "none"]
  /\ alarm = "off" /\ global_timer_sem = 0 /\ toy_timer = 0
  /\ timerAt = "start" /\ handled = 0
  /\ camera_queue = <<>> /\ library = "none"
  /\ inotify = "none" /\ fds = 0 /\ scan = "none" /\ calls = <<>>
  /\ seen = {} /\ failed = {} /\ size = {}

runs(s) == thread[s] = "run"

-----------------------------------------------------------------------------
(* system_server: the threads one after the other.  pthread_create never   *)
(* returns -1, so that a failure goes unnoticed, but for the engine's.     *)
(* Then main waits for system_loop_exit, which nobody sets.                *)
system_server ==
  /\ created < Len(Order)
  /\ created' = created + 1
  /\ LET s == Order[created + 1]
     IN  \/ thread' = [thread EXCEPT ![s] = "run"] /\ UNCHANGED server
         \/ s # "engine" /\ UNCHANGED <<thread, server>>
         \/ s = "engine" /\ server' = "no_engine" /\ UNCHANGED thread
  /\ UNCHANGED <<timerVars, cameraVars, diskVars>>

-----------------------------------------------------------------------------
(* SIGALRM.                                                                *)
timer_expire_signal_handler ==
  /\ global_timer_sem' = global_timer_sem + 1
  /\ handled' = handled + 1

(* The interval timer expires; a SIGALRM that is already pending absorbs   *)
(* the next.                                                               *)
tick ==
  /\ alarm = "idle"
  /\ alarm' = "pending"
  /\ UNCHANGED <<server, created, thread, global_timer_sem, toy_timer, timerAt,
                 handled, cameraVars, diskVars>>

main_handles ==
  /\ alarm = "pending"
  /\ alarm' = "handling"
  /\ UNCHANGED <<server, created, thread, global_timer_sem, toy_timer, timerAt,
                 handled, cameraVars, diskVars>>

main_posts ==
  /\ alarm = "handling"
  /\ handled < MaxTicks
  /\ alarm' = "idle"
  /\ timer_expire_signal_handler
  /\ UNCHANGED <<server, created, thread, toy_timer, timerAt, cameraVars,
                 diskVars>>

(* What a thread does whose system call the signal interrupts; nothing if  *)
(* it was not in one.  An assertion ends the process in the four that      *)
(* receive messages; the disk thread returns from its read, which waits    *)
(* for events; timer_thread tries again.                                   *)
interrupt(s) ==
  \/ UNCHANGED <<server, thread>>
  \/ s = "disk" /\ inotify = "watched" /\ scan # "walk"
     /\ thread' = [thread EXCEPT ![s] = "ended"] /\ UNCHANGED server
  \/ s \in {"watchdog", "monitor", "camera", "engine"}
     /\ server' = "alarm" /\ UNCHANGED thread

(* The timer expires while main has SIGALRM blocked.                       *)
other_takes(s) ==
  /\ alarm = "handling" \/ (alarm = "idle" /\ created < Len(Order))
  /\ handled < MaxTicks
  /\ runs(s)
  /\ timer_expire_signal_handler
  /\ interrupt(s)
  /\ UNCHANGED <<created, alarm, toy_timer, timerAt, cameraVars, diskVars>>

-----------------------------------------------------------------------------
(* timer_thread.                                                           *)
set_periodic_timer ==
  /\ runs("timer") /\ timerAt = "start"
  /\ timerAt' = "wait"
  /\ alarm' = "idle"
  /\ UNCHANGED <<server, created, thread, global_timer_sem, toy_timer, handled,
                 cameraVars, diskVars>>

(* Mutant: EINTR is taken for a tick.                                      *)
sem_wait_eintr ==
  /\ runs("timer") /\ timerAt = "wait"
  /\ global_timer_sem > 0 \/ alarm = "handling"
  /\ global_timer_sem' = IF global_timer_sem > 0 THEN global_timer_sem - 1 ELSE 0
  /\ timerAt' = "count"
  /\ UNCHANGED <<server, created, thread, alarm, toy_timer, handled, cameraVars,
                 diskVars>>

sem_wait ==
  /\ runs("timer") /\ timerAt = "wait"
  /\ global_timer_sem > 0
  /\ global_timer_sem' = global_timer_sem - 1
  /\ timerAt' = "count"
  /\ UNCHANGED <<server, created, thread, alarm, toy_timer, handled, cameraVars,
                 diskVars>>

(* ++toy_timer under toy_timer_mutex, which no other thread takes          *)
sighandler_timer ==
  /\ runs("timer") /\ timerAt = "count"
  /\ toy_timer' = toy_timer + 1
  /\ timerAt' = "wait"
  /\ UNCHANGED <<server, created, thread, alarm, global_timer_sem, handled,
                 cameraVars, diskVars>>

-----------------------------------------------------------------------------
(* camera_service_thread.  A command arrives from the input process.       *)
camera_command(c) ==
  /\ Len(camera_queue) < QueueMax
  /\ camera_queue' = Append(camera_queue, c)
  /\ UNCHANGED <<server, created, thread, timerVars, library, diskVars>>

hw_get_camera_module ==
  /\ runs("camera") /\ library = "none"
  /\ \/ library' \in {"toy", "oem"} /\ UNCHANGED server
     \/ server' = "no_library" /\ UNCHANGED library
  /\ UNCHANGED <<created, thread, timerVars, camera_queue, diskVars>>

(* Mutant: the thread leaves its loop on an unknown message.               *)
camera_service_thread_leaves ==
  /\ runs("camera") /\ library # "none"
  /\ camera_queue # <<>>
  /\ camera_queue' = Tail(camera_queue)
  /\ server' = IF Head(camera_queue) = "CAMERA_TAKE_PICTURE" /\ library = "toy"
               THEN "picture" ELSE server
  /\ thread' = IF Head(camera_queue) = "unknown"
               THEN [thread EXCEPT !["camera"] = "ended"] ELSE thread
  /\ UNCHANGED <<created, timerVars, library, diskVars>>

(* The camera was never opened: take_picture of the toy library follows    *)
(* the NULL control_thread (CameraHal), that of the OEM library and both   *)
(* dumps do not use it.                                                    *)
camera_service_thread ==
  /\ runs("camera") /\ library # "none"
  /\ camera_queue # <<>>
  /\ camera_queue' = Tail(camera_queue)
  /\ server' = IF Head(camera_queue) = "CAMERA_TAKE_PICTURE" /\ library = "toy"
               THEN "picture" ELSE server
  /\ UNCHANGED <<created, thread, timerVars, library, diskVars>>

-----------------------------------------------------------------------------
(* disk_service_thread.                                                    *)

(* The thread returns when ./fs/ cannot be watched.                        *)
inotify_add_watch ==
  /\ runs("disk") /\ inotify = "none"
  /\ \/ inotify' = "watched" /\ UNCHANGED thread
     \/ thread' = [thread EXCEPT !["disk"] = "ended"] /\ UNCHANGED inotify
  /\ UNCHANGED <<server, created, timerVars, cameraVars, scanVars>>

file_created ==
  /\ inotify = "watched"
  /\ inotify' = "created"
  /\ UNCHANGED <<server, created, thread, timerVars, cameraVars, scanVars>>

(* read returns the events and get_directory_size is called for ./fs/.     *)
(* opendir may fail for want of a descriptor or for any other reason.      *)
disk_service_thread ==
  /\ runs("disk") /\ scan # "walk"
  /\ inotify = "created" /\ inotify' = "watched"
  /\ seen' = {} /\ size' = {}
  /\ \/ /\ fds < MaxFds /\ fds' = fds + 1
        /\ calls' = <<[dir |-> Root, total |-> {}]>>
        /\ scan' = "walk" /\ failed' = {}
     \/ /\ scan' = "done" /\ failed' = {Root}
        /\ UNCHANGED <<fds, calls>>
  /\ UNCHANGED <<server, created, thread, timerVars, cameraVars>>

(* The innermost call gets an entry of its directory from readdir.         *)
readdir(e) ==
  /\ runs("disk") /\ scan = "walk"
  /\ e \notin seen /\ within[e] = Last(calls).dir
  /\ seen' = seen \cup {e}
  /\ UNCHANGED <<server, created, thread, timerVars, cameraVars, inotify, scan,
                 size>>

(* A file is added to total_size,                                          *)
count_file(e) ==
  /\ readdir(e)
  /\ e \notin Folders
  /\ calls' = [calls EXCEPT ![Len(calls)].total = @ \cup {e}]
  /\ UNCHANGED <<fds, failed>>

(* a directory is opened by a call of its own, which never closes it,      *)
enter_directory(e) ==
  /\ readdir(e)
  /\ e \in Folders
  /\ fds < MaxFds /\ fds' = fds + 1
  /\ calls' = Append(calls, [dir |-> e, total |-> {}])
  /\ UNCHANGED failed

(* and what lstat or opendir does not give (removed since, no permission,  *)
(* no descriptor) is passed over.                                          *)
skip_entry(e) ==
  /\ readdir(e)
  /\ failed' = failed \cup {e}
  /\ UNCHANGED <<fds, calls>>

(* readdir has returned NULL.                                              *)
endOfDirectory ==
  /\ runs("disk") /\ scan = "walk"
  /\ \A e \in Entries : within[e] = Last(calls).dir => e \in seen
  /\ UNCHANGED <<server, created, thread, timerVars, cameraVars, inotify, fds,
                 seen, failed>>

(* Mutant: dir_size takes the place of what was added up before.           *)
return_size_assigns ==
  /\ endOfDirectory
  /\ Len(calls) > 1
  /\ calls' = [Front(calls) EXCEPT ![Len(calls) - 1].total = Last(calls).total]
  /\ UNCHANGED <<scan, size>>

(* total_size goes to the caller, which adds it to its own                 *)
return_size ==
  /\ endOfDirectory
  /\ Len(calls) > 1
  /\ calls' = [Front(calls) EXCEPT ![Len(calls) - 1].total =
                 @ \cup Last(calls).total]
  /\ UNCHANGED <<scan, size>>

(* or, from the outermost call, to disk_service_thread, which prints it.   *)
print_size ==
  /\ endOfDirectory
  /\ Len(calls) = 1
  /\ calls' = <<>> /\ scan' = "done"
  /\ size' = Last(calls).total

get_directory_size ==
  \/ \E e \in Entries : count_file(e) \/ enter_directory(e) \/ skip_entry(e)
  \/ return_size \/ print_size

timerStep == set_periodic_timer \/ sem_wait \/ sighandler_timer
cameraStep == hw_get_camera_module \/ camera_service_thread

Next ==
  /\ server = "up"
  /\ \/ system_server
     \/ tick \/ main_handles \/ main_posts
     \/ \E s \in Services : other_takes(s)
     \/ timerStep \/ cameraStep
     \/ \E c \in Commands : camera_command(c)
     \/ inotify_add_watch \/ file_created \/ disk_service_thread
     \/ get_directory_size

(* The scheduler runs every thread.                                        *)
Spec ==
  /\ Init /\ [][Next]_vars
  /\ WF_vars(server = "up" /\ timerStep)
  /\ WF_vars(server = "up" /\ cameraStep)

-----------------------------------------------------------------------------
(* Every SIGALRM that was handled, by whichever thread, is counted once:   *)
(* in the semaphore, in timer_thread's hand or in toy_timer; an EINTR from *)
(* sem_wait neither loses nor adds one (system_server.c:64-68, 371-414).   *)
TicksCounted ==
  toy_timer + global_timer_sem + (IF timerAt = "count" THEN 1 ELSE 0) = handled

(* A printed size includes exactly the files that the scan got to: every   *)
(* entry of every directory that could be opened was looked at, whichever  *)
(* other entries failed on the way, and what the recursive calls returned  *)
(* has reached the sum (system_server.c:139-181, 242).                     *)
opened == ((seen \cap Folders) \cup {Root}) \ failed

SizesAddUp ==
  scan = "done" =>
    /\ \A e \in Entries : within[e] \in opened => e \in seen
    /\ size = (seen \ Folders) \ failed

(* A full /camera_queue, on which the mq and dump commands block, drains   *)
(* if the camera thread was created (system_server.c:345-367).             *)
CameraQueueDrains ==
  thread["camera"] # "none" /\ Len(camera_queue) = QueueMax
  ~> Len(camera_queue) < QueueMax \/ server # "up"

=============================================================================
