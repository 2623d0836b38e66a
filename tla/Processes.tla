------------------------------ MODULE Processes ------------------------------
(***************************************************************************)
(* The launcher main.c with the processes it makes: system_server, the web *)
(* server and input with its command line.  The program may be started     *)
(* again when main has ended; children of the earlier run that are still   *)
(* alive go on as orphans.                                                 *)
(*                                                                         *)
(* The create functions return 0, not a pid, so that all three waitpid     *)
(* calls wait for any child.  What waitpid and the SIGCHLD handler reap is *)
(* the kernel's choice: a blocked waitpid takes a zombie before the        *)
(* handler of its SIGCHLD runs; otherwise the handler runs first.  The     *)
(* memset in main clears one byte of sa, so that SA_RESTART may be set or  *)
(* not.  The message queues are modelled by one, /camera_queue.            *)
(***************************************************************************)
EXTENDS Naturals, Sequences

CONSTANTS
  MaxRuns,     (* bound on starts of the program                           *)
  QueueMax     (* NUM_MESSAGES                                             *)

ASSUME ProcessesAssumption == MaxRuns \in Nat \ {0} /\ QueueMax \in Nat \ {0}

Runs == 1..MaxRuns
Children == {"system", "web", "input"}
Waits == {"wait1", "wait2", "wait3"}
Blocked == {"blocked1", "blocked2", "blocked3"}

VARIABLES
  run,         (* the start that is running or ran last                    *)
  main,        (* where it is                                              *)
  restart,     (* SA_RESTART is set                                        *)
  sigchld,     (* SIGCHLD is pending for main                              *)
  gaveUp,      (* main ended in errExit or an assertion                    *)
  child,       (* by run and child: "none", "alive", "zombie"              *)
  opened,      (* by run and child: the queue it opened, 0 for none        *)
  linked,      (* the queue that has the name, 0 for none                  *)
  camera_queue,(* by queue, which is named for the run that created it:
                  the run in which each message was sent                   *)
  command,     (* by run: the command thread of input                      *)
  camera,      (* by run: the camera thread of its system server: "none",
                  "runs", or "returned"                                    *)
  stale        (* a system server received a message of an earlier run     *)

vars == <<run, main, restart, sigchld, gaveUp, child, opened, linked,
          camera_queue, command, camera, stale>>
queueVars == <<opened, linked, camera_queue, command, camera, stale>>

Init ==
  /\ run = 1 /\ main = "unlink" /\ restart \in BOOLEAN
  /\ sigchld = FALSE /\ gaveUp = FALSE
  /\ child = [r \in Runs |-> [c \in Children |-> "none"]]
  /\ opened = [r \in Runs |-> [c \in Children |-> 0]]
  /\ linked = 0
  /\ camera_queue = [r \in Runs |-> <<>>]
  /\ command = [r \in Runs |-> "none"] /\ camera = [r \in Runs |-> "none"]
  /\ stale = FALSE

mainGoes(from, to) ==
  /\ main = from /\ main' = to
  /\ UNCHANGED <<run, restart>>

(* main runs user code: a pending SIGCHLD is handled first                 *)
noSignal == ~sigchld

(* The program is started again; init has reaped what was left to reap.    *)
start_again ==
  /\ main = "ended"
  /\ run < MaxRuns
  /\ run' = run + 1
  /\ main' = "unlink"
  /\ restart' \in BOOLEAN
  /\ sigchld' = FALSE /\ gaveUp' = FALSE
  /\ child' = [child EXCEPT ![run] = [c \in Children |->
                 IF @[c] = "zombie" THEN "none" ELSE @[c]]]
  /\ UNCHANGED queueVars

-----------------------------------------------------------------------------
(* create_message_queue.                                                   *)

(* Mutant: the queue of an earlier run is kept.                            *)
mq_unlink_forgotten ==
  /\ mainGoes("unlink", "create")
  /\ UNCHANGED <<sigchld, gaveUp, child, queueVars>>

mq_unlink ==
  /\ mainGoes("unlink", "create")
  /\ linked' = 0
  /\ UNCHANGED <<sigchld, gaveUp, child, opened, camera_queue, command, camera,
                 stale>>

(* mq_open with O_CREAT makes the queue unless the name is taken.          *)
mq_open ==
  /\ mainGoes("create", "system")
  /\ linked' = IF linked = 0 THEN run ELSE linked
  /\ UNCHANGED <<sigchld, gaveUp, child, opened, camera_queue, command, camera,
                 stale>>

(* It fails, so does opening the queue that was unlinked, and main asserts *)
mq_open_fails ==
  /\ mainGoes("create", "ended")
  /\ linked = 0
  /\ gaveUp' = TRUE
  /\ UNCHANGED <<sigchld, child, queueVars>>

-----------------------------------------------------------------------------
(* create_system_server, create_web_server and create_input; main goes on  *)
(* whether the child was made or not.                                      *)
create(c, from, to) ==
  /\ noSignal
  /\ mainGoes(from, to)
  /\ \/ child' = [child EXCEPT ![run][c] = "alive"]
     \/ UNCHANGED child
  /\ UNCHANGED <<sigchld, gaveUp, queueVars>>

create_system_server == create("system", "system", "web")
create_input == create("input", "input", "wait1")

create_web_server ==
  \/ create("web", "web", "input")
  \/ /\ noSignal (* clone fails: errExit *)
     /\ mainGoes("web", "ended")
     /\ gaveUp' = TRUE
     /\ UNCHANGED <<sigchld, child, queueVars>>

-----------------------------------------------------------------------------
(* The waitpid calls of main.                                              *)
nextWait == [wait1 |-> "blocked1", wait2 |-> "blocked2", wait3 |-> "blocked3"]
afterWait == [blocked1 |-> "wait2", blocked2 |-> "wait3", blocked3 |-> "ended"]

zombies == {c \in Children : child[run][c] = "zombie"}
living == {c \in Children : child[run][c] = "alive"}

waitpid ==
  /\ main \in Waits
  /\ noSignal
  /\ mainGoes(main, nextWait[main])
  /\ UNCHANGED <<sigchld, gaveUp, child, queueVars>>

(* Mutant: only the system server and input are waited for.                *)
waitpid_twice ==
  /\ main \in Blocked
  /\ mainGoes(main, IF main = "blocked2" THEN "ended" ELSE afterWait[main])
  /\ \E c \in zombies : child' = [child EXCEPT ![run][c] = "none"]
  /\ UNCHANGED <<sigchld, gaveUp, queueVars>>

waitpid_reaps ==
  /\ main \in Blocked
  /\ mainGoes(main, afterWait[main])
  /\ \E c \in zombies : child' = [child EXCEPT ![run][c] = "none"]
  /\ UNCHANGED <<sigchld, gaveUp, queueVars>>

(* Mutant: an error is no reason to go on.                                 *)
waitpid_insists ==
  /\ main \in Blocked
  /\ zombies \cup living = {}
  /\ UNCHANGED vars

(* ECHILD                                                                  *)
waitpid_no_child ==
  /\ main \in Blocked
  /\ zombies \cup living = {}
  /\ mainGoes(main, afterWait[main])
  /\ UNCHANGED <<sigchld, gaveUp, child, queueVars>>

(* Every zombie is reaped.  A blocked waitpid that found none is restarted *)
(* or returns EINTR.                                                       *)
sigchldHandler ==
  /\ sigchld
  /\ main # "ended"
  /\ main \in Blocked => zombies = {}
  /\ sigchld' = FALSE
  /\ child' = [child EXCEPT ![run] = [c \in Children |->
                 IF @[c] = "zombie" THEN "none" ELSE @[c]]]
  /\ IF main \in Blocked /\ ~restart
     THEN mainGoes(main, afterWait[main])
     ELSE mainGoes(main, main)
  /\ UNCHANGED <<gaveUp, queueVars>>

-----------------------------------------------------------------------------
(* A child ends for whatever reason.  Its parent is told; init reaps an    *)
(* orphan.                                                                 *)
parentOf(r) == r = run /\ main # "ended"

dies(r, c) ==
  /\ child' = [child EXCEPT ![r][c] = IF parentOf(r) THEN "zombie" ELSE "none"]
  /\ sigchld' = (sigchld \/ parentOf(r))
  /\ opened' = [opened EXCEPT ![r][c] = 0]
  /\ command' = [command EXCEPT ![r] = IF c = "input" THEN "none" ELSE @]
  /\ camera' = [camera EXCEPT ![r] = IF c = "system" THEN "none" ELSE @]
  /\ UNCHANGED <<run, main, restart, gaveUp, linked, camera_queue, stale>>

alive(r, c) == child[r][c] = "alive"

(* A crash (SystemServer says of what), child_func's exec that fails, a    *)
(* segmentation fault, or sensor_thread without its device.                *)
ends(r, c) == alive(r, c) /\ dies(r, c)

(* A child is stopped or continued: SA_NOCLDSTOP may not be set.           *)
stops ==
  /\ main # "ended" /\ living # {}
  /\ ~sigchld
  /\ sigchld' = TRUE
  /\ UNCHANGED <<run, main, restart, gaveUp, child, queueVars>>

(* system_server and input open the queues and assert success; then their  *)
(* threads run.  input has set up its filter and its shared memory.  The   *)
(* system server tests pthread_create for -1, which it never returns, so   *)
(* that it goes on without a camera thread when there was none to be had.  *)
opens_queues(r, c) ==
  /\ c \in {"system", "input"}
  /\ alive(r, c)
  /\ opened[r][c] = 0
  /\ IF linked = 0 THEN dies(r, c)
     ELSE /\ opened' = [opened EXCEPT ![r][c] = linked]
          /\ command' = [command EXCEPT ![r] = IF c = "input" THEN "ready" ELSE @]
          /\ \/ c = "system" /\ camera' = [camera EXCEPT ![r] = "runs"]
             \/ UNCHANGED camera
          /\ UNCHANGED <<run, main, restart, sigchld, gaveUp, child, linked,
                         camera_queue, stale>>

-----------------------------------------------------------------------------
(* toy_loop: the command thread of input.                                  *)
queueOf(r) == opened[r]["input"]

commandGoes(r, from, to) ==
  /\ alive(r, "input")
  /\ command[r] = from
  /\ command' = [command EXCEPT ![r] = to]
  /\ UNCHANGED <<run, main, restart, sigchld, gaveUp, child, opened, linked,
                 camera, stale>>

(* toy_message_queue and toy_dump_state call mq_send, which blocks while   *)
(* the queue is full.  send, mu, elf, n, m1, m2 and sh change nothing here. *)
toy_message_queue(r) ==
  /\ commandGoes(r, "ready", "sending")
  /\ UNCHANGED camera_queue

(* Mutant: the bound of the queue is off by one.                           *)
mq_send_overfills(r) ==
  /\ commandGoes(r, "sending", "ready")
  /\ Len(camera_queue[queueOf(r)]) <= QueueMax
  /\ camera_queue' = [camera_queue EXCEPT ![queueOf(r)] = Append(@, run)]

mq_send(r) ==
  /\ commandGoes(r, "sending", "ready")
  /\ Len(camera_queue[queueOf(r)]) < QueueMax
  /\ camera_queue' = [camera_queue EXCEPT ![queueOf(r)] = Append(@, run)]

(* toy_exit ends the command thread, not the process.                      *)
toy_exit(r) ==
  /\ commandGoes(r, "ready", "ended")
  /\ UNCHANGED camera_queue

(* toy_mincore, which the filter forbids, and toy_send_to_be, whose queue  *)
(* was never opened, fail their assertions; end of file exits.             *)
toy_fatal(r) ==
  /\ alive(r, "input") /\ command[r] = "ready"
  /\ dies(r, "input")

toy_execute(r) == toy_message_queue(r) \/ mq_send(r) \/ toy_exit(r)
                  \/ toy_fatal(r)

(* The message at the head of the queue that the server of run r opened is *)
(* taken.                                                                  *)
takesMessage(r) ==
  /\ alive(r, "system") /\ opened[r]["system"] # 0
  /\ camera[r] = "runs"
  /\ LET q == opened[r]["system"]
     IN  /\ camera_queue[q] # <<>>
         /\ stale' = (stale \/ Head(camera_queue[q]) < r)
         /\ camera_queue' = [camera_queue EXCEPT ![q] = Tail(@)]
  /\ UNCHANGED <<run, main, restart, sigchld, gaveUp, child, opened, linked,
                 command>>

(* Mutant: the thread returns from within its loop, as disk_service_thread *)
(* does when something is wrong.                                           *)
mq_receive_once(r) ==
  /\ takesMessage(r)
  /\ camera' = [camera EXCEPT ![r] = "returned"]

(* camera_service_thread of a system server: it stays in its loop.         *)
mq_receive(r) ==
  /\ takesMessage(r)
  /\ UNCHANGED camera

mainStep ==
  \/ mq_unlink \/ mq_open \/ mq_open_fails
  \/ create_system_server \/ create_web_server \/ create_input
  \/ waitpid \/ waitpid_reaps \/ waitpid_no_child \/ sigchldHandler

Next ==
  \/ start_again \/ mainStep \/ stops
  \/ \E r \in Runs :
       \/ \E c \in Children : ends(r, c) \/ opens_queues(r, c)
       \/ toy_execute(r) \/ mq_receive(r)

(* main is scheduled and so are the camera threads that were created; the  *)
(* kernel serves senders that wait for a queue in order, so that none is   *)
(* overtaken for ever.                                                     *)
Spec ==
  /\ Init /\ [][Next]_vars
  /\ WF_vars(mainStep)
  /\ \A r \in Runs : SF_vars(mq_send(r)) /\ WF_vars(mq_receive(r))

-----------------------------------------------------------------------------
TypeOK ==
  /\ run \in Runs
  /\ main \in {"unlink", "create", "system", "web", "input", "ended"}
              \cup Waits \cup Blocked
  /\ restart \in BOOLEAN /\ sigchld \in BOOLEAN /\ gaveUp \in BOOLEAN
  /\ child \in [Runs -> [Children -> {"none", "alive", "zombie"}]]
  /\ opened \in [Runs -> [Children -> 0..MaxRuns]] /\ linked \in 0..MaxRuns
  /\ camera_queue \in [Runs -> Seq(Runs)]
  /\ \A q \in Runs : Len(camera_queue[q]) <= QueueMax
  /\ command \in [Runs -> {"none", "ready", "sending", "ended"}]
  /\ camera \in [Runs -> {"none", "runs", "returned"}]
  /\ stale \in BOOLEAN

(* main does not leave a living child behind.  The three waitpid calls     *)
(* wait for any child and compete with the handler for the zombies, yet    *)
(* between them they return only when all children are dead, if SA_RESTART *)
(* happens to be set and main did not give up (main.c:25-43, 93-98,        *)
(* 143-146).                                                               *)
MainOutlivesChildren == main = "ended" /\ restart /\ ~gaveUp => living = {}

(* A system server never acts on a message that was sent before its run    *)
(* started, although queues outlive the program and the old processes may  *)
(* still be there (main.c:59-62).                                          *)
NoStaleMessages == ~stale

(* main ends when its children are dead, whoever reaped them: a waitpid    *)
(* for a child the handler took returns ECHILD (main.c:143-146).           *)
MainEnds ==
  main \in Waits \cup Blocked /\ living = {} ~> main = "ended"

(* A command that blocks on a full queue returns, also when the readers    *)
(* are those of another run or several runs compete for the queue, unless  *)
(* no living system server both has that queue open and got its camera     *)
(* thread: then the command line blocks for good (input.c:242-247,         *)
(* system_server.c:347, 513).                                              *)
CommandReturns ==
  \A r \in Runs :
    command[r] = "sending" /\ alive(r, "input")
    ~> \/ command[r] # "sending" \/ ~alive(r, "input")
       \/ \A s \in Runs :
            ~ /\ alive(s, "system") /\ camera[s] # "none"
              /\ opened[s]["system"] = queueOf(r)

=============================================================================
