-------------------------- MODULE ProcessesProofs --------------------------
(***************************************************************************)
(* The launcher and its children, for any number of starts of the program  *)
(* and any length of the queue: main outlives its children when SA_RESTART *)
(* is set, and no system server acts on a message of an earlier run.       *)
(***************************************************************************)
EXTENDS Processes, SequenceTheorems, TLAPS

-----------------------------------------------------------------------------
(* The inductive invariant.                                                *)

(* The name refers to the queue of this run, or before mq_unlink to that   *)
(* of the run before.                                                      *)
LinkInv == linked \in {0, IF main = "unlink" THEN run - 1 ELSE run}

(* Children exist only once their run has come to create them.             *)
NotYet(r) == r > run \/ (r = run /\ main \in {"unlink", "create"})

ChildInv ==
  \A r \in Runs, c \in Children :
    /\ NotYet(r) => child[r][c] = "none"
    /\ child[r][c] # "alive" => opened[r][c] = 0

(* A process has a queue that is as young as itself or younger.            *)
OpenInv ==
  \A r \in Runs, c \in Children : opened[r][c] # 0 => opened[r][c] \in r..run

(* The command thread runs when input has opened the queue.                *)
CommandInv ==
  \A r \in Runs : command[r] \in {"ready", "sending"} => queueOf(r) # 0

(* A queue holds messages of the run that made it and of later ones.       *)
QueueInv ==
  \A q \in Runs : \A n \in 1..Len(camera_queue[q]) : camera_queue[q][n] >= q

(* Each waitpid that returned, with SA_RESTART set, has reaped a child or  *)
(* found none.                                                             *)
gone(c) == child[run][c] = "none"

WaitInv ==
  restart =>
    /\ main \in {"wait2", "blocked2"} => \E c \in Children : gone(c)
    /\ main \in {"wait3", "blocked3"} =>
         \E c, d \in Children : c # d /\ gone(c) /\ gone(d)
    /\ main = "ended" /\ ~gaveUp => \A c \in Children : gone(c)

ChildStates == {"none", "alive", "zombie"}

(* TypeOK in parts, each of which is for one of the provers.               *)
Flags ==
  /\ restart \in BOOLEAN /\ sigchld \in BOOLEAN /\ gaveUp \in BOOLEAN
  /\ stale \in BOOLEAN

Kinds ==
  /\ run \in Runs
  /\ main \in {"unlink", "create", "system", "web", "input", "ended"}
              \cup Waits \cup Blocked
  /\ child \in [Runs -> [Children -> ChildStates]]
  /\ opened \in [Runs -> [Children -> 0..MaxRuns]] /\ linked \in 0..MaxRuns
  /\ camera_queue \in [Runs -> Seq(Runs)]
  /\ \A q \in Runs : Len(camera_queue[q]) <= QueueMax
  /\ command \in [Runs -> {"none", "ready", "sending", "ended"}]

Threads == camera \in [Runs -> {"none", "runs", "returned"}]

LEMMA TypeParts == TypeOK <=> Flags /\ Kinds /\ Threads
  BY DEF TypeOK, Flags, Kinds, Threads, ChildStates

ProcessesInv ==
  /\ Kinds
  /\ LinkInv
  /\ ChildInv
  /\ OpenInv
  /\ CommandInv
  /\ QueueInv
  /\ WaitInv

-----------------------------------------------------------------------------
LEMMA RunsAre ==
  /\ Runs \subseteq Nat \ {0}
  /\ 1 \in Runs
  /\ \A r \in Runs : r <= MaxRuns
  /\ MaxRuns \in Nat /\ QueueMax \in Nat \ {0}
  BY ProcessesAssumption DEF Runs

LEMMA ChildrenAre ==
  /\ "system" \in Children /\ "web" \in Children /\ "input" \in Children
  /\ \A c \in Children : c = "system" \/ c = "web" \/ c = "input"
  BY DEF Children


LEMMA InitInv == Init => ProcessesInv
  BY RunsAre, ChildrenAre
     DEF Init, ProcessesInv, Kinds, LinkInv, ChildInv, OpenInv, CommandInv,
         QueueInv, WaitInv, NotYet, gone, queueOf, ChildStates

-----------------------------------------------------------------------------
(* Updates of the children's table, pointwise.                             *)
IsTable(t) == t \in [Runs -> [Children -> ChildStates]]

becomes(r, c, v) == child' = [child EXCEPT ![r][c] = v]

LEMMA OneChild ==
  ASSUME IsTable(child), NEW r \in Runs, NEW c \in Children,
         NEW v \in ChildStates, becomes(r, c, v)
  PROVE  /\ IsTable(child')
         /\ child'[r][c] = v
         /\ \A s \in Runs, d \in Children :
              s # r \/ d # c => child'[s][d] = child[s][d]
  BY DEF IsTable, becomes

reaped == [child EXCEPT ![run] = [c \in Children |->
             IF @[c] = "zombie" THEN "none" ELSE @[c]]]

LEMMA Reaped ==
  ASSUME IsTable(child), run \in Runs, child' = reaped
  PROVE  /\ IsTable(child')
         /\ \A s \in Runs, d \in Children :
              /\ child[s][d] # "zombie" => child'[s][d] = child[s][d]
              /\ child[s][d] = "zombie" => child'[s][d] \in {"zombie", "none"}
  BY DEF reaped, ChildStates, IsTable

(* No step but a creation makes a child alive again, and a process that    *)
(* dies loses its queue.                                                   *)
LEMMA ChildFrame ==
  ASSUME ChildInv, run \in Runs, run' \in Runs, run' >= run,
         \A r \in Runs : NotYet(r)' => NotYet(r),
         \A s \in Runs, d \in Children :
           /\ child[s][d] = "none" => child'[s][d] = "none"
           /\ child'[s][d] # "alive" => child[s][d] # "alive" \/ opened'[s][d] = 0
           /\ opened'[s][d] = opened[s][d] \/ opened'[s][d] = 0
  PROVE  ChildInv'
  BY DEF ChildInv

(* A step that leaves the queues and the run alone.                        *)
LEMMA MainFrame ==
  ASSUME ProcessesInv, UNCHANGED run, UNCHANGED queueVars,
         main' = "unlink" <=> main = "unlink",
         main' \in {"unlink", "create", "system", "web", "input", "ended"}
                   \cup Waits \cup Blocked,
         IsTable(child'), ChildInv', WaitInv'
  PROVE  ProcessesInv'
  <1>1. UNCHANGED <<opened, linked, camera_queue, command>>
    BY DEF queueVars
  <1>2. Kinds' BY <1>1 DEF Kinds, IsTable, ProcessesInv
  <1>3. LinkInv' BY <1>1 DEF LinkInv, ProcessesInv
  <1>4. OpenInv' BY <1>1 DEF OpenInv, ProcessesInv
  <1>5. CommandInv' BY <1>1 DEF CommandInv, queueOf, ProcessesInv
  <1>6. QueueInv' BY <1>1 DEF QueueInv, ProcessesInv
  <1>7. QED BY <1>2, <1>3, <1>4, <1>5, <1>6 DEF ProcessesInv

LEMMA QueueSetupInv ==
  ASSUME ProcessesInv, mq_unlink \/ mq_open \/ mq_open_fails
  PROVE  ProcessesInv'
  <1>1. /\ UNCHANGED <<run, child, opened, camera_queue, command>>
        /\ main \in {"unlink", "create"}
        /\ main' = "create" \/ main' = "system" \/ (main' = "ended" /\ gaveUp' = TRUE)
        /\ main' # "unlink"
        /\ main' = "create" => linked' = 0
        /\ main' # "create" => main = "create" /\ linked' \in {linked, run}
    BY DEF mq_unlink, mq_open, mq_open_fails, mainGoes, queueVars
  <1>2. linked' \in {0, run} /\ run \in Runs
    BY <1>1 DEF ProcessesInv, LinkInv, Kinds
  <1>3. Kinds' BY <1>1, <1>2, RunsAre DEF Kinds, ProcessesInv
  <1>4. LinkInv' BY <1>1, <1>2 DEF LinkInv
  <1>5. \A r \in Runs : NotYet(r)' => NotYet(r)
    BY <1>1 DEF NotYet
  <1>6. ChildInv'
    <2>1. UNCHANGED <<run, child, opened>> /\ run \in Runs /\ ChildInv
      BY <1>1, <1>2 DEF ProcessesInv
    <2>2. QED BY <1>5, <2>1 DEF ChildInv
  <1>7. OpenInv' BY <1>1 DEF OpenInv, ProcessesInv
  <1>8. CommandInv' BY <1>1 DEF CommandInv, queueOf, ProcessesInv
  <1>9. QueueInv' BY <1>1 DEF QueueInv, ProcessesInv
  <1>10. WaitInv' BY <1>1 DEF WaitInv
  <1>11. QED BY <1>3, <1>4, <1>6, <1>7, <1>8, <1>9, <1>10 DEF ProcessesInv

LEMMA StartAgainInv ==
  ASSUME ProcessesInv, start_again
  PROVE  ProcessesInv'
  <1>1. /\ main = "ended" /\ main' = "unlink" /\ run' = run + 1
        /\ run \in Runs /\ run' \in Runs
        /\ child' = reaped
        /\ UNCHANGED <<opened, linked, camera_queue, command>>
    <2>1. run \in Runs BY DEF ProcessesInv, Kinds
    <2>2. run' \in Runs BY <2>1, ProcessesAssumption DEF start_again, Runs
    <2>3. QED BY <2>1, <2>2 DEF start_again, reaped, queueVars
  <1>2. IsTable(child)
    BY DEF ProcessesInv, Kinds, IsTable
  <1>3. /\ IsTable(child')
        /\ \A s \in Runs, d \in Children :
              /\ child[s][d] # "zombie" => child'[s][d] = child[s][d]
              /\ child[s][d] = "zombie" => child'[s][d] \in {"zombie", "none"}
    BY <1>1, <1>2, Reaped
  <1>4. Kinds'
    BY <1>1, <1>3 DEF Kinds, IsTable, ProcessesInv
  <1>5. LinkInv'
    BY <1>1, RunsAre DEF LinkInv, ProcessesInv
  <1>6. WaitInv'
    BY <1>1 DEF WaitInv
  <1>7. ChildInv'
    <2>1. ASSUME NEW r \in Runs, NotYet(r)' PROVE NotYet(r)
      BY <1>1, <2>1, RunsAre DEF NotYet
    <2>2. ChildInv BY DEF ProcessesInv
    <2>3. run' >= run BY <1>1, RunsAre
    <2>4. ASSUME NEW s \in Runs, NEW d \in Children
          PROVE  /\ child[s][d] = "none" => child'[s][d] = "none"
                 /\ child'[s][d] # "alive" => child[s][d] # "alive" \/ opened'[s][d] = 0
                 /\ opened'[s][d] = opened[s][d] \/ opened'[s][d] = 0
      BY <1>1, <1>3
    <2>5. QED BY <1>1, <2>1, <2>2, <2>3, <2>4, ChildFrame
  <1>8. OpenInv'
    BY <1>1, RunsAre DEF OpenInv, ProcessesInv, Kinds
  <1>9. CommandInv' BY <1>1 DEF CommandInv, queueOf, ProcessesInv
  <1>10. QueueInv' BY <1>1 DEF QueueInv, ProcessesInv
  <1>11. QED BY <1>4, <1>5, <1>6, <1>7, <1>8, <1>9, <1>10 DEF ProcessesInv

LEMMA CreateInv ==
  ASSUME ProcessesInv, create_system_server \/ create_web_server \/ create_input
  PROVE  ProcessesInv'
  <1>1. /\ main \in {"system", "web", "input"}
        /\ main' \in {"web", "input", "wait1"} \/ (main' = "ended" /\ gaveUp' = TRUE)
        /\ UNCHANGED run /\ UNCHANGED queueVars
        /\ \/ \E c \in Children : becomes(run, c, "alive")
           \/ child' = child
    BY ChildrenAre
       DEF create_system_server, create_web_server, create_input, create, mainGoes,
           becomes
  <1>2. IsTable(child) /\ run \in Runs /\ ChildInv
    BY DEF ProcessesInv, Kinds, IsTable
  <1>3. /\ IsTable(child')
        /\ \A s \in Runs, d \in Children :
             child'[s][d] = child[s][d] \/ (s = run /\ child'[s][d] = "alive")
    <2>1. CASE child' = child BY <1>2, <2>1
    <2>2. CASE \E c \in Children : becomes(run, c, "alive")
      <3>1. PICK c \in Children : becomes(run, c, "alive")
        BY <2>2
      <3>2. "alive" \in ChildStates BY DEF ChildStates
      <3>3. QED BY <1>2, <3>1, <3>2, OneChild
    <2>3. QED BY <1>1, <2>1, <2>2
  <1>4. ChildInv'
    <2>1. \A r \in Runs : NotYet(r)' => NotYet(r) /\ r # run
      BY <1>1, <1>2, RunsAre DEF NotYet
    <2>2. UNCHANGED opened BY <1>1 DEF queueVars
    <2>3. QED BY <1>2, <1>3, <2>1, <2>2 DEF ChildInv
  <1>5. WaitInv'
    BY <1>1 DEF WaitInv
  <1>6. QED BY <1>1, <1>3, <1>4, <1>5, MainFrame DEF Waits

(* With SA_RESTART set, each waitpid that returns lets main go on with one *)
(* child fewer, or with none.                                              *)
LEMMA WaitStepInv ==
  ASSUME ProcessesInv, waitpid \/ waitpid_reaps \/ waitpid_no_child \/ sigchldHandler
  PROVE  ProcessesInv'
  <1>1. IsTable(child) /\ run \in Runs /\ ChildInv /\ WaitInv
    BY DEF ProcessesInv, Kinds, IsTable
  <1>2. CASE waitpid
    <2>1. /\ main' \in Blocked
          /\ main = "wait1" => main' = "blocked1"
          /\ main = "wait2" => main' = "blocked2"
          /\ main = "wait3" => main' = "blocked3"
          /\ main \in Waits
          /\ UNCHANGED <<run, restart, child>> /\ UNCHANGED queueVars
      BY <1>2 DEF waitpid, mainGoes, nextWait, Waits, Blocked
    <2>2. ChildInv'
      <3>1. \A r \in Runs : NotYet(r)' => NotYet(r)
        BY <2>1 DEF NotYet, Blocked
      <3>2. QED BY <1>1, <2>1, <3>1 DEF ChildInv, queueVars
    <2>3. WaitInv'
      BY <1>1, <2>1 DEF WaitInv, gone, Waits, Blocked
    <2>4. QED BY <1>1, <2>1, <2>2, <2>3, MainFrame DEF Waits, Blocked
  <1>3. CASE waitpid_reaps \/ waitpid_no_child
    <2>1. /\ main \in Blocked
          /\ main = "blocked1" => main' = "wait2"
          /\ main = "blocked2" => main' = "wait3"
          /\ main = "blocked3" => main' = "ended"
          /\ UNCHANGED run /\ UNCHANGED restart /\ UNCHANGED queueVars
          /\ \A r \in Runs : NotYet(r)' => NotYet(r)
      BY <1>3 DEF waitpid_reaps, waitpid_no_child, mainGoes, afterWait, Blocked,
                  NotYet
    <2>2. UNCHANGED gaveUp
      BY <1>3 DEF waitpid_reaps, waitpid_no_child
    <2>3. CASE waitpid_reaps
      <3>1. PICK c \in Children : /\ child[run][c] = "zombie"
                                  /\ becomes(run, c, "none")
        BY <2>3 DEF waitpid_reaps, zombies, becomes
      <3>2. /\ IsTable(child')
            /\ child'[run][c] = "none"
            /\ \A s \in Runs, d \in Children :
                 s # run \/ d # c => child'[s][d] = child[s][d]
        <4>1. "none" \in ChildStates BY DEF ChildStates
        <4>2. QED BY <1>1, <3>1, <4>1, OneChild
      <3>3. ChildInv'
        BY <1>1, <2>1, <3>1, <3>2 DEF ChildInv, queueVars
      <3>4. WaitInv'
        <4>1. \A d \in Children : gone(d) => gone(d)' /\ d # c
          BY <1>1, <2>1, <3>1, <3>2 DEF gone
        <4>2. gone(c)'
          BY <2>1, <3>2 DEF gone
        <4>3. ASSUME restart PROVE main' = "wait3" =>
                \E d, e \in Children : d # e /\ gone(d)' /\ gone(e)'
          BY <1>1, <2>1, <4>1, <4>2, <4>3 DEF WaitInv, Blocked
        <4>4. ASSUME restart PROVE main' = "ended" => \A d \in Children : gone(d)'
          BY <1>1, <2>1, <4>1, <4>2, <4>4, ChildrenAre DEF WaitInv, Blocked
        <4>5. QED BY <2>1, <4>2, <4>3, <4>4 DEF WaitInv, Blocked
      <3>5. QED BY <2>1, <3>2, <3>3, <3>4, MainFrame DEF Waits, Blocked
    <2>4. CASE waitpid_no_child
      <3>1. \A c \in Children : child[run][c] \in ChildStates
        BY <1>1 DEF IsTable
      <3>2. UNCHANGED child /\ \A c \in Children : child[run][c] = "none"
        BY <2>4, <3>1 DEF waitpid_no_child, zombies, living, ChildStates
      <3>3. ChildInv'
        BY <1>1, <2>1, <3>2 DEF ChildInv, queueVars
      <3>4. WaitInv'
        BY <2>1, <3>2, ChildrenAre DEF WaitInv, gone
      <3>5. QED BY <1>1, <2>1, <3>2, <3>3, <3>4, MainFrame DEF Waits, Blocked
    <2>5. QED BY <1>3, <2>3, <2>4
  <1>4. CASE sigchldHandler
    <2>1. /\ child' = reaped
          /\ UNCHANGED run /\ UNCHANGED restart /\ UNCHANGED queueVars
          /\ main # "ended"
          /\ restart => main' = main
          /\ main' = main \/ (main \in Blocked /\ main' \in {"wait2", "wait3", "ended"})
      BY <1>4 DEF sigchldHandler, mainGoes, reaped, afterWait, Blocked
    <2>2. UNCHANGED gaveUp BY <1>4 DEF sigchldHandler
    <2>3. /\ IsTable(child')
          /\ \A s \in Runs, d \in Children :
                /\ child[s][d] # "zombie" => child'[s][d] = child[s][d]
                /\ child[s][d] = "zombie" => child'[s][d] \in {"zombie", "none"}
      BY <1>1, <2>1, Reaped
    <2>4. WaitInv'
      BY <1>1, <2>1, <2>3 DEF WaitInv, gone
    <2>5. ChildInv'
      <3>1. \A r \in Runs : NotYet(r)' => NotYet(r)
        BY <2>1 DEF NotYet, Blocked
      <3>2. QED BY <1>1, <2>1, <2>3, <3>1 DEF ChildInv, queueVars
    <2>6. main \in {"unlink", "create", "system", "web", "input", "ended"}
                   \cup Waits \cup Blocked
      BY DEF ProcessesInv, Kinds
    <2>7. QED BY <2>1, <2>3, <2>4, <2>5, <2>6, MainFrame DEF Waits, Blocked
  <1>5. QED BY <1>2, <1>3, <1>4

-----------------------------------------------------------------------------
(* Updates of the table of open queues, pointwise.                         *)
opens(r, c, q) == opened' = [opened EXCEPT ![r][c] = q]

LEMMA OneOpened ==
  ASSUME opened \in [Runs -> [Children -> 0..MaxRuns]],
         NEW r \in Runs, NEW c \in Children, NEW q \in 0..MaxRuns, opens(r, c, q)
  PROVE  /\ opened' \in [Runs -> [Children -> 0..MaxRuns]]
         /\ opened'[r][c] = q
         /\ \A s \in Runs, d \in Children :
              s # r \/ d # c => opened'[s][d] = opened[s][d]
  BY DEF opens

LEMMA DiesInv ==
  ASSUME ProcessesInv, NEW r \in Runs, NEW c \in Children, alive(r, c), dies(r, c)
  PROVE  ProcessesInv'
  <1>1. /\ IsTable(child) /\ run \in Runs /\ ChildInv /\ WaitInv /\ OpenInv
        /\ opened \in [Runs -> [Children -> 0..MaxRuns]]
    BY DEF ProcessesInv, Kinds, IsTable
  <1>2. /\ UNCHANGED <<run, main, restart, linked, camera_queue>>
        /\ UNCHANGED gaveUp
        /\ opens(r, c, 0)
        /\ child[r][c] = "alive"
    BY DEF dies, alive, opens
  <1>3. PICK v \in {"zombie", "none"} : becomes(r, c, v)
    BY DEF dies, becomes
  <1>4. v \in ChildStates BY DEF ChildStates
  <1>5. /\ IsTable(child')
        /\ child'[r][c] = v
        /\ \A s \in Runs, d \in Children :
             s # r \/ d # c => child'[s][d] = child[s][d]
    BY <1>1, <1>3, <1>4, OneChild
  <1>6. /\ opened' \in [Runs -> [Children -> 0..MaxRuns]]
        /\ opened'[r][c] = 0
        /\ \A s \in Runs, d \in Children :
             s # r \/ d # c => opened'[s][d] = opened[s][d]
    <2>1. 0 \in 0..MaxRuns BY RunsAre
    <2>2. QED BY <1>1, <1>2, <2>1, OneOpened
  <1>7. /\ command' \in [Runs -> {"none", "ready", "sending", "ended"}]
        /\ \A s \in Runs : command'[s] = command[s]
                           \/ (c = "input" /\ s = r /\ command'[s] = "none")
        /\ c = "input" => command'[r] = "none"
    BY DEF dies, ProcessesInv, Kinds
  <1>8. Kinds'
    BY <1>2, <1>5, <1>6, <1>7 DEF Kinds, IsTable, ProcessesInv
  <1>9. LinkInv' BY <1>2 DEF LinkInv, ProcessesInv
  <1>10. ChildInv'
    <2>1. \A s \in Runs : NotYet(s)' => NotYet(s)
      BY <1>2 DEF NotYet
    <2>2. ASSUME NEW s \in Runs, NEW d \in Children
          PROVE  /\ NotYet(s)' => child'[s][d] = "none"
                 /\ child'[s][d] # "alive" => opened'[s][d] = 0
      <3>1. CASE s = r /\ d = c
        BY <1>1, <1>2, <1>6, <2>1, <3>1 DEF ChildInv
      <3>2. CASE s # r \/ d # c
        BY <1>1, <1>5, <1>6, <2>1, <3>2 DEF ChildInv
      <3>3. QED BY <3>1, <3>2
    <2>3. QED BY <2>2 DEF ChildInv
  <1>11. OpenInv'
    BY <1>1, <1>2, <1>6 DEF OpenInv
  <1>12. CommandInv'
    BY <1>6, <1>7, ChildrenAre DEF CommandInv, queueOf, ProcessesInv
  <1>13. QueueInv' BY <1>2 DEF QueueInv, ProcessesInv
  <1>14. WaitInv'
    <2>1. \A d \in Children : gone(d) => gone(d)'
      BY <1>1, <1>2, <1>5 DEF gone
    <2>2. QED BY <1>1, <1>2, <2>1 DEF WaitInv
  <1>15. QED BY <1>8, <1>9, <1>10, <1>11, <1>12, <1>13, <1>14 DEF ProcessesInv

LEMMA OpensInv ==
  ASSUME ProcessesInv, NEW r \in Runs, NEW c \in Children, opens_queues(r, c)
  PROVE  ProcessesInv'
  <1>1. CASE linked = 0
    BY <1>1, DiesInv DEF opens_queues
  <1>2. CASE linked # 0
    <2>1. /\ IsTable(child) /\ run \in Runs /\ ChildInv /\ OpenInv /\ LinkInv
          /\ opened \in [Runs -> [Children -> 0..MaxRuns]]
          /\ linked \in 0..MaxRuns
      BY DEF ProcessesInv, Kinds, IsTable
    <2>2. /\ UNCHANGED <<run, main, linked, camera_queue, child>>
          /\ UNCHANGED restart /\ UNCHANGED gaveUp
          /\ opens(r, c, linked)
          /\ child[r][c] = "alive"
      BY <1>2 DEF opens_queues, alive, opens
    <2>3. /\ opened' \in [Runs -> [Children -> 0..MaxRuns]]
          /\ opened'[r][c] = linked
          /\ \A s \in Runs, d \in Children :
               s # r \/ d # c => opened'[s][d] = opened[s][d]
      BY <2>1, <2>2, OneOpened
    <2>4. /\ command' \in [Runs -> {"none", "ready", "sending", "ended"}]
          /\ \A s \in Runs : command'[s] = command[s] \/ (c = "input" /\ s = r)
      BY <1>2 DEF opens_queues, ProcessesInv, Kinds
    <2>5. linked \in r..run
      <3>1. ~NotYet(r) BY <2>1, <2>2 DEF ChildInv
      <3>2. r <= run /\ (main = "unlink" => r <= run - 1)
        BY <2>1, <3>1, RunsAre DEF NotYet
      <3>3. linked = run \/ (main = "unlink" /\ linked = run - 1)
        BY <1>2, <2>1 DEF LinkInv
      <3>4. QED BY <2>1, <3>2, <3>3, RunsAre
    <2>6. Kinds' BY <2>2, <2>3, <2>4 DEF Kinds, ProcessesInv
    <2>7. LinkInv' BY <2>1, <2>2 DEF LinkInv
    <2>8. ChildInv'
      <3>1. \A s \in Runs : NotYet(s)' => NotYet(s)
        BY <2>2 DEF NotYet
      <3>2. QED BY <2>1, <2>2, <2>3, <3>1 DEF ChildInv
    <2>9. OpenInv' BY <2>1, <2>2, <2>3, <2>5 DEF OpenInv
    <2>10. CommandInv'
      BY <1>2, <2>3, <2>4, ChildrenAre DEF CommandInv, queueOf, ProcessesInv
    <2>11. QueueInv' BY <2>2 DEF QueueInv, ProcessesInv
    <2>12. WaitInv' BY <2>2 DEF WaitInv, gone, ProcessesInv
    <2>13. QED BY <2>6, <2>7, <2>8, <2>9, <2>10, <2>11, <2>12 DEF ProcessesInv
  <1>3. QED BY <1>1, <1>2

-----------------------------------------------------------------------------
(* The messages.                                                           *)

(* A step of a command thread or of a receiver.                            *)
LEMMA QueueFrame ==
  ASSUME ProcessesInv, UNCHANGED <<run, main, child, opened, linked>>,
         UNCHANGED restart, UNCHANGED gaveUp,
         command' \in [Runs -> {"none", "ready", "sending", "ended"}],
         camera_queue' \in [Runs -> Seq(Runs)],
         \A q \in Runs : Len(camera_queue'[q]) <= QueueMax,
         CommandInv', QueueInv'
  PROVE  ProcessesInv'
  <1>1. Kinds' BY DEF Kinds, ProcessesInv
  <1>2. LinkInv' /\ OpenInv' BY DEF LinkInv, OpenInv, ProcessesInv
  <1>3. ChildInv' BY DEF ChildInv, NotYet, ProcessesInv
  <1>4. WaitInv' BY DEF WaitInv, gone, ProcessesInv
  <1>5. QED BY <1>1, <1>2, <1>3, <1>4 DEF ProcessesInv

LEMMA CommandStepInv ==
  ASSUME ProcessesInv, NEW r \in Runs,
         toy_message_queue(r) \/ mq_send(r) \/ toy_exit(r)
  PROVE  ProcessesInv'
  <1>1. PICK to \in {"ready", "sending", "ended"} :
          /\ command' = [command EXCEPT ![r] = to]
          /\ command[r] \in {"ready", "sending"}
          /\ UNCHANGED <<run, main, child, opened, linked>>
          /\ UNCHANGED restart /\ UNCHANGED gaveUp
    BY DEF toy_message_queue, mq_send, toy_exit, commandGoes
  <1>2. /\ command \in [Runs -> {"none", "ready", "sending", "ended"}]
        /\ camera_queue \in [Runs -> Seq(Runs)]
        /\ \A q \in Runs : Len(camera_queue[q]) <= QueueMax
        /\ CommandInv /\ QueueInv /\ OpenInv /\ run \in Runs
        /\ opened \in [Runs -> [Children -> 0..MaxRuns]]
    BY DEF ProcessesInv, Kinds
  <1>3. /\ command' \in [Runs -> {"none", "ready", "sending", "ended"}]
        /\ \A s \in Runs : s # r => command'[s] = command[s]
    BY <1>1, <1>2
  <1>4. CommandInv'
    BY <1>1, <1>2, <1>3 DEF CommandInv, queueOf
  <1>5. CASE UNCHANGED camera_queue
    <2>1. QueueInv' BY <1>2, <1>5 DEF QueueInv
    <2>2. QED BY <1>1, <1>2, <1>3, <1>4, <1>5, <2>1, QueueFrame
  <1>6. CASE mq_send(r)
    <2> DEFINE q == queueOf(r)
    <2>1. q \in Runs /\ q \in r..run
      <3>1. q # 0 BY <1>1, <1>2 DEF CommandInv
      <3>2. q \in r..run BY <1>2, <3>1, ChildrenAre DEF OpenInv, queueOf
      <3>3. q \in 0..MaxRuns BY <1>2, ChildrenAre DEF queueOf
      <3>4. QED BY <3>1, <3>2, <3>3 DEF Runs
    <2> HIDE DEF q
    <2>2. /\ Len(camera_queue[q]) < QueueMax
          /\ camera_queue' = [camera_queue EXCEPT ![q] = Append(@, run)]
      BY <1>6 DEF mq_send, q
    <2>3. camera_queue[q] \in Seq(Runs) BY <1>2, <2>1
    <2>4. /\ Append(camera_queue[q], run) \in Seq(Runs)
          /\ Len(Append(camera_queue[q], run)) = Len(camera_queue[q]) + 1
          /\ \A n \in 1..Len(camera_queue[q]) + 1 :
               \/ n \in 1..Len(camera_queue[q])
                  /\ Append(camera_queue[q], run)[n] = camera_queue[q][n]
               \/ Append(camera_queue[q], run)[n] = run
      <3>1. run \in Runs BY <1>2
      <3>2. Len(camera_queue[q]) \in Nat BY <2>3
      <3>3. QED BY <2>3, <3>1, <3>2, AppendProperties
    <2>5. /\ camera_queue' \in [Runs -> Seq(Runs)]
          /\ camera_queue'[q] = Append(camera_queue[q], run)
          /\ \A p \in Runs : p # q => camera_queue'[p] = camera_queue[p]
      BY <1>2, <2>1, <2>2, <2>4
    <2>6. \A p \in Runs : Len(camera_queue'[p]) <= QueueMax
      <3>1. Len(camera_queue[q]) \in Nat BY <2>3
      <3>2. Len(camera_queue'[q]) <= QueueMax
        BY <2>2, <2>4, <2>5, <3>1, RunsAre
      <3>3. QED BY <1>2, <2>5, <3>2
    <2>7. QueueInv'
      <3>1. ASSUME NEW p \in Runs, NEW n \in 1..Len(camera_queue'[p])
            PROVE  camera_queue'[p][n] >= p
        <4>1. CASE p # q
          BY <1>2, <2>5, <4>1 DEF QueueInv
        <4>2. CASE p = q
          <5>1. run >= q BY <1>2, <2>1, RunsAre
          <5>2. n \in 1..Len(camera_queue[q]) + 1
            BY <2>4, <2>5, <4>2
          <5>3. QED BY <1>2, <2>1, <2>4, <2>5, <4>2, <5>1, <5>2 DEF QueueInv
        <4>3. QED BY <4>1, <4>2
      <3>2. QED BY <3>1 DEF QueueInv
    <2>8. QED BY <1>1, <1>3, <1>4, <2>5, <2>6, <2>7, QueueFrame
  <1>7. QED BY <1>5, <1>6 DEF toy_message_queue, toy_exit

(* The head of a queue is a message of the run that made the queue or of a *)
(* later one, and the reader is not younger than the queue.                *)
LEMMA ReceiveInv ==
  ASSUME ProcessesInv, NEW r \in Runs, mq_receive(r)
  PROVE  /\ ProcessesInv'
         /\ ~(Head(camera_queue[opened[r]["system"]]) < r)
  <1> DEFINE q == opened[r]["system"]
  <1>1. /\ UNCHANGED <<run, main, child, opened, linked, command>>
        /\ UNCHANGED restart /\ UNCHANGED gaveUp
        /\ q # 0 /\ camera_queue[q] # <<>>
        /\ camera_queue' = [camera_queue EXCEPT ![q] = Tail(@)]
    BY DEF mq_receive, takesMessage
  <1>2. /\ command \in [Runs -> {"none", "ready", "sending", "ended"}]
        /\ camera_queue \in [Runs -> Seq(Runs)]
        /\ \A p \in Runs : Len(camera_queue[p]) <= QueueMax
        /\ CommandInv /\ QueueInv /\ OpenInv /\ run \in Runs
        /\ opened \in [Runs -> [Children -> 0..MaxRuns]]
    BY DEF ProcessesInv, Kinds
  <1>3. q \in Runs /\ q >= r
    <2>1. q \in r..run BY <1>1, <1>2, ChildrenAre DEF OpenInv
    <2>2. q \in 0..MaxRuns BY <1>2, ChildrenAre
    <2>3. QED BY <1>1, <2>1, <2>2, RunsAre DEF Runs
  <1> HIDE DEF q
  <1>4. camera_queue[q] \in Seq(Runs) /\ Len(camera_queue[q]) \in Nat \ {0}
    BY <1>1, <1>2, <1>3, EmptySeq
  <1>5. /\ Tail(camera_queue[q]) \in Seq(Runs)
        /\ Len(Tail(camera_queue[q])) = Len(camera_queue[q]) - 1
        /\ \A n \in 1..Len(Tail(camera_queue[q])) :
             Tail(camera_queue[q])[n] = camera_queue[q][n + 1]
    BY <1>1, <1>4, HeadTailProperties
  <1>6. /\ camera_queue' \in [Runs -> Seq(Runs)]
        /\ camera_queue'[q] = Tail(camera_queue[q])
        /\ \A p \in Runs : p # q => camera_queue'[p] = camera_queue[p]
    BY <1>1, <1>2, <1>3, <1>5
  <1>7. \A p \in Runs : Len(camera_queue'[p]) <= QueueMax
    <2>1. Len(camera_queue[q]) <= QueueMax BY <1>2, <1>3
    <2>2. Len(camera_queue'[q]) <= QueueMax
      BY <1>4, <1>5, <1>6, <2>1, RunsAre
    <2>3. QED BY <1>2, <1>6, <2>2
  <1>8. QueueInv'
    <2>1. ASSUME NEW p \in Runs, NEW n \in 1..Len(camera_queue'[p])
          PROVE  camera_queue'[p][n] >= p
      <3>1. CASE p # q
        BY <1>2, <1>6, <3>1 DEF QueueInv
      <3>2. CASE p = q
        <4>1. n + 1 \in 1..Len(camera_queue[q])
          BY <1>4, <1>5, <1>6, <3>2
        <4>2. camera_queue'[p][n] = camera_queue[q][n + 1]
          BY <1>5, <1>6, <3>2
        <4>3. QED BY <1>2, <1>3, <3>2, <4>1, <4>2 DEF QueueInv
      <3>3. QED BY <3>1, <3>2
    <2>2. QED BY <2>1 DEF QueueInv
  <1>9. CommandInv' BY <1>1, <1>2 DEF CommandInv, queueOf
  <1>10. ~(Head(camera_queue[q]) < r)
    <2>1. Head(camera_queue[q]) = camera_queue[q][1] BY <1>4
    <2>2. 1 \in 1..Len(camera_queue[q]) BY <1>4
    <2>3. camera_queue[q][1] >= q /\ camera_queue[q][1] \in Runs
      BY <1>2, <1>3, <1>4, <2>2 DEF QueueInv
    <2>4. camera_queue[q][1] \in Nat /\ q \in Nat /\ r \in Nat
      BY <1>3, <2>3, RunsAre
    <2>5. ~(camera_queue[q][1] < r)
      BY <1>3, <2>3, <2>4
    <2>6. QED BY <2>1, <2>5
  <1>11. ProcessesInv' BY <1>1, <1>2, <1>6, <1>7, <1>8, <1>9, QueueFrame
  <1>12. QED BY <1>10, <1>11 DEF q

-----------------------------------------------------------------------------
LEMMA StepInv ==
  ASSUME ProcessesInv, [Next]_vars
  PROVE  ProcessesInv'
  <1>1. CASE start_again BY <1>1, StartAgainInv
  <1>2. CASE mainStep
    BY <1>2, QueueSetupInv, CreateInv, WaitStepInv DEF mainStep
  <1>3. CASE stops \/ UNCHANGED vars
    <2>1. /\ UNCHANGED <<run, main, child, opened, linked, camera_queue, command>>
          /\ UNCHANGED restart /\ UNCHANGED gaveUp
      BY <1>3 DEF stops, vars, queueVars
    <2>2. Kinds /\ CommandInv /\ QueueInv BY DEF ProcessesInv
    <2>3. CommandInv' /\ QueueInv' BY <2>1, <2>2 DEF CommandInv, QueueInv, queueOf
    <2>4. /\ command' \in [Runs -> {"none", "ready", "sending", "ended"}]
          /\ camera_queue' \in [Runs -> Seq(Runs)]
          /\ \A q \in Runs : Len(camera_queue'[q]) <= QueueMax
      BY <2>1, <2>2 DEF Kinds
    <2>5. QED BY <2>1, <2>3, <2>4, QueueFrame
  <1>4. ASSUME NEW r \in Runs, NEW c \in Children, ends(r, c) \/ opens_queues(r, c)
        PROVE  ProcessesInv'
    BY <1>4, DiesInv, OpensInv DEF ends
  <1>5. ASSUME NEW r \in Runs, toy_execute(r)
        PROVE  ProcessesInv'
    BY <1>5, CommandStepInv, DiesInv, ChildrenAre DEF toy_execute, toy_fatal
  <1>6. ASSUME NEW r \in Runs, mq_receive(r)
        PROVE  ProcessesInv'
    BY <1>6, ReceiveInv
  <1>7. QED BY <1>1, <1>2, <1>3, <1>4, <1>5, <1>6 DEF Next

LEMMA FlagsStep ==
  ASSUME Flags, [Next]_vars
  PROVE  Flags'
  <1>1. CASE start_again
    BY <1>1 DEF Flags, start_again, queueVars
  <1>2. CASE mainStep
    BY <1>2 DEF Flags, mainStep, mq_unlink, mq_open, mq_open_fails,
       create_system_server, create_web_server, create_input, create, waitpid,
       waitpid_reaps, waitpid_no_child, sigchldHandler, mainGoes, queueVars
  <1>3. CASE stops \/ UNCHANGED vars
    BY <1>3 DEF Flags, stops, vars, queueVars
  <1>4. ASSUME NEW r \in Runs, NEW c \in Children, dies(r, c)
        PROVE  Flags'
    BY <1>4 DEF Flags, dies
  <1>5. ASSUME NEW r \in Runs, NEW c \in Children, opens_queues(r, c)
        PROVE  Flags'
    BY <1>4, <1>5 DEF Flags, opens_queues
  <1>6. ASSUME NEW r \in Runs, toy_execute(r)
        PROVE  Flags'
    BY <1>4, <1>6, ChildrenAre
       DEF Flags, toy_execute, toy_fatal, toy_message_queue, mq_send, toy_exit,
           commandGoes
  <1>7. ASSUME NEW r \in Runs, mq_receive(r)
        PROVE  Flags'
    BY <1>7 DEF Flags, mq_receive, takesMessage
  <1>8. QED BY <1>1, <1>2, <1>3, <1>4, <1>5, <1>6, <1>7 DEF Next, ends

LEMMA ThreadsStep ==
  ASSUME Threads, [Next]_vars
  PROVE  Threads'
  <1>1. CASE start_again \/ stops \/ UNCHANGED vars
    BY <1>1 DEF Threads, start_again, stops, vars, queueVars
  <1>2. CASE mainStep
    BY <1>2 DEF Threads, mainStep, mq_unlink, mq_open, mq_open_fails,
       create_system_server, create_web_server, create_input, create, waitpid,
       waitpid_reaps, waitpid_no_child, sigchldHandler, mainGoes, queueVars
  <1>3. ASSUME NEW r \in Runs, NEW c \in Children, dies(r, c)
        PROVE  Threads'
    BY <1>3 DEF Threads, dies
  <1>4. ASSUME NEW r \in Runs, NEW c \in Children, opens_queues(r, c)
        PROVE  Threads'
    BY <1>3, <1>4 DEF Threads, opens_queues
  <1>5. ASSUME NEW r \in Runs, toy_execute(r)
        PROVE  Threads'
    BY <1>3, <1>5, ChildrenAre
       DEF Threads, toy_execute, toy_fatal, toy_message_queue, mq_send, toy_exit,
           commandGoes
  <1>6. ASSUME NEW r \in Runs, mq_receive(r)
        PROVE  Threads'
    BY <1>6 DEF Threads, mq_receive
  <1>7. QED BY <1>1, <1>2, <1>3, <1>4, <1>5, <1>6 DEF Next, ends

LEMMA FreshStep ==
  ASSUME ProcessesInv, NoStaleMessages, [Next]_vars
  PROVE  NoStaleMessages'
  <1>1. CASE start_again \/ stops \/ UNCHANGED vars
    BY <1>1 DEF NoStaleMessages, start_again, stops, vars, queueVars
  <1>2. CASE mainStep
    BY <1>2 DEF NoStaleMessages, mainStep, mq_unlink, mq_open, mq_open_fails,
       create_system_server, create_web_server, create_input, create, waitpid,
       waitpid_reaps, waitpid_no_child, sigchldHandler, mainGoes, queueVars
  <1>3. ASSUME NEW r \in Runs, NEW c \in Children, ends(r, c) \/ opens_queues(r, c)
        PROVE  NoStaleMessages'
    BY <1>3 DEF NoStaleMessages, ends, opens_queues, dies
  <1>4. ASSUME NEW r \in Runs, toy_execute(r)
        PROVE  NoStaleMessages'
    BY <1>4 DEF NoStaleMessages, toy_execute, toy_fatal, toy_message_queue,
                mq_send, toy_exit, commandGoes, dies
  <1>5. ASSUME NEW r \in Runs, mq_receive(r)
        PROVE  NoStaleMessages'
    <2>1. ~(Head(camera_queue[opened[r]["system"]]) < r)
      BY <1>5, ReceiveInv
    <2>2. stale' = (stale \/ Head(camera_queue[opened[r]["system"]]) < r)
      BY <1>5 DEF mq_receive, takesMessage
    <2>3. QED BY <2>1, <2>2 DEF NoStaleMessages
  <1>6. QED BY <1>1, <1>2, <1>3, <1>4, <1>5 DEF Next

-----------------------------------------------------------------------------
(* The strengthening is an invariant of the launcher (main.c:56-146).      *)
THEOREM ProcessesInvariant == Spec => []ProcessesInv
  <1>1. ProcessesInv /\ [Next]_vars => ProcessesInv'
    BY StepInv
  <1>2. QED BY InitInv, <1>1, PTL DEF Spec

(* Every variable keeps its type and the queue its bound, in the runs of   *)
(* main and of the orphans it leaves (main.c:56-146, input.c:219-247).     *)
THEOREM ProcessesTypeCorrect == Spec => []TypeOK
  <1>1. Init => Flags /\ Threads
    BY DEF Init, Flags, Threads
  <1>2. Flags /\ Threads /\ [Next]_vars => Flags' /\ Threads'
    BY FlagsStep, ThreadsStep
  <1>3. ProcessesInv /\ Flags /\ Threads => TypeOK
    BY TypeParts DEF ProcessesInv
  <1>4. QED BY <1>1, <1>2, <1>3, ProcessesInvariant, PTL DEF Spec

(* When main ends with SA_RESTART set and did not give up, none of its     *)
(* children lives, though waitpid waits for any child and competes with    *)
(* the handler (main.c:25-43, 143-146).                                    *)
THEOREM MainIsLast == Spec => []MainOutlivesChildren
  <1>1. ProcessesInv => MainOutlivesChildren
    <2>1. ASSUME WaitInv PROVE MainOutlivesChildren
      BY <2>1 DEF WaitInv, gone, MainOutlivesChildren, living
    <2>2. QED BY <2>1 DEF ProcessesInv
  <1>2. QED BY <1>1, ProcessesInvariant, PTL

(* No system server receives a message of an earlier run, however many     *)
(* runs there were and whichever orphans still send (main.c:59-62).        *)
THEOREM MessagesAreFresh == Spec => []NoStaleMessages
  <1>1. Init => NoStaleMessages
    BY DEF Init, NoStaleMessages
  <1>2. ProcessesInv /\ NoStaleMessages /\ [Next]_vars => NoStaleMessages'
    BY FreshStep
  <1>3. QED BY <1>1, <1>2, ProcessesInvariant, PTL DEF Spec

=============================================================================
