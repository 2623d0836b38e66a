------------------------------ MODULE CameraHal ------------------------------
(***************************************************************************)
(* The camera HAL: libcamera.so as hardware.c loads it, with the table of  *)
(* functions it exports.  In the toy library a picture goes from the       *)
(* client through the MessageQueue of a ControlThread to the queue of the  *)
(* CallbackThread, which calls the client back.  Every open makes a new    *)
(* ControlThread; CallbackThread and Callbacks are singletons.             *)
(*                                                                         *)
(* The client is any one thread that uses the table.                       *)
(* camera_service_thread is one that never calls open or set_callbacks.    *)
(* A MessageQueue keeps its mutex for the whole of send and receive, apart *)
(* from the wait for its condition: both are one step.                     *)
(***************************************************************************)
EXTENDS Naturals, Sequences

CONSTANTS
  MaxOpens,       (* bound on calls of open                                *)
  MaxPictures     (* bound on calls of take_picture                        *)

ASSUME CameraAssumption == MaxOpens \in Nat \ {0} /\ MaxPictures \in Nat

Controls == 1..MaxOpens
CallbackThread == 0
Threads == Controls \cup {CallbackThread}

VARIABLES
  library,         (* what ./libcamera.so is: "none" until it is loaded    *)
  control_thread,  (* the client's ControlThread, 0 is NULL                *)
  opens,           (* ControlThreads made so far                           *)
  mNotifyCB,       (* a notify callback is set                             *)
  mList,           (* by thread, its queue; the oldest message first       *)
  held,            (* by thread, the message it works on                   *)
  at,              (* by thread: "none" until it is created                *)
  pictures,        (* calls of take_picture on a ControlThread             *)
  answered,        (* messages the CallbackThread is done with             *)
  died             (* what ended the process, "none" so far                *)

vars == <<library, control_thread, opens, mNotifyCB, mList, held, at, pictures,
          answered, died>>

NoMessage == [camera |-> 0, picture |-> 0]
Messages == [camera : Controls, picture : 1..MaxPictures]

Init ==
  /\ library = "none" /\ control_thread = 0 /\ opens = 0 /\ mNotifyCB = FALSE
  /\ mList = [t \in Threads |-> <<>>]
  /\ held = [t \in Threads |-> NoMessage]
  /\ at = [t \in Threads |-> "none"]
  /\ pictures = 0 /\ answered = 0 /\ died = "none"

-----------------------------------------------------------------------------
(* hw_get_camera_module: dlopen and dlsym; the caller asserts success.     *)
load ==
  /\ library = "none"
  /\ \/ library' \in {"toy", "oem"} /\ UNCHANGED died
     \/ died' = "load" /\ UNCHANGED library
  /\ UNCHANGED <<control_thread, opens, mNotifyCB, mList, held, at, pictures,
                 answered>>

(* Thread::Start of both threads: the CallbackThread once for all.         *)
Start(started) ==
  at' = [t \in Threads |-> IF t \in started /\ at[t] = "none" THEN "receive"
                           ELSE at[t]]

(* toy_camera_open: pthread_create may fail for either thread.  When it    *)
(* fails for the CallbackThread, deinit deletes both singletons and leaves *)
(* their pointers; when it fails for the ControlThread, nobody looks.      *)
toy_camera_open ==
  /\ library = "toy"
  /\ opens < MaxOpens
  /\ opens' = opens + 1
  /\ control_thread' = opens + 1
  /\ \/ Start({CallbackThread, opens + 1})
     \/ Start({CallbackThread})
     \/ at[CallbackThread] = "none" /\ UNCHANGED at
  /\ UNCHANGED <<library, mNotifyCB, mList, held, pictures, answered, died>>

(* The singletons of control_thread were deleted.                          *)
dangling == at[CallbackThread] = "none"

toy_camera_set_callbacks(cb) ==
  /\ library = "toy"
  /\ control_thread # 0
  /\ IF dangling THEN died' = "freed" /\ UNCHANGED mNotifyCB
     ELSE mNotifyCB' = cb /\ UNCHANGED died
  /\ UNCHANGED <<library, control_thread, opens, mList, held, at, pictures,
                 answered>>

(* Mutant: nobody signals the queue's condition.                           *)
unsignalled(t) == at

(* MessageQueue::send to thread t, which is signalled.                     *)
signalled(t) == [at EXCEPT ![t] = IF @ = "wait" THEN "receive" ELSE @]

send(t, msg) == mList' = [mList EXCEPT ![t] = Append(@, msg)]

(* toy_camera_take_picture and ControlThread::takePicture                  *)
toy_camera_take_picture ==
  /\ library = "toy"
  /\ pictures < MaxPictures
  /\ IF control_thread = 0
     THEN died' = "no_camera" /\ UNCHANGED <<mList, at, pictures>>
     ELSE /\ pictures' = pictures + 1
          /\ send(control_thread, [camera |-> control_thread,
                                   picture |-> pictures + 1])
          /\ at' = signalled(control_thread)
          /\ UNCHANGED died
  /\ UNCHANGED <<library, control_thread, opens, mNotifyCB, held, answered>>

(* The OEM library has no threads and no set_callbacks: its slot in the    *)
(* table is NULL.  open, take_picture and dump only print.                 *)
oem_camera_call ==
  /\ library = "oem"
  /\ UNCHANGED vars

oem_set_callbacks ==
  /\ library = "oem"
  /\ died' = "no_function"
  /\ UNCHANGED <<library, control_thread, opens, mNotifyCB, mList, held, at,
                 pictures, answered>>

-----------------------------------------------------------------------------
(* MessageQueue::receive.                                                  *)

(* Mutant: the last message is taken, not the first.                       *)
receive_newest(t) ==
  /\ at[t] = "receive"
  /\ IF mList[t] = <<>>
     THEN at' = [at EXCEPT ![t] = "wait"] /\ UNCHANGED <<mList, held>>
     ELSE /\ held' = [held EXCEPT ![t] = mList[t][Len(mList[t])]]
          /\ mList' = [mList EXCEPT ![t] = SubSeq(@, 1, Len(@) - 1)]
          /\ at' = [at EXCEPT ![t] = "handle"]
  /\ UNCHANGED <<library, control_thread, opens, mNotifyCB, pictures, answered,
                 died>>

receive(t) ==
  /\ at[t] = "receive"
  /\ IF mList[t] = <<>>
     THEN at' = [at EXCEPT ![t] = "wait"] /\ UNCHANGED <<mList, held>>
     ELSE /\ held' = [held EXCEPT ![t] = Head(mList[t])]
          /\ mList' = [mList EXCEPT ![t] = Tail(@)]
          /\ at' = [at EXCEPT ![t] = "handle"]
  /\ UNCHANGED <<library, control_thread, opens, mNotifyCB, pictures, answered,
                 died>>

(* Mutant: receive tests for an empty queue only once.                     *)
spurious_wakeup_unchecked(t) ==
  /\ at[t] = "wait"
  /\ at' = [at EXCEPT ![t] = "handle"]
  /\ UNCHANGED <<library, control_thread, opens, mNotifyCB, mList, held,
                 pictures, answered, died>>

(* pthread_cond_wait returns without a signal.                             *)
spurious_wakeup(t) ==
  /\ at[t] = "wait"
  /\ at' = [at EXCEPT ![t] = "receive"]
  /\ UNCHANGED <<library, control_thread, opens, mNotifyCB, mList, held,
                 pictures, answered, died>>

(* Mutant: the thread stays in STATE_BUSY.                                 *)
handleMessageTakePicture_busy(c) ==
  /\ at[c] = "handle"
  /\ send(CallbackThread, held[c])
  /\ held' = [held EXCEPT ![c] = NoMessage]
  /\ at' = [signalled(CallbackThread) EXCEPT ![c] = "none"]
  /\ UNCHANGED <<library, control_thread, opens, mNotifyCB, pictures, answered,
                 died>>

(* ControlThread::handleMessageTakePicture, CallbackThread::takePictureDone *)
handleMessageTakePicture(c) ==
  /\ at[c] = "handle"
  /\ send(CallbackThread, held[c])
  /\ held' = [held EXCEPT ![c] = NoMessage]
  /\ at' = [signalled(CallbackThread) EXCEPT ![c] = "receive"]
  /\ UNCHANGED <<library, control_thread, opens, mNotifyCB, pictures, answered,
                 died>>

done ==
  /\ answered' = answered + 1
  /\ held' = [held EXCEPT ![CallbackThread] = NoMessage]
  /\ at' = [at EXCEPT ![CallbackThread] = "receive"]

(* Callbacks::takePictureDone tests mNotifyCB and then calls it, without a *)
(* lock: the call uses the tested value or reads it again.                 *)
takePictureDone ==
  /\ at[CallbackThread] = "handle"
  /\ IF mNotifyCB THEN /\ at' = [at EXCEPT ![CallbackThread] = "notify"]
                       /\ UNCHANGED <<held, answered>>
     ELSE done
  /\ UNCHANGED <<library, control_thread, opens, mNotifyCB, mList, pictures,
                 died>>

notify ==
  /\ at[CallbackThread] = "notify"
  /\ \/ done /\ UNCHANGED died
     \/ ~mNotifyCB /\ died' = "no_callback" /\ UNCHANGED <<held, at, answered>>
  /\ UNCHANGED <<library, control_thread, opens, mNotifyCB, mList, pictures>>

controlStep(c) == receive(c) \/ handleMessageTakePicture(c)
callbackStep == receive(CallbackThread) \/ takePictureDone \/ notify

Next ==
  /\ died = "none"
  /\ \/ load \/ toy_camera_open \/ toy_camera_take_picture
     \/ \E cb \in BOOLEAN : toy_camera_set_callbacks(cb)
     \/ oem_camera_call \/ oem_set_callbacks
     \/ \E c \in Controls : controlStep(c)
     \/ callbackStep
     \/ \E t \in Threads : spurious_wakeup(t)

(* Threads that can run do.                                                *)
Spec ==
  /\ Init /\ [][Next]_vars
  /\ WF_vars(died = "none" /\ callbackStep)
  /\ \A c \in Controls : WF_vars(died = "none" /\ controlStep(c))

-----------------------------------------------------------------------------
(* A thread that works has a message and a thread that does not has none.  *)
TypeOK ==
  /\ library \in {"none", "toy", "oem"}
  /\ opens \in 0..MaxOpens /\ control_thread = opens
  /\ mNotifyCB \in BOOLEAN
  /\ mList \in [Threads -> Seq(Messages)]
  /\ held \in [Threads -> Messages \cup {NoMessage}]
  /\ at \in [Threads -> {"none", "receive", "wait", "handle", "notify"}]
  /\ \A t \in Threads : held[t] # NoMessage <=> at[t] \in {"handle", "notify"}
  /\ pictures \in 0..MaxPictures /\ answered \in Nat
  /\ died \in {"none", "load", "freed", "no_camera", "no_function",
               "no_callback"}

(* No wake-up is lost: a thread that waits for its condition has an empty  *)
(* queue (MessageQueue.h:70-77, 130-142).                                  *)
SleepersHaveNothing ==
  \A t \in Threads : at[t] = "wait" => mList[t] = <<>>

has(t, m) == held[t] = m \/ \E n \in 1..Len(mList[t]) : mList[t][n] = m

(* pictures asked for that no callback has ended                           *)
unanswered == {m \in Messages : \E t \in Threads : has(t, m)}

Service == INSTANCE PictureService WITH
  Cameras <- Controls,
  asked <- pictures,
  pending <- unanswered

(* The toy HAL implements the abstract camera: across two queues, several  *)
(* opens and a shared callback thread no picture is lost, answered twice   *)
(* or overtakes another of its camera (ControlThread.cpp:94-134,           *)
(* CallbackThread.cpp:43-75).                                              *)
ImplementsPictureService == Service!ServiceSpec

(* Every picture is answered if the threads of its camera started; it is   *)
(* not enough that open returned 0, for toy_camera_open ignores the result *)
(* of its last Start (camera_HAL_toy.cpp:36).                              *)
PicturesAreAnswered ==
  \A m \in Messages :
    at[m.camera] # "none" /\ m \in unanswered
    ~> died # "none" \/ m \notin unanswered

=============================================================================
