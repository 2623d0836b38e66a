--------------------------- MODULE CameraHalProofs ---------------------------
(***************************************************************************)
(* The camera HAL, for any number of opens and pictures: no wake-up is     *)
(* lost, and the toy library implements the abstract camera.               *)
(***************************************************************************)
EXTENDS CameraHal, SequenceTheorems, TLAPS

-----------------------------------------------------------------------------
(* The inductive invariant.                                                *)

(* TypeOK in two parts, of which one is for each of the provers.           *)
Flags == mNotifyCB \in BOOLEAN

Places == {"none", "receive", "wait", "handle", "notify"}

Kinds ==
  /\ library \in {"none", "toy", "oem"}
  /\ opens \in 0..MaxOpens /\ control_thread = opens
  /\ mList \in [Threads -> Seq(Messages)]
  /\ held \in [Threads -> Messages \cup {NoMessage}]
  /\ at \in [Threads -> Places]
  /\ pictures \in 0..MaxPictures /\ answered \in Nat
  /\ died \in {"none", "load", "freed", "no_camera", "no_function",
               "no_callback"}

Working(t) == held[t] # NoMessage <=> at[t] \in {"handle", "notify"}

(* m was asked for earlier than n; NoMessage is of no camera.              *)
before(m, n) == m.camera = n.camera => m.picture < n.picture

(* A ControlThread has its own pictures only.                              *)
Own == \A c \in Controls, m \in Messages : has(c, m) => m.camera = c

(* A queue is in the order of the calls, and what its thread works on is   *)
(* older than what is queued.                                              *)
Sorted(t) ==
  /\ \A i, j \in 1..Len(mList[t]) : i < j => before(mList[t][i], mList[t][j])
  /\ \A i \in 1..Len(mList[t]) : before(held[t], mList[t][i])

(* What has come to the CallbackThread is older than what its ControlThread *)
(* still has.                                                              *)
Ahead ==
  \A c \in Controls, m, n \in Messages :
    has(CallbackThread, m) /\ has(c, n) => before(m, n)

Asked == \A t \in Threads, m \in Messages : has(t, m) => m.picture <= pictures

CameraInv ==
  /\ Kinds
  /\ \A t \in Threads : Working(t)
  /\ SleepersHaveNothing
  /\ Own
  /\ \A t \in Threads : Sorted(t)
  /\ Ahead
  /\ Asked

LEMMA TypeParts == TypeOK <=> Flags /\ Kinds /\ \A t \in Threads : Working(t)
  BY DEF TypeOK, Flags, Kinds, Working, Places

LEMMA ThreadsAre ==
  /\ CallbackThread \in Threads /\ CallbackThread \notin Controls
  /\ \A c \in Controls : c \in Threads /\ c # CallbackThread
  /\ \A t \in Threads : t \in Controls \/ t = CallbackThread
  /\ Controls \subseteq Nat \ {0}
  /\ MaxOpens \in Nat /\ MaxPictures \in Nat
  BY CameraAssumption DEF Threads, Controls, CallbackThread

LEMMA MessagesAre ==
  /\ NoMessage \notin Messages
  /\ NoMessage.camera = 0 /\ NoMessage.picture = 0
  /\ \A m \in Messages : m.camera \in Controls /\ m.picture \in 1..MaxPictures
  BY ThreadsAre DEF NoMessage, Messages

LEMMA InitInv == Init => CameraInv
  <1> SUFFICES ASSUME Init PROVE CameraInv
    OBVIOUS
  <1>1. /\ mList = [t \in Threads |-> <<>>] /\ held = [t \in Threads |-> NoMessage]
        /\ at = [t \in Threads |-> "none"]
    BY DEF Init
  <1>2. Kinds
    BY <1>1, ThreadsAre DEF Init, Kinds, Places
  <1>3. \A t \in Threads : Working(t) /\ at[t] # "wait"
    BY <1>1 DEF Working
  <1>4. \A t \in Threads : Len(mList[t]) = 0 /\ held[t] = NoMessage
    BY <1>1
  <1>5. \A t \in Threads, m \in Messages : ~has(t, m)
    BY <1>4, MessagesAre DEF has
  <1>6. \A t \in Threads : Sorted(t)
    BY <1>4 DEF Sorted
  <1>7. QED
    BY <1>2, <1>3, <1>5, <1>6, ThreadsAre
       DEF CameraInv, SleepersHaveNothing, Own, Ahead, Asked

-----------------------------------------------------------------------------
(* The operations of a MessageQueue.                                       *)
LEMMA SendFacts ==
  ASSUME Kinds, NEW t \in Threads, NEW m \in Messages, send(t, m)
  PROVE  /\ mList' \in [Threads -> Seq(Messages)]
         /\ \A s \in Threads : s # t => mList'[s] = mList[s]
         /\ Len(mList[t]) \in Nat
         /\ Len(mList'[t]) = Len(mList[t]) + 1
         /\ \A i \in 1..Len(mList[t]) :
              mList'[t][i] = mList[t][i] /\ mList[t][i] \in Messages
         /\ mList'[t][Len(mList[t]) + 1] = m
         /\ mList'[t] # <<>>
  <1>1. mList \in [Threads -> Seq(Messages)] /\ mList[t] \in Seq(Messages)
    BY DEF Kinds
  <1>2. mList' = [mList EXCEPT ![t] = Append(mList[t], m)]
    BY <1>1 DEF send
  <1>3. Append(mList[t], m) \in Seq(Messages)
    BY <1>1, AppendProperties
  <1>4. /\ mList' \in [Threads -> Seq(Messages)]
        /\ \A s \in Threads : s # t => mList'[s] = mList[s]
        /\ mList'[t] = Append(mList[t], m)
    BY <1>1, <1>2, <1>3
  <1>5. Len(mList[t]) \in Nat /\ \A i \in 1..Len(mList[t]) : mList[t][i] \in Messages
    BY <1>1
  <1>6. QED BY <1>1, <1>4, <1>5, AppendProperties

takes(t) ==
  /\ mList[t] # <<>>
  /\ held' = [held EXCEPT ![t] = Head(mList[t])]
  /\ mList' = [mList EXCEPT ![t] = Tail(@)]

LEMMA TakeFacts ==
  ASSUME Kinds, NEW t \in Threads, takes(t)
  PROVE  /\ mList' \in [Threads -> Seq(Messages)]
         /\ held' \in [Threads -> Messages \cup {NoMessage}]
         /\ \A s \in Threads : s # t => mList'[s] = mList[s] /\ held'[s] = held[s]
         /\ Len(mList[t]) \in Nat \ {0}
         /\ Len(mList'[t]) = Len(mList[t]) - 1
         /\ \A i \in 1..Len(mList[t]) - 1 : mList'[t][i] = mList[t][i + 1]
         /\ held'[t] = mList[t][1]
         /\ held'[t] \in Messages
  <1>1. /\ mList \in [Threads -> Seq(Messages)] /\ mList[t] \in Seq(Messages)
        /\ held \in [Threads -> Messages \cup {NoMessage}]
    BY DEF Kinds
  <1>2. mList[t] # <<>> BY DEF takes
  <1>3. Len(mList[t]) \in Nat \ {0}
    BY <1>1, <1>2, EmptySeq
  <1>4. /\ Head(mList[t]) \in Messages
        /\ Tail(mList[t]) \in Seq(Messages)
        /\ Len(Tail(mList[t])) = Len(mList[t]) - 1
        /\ \A i \in 1..Len(Tail(mList[t])) : Tail(mList[t])[i] = mList[t][i + 1]
    BY <1>1, <1>2, HeadTailProperties
  <1>5. Head(mList[t]) = mList[t][1] BY <1>1
  <1>6. /\ mList' \in [Threads -> Seq(Messages)]
        /\ \A s \in Threads : s # t => mList'[s] = mList[s]
        /\ mList'[t] = Tail(mList[t])
    BY <1>1, <1>4 DEF takes
  <1>7. /\ held' \in [Threads -> Messages \cup {NoMessage}]
        /\ \A s \in Threads : s # t => held'[s] = held[s]
        /\ held'[t] = Head(mList[t])
    BY <1>1, <1>4 DEF takes
  <1>8. QED BY <1>3, <1>4, <1>5, <1>6, <1>7

(* What a sender does to the thread it signals.                            *)
LEMMA SignalFacts ==
  ASSUME Kinds, NEW t \in Threads
  PROVE  /\ signalled(t) \in [Threads -> Places]
         /\ signalled(t)[t] # "wait"
         /\ signalled(t)[t] = at[t] \/ (at[t] = "wait" /\ signalled(t)[t] = "receive")
         /\ \A s \in Threads : s # t => signalled(t)[s] = at[s]
  BY DEF Kinds, signalled, Places

-----------------------------------------------------------------------------
(* The order of the pictures.                                              *)
Order ==
  /\ Own
  /\ \A t \in Threads : Sorted(t)
  /\ Ahead
  /\ Asked

LEMMA Before ==
  ASSUME NEW m \in Messages, NEW n \in Messages, before(m, n)
  PROVE  m # n
  BY MessagesAre, ThreadsAre DEF before

(* take_picture                                                            *)
LEMMA AskOrder ==
  ASSUME Kinds, Order, NEW c \in Controls, pictures < MaxPictures,
         pictures' = pictures + 1,
         send(c, [camera |-> c, picture |-> pictures + 1]), UNCHANGED held
  PROVE  /\ Order'
         /\ [camera |-> c, picture |-> pictures + 1] \in Messages
         /\ \A t \in Threads, m \in Messages :
              has(t, m)' <=> has(t, m) \/ (t = c /\ m = [camera |-> c,
                                                         picture |-> pictures + 1])
  <1> DEFINE new == [camera |-> c, picture |-> pictures + 1]
  <1>1. /\ new \in Messages /\ new.camera = c /\ new.picture = pictures + 1
        /\ pictures \in Nat /\ c \in Threads
    BY ThreadsAre DEF Kinds, Messages
  <1> HIDE DEF new
  <1>2. /\ mList' \in [Threads -> Seq(Messages)]
        /\ \A s \in Threads : s # c => mList'[s] = mList[s]
        /\ Len(mList[c]) \in Nat
        /\ Len(mList'[c]) = Len(mList[c]) + 1
        /\ \A i \in 1..Len(mList[c]) :
             mList'[c][i] = mList[c][i] /\ mList[c][i] \in Messages
        /\ mList'[c][Len(mList[c]) + 1] = new
    <2>1. send(c, new) BY DEF new
    <2>2. QED BY <1>1, <2>1, SendFacts
  <1>3. \A t \in Threads, m \in Messages :
          has(t, m)' <=> has(t, m) \/ (t = c /\ m = new)
    <2>1. ASSUME NEW t \in Threads, NEW m \in Messages, t # c
          PROVE  has(t, m)' <=> has(t, m)
      BY <1>2, <2>1 DEF has
    <2>2. ASSUME NEW m \in Messages
          PROVE  has(c, m)' <=> has(c, m) \/ m = new
      <3>1. held'[c] = held[c] OBVIOUS
      <3>2. Len(mList[c]) + 1 \in 1..Len(mList'[c]) BY <1>2
      <3>3. \A i \in 1..Len(mList[c]) : i \in 1..Len(mList'[c]) BY <1>2
      <3>4. has(c, m) \/ m = new => has(c, m)'
        BY <1>2, <3>1, <3>2, <3>3 DEF has
      <3>5. \A i \in 1..Len(mList'[c]) :
              i \in 1..Len(mList[c]) \/ i = Len(mList[c]) + 1
        BY <1>2
      <3>6. has(c, m)' => has(c, m) \/ m = new
        BY <1>2, <3>1, <3>5 DEF has
      <3>7. QED BY <3>4, <3>6
    <2>3. QED BY <1>1, <2>1, <2>2
  <1>4. \A t \in Threads, m \in Messages : has(t, m) => before(m, new)
    BY <1>1, MessagesAre DEF Order, Asked, before
  <1>5. Own'
    BY <1>1, <1>3, ThreadsAre DEF Order, Own
  <1>6. ASSUME NEW t \in Threads PROVE Sorted(t)'
    <2>1. CASE t # c
      BY <1>2, <2>1 DEF Order, Sorted
    <2>2. CASE t = c
      <3>1. Sorted(c) BY <1>1 DEF Order
      <3>2. \A i \in 1..Len(mList[c]) : before(mList[c][i], new)
        BY <1>1, <1>2, <1>4 DEF has
      <3>3. before(held[c], new)
        <4>1. CASE held[c] \in Messages BY <1>1, <1>4, <4>1 DEF has
        <4>2. CASE held[c] = NoMessage BY <1>1, <4>2, MessagesAre, ThreadsAre DEF before
        <4>3. QED BY <1>1, <4>1, <4>2 DEF Kinds
      <3>4. ASSUME NEW i \in 1..Len(mList'[c]) PROVE before(held'[c], mList'[c][i])
        BY <1>2, <3>1, <3>3 DEF Sorted
      <3>5. ASSUME NEW i \in 1..Len(mList'[c]), NEW j \in 1..Len(mList'[c]), i < j
            PROVE  before(mList'[c][i], mList'[c][j])
        <4>1. i \in 1..Len(mList[c]) /\ mList'[c][i] = mList[c][i]
          BY <1>2, <3>5
        <4>2. CASE j = Len(mList[c]) + 1
          BY <1>2, <3>2, <4>1, <4>2
        <4>3. CASE j # Len(mList[c]) + 1
          <5>1. j \in 1..Len(mList[c]) /\ mList'[c][j] = mList[c][j]
            BY <1>2, <4>3
          <5>2. QED BY <3>1, <3>5, <4>1, <5>1 DEF Sorted
        <4>4. QED BY <4>2, <4>3
      <3>6. QED BY <2>2, <3>4, <3>5 DEF Sorted, before
    <2>3. QED BY <2>1, <2>2
  <1>7. Ahead'
    BY <1>3, <1>4, ThreadsAre DEF Order, Ahead, before
  <1>8. Asked'
    BY <1>1, <1>3, MessagesAre DEF Order, Asked
  <1>9. QED BY <1>1, <1>3, <1>5, <1>6, <1>7, <1>8 DEF Order, new

(* MessageQueue::receive                                                   *)
LEMMA TakeOrder ==
  ASSUME Kinds, Order, NEW t \in Threads, takes(t), held[t] = NoMessage,
         UNCHANGED pictures
  PROVE  /\ Order'
         /\ \A s \in Threads, m \in Messages : has(s, m)' <=> has(s, m)
  <1>1. /\ \A s \in Threads : s # t => mList'[s] = mList[s] /\ held'[s] = held[s]
        /\ Len(mList[t]) \in Nat \ {0}
        /\ Len(mList'[t]) = Len(mList[t]) - 1
        /\ \A i \in 1..Len(mList[t]) - 1 : mList'[t][i] = mList[t][i + 1]
        /\ held'[t] = mList[t][1]
        /\ held'[t] \in Messages
    BY TakeFacts
  <1>2. \A s \in Threads, m \in Messages : has(s, m)' <=> has(s, m)
    <2>1. ASSUME NEW s \in Threads, NEW m \in Messages, s # t
          PROVE  has(s, m)' <=> has(s, m)
      BY <1>1, <2>1 DEF has
    <2>2. ASSUME NEW m \in Messages, has(t, m)'
          PROVE  has(t, m)
      <3>1. CASE held'[t] = m
        <4>1. 1 \in 1..Len(mList[t]) /\ mList[t][1] = m BY <1>1, <3>1
        <4>2. QED BY <4>1 DEF has
      <3>2. CASE \E i \in 1..Len(mList'[t]) : mList'[t][i] = m
        <4>1. PICK i \in 1..Len(mList'[t]) : mList'[t][i] = m BY <3>2
        <4>2. i + 1 \in 1..Len(mList[t]) /\ mList[t][i + 1] = m
          BY <1>1, <4>1
        <4>3. QED BY <4>2 DEF has
      <3>3. QED BY <2>2, <3>1, <3>2 DEF has
    <2>3. ASSUME NEW m \in Messages, has(t, m)
          PROVE  has(t, m)'
      <3>1. PICK i \in 1..Len(mList[t]) : mList[t][i] = m
        BY <2>3, MessagesAre DEF has
      <3>2. CASE i = 1 BY <1>1, <3>1, <3>2 DEF has
      <3>3. CASE i # 1
        <4>1. i - 1 \in 1..Len(mList'[t]) /\ mList'[t][i - 1] = m
          BY <1>1, <3>1, <3>3
        <4>2. QED BY <4>1 DEF has
      <3>4. QED BY <3>2, <3>3
    <2>4. QED BY <2>1, <2>2, <2>3
  <1>3. ASSUME NEW s \in Threads PROVE Sorted(s)'
    <2>1. CASE s # t
      BY <1>1, <2>1 DEF Order, Sorted
    <2>2. CASE s = t
      <3>1. Sorted(t) BY DEF Order
      <3>2. ASSUME NEW i \in 1..Len(mList'[t])
            PROVE  /\ i + 1 \in 1..Len(mList[t]) /\ 1 \in 1..Len(mList[t])
                   /\ 1 < i + 1
                   /\ mList'[t][i] = mList[t][i + 1]
        BY <1>1
      <3>3. ASSUME NEW i \in 1..Len(mList'[t]) PROVE before(held'[t], mList'[t][i])
        BY <1>1, <3>1, <3>2 DEF Sorted
      <3>4. ASSUME NEW i \in 1..Len(mList'[t]), NEW j \in 1..Len(mList'[t]), i < j
            PROVE  before(mList'[t][i], mList'[t][j])
        <4>1. i + 1 < j + 1 BY <1>1, <3>4
        <4>2. QED BY <3>1, <3>2, <4>1 DEF Sorted
      <3>5. QED BY <2>2, <3>3, <3>4 DEF Sorted, before
    <2>3. QED BY <2>1, <2>2
  <1>4. Own' BY <1>2, ThreadsAre DEF Order, Own
  <1>5. Ahead' BY <1>2, ThreadsAre DEF Order, Ahead, before
  <1>6. Asked' BY <1>2 DEF Order, Asked
  <1>7. QED BY <1>2, <1>3, <1>4, <1>5, <1>6 DEF Order

(* ControlThread::handleMessageTakePicture passes its message on.          *)
LEMMA PassOrder ==
  ASSUME Kinds, Order, NEW c \in Controls, held[c] \in Messages,
         send(CallbackThread, held[c]),
         held' = [held EXCEPT ![c] = NoMessage], UNCHANGED pictures
  PROVE  /\ Order'
         /\ \A m \in Messages :
              (\E t \in Threads : has(t, m)') <=> (\E t \in Threads : has(t, m))
  <1> DEFINE cb == CallbackThread
             msg == held[c]
  <1>1. cb \in Threads /\ c \in Threads /\ c # cb BY ThreadsAre
  <1>2. /\ held' \in [Threads -> Messages \cup {NoMessage}]
        /\ held'[c] = NoMessage /\ \A s \in Threads : s # c => held'[s] = held[s]
    BY <1>1, MessagesAre DEF Kinds
  <1>3. msg \in Messages /\ msg.camera = c /\ has(c, msg)
    BY <1>1 DEF Order, Own, has
  <1>4. send(cb, msg) OBVIOUS
  <1> HIDE DEF cb, msg
  <1>5. /\ mList' \in [Threads -> Seq(Messages)]
        /\ \A s \in Threads : s # cb => mList'[s] = mList[s]
        /\ Len(mList[cb]) \in Nat
        /\ Len(mList'[cb]) = Len(mList[cb]) + 1
        /\ \A i \in 1..Len(mList[cb]) :
             mList'[cb][i] = mList[cb][i] /\ mList[cb][i] \in Messages
        /\ mList'[cb][Len(mList[cb]) + 1] = msg
    BY <1>1, <1>3, <1>4, SendFacts
  <1>6. /\ \A s \in Threads, m \in Messages : s # c /\ s # cb => (has(s, m)' <=> has(s, m))
        /\ \A m \in Messages : has(c, m)' <=> \E i \in 1..Len(mList[c]) : mList[c][i] = m
        /\ \A m \in Messages : has(cb, m)' <=> has(cb, m) \/ m = msg
        /\ \A m \in Messages : has(c, m) <=> has(c, m)' \/ m = msg
    <2>1. ASSUME NEW s \in Threads, NEW m \in Messages, s # c, s # cb
          PROVE  has(s, m)' <=> has(s, m)
      BY <1>2, <1>5, <2>1 DEF has
    <2>2. ASSUME NEW m \in Messages
          PROVE  has(c, m)' <=> \E i \in 1..Len(mList[c]) : mList[c][i] = m
      BY <1>1, <1>2, <1>5, MessagesAre DEF has
    <2>3. ASSUME NEW m \in Messages
          PROVE  has(cb, m)' <=> has(cb, m) \/ m = msg
      <3>1. held'[cb] = held[cb] BY <1>1, <1>2
      <3>2. Len(mList[cb]) + 1 \in 1..Len(mList'[cb]) BY <1>5
      <3>3. \A i \in 1..Len(mList[cb]) : i \in 1..Len(mList'[cb]) BY <1>5
      <3>4. has(cb, m) \/ m = msg => has(cb, m)'
        BY <1>5, <3>1, <3>2, <3>3 DEF has
      <3>5. \A i \in 1..Len(mList'[cb]) :
              i \in 1..Len(mList[cb]) \/ i = Len(mList[cb]) + 1
        BY <1>5
      <3>6. has(cb, m)' => has(cb, m) \/ m = msg
        BY <1>5, <3>1, <3>5 DEF has
      <3>7. QED BY <3>4, <3>6
    <2>4. ASSUME NEW m \in Messages
          PROVE  has(c, m) <=> has(c, m)' \/ m = msg
      BY <2>2 DEF has, msg
    <2>5. QED BY <2>1, <2>2, <2>3, <2>4
  <1>7. \A m \in Messages :
          (\E t \in Threads : has(t, m)') <=> (\E t \in Threads : has(t, m))
    <2>1. \A t \in Threads, m \in Messages :
            has(t, m)' => has(t, m) \/ (m = msg /\ has(c, m))
      BY <1>1, <1>3, <1>6
    <2>2. \A t \in Threads, m \in Messages : has(t, m) => has(t, m)' \/ has(cb, m)'
      BY <1>1, <1>6
    <2>3. QED BY <1>1, <2>1, <2>2
  <1>8. Own'
    BY <1>1, <1>6, ThreadsAre DEF Order, Own, cb
  <1>9. ASSUME NEW s \in Threads PROVE Sorted(s)'
    <2>1. CASE s # cb /\ s # c
      BY <1>2, <1>5, <2>1 DEF Order, Sorted
    <2>2. CASE s = c
      <3>1. \A i \in 1..Len(mList[c]) : before(NoMessage, mList[c][i])
        <4>1. \A i \in 1..Len(mList[c]) : mList[c][i] \in Messages
          BY <1>1 DEF Kinds
        <4>2. QED BY <4>1, MessagesAre, ThreadsAre DEF before
      <3>2. Sorted(c) BY <1>1 DEF Order
      <3>3. mList'[c] = mList[c] /\ held'[c] = NoMessage BY <1>1, <1>2, <1>5
      <3>4. QED BY <2>2, <3>1, <3>2, <3>3 DEF Sorted, before
    <2>3. CASE s = cb
      <3>1. Sorted(cb) BY <1>1 DEF Order
      <3>2. \A m \in Messages : has(cb, m) => before(m, msg)
        BY <1>3 DEF Order, Ahead, cb
      <3>3. \A i \in 1..Len(mList[cb]) : before(mList[cb][i], msg)
        BY <1>5, <3>2 DEF has
      <3>4. before(held[cb], msg)
        <4>1. CASE held[cb] \in Messages BY <3>2, <4>1 DEF has
        <4>2. CASE held[cb] = NoMessage
          BY <1>3, <4>2, MessagesAre, ThreadsAre DEF before
        <4>3. QED BY <1>1, <4>1, <4>2 DEF Kinds
      <3>5. ASSUME NEW i \in 1..Len(mList'[cb]) PROVE before(held'[cb], mList'[cb][i])
        <4>1. held'[cb] = held[cb] BY <1>1, <1>2
        <4>2. CASE i = Len(mList[cb]) + 1
          BY <1>5, <3>4, <4>1, <4>2
        <4>3. CASE i # Len(mList[cb]) + 1
          <5>1. i \in 1..Len(mList[cb]) BY <1>5, <4>3
          <5>2. mList'[cb][i] = mList[cb][i] BY <1>5, <5>1
          <5>3. before(held[cb], mList[cb][i]) BY <3>1, <5>1 DEF Sorted
          <5>4. QED BY <4>1, <5>2, <5>3
        <4>4. QED BY <4>2, <4>3
      <3>6. ASSUME NEW i \in 1..Len(mList'[cb]), NEW j \in 1..Len(mList'[cb]), i < j
            PROVE  before(mList'[cb][i], mList'[cb][j])
        <4>1. i \in 1..Len(mList[cb]) /\ mList'[cb][i] = mList[cb][i]
          BY <1>5, <3>6
        <4>2. CASE j = Len(mList[cb]) + 1
          BY <1>5, <3>3, <4>1, <4>2
        <4>3. CASE j # Len(mList[cb]) + 1
          <5>1. j \in 1..Len(mList[cb]) /\ mList'[cb][j] = mList[cb][j]
            BY <1>5, <4>3
          <5>2. QED BY <3>1, <3>6, <4>1, <5>1 DEF Sorted
        <4>4. QED BY <4>2, <4>3
      <3>7. QED BY <2>3, <3>5, <3>6 DEF Sorted, before
    <2>4. QED BY <2>1, <2>2, <2>3
  <1>10. Ahead'
    <2>1. ASSUME NEW d \in Controls, NEW m \in Messages, NEW n \in Messages,
                 has(cb, m)', has(d, n)'
          PROVE  before(m, n)
      <3>1. has(d, n) BY <1>1, <1>6, <2>1, ThreadsAre DEF cb
      <3>2. CASE has(cb, m) BY <3>1, <3>2 DEF Order, Ahead, cb
      <3>3. CASE m = msg /\ d # c
        BY <1>3, <3>1, <3>3 DEF Order, Own, before
      <3>4. CASE m = msg /\ d = c
        BY <1>1, <1>6, <2>1, <3>4 DEF Order, Sorted, msg
      <3>5. QED BY <1>6, <2>1, <3>2, <3>3, <3>4
    <2>2. QED BY <2>1 DEF Ahead, before, cb
  <1>11. Asked'
    <2>1. \A t \in Threads, m \in Messages : has(t, m)' => \E s \in Threads : has(s, m)
      BY <1>7
    <2>2. QED BY <2>1 DEF Order, Asked
  <1>12. QED BY <1>7, <1>8, <1>9, <1>10, <1>11 DEF Order

(* The CallbackThread is done with its message, the oldest of its camera.  *)
LEMMA DoneOrder ==
  ASSUME Kinds, Order, held[CallbackThread] \in Messages, done,
         UNCHANGED <<mList, pictures>>
  PROVE  /\ Order'
         /\ \A t \in Threads, m \in Messages :
              has(t, m)' <=> has(t, m) /\ m # held[CallbackThread]
         /\ \A t \in Threads, n \in Messages :
              has(t, n) => n = held[CallbackThread] \/ before(held[CallbackThread], n)
  <1> DEFINE cb == CallbackThread
             msg == held[cb]
  <1>1. /\ held'[cb] = NoMessage /\ \A s \in Threads : s # cb => held'[s] = held[s]
        /\ held' \in [Threads -> Messages \cup {NoMessage}]
    BY ThreadsAre, MessagesAre DEF done, Kinds
  <1>2. has(cb, msg) /\ msg \in Messages BY DEF has
  <1> HIDE DEF cb, msg
  <1>3. \A t \in Threads, n \in Messages :
          has(t, n) => \/ n = msg /\ t = cb /\ held[t] = n
                       \/ before(msg, n)
    <2>1. ASSUME NEW t \in Controls, NEW n \in Messages, has(t, n)
          PROVE  before(msg, n)
      BY <1>2, <2>1 DEF Order, Ahead, cb
    <2>2. ASSUME NEW n \in Messages, has(cb, n)
          PROVE  (n = msg /\ held[cb] = n) \/ before(msg, n)
      <3>1. Sorted(cb) BY ThreadsAre DEF Order, cb
      <3>2. QED BY <2>2, <3>1 DEF has, Sorted, msg
    <2>3. QED BY <2>1, <2>2, ThreadsAre DEF cb
  <1>4. \A i \in 1..Len(mList[cb]) : mList[cb][i] # msg
    <2>1. Sorted(cb) BY ThreadsAre DEF Order, cb
    <2>2. \A i \in 1..Len(mList[cb]) : before(msg, mList[cb][i])
      BY <2>1 DEF Sorted, msg
    <2>3. QED BY <1>2, <2>2, Before
  <1>5. \A t \in Threads, m \in Messages : has(t, m)' <=> has(t, m) /\ m # msg
    <2>1. ASSUME NEW t \in Controls, NEW m \in Messages
          PROVE  has(t, m)' <=> has(t, m) /\ m # msg
      <3>1. has(t, m)' <=> has(t, m)
        BY <1>1, ThreadsAre DEF has, cb
      <3>2. has(t, m) => before(msg, m)
        BY <1>2 DEF Order, Ahead, cb
      <3>3. QED BY <1>2, <3>1, <3>2, Before
    <2>2. ASSUME NEW m \in Messages
          PROVE  has(cb, m)' <=> has(cb, m) /\ m # msg
      BY <1>1, <1>4, MessagesAre DEF has, msg
    <2>3. QED BY <2>1, <2>2, ThreadsAre DEF cb
  <1>6. ASSUME NEW s \in Threads PROVE Sorted(s)'
    <2>1. CASE s # cb BY <1>1, <2>1 DEF Order, Sorted
    <2>2. CASE s = cb
      <3>1. \A i \in 1..Len(mList[cb]) : mList[cb][i] \in Messages
        BY ThreadsAre DEF Kinds, cb
      <3>2. \A i \in 1..Len(mList[cb]) : before(NoMessage, mList[cb][i])
        BY <3>1, MessagesAre, ThreadsAre DEF before
      <3>3. QED BY <1>1, <2>2, <3>2 DEF Order, Sorted, before
    <2>3. QED BY <2>1, <2>2
  <1>7. Own' BY <1>5, ThreadsAre DEF Order, Own
  <1>8. Ahead' BY <1>5, ThreadsAre DEF Order, Ahead, before
  <1>9. Asked' BY <1>5 DEF Order, Asked
  <1>10. QED BY <1>3, <1>5, <1>6, <1>7, <1>8, <1>9 DEF Order, cb, msg

-----------------------------------------------------------------------------
(* Every step, with what it is to the abstract camera.                     *)
ServiceStep == [Service!ServiceNext]_(Service!serviceVars)

(* What is asked of a thread: that it has a message when it works, and     *)
(* that it sleeps over an empty queue only.                                *)
Thread(t) == Working(t) /\ (at[t] = "wait" => mList[t] = <<>>)

LEMMA InvParts ==
  /\ CameraInv <=> Kinds /\ (\A t \in Threads : Thread(t)) /\ Order
  /\ CameraInv' <=> Kinds' /\ (\A t \in Threads : Thread(t)') /\ Order'
  BY DEF CameraInv, Thread, Order, SleepersHaveNothing

LEMMA SamePending ==
  ASSUME UNCHANGED <<pictures, answered>>,
         \A m \in Messages :
           (\E t \in Threads : has(t, m)') <=> (\E t \in Threads : has(t, m))
  PROVE  ServiceStep
  <1>1. unanswered' = unanswered
    BY DEF unanswered
  <1>2. QED BY <1>1 DEF ServiceStep, Service!serviceVars

LEMMA QuietOrder ==
  ASSUME Order, UNCHANGED <<mList, held, pictures, answered>>
  PROVE  Order' /\ ServiceStep
  <1>1. \A t \in Threads, m \in Messages : has(t, m)' <=> has(t, m)
    BY DEF has
  <1>2. ServiceStep BY <1>1, SamePending
  <1>3. Own' BY <1>1, ThreadsAre DEF Order, Own
  <1>4. \A t \in Threads : Sorted(t)' BY DEF Order, Sorted, before
  <1>5. Ahead' BY <1>1, ThreadsAre DEF Order, Ahead, before
  <1>6. Asked' BY <1>1 DEF Order, Asked
  <1>7. QED BY <1>2, <1>3, <1>4, <1>5, <1>6 DEF Order

(* The steps of the client that send nothing.                              *)
LEMMA ClientStep ==
  ASSUME CameraInv,
         \/ load \/ toy_camera_open \/ oem_camera_call \/ oem_set_callbacks
         \/ \E cb \in BOOLEAN : toy_camera_set_callbacks(cb)
  PROVE  CameraInv' /\ ServiceStep
  <1>1. Kinds /\ Order /\ \A t \in Threads : Thread(t)
    BY InvParts
  <1>2. UNCHANGED <<mList, held, pictures, answered>>
    BY DEF load, toy_camera_open, oem_camera_call, oem_set_callbacks,
           toy_camera_set_callbacks, vars
  <1>3. /\ at' \in [Threads -> Places]
        /\ \A t \in Threads : at'[t] = at[t] \/ (at[t] = "none" /\ at'[t] = "receive")
    BY <1>1 DEF Kinds, Places, load, toy_camera_open, Start, oem_camera_call,
                oem_set_callbacks, toy_camera_set_callbacks, vars
  <1>4. /\ library' \in {"none", "toy", "oem"}
        /\ died' \in {"none", "load", "freed", "no_camera", "no_function",
                      "no_callback"}
    BY <1>1 DEF Kinds, load, toy_camera_open, oem_camera_call,
                oem_set_callbacks, toy_camera_set_callbacks, vars
  <1>5. opens' \in 0..MaxOpens /\ control_thread' = opens'
    BY <1>1, ThreadsAre DEF Kinds, load, toy_camera_open, oem_camera_call,
                oem_set_callbacks, toy_camera_set_callbacks, vars
  <1>6. Kinds' BY <1>1, <1>2, <1>3, <1>4, <1>5 DEF Kinds
  <1>7. \A t \in Threads : Thread(t)'
    BY <1>1, <1>2, <1>3 DEF Thread, Working
  <1>8. QED BY <1>1, <1>2, <1>6, <1>7, QuietOrder, InvParts

LEMMA TakePictureStep ==
  ASSUME CameraInv, toy_camera_take_picture
  PROVE  CameraInv' /\ ServiceStep
  <1>1. Kinds /\ Order /\ \A t \in Threads : Thread(t)
    BY InvParts
  <1>2. CASE control_thread = 0
    <2>1. /\ UNCHANGED <<library, control_thread, opens, mList, held, at,
                         pictures, answered>>
          /\ died' = "no_camera"
      BY <1>2 DEF toy_camera_take_picture
    <2>2. Kinds' BY <1>1, <2>1 DEF Kinds
    <2>3. \A t \in Threads : Thread(t)' BY <1>1, <2>1 DEF Thread, Working
    <2>4. QED BY <1>1, <2>1, <2>2, <2>3, QuietOrder, InvParts
  <1>3. CASE control_thread # 0
    <2> DEFINE c == control_thread
               new == [camera |-> c, picture |-> pictures + 1]
    <2>1. c \in Controls /\ c \in Threads
      BY <1>1, <1>3, ThreadsAre DEF Kinds, Controls
    <2>2. /\ pictures < MaxPictures /\ pictures' = pictures + 1
          /\ send(c, new) /\ at' = signalled(c)
          /\ UNCHANGED <<library, control_thread, opens, held, answered, died>>
      BY <1>3 DEF toy_camera_take_picture
    <2>3. /\ Order' /\ new \in Messages
          /\ \A t \in Threads, m \in Messages :
               has(t, m)' <=> has(t, m) \/ (t = c /\ m = new)
      BY <1>1, <2>1, <2>2, AskOrder
    <2> HIDE DEF c, new
    <2>4. /\ mList' \in [Threads -> Seq(Messages)]
          /\ \A s \in Threads : s # c => mList'[s] = mList[s]
      BY <1>1, <2>1, <2>2, <2>3, SendFacts
    <2>5. /\ at' \in [Threads -> Places]
          /\ at'[c] # "wait"
          /\ at'[c] = at[c] \/ (at[c] = "wait" /\ at'[c] = "receive")
          /\ \A s \in Threads : s # c => at'[s] = at[s]
      BY <1>1, <2>1, <2>2, SignalFacts
    <2>6. Kinds'
      <3>1. pictures' \in 0..MaxPictures BY <1>1, <2>2, ThreadsAre DEF Kinds
      <3>2. QED BY <1>1, <2>2, <2>4, <2>5, <3>1 DEF Kinds
    <2>7. ASSUME NEW t \in Threads PROVE Thread(t)'
      BY <1>1, <2>2, <2>4, <2>5 DEF Thread, Working
    <2>8. ServiceStep
      <3>1. unanswered' = unanswered \cup {new}
        BY <2>1, <2>3 DEF unanswered
      <3>2. Service!Ask(c)
        BY <2>2, <3>1 DEF Service!Ask, new
      <3>3. QED BY <2>1, <3>2 DEF ServiceStep, Service!ServiceNext
    <2>9. QED BY <2>3, <2>6, <2>7, <2>8, InvParts
  <1>4. QED BY <1>2, <1>3

LEMMA ReceiveStep ==
  ASSUME CameraInv, NEW t \in Threads, receive(t)
  PROVE  CameraInv' /\ ServiceStep
  <1>1. Kinds /\ Order /\ \A s \in Threads : Thread(s)
    BY InvParts
  <1>2. /\ UNCHANGED <<library, control_thread, opens, pictures, answered, died>>
        /\ at[t] = "receive"
    BY DEF receive
  <1>3. held[t] = NoMessage BY <1>1, <1>2 DEF Thread, Working
  <1>4. CASE mList[t] = <<>>
    <2>1. /\ UNCHANGED <<mList, held>>
          /\ at' = [at EXCEPT ![t] = "wait"]
      BY <1>4 DEF receive
    <2>2. /\ at' \in [Threads -> Places] /\ at'[t] = "wait"
          /\ \A s \in Threads : s # t => at'[s] = at[s]
      BY <1>1, <2>1 DEF Kinds, Places
    <2>3. Kinds' BY <1>1, <1>2, <2>1, <2>2 DEF Kinds
    <2>4. ASSUME NEW s \in Threads PROVE Thread(s)'
      BY <1>1, <1>3, <1>4, <2>1, <2>2 DEF Thread, Working
    <2>5. QED BY <1>1, <1>2, <2>1, <2>3, <2>4, QuietOrder, InvParts
  <1>5. CASE mList[t] # <<>>
    <2>1. takes(t) /\ at' = [at EXCEPT ![t] = "handle"]
      BY <1>5 DEF receive, takes
    <2>2. /\ at' \in [Threads -> Places] /\ at'[t] = "handle"
          /\ \A s \in Threads : s # t => at'[s] = at[s]
      BY <1>1, <2>1 DEF Kinds, Places
    <2>3. /\ mList' \in [Threads -> Seq(Messages)]
          /\ held' \in [Threads -> Messages \cup {NoMessage}]
          /\ \A s \in Threads : s # t => mList'[s] = mList[s] /\ held'[s] = held[s]
          /\ held'[t] \in Messages
      BY <1>1, <2>1, TakeFacts
    <2>4. Kinds' BY <1>1, <1>2, <2>2, <2>3 DEF Kinds
    <2>5. ASSUME NEW s \in Threads PROVE Thread(s)'
      BY <1>1, <2>2, <2>3, MessagesAre DEF Thread, Working
    <2>6. Order' /\ \A s \in Threads, m \in Messages : has(s, m)' <=> has(s, m)
      BY <1>1, <1>2, <1>3, <2>1, TakeOrder
    <2>7. ServiceStep BY <1>2, <2>6, SamePending
    <2>8. QED BY <2>4, <2>5, <2>6, <2>7, InvParts
  <1>6. QED BY <1>4, <1>5

LEMMA PassStep ==
  ASSUME CameraInv, NEW c \in Controls, handleMessageTakePicture(c)
  PROVE  CameraInv' /\ ServiceStep
  <1>1. Kinds /\ Order /\ \A s \in Threads : Thread(s)
    BY InvParts
  <1>2. /\ UNCHANGED <<library, control_thread, opens, pictures, answered, died>>
        /\ at[c] = "handle"
        /\ send(CallbackThread, held[c])
        /\ held' = [held EXCEPT ![c] = NoMessage]
        /\ at' = [signalled(CallbackThread) EXCEPT ![c] = "receive"]
    BY DEF handleMessageTakePicture
  <1>3. c \in Threads /\ CallbackThread \in Threads /\ c # CallbackThread
    BY ThreadsAre
  <1>4. held[c] \in Messages
    BY <1>1, <1>2, <1>3 DEF Thread, Working, Kinds
  <1>5. /\ Order'
        /\ \A m \in Messages :
             (\E t \in Threads : has(t, m)') <=> (\E t \in Threads : has(t, m))
    BY <1>1, <1>2, <1>4, PassOrder
  <1>6. /\ signalled(CallbackThread) \in [Threads -> Places]
        /\ signalled(CallbackThread)[CallbackThread] # "wait"
        /\ \/ signalled(CallbackThread)[CallbackThread] = at[CallbackThread]
           \/ /\ at[CallbackThread] = "wait"
              /\ signalled(CallbackThread)[CallbackThread] = "receive"
        /\ \A s \in Threads :
             s # CallbackThread => signalled(CallbackThread)[s] = at[s]
    BY <1>1, <1>3, SignalFacts
  <1>7. /\ at' \in [Threads -> Places]
        /\ at'[c] = "receive"
        /\ \A s \in Threads : s # c => at'[s] = signalled(CallbackThread)[s]
    BY <1>2, <1>3, <1>6 DEF Places
  <1>8. /\ held' \in [Threads -> Messages \cup {NoMessage}]
        /\ held'[c] = NoMessage /\ \A s \in Threads : s # c => held'[s] = held[s]
    BY <1>1, <1>2, <1>3 DEF Kinds
  <1>9. /\ mList' \in [Threads -> Seq(Messages)]
        /\ \A s \in Threads : s # CallbackThread => mList'[s] = mList[s]
    BY <1>1, <1>2, <1>3, <1>4, SendFacts
  <1>10. Kinds' BY <1>1, <1>2, <1>7, <1>8, <1>9 DEF Kinds
  <1>11. ASSUME NEW s \in Threads PROVE Thread(s)'
    <2>1. CASE s = c BY <1>7, <1>8, <2>1 DEF Thread, Working
    <2>2. CASE s = CallbackThread
      BY <1>1, <1>3, <1>6, <1>7, <1>8, <2>2 DEF Thread, Working
    <2>3. CASE s # c /\ s # CallbackThread
      BY <1>1, <1>6, <1>7, <1>8, <1>9, <2>3 DEF Thread, Working
    <2>4. QED BY <2>1, <2>2, <2>3
  <1>12. ServiceStep BY <1>2, <1>5, SamePending
  <1>13. QED BY <1>5, <1>10, <1>11, <1>12, InvParts

LEMMA CallbackStep ==
  ASSUME CameraInv, takePictureDone \/ notify
  PROVE  CameraInv' /\ ServiceStep
  <1> DEFINE cb == CallbackThread
  <1>1. Kinds /\ Order /\ \A s \in Threads : Thread(s)
    BY InvParts
  <1>2. /\ UNCHANGED <<library, control_thread, opens, mList, pictures>>
        /\ at[cb] \in {"handle", "notify"}
        /\ died' \in {died, "no_callback"}
        /\ \/ done
           \/ UNCHANGED <<held, at, answered>>
           \/ UNCHANGED <<held, answered>> /\ at' = [at EXCEPT ![cb] = "notify"]
    BY DEF takePictureDone, notify
  <1>3. cb \in Threads /\ held[cb] \in Messages
    <2>1. cb \in Threads BY ThreadsAre
    <2>2. QED BY <1>1, <1>2, <2>1 DEF Thread, Working, Kinds
  <1> HIDE DEF cb
  <1>4. CASE UNCHANGED <<held, at, answered>>
    <2>1. Kinds' BY <1>1, <1>2, <1>4 DEF Kinds
    <2>2. \A s \in Threads : Thread(s)' BY <1>1, <1>2, <1>4 DEF Thread, Working
    <2>3. QED BY <1>1, <1>2, <1>4, <2>1, <2>2, QuietOrder, InvParts
  <1>5. CASE UNCHANGED <<held, answered>> /\ at' = [at EXCEPT ![cb] = "notify"]
    <2>1. /\ at' \in [Threads -> Places] /\ at'[cb] = "notify"
          /\ \A s \in Threads : s # cb => at'[s] = at[s]
      BY <1>1, <1>3, <1>5 DEF Kinds, Places
    <2>2. Kinds' BY <1>1, <1>2, <1>5, <2>1 DEF Kinds
    <2>3. \A s \in Threads : Thread(s)'
      BY <1>1, <1>2, <1>3, <1>5, <2>1, MessagesAre DEF Thread, Working
    <2>4. QED BY <1>1, <1>2, <1>5, <2>2, <2>3, QuietOrder, InvParts
  <1>6. CASE done
    <2>1. /\ at' \in [Threads -> Places] /\ at'[cb] = "receive"
          /\ \A s \in Threads : s # cb => at'[s] = at[s]
      BY <1>1, <1>3, <1>6 DEF Kinds, Places, done, cb
    <2>2. /\ held' \in [Threads -> Messages \cup {NoMessage}]
          /\ held'[cb] = NoMessage /\ \A s \in Threads : s # cb => held'[s] = held[s]
      BY <1>1, <1>3, <1>6 DEF Kinds, done, cb
    <2>3. answered' = answered + 1 BY <1>6 DEF done
    <2>4. Kinds' BY <1>1, <1>2, <2>1, <2>2, <2>3 DEF Kinds
    <2>5. \A s \in Threads : Thread(s)'
      BY <1>1, <1>2, <2>1, <2>2 DEF Thread, Working
    <2>6. /\ Order'
          /\ \A t \in Threads, m \in Messages :
               has(t, m)' <=> has(t, m) /\ m # held[cb]
          /\ \A t \in Threads, n \in Messages :
               has(t, n) => n = held[cb] \/ before(held[cb], n)
      BY <1>1, <1>2, <1>3, <1>6, DoneOrder DEF cb
    <2>7. ServiceStep
      <3>1. unanswered' = unanswered \ {held[cb]}
        BY <2>6 DEF unanswered
      <3>2. held[cb] \in unanswered
        BY <1>3 DEF unanswered, has
      <3>3. \A n \in unanswered :
              n.camera = held[cb].camera => n.picture >= held[cb].picture
        BY <1>3, <2>6, MessagesAre, ThreadsAre DEF unanswered, before
      <3>4. Service!Answer(held[cb])
        BY <1>2, <2>3, <3>1, <3>3 DEF Service!Answer
      <3>5. QED BY <3>2, <3>4 DEF ServiceStep, Service!ServiceNext
    <2>8. QED BY <2>4, <2>5, <2>6, <2>7, InvParts
  <1>7. QED BY <1>2, <1>4, <1>5, <1>6

LEMMA WakeStep ==
  ASSUME CameraInv, NEW t \in Threads, spurious_wakeup(t)
  PROVE  CameraInv' /\ ServiceStep
  <1>1. Kinds /\ Order /\ \A s \in Threads : Thread(s)
    BY InvParts
  <1>2. /\ at[t] = "wait" /\ at' = [at EXCEPT ![t] = "receive"]
        /\ UNCHANGED <<library, control_thread, opens, mList, held, pictures,
                       answered, died>>
    BY DEF spurious_wakeup
  <1>3. /\ at' \in [Threads -> Places] /\ at'[t] = "receive"
        /\ \A s \in Threads : s # t => at'[s] = at[s]
    BY <1>1, <1>2 DEF Kinds, Places
  <1>4. Kinds' BY <1>1, <1>2, <1>3 DEF Kinds
  <1>5. \A s \in Threads : Thread(s)' BY <1>1, <1>2, <1>3 DEF Thread, Working
  <1>6. QED BY <1>1, <1>2, <1>4, <1>5, QuietOrder, InvParts

LEMMA CameraStep ==
  ASSUME CameraInv, [Next]_vars
  PROVE  CameraInv' /\ ServiceStep
  <1>1. CASE UNCHANGED vars
    BY <1>1, QuietOrder, InvParts DEF vars, Kinds, Thread, Working
  <1>2. CASE Next
    BY <1>2, ClientStep, TakePictureStep, ReceiveStep, PassStep, CallbackStep,
       WakeStep, ThreadsAre DEF Next, controlStep, callbackStep
  <1>3. QED BY <1>1, <1>2

LEMMA FlagsStep ==
  ASSUME Flags, [Next]_vars
  PROVE  Flags'
  BY DEF Flags, Next, vars, load, toy_camera_open, toy_camera_take_picture,
     toy_camera_set_callbacks, oem_camera_call, oem_set_callbacks, controlStep,
     callbackStep, receive, handleMessageTakePicture, takePictureDone, notify,
     spurious_wakeup

-----------------------------------------------------------------------------
(* The strengthening is an invariant of the camera HAL                     *)
(* (ControlThread.cpp:94-148, CallbackThread.cpp:43-85).                   *)
THEOREM CameraInvariant == Spec => []CameraInv
  <1>1. CameraInv /\ [Next]_vars => CameraInv'
    BY CameraStep
  <1>2. QED BY <1>1, InitInv, PTL DEF Spec

(* A thread has a message exactly while it works on one, with every        *)
(* interleaving of the client and the threads, started or not              *)
(* (MessageQueue.h:126-145).                                               *)
THEOREM CameraTypeCorrect == Spec => []TypeOK
  <1>1. Init => Flags
    BY DEF Init, Flags
  <1>2. Flags /\ [Next]_vars => Flags'
    BY FlagsStep
  <1>3. CameraInv /\ Flags => TypeOK
    BY TypeParts DEF CameraInv
  <1>4. QED BY <1>1, <1>2, <1>3, CameraInvariant, PTL DEF Spec

(* No wake-up is lost, for any number of threads and messages              *)
(* (MessageQueue.h:70-77, 130-142).                                        *)
THEOREM NoWakeUpIsLost == Spec => []SleepersHaveNothing
  <1>1. CameraInv => SleepersHaveNothing
    BY DEF CameraInv
  <1>2. QED BY <1>1, CameraInvariant, PTL

(* The toy library implements the abstract camera: no picture is answered  *)
(* twice or before an older one of its camera, however many cameras share  *)
(* the CallbackThread (ControlThread.cpp:94-134, CallbackThread.cpp:43-75).*)
THEOREM CameraImplementsService == Spec => ImplementsPictureService
  <1>1. Init => Service!ServiceInit
    <2>1. ASSUME Init PROVE unanswered = {}
      <3>1. \A t \in Threads : held[t] = NoMessage /\ mList[t] = <<>>
        BY <2>1 DEF Init
      <3>2. \A t \in Threads, m \in Messages : ~has(t, m)
        BY <3>1, MessagesAre DEF has
      <3>3. QED BY <3>2 DEF unanswered
    <2>2. QED BY <2>1 DEF Init, Service!ServiceInit
  <1>2. CameraInv /\ [Next]_vars => [Service!ServiceNext]_(Service!serviceVars)
    BY CameraStep DEF ServiceStep
  <1>3. QED
    BY <1>1, <1>2, CameraInvariant, PTL
       DEF Spec, ImplementsPictureService, Service!ServiceSpec

=============================================================================
