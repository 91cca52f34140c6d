-------------------------- MODULE ServerOrderProofs --------------------------
(***************************************************************************)
(* Proofs about the order and the number of what ExampleServer handles and *)
(* sends: disconnections behind the requests before them, one answer to    *)
(* every request, and the replies of one task.                             *)
(***************************************************************************)
EXTENDS ExampleServerProofs

-----------------------------------------------------------------------------
(* What a step does to the queue of events: it takes the first one or not,  *)
(* and posts up to two.                                                     *)

\* The events that are left, d places further to the front.
Moved(d) ==
    /\ d \in {0, 1}
    /\ Len(events) \in Nat /\ Len(events') \in Nat
    /\ d <= Len(events) /\ Len(events) - d <= Len(events')
    /\ \A i \in 1..(Len(events) - d) : i + d \in 1..Len(events) /\ events'[i] = events[i + d]

LEMMA MovedByPost ==
    ASSUME TypeOK, NEW x \in Event, events' = Append(events, x)
    PROVE  Moved(0) /\ Len(events') = Len(events) + 1 /\ events'[Len(events) + 1] = x
BY AddLast DEF TypeOK, Moved

LEMMA MovedByTake ==
    ASSUME TypeOK, NEW K, Dispatch(K)
    PROVE  /\ Moved(1) /\ Len(events') = Len(events) - 1
           /\ events[1] = Head(events) /\ events[1] \in Event /\ events[1].kind \in K
BY TakeHead DEF TypeOK, Dispatch, Moved

-----------------------------------------------------------------------------
(* Clients that are gone.                                                   *)

\* A message of a client that is not connected has the report of its leaving
\* behind it, whatever connections the client had in between.
MessagesAreFollowed ==
    \A i \in 1..Len(events) :
        (events[i].kind \in MessageKind /\ events[i].addr \notin connected) =>
            \E j \in 1..Len(events) :
                i < j /\ events[j].kind = "gone" /\ events[j].addr = events[i].addr

Orphans == MessagesAreFollowed /\ OrphansAreCanceled

\* What is behind an event stays behind it.
LEMMA FollowedAfterMove ==
    ASSUME MessagesAreFollowed, NEW d, Moved(d), connected \subseteq connected',
           \A i \in 1..Len(events') : i > Len(events) - d =>
               (events'[i].kind \in MessageKind => events'[i].addr \in connected')
    PROVE  MessagesAreFollowed'
<1> SUFFICES ASSUME NEW i \in 1..Len(events'),
                    events'[i].kind \in MessageKind, events'[i].addr \notin connected'
             PROVE  \E j \in 1..Len(events') :
                        i < j /\ events'[j].kind = "gone" /\ events'[j].addr = events'[i].addr
  BY DEF MessagesAreFollowed
<1>1. i \in 1..(Len(events) - d) /\ i + d \in 1..Len(events) /\ events'[i] = events[i + d]
  BY DEF Moved
<1>2. PICK j \in 1..Len(events) :
          i + d < j /\ events[j].kind = "gone" /\ events[j].addr = events[i + d].addr
  BY <1>1 DEF MessagesAreFollowed
<1>3. j - d \in 1..(Len(events) - d) /\ j - d \in 1..Len(events') /\ i < j - d /\ (j - d) + d = j
  BY <1>1, <1>2 DEF Moved
<1>4. events'[j - d] = events[j]
  BY <1>3 DEF Moved
<1> QED BY <1>1, <1>2, <1>3, <1>4

\* A task that had the report of its client's leaving in the queue still has,
\* unless that was the event taken.
LEMMA OrphansAfterMove ==
    ASSUME OrphansAreCanceled, NEW d, Moved(d), connected \subseteq connected',
           NEW a \in DOMAIN taskMap' \ connected',
           a \in DOMAIN taskMap, taskMap[a].canceled => taskMap'[a].canceled,
           d = 1 => (events[1].kind = "gone" /\ events[1].addr = a => taskMap'[a].canceled)
    PROVE  \/ taskMap'[a].canceled
           \/ \E i \in 1..Len(events') : events'[i].kind = "gone" /\ events'[i].addr = a
<1>1. CASE taskMap[a].canceled
  BY <1>1
<1>2. CASE ~taskMap[a].canceled
  <2>1. PICK i \in 1..Len(events) : events[i].kind = "gone" /\ events[i].addr = a
    BY <1>2 DEF OrphansAreCanceled
  <2>2. CASE d = 1 /\ i = 1
    BY <2>1, <2>2
  <2>3. CASE d = 0 \/ i > 1
    <3>1. i - d \in 1..(Len(events) - d) /\ i - d \in 1..Len(events') /\ (i - d) + d = i
      BY <2>3 DEF Moved
    <3>2. events'[i - d] = events[i]
      BY <3>1 DEF Moved
    <3> QED BY <2>1, <3>1, <3>2
  <2> QED BY <2>2, <2>3 DEF Moved
<1> QED BY <1>1, <1>2

LEMMA OrphansStep ==
    ASSUME ServerAssumption, TypeOK, CallOuts, Orphans, [Next]_vars
    PROVE  Orphans'
<1> USE DEF envVars
\* The tasks are the ones there were, or fewer, and stay canceled.
<1>1. ASSUME NEW d, Moved(d), connected \subseteq connected',
             \A i \in 1..Len(events') : i > Len(events) - d =>
                 (events'[i].kind \in MessageKind => events'[i].addr \in connected'),
             DOMAIN taskMap' \subseteq DOMAIN taskMap,
             \A a \in DOMAIN taskMap' : taskMap[a].canceled => taskMap'[a].canceled,
             d = 1 => \A a \in DOMAIN taskMap' :
                 events[1].kind = "gone" /\ events[1].addr = a => taskMap'[a].canceled
      PROVE  Orphans'
  <2>1. MessagesAreFollowed'
    BY <1>1, FollowedAfterMove DEF Orphans
  <2>2. ASSUME NEW a \in DOMAIN taskMap' \ connected'
        PROVE  \/ taskMap'[a].canceled
               \/ \E i \in 1..Len(events') : events'[i].kind = "gone" /\ events'[i].addr = a
    <3>1. a \in DOMAIN taskMap /\ (taskMap[a].canceled => taskMap'[a].canceled)
      BY <1>1, <2>2
    <3>2. d = 1 => (events[1].kind = "gone" /\ events[1].addr = a => taskMap'[a].canceled)
      BY <1>1, <2>2
    <3> QED BY <1>1, <2>2, <3>1, <3>2, OrphansAfterMove DEF Orphans
  <2> QED BY <2>1, <2>2 DEF Orphans, OrphansAreCanceled
<1>2. ASSUME events' = events, connected \subseteq connected', taskMap' = taskMap
      PROVE  Orphans'
  <2>1. Moved(0)
    BY <1>2 DEF TypeOK, Moved
  <2> QED BY <1>1, <1>2, <2>1
<1>3. CASE UNCHANGED vars \/ Deliver
  BY <1>2, <1>3 DEF vars, Deliver
<1>4. ASSUME NEW a \in Addr, Connect(a)
      PROVE  Orphans'
  BY <1>2, <1>4 DEF Connect
<1>5. ASSUME NEW a \in Addr, Receive(a)
      PROVE  Orphans'
  <2>1. PICK k \in Kinds : \E w \in IF k = "task" THEN Work ELSE {NoWork} : Arrive(a, k, w)
    BY <1>5 DEF Receive
  <2>2. PICK w \in IF k = "task" THEN Work ELSE {NoWork} : Arrive(a, k, w)
    BY <2>1
  <2>3. Message(k, a, w) \in Event /\ Message(k, a, w).addr = a
    BY MakeEvent DEF ServerAssumption, Message
  <2>4. /\ events' = Append(events, Message(k, a, w)) /\ a \in connected
        /\ taskMap' = taskMap /\ connected' = connected
    BY <2>2 DEF Arrive
  <2>5. Moved(0) /\ Len(events') = Len(events) + 1
        /\ events'[Len(events) + 1].addr = a
    BY <2>3, <2>4, MovedByPost
  <2> QED BY <1>1, <2>4, <2>5 DEF Moved
<1>6. ASSUME NEW a \in Addr, Disconnect(a)
      PROVE  Orphans'
  <2> DEFINE n == Len(events) + 1
  <2>1. /\ events' = Append(events, Message("gone", a, NoWork)) /\ connected' = connected \ {a}
        /\ taskMap' = taskMap
    BY <1>6 DEF Disconnect, Leave
  <2>2. Message("gone", a, NoWork) \in Event
    BY MakeEvent
  <2>3. /\ Moved(0) /\ Len(events') = n /\ events'[n].kind = "gone" /\ events'[n].addr = a
        /\ Len(events) \in Nat
    BY <2>1, <2>2, MovedByPost DEF Message, Moved
  <2>4. \A i \in 1..Len(events) : events'[i] = events[i]
    BY <2>3 DEF Moved
  <2>5. MessagesAreFollowed'
    <3> SUFFICES ASSUME NEW i \in 1..n,
                        events'[i].kind \in MessageKind, events'[i].addr \notin connected'
                 PROVE  \E j \in 1..n :
                            i < j /\ events'[j].kind = "gone" /\ events'[j].addr = events'[i].addr
      BY <2>3 DEF MessagesAreFollowed
    <3>1. i \in 1..Len(events)
      BY <2>3 DEF MessageKind
    <3>2. CASE events[i].addr = a
      BY <2>3, <2>4, <3>1, <3>2
    <3>3. CASE events[i].addr # a
      <4>1. events[i].kind \in MessageKind /\ events[i].addr \notin connected
        BY <2>1, <2>4, <3>1, <3>3
      <4>2. PICK j \in 1..Len(events) :
                i < j /\ events[j].kind = "gone" /\ events[j].addr = events[i].addr
        BY <3>1, <4>1 DEF Orphans, MessagesAreFollowed
      <4> QED BY <2>3, <2>4, <3>1, <4>2
    <3> QED BY <3>2, <3>3
  <2>6. OrphansAreCanceled'
    <3> SUFFICES ASSUME NEW b \in DOMAIN taskMap \ connected', ~taskMap[b].canceled
                 PROVE  \E i \in 1..n : events'[i].kind = "gone" /\ events'[i].addr = b
      BY <2>1, <2>3 DEF OrphansAreCanceled
    <3>1. CASE b = a
      BY <2>3, <3>1
    <3>2. CASE b # a
      BY <2>1, <2>3, <2>4, <3>2 DEF Orphans, OrphansAreCanceled
    <3> QED BY <3>1, <3>2
  <2> QED BY <2>5, <2>6 DEF Orphans
\* An event is handled, and nothing is posted.
<1>7. ASSUME NEW K, Dispatch(K), connected' = connected,
             DOMAIN taskMap' \subseteq DOMAIN taskMap,
             \A a \in DOMAIN taskMap' : taskMap[a].canceled => taskMap'[a].canceled,
             \A a \in DOMAIN taskMap' :
                 Head(events).kind = "gone" /\ Head(events).addr = a => taskMap'[a].canceled
      PROVE  Orphans'
  <2>1. Moved(1) /\ Len(events') = Len(events) - 1 /\ events[1] = Head(events)
    BY <1>7, MovedByTake
  <2>2. \A i \in 1..Len(events') : ~(i > Len(events) - 1)
    BY <2>1 DEF Moved
  <2> QED BY <1>1, <1>7, <2>1, <2>2
<1>8. CASE HandleEvent
  <2>1. CASE \/ RejectCorrupted \/ RejectUnknown \/ ReplyFromCache \/ RefuseSecondTask
             \/ CancelNothing \/ OnProgressRange \/ OnProgressValue
    <3>1. PICK K : Dispatch(K) /\ "gone" \notin K
      BY <2>1 DEF RejectCorrupted, RejectUnknown, ReplyFromCache, RefuseSecondTask,
                  CancelNothing, OnProgressRange, OnProgressValue
    <3>2. connected' = connected /\ taskMap' = taskMap
      BY <2>1 DEF RejectCorrupted, RejectUnknown, ReplyFromCache, RefuseSecondTask,
                  CancelNothing, OnProgressRange, OnProgressValue
    <3>3. Head(events).kind # "gone"
      BY <3>1 DEF Dispatch
    <3> QED BY <1>7, <3>1, <3>2, <3>3
  <2>2. CASE CancelTask
    <3>1. Dispatch({"cancel"}) /\ Head(events).kind = "cancel" /\ connected' = connected
          /\ HasTask(Head(events).addr) /\ MarkCanceled(Head(events).addr)
      BY <2>2 DEF CancelTask, Dispatch
    <3>2. /\ DOMAIN taskMap' = DOMAIN taskMap
          /\ \A a \in DOMAIN taskMap : taskMap[a].canceled => taskMap'[a].canceled
      BY <3>1 DEF MarkCanceled, TypeOK, Task
    <3> QED BY <1>7, <3>1, <3>2
  <2>3. CASE OnClientDisconnected
    <3>1. Dispatch({"gone"}) /\ connected' = connected
      BY <2>3 DEF OnClientDisconnected
    <3>2. /\ DOMAIN taskMap' = DOMAIN taskMap
          /\ \A a \in DOMAIN taskMap : taskMap[a].canceled => taskMap'[a].canceled
          /\ HasTask(Head(events).addr) => taskMap'[Head(events).addr].canceled
      BY <2>3 DEF OnClientDisconnected, MarkCanceled, TypeOK, Task, HasTask
    <3> QED BY <1>7, <3>1, <3>2 DEF HasTask
  <2>4. CASE OnFinished
    <3>1. /\ Dispatch({"finished"}) /\ Head(events).kind = "finished" /\ connected' = connected
          /\ taskMap' = [b \in DOMAIN taskMap \ {Head(events).addr} |-> taskMap[b]]
      BY <2>4 DEF OnFinished, Dispatch
    <3> QED BY <1>7, <3>1
  <2>5. CASE StartTask
    <3>1. PICK a \in Addr, w \in Work : \E k \in 0..Chunks[w] : StartFor(a, w, k)
      BY <2>5, StartTaskIs
    <3>2. PICK k \in 0..Chunks[w] : StartFor(a, w, k)
      BY <3>1
    <3> DEFINE n == Len(events)
    <3>3. /\ n \in Nat \ {0} /\ Len(events') = n + 1
          /\ \A i \in 1..(n - 1) : i + 1 \in 1..n /\ events'[i] = events[i + 1]
          /\ events'[n].kind = "range" /\ events'[n + 1].kind = "progress"
      <4>1. /\ n \in Nat \ {0} /\ Len(events') = n + 1
            /\ \A i \in 1..(n - 1) : i + 1 \in 1..n /\ events'[i] = events[i + 1]
            /\ events'[n] = CallOut("range", a, nextTask, Chunks[w])
            /\ events'[n + 1] = CallOut("progress", a, nextTask, k)
        BY <3>2, StartTaskEvents
      <4> HIDE DEF n
      <4> QED BY <4>1 DEF CallOut
    <3>4. /\ Moved(1) /\ connected' = connected
          /\ events[1].kind = "task" /\ events[1] = Head(events)
      BY <3>2, <3>3, TakeHead DEF Moved, StartFor, TypeOK
    <3>5. /\ DOMAIN taskMap' = DOMAIN taskMap \cup {a} /\ a \notin DOMAIN taskMap
          /\ \A b \in DOMAIN taskMap : taskMap'[b] = taskMap[b]
      BY <3>2 DEF StartFor
    <3>6. events[1].addr = a
      <4>1. Head(events).addr \in DOMAIN taskMap' /\ ~HasTask(Head(events).addr)
        BY <2>5 DEF StartTask, Busy
      <4> QED BY <3>4, <3>5, <4>1 DEF HasTask
    <3>7. \A i \in 1..Len(events') : i > n - 1 => events'[i].kind \notin MessageKind
      <4>1. \A i \in 1..Len(events') : i > n - 1 => i = n \/ i = n + 1
        BY <3>3
      <4> QED BY <3>3, <4>1 DEF MessageKind
    <3>8. MessagesAreFollowed'
      BY <3>4, <3>7, FollowedAfterMove DEF Orphans
    <3>9. ASSUME NEW b \in DOMAIN taskMap' \ connected'
          PROVE  \/ taskMap'[b].canceled
                 \/ \E i \in 1..Len(events') : events'[i].kind = "gone" /\ events'[i].addr = b
      <4>1. CASE b = a
        <5>1. events[1].kind \in MessageKind /\ 1 \in 1..n
          BY <3>3, <3>4 DEF MessageKind
        <5>2. PICK j \in 1..n : 1 < j /\ events[j].kind = "gone" /\ events[j].addr = a
          BY <3>4, <3>6, <3>9, <4>1, <5>1 DEF Orphans, MessagesAreFollowed
        <5>3. j - 1 \in 1..(n - 1) /\ j - 1 \in 1..Len(events') /\ (j - 1) + 1 = j
          BY <3>3, <5>2
        <5>4. events'[j - 1] = events[j]
          BY <3>3, <5>3
        <5> QED BY <4>1, <5>2, <5>3, <5>4
      <4>2. CASE b \in DOMAIN taskMap
        <5>1. taskMap'[b] = taskMap[b] /\ events[1].kind # "gone"
          BY <3>4, <3>5, <4>2
        <5> QED BY <3>4, <3>9, <4>2, <5>1, OrphansAfterMove DEF Orphans
      <4> QED BY <3>5, <4>1, <4>2
    <3> QED BY <3>8, <3>9 DEF Orphans, OrphansAreCanceled
  <2> QED BY <1>8, <2>1, <2>2, <2>3, <2>4, <2>5 DEF HandleEvent
<1>9. ASSUME NEW a \in Addr, Compute(a)
      PROVE  Orphans'
  <2>1. a \in DOMAIN taskMap /\ taskMap[a] \in Task
    BY <1>9 DEF Compute, CompleteChunk, ReportFinished, Running, HasTask, TypeOK
  <2>2. /\ DOMAIN taskMap' = DOMAIN taskMap /\ connected' = connected
        /\ \A b \in DOMAIN taskMap : taskMap'[b].canceled = taskMap[b].canceled
    <3>1. CASE CompleteChunk(a)
      <4> DEFINE n == taskMap[a].done + 1
      <4>1. taskMap' = [taskMap EXCEPT ![a].done = n]
        BY <3>1 DEF CompleteChunk
      <4> HIDE DEF n
      <4> QED BY <2>1, <3>1, <4>1 DEF CompleteChunk, envVars, TypeOK, Task
    <3>2. CASE ReportFinished(a)
      BY <2>1, <3>2 DEF ReportFinished, envVars, TypeOK, Task
    <3> QED BY <1>9, <3>1, <3>2 DEF Compute
  <2>3. \/ events' = events
        \/ \E x \in Event : events' = Append(events, x) /\ x.kind \in WatcherKind
    <3>1. \A v \in Nat : /\ CallOut("progress", a, taskMap[a].id, v) \in Event
                         /\ CallOut("finished", a, taskMap[a].id, v) \in Event
      BY <2>1, MakeEvent DEF Task, WatcherKind
    <3>2. taskMap[a].done + 1 \in Nat /\ 0 \in Nat
      BY <2>1 DEF Task
    <3>3. \A k \in WatcherKind, v \in Nat : CallOut(k, a, taskMap[a].id, v).kind \in WatcherKind
      BY DEF CallOut
    <3> QED BY <1>9, <3>1, <3>2, <3>3 DEF Compute, CompleteChunk, ReportFinished, WatcherKind
  <2>4. CASE events' = events
    <3>1. Moved(0)
      BY <2>4 DEF TypeOK, Moved
    <3> QED BY <1>1, <2>2, <2>4, <3>1
  <2>5. ASSUME NEW x \in Event, events' = Append(events, x), x.kind \in WatcherKind
        PROVE  Orphans'
    <3>1. Moved(0) /\ Len(events') = Len(events) + 1 /\ events'[Len(events) + 1] = x
      BY <2>5, MovedByPost
    <3>2. x.kind \notin MessageKind
      BY <2>5 DEF MessageKind, WatcherKind
    <3> QED BY <1>1, <2>2, <3>1, <3>2 DEF Moved
  <2> QED BY <2>3, <2>4, <2>5
<1> QED BY <1>3, <1>4, <1>5, <1>6, <1>8, <1>9 DEF Next, Environment

\* "Client can disconnect without sending cancel request": once its leaving was
\* handled no task of a client that is gone goes on, and none is started from
\* what the client had sent before, even if it came back meanwhile.
THEOREM OrphansEnd == ServerAssumption => (Spec => []OrphansAreCanceled)
<1> SUFFICES ASSUME ServerAssumption PROVE Spec => []OrphansAreCanceled
  OBVIOUS
<1>1. Init => Orphans
  BY DEF Init, Orphans, MessagesAreFollowed, OrphansAreCanceled
<1>2. TypeOK /\ CallOuts /\ Orphans /\ [Next]_vars => Orphans'
  BY OrphansStep
<1>3. Orphans => OrphansAreCanceled
  BY DEF Orphans
<1> QED BY <1>1, <1>2, <1>3, SafeInvariant, PTL DEF Spec

-----------------------------------------------------------------------------
(* One answer to every request.                                             *)

Requests(a) == {e \in Event : e.kind \in MessageKind /\ e.addr = a}

\* What is owed to a client is what of it is queued, and the end of its task.
Balance ==
    \A a \in Addr : owed[a] = Count(events, Requests(a)) + One(a \in DOMAIN taskMap)

LEMMA BalanceAfterPost ==
    ASSUME TypeOK, Balance, NEW x \in Event, events' = Append(events, x),
           DOMAIN taskMap' = DOMAIN taskMap,
           \A a \in Addr : owed'[a] = owed[a] + One(x \in Requests(a))
    PROVE  Balance'
<1> SUFFICES ASSUME NEW a \in Addr
             PROVE  owed'[a] = Count(events', Requests(a)) + One(a \in DOMAIN taskMap')
  BY DEF Balance, Requests
<1>1. Count(events', Requests(a)) = Count(events, Requests(a)) + One(x \in Requests(a))
  BY CountAppend DEF TypeOK
<1>2. Count(events, Requests(a)) \in Nat
  BY CountType DEF TypeOK
<1> QED BY <1>1, <1>2 DEF Balance, One

LEMMA BalanceAfterTake ==
    ASSUME TypeOK, Balance, NEW K, Dispatch(K),
           \A a \in Addr : owed'[a] + One(Head(events) \in Requests(a)) + One(a \in DOMAIN taskMap)
                               = owed[a] + One(a \in DOMAIN taskMap'),
           \A a \in Addr : owed'[a] \in Int
    PROVE  Balance'
<1> SUFFICES ASSUME NEW a \in Addr
             PROVE  owed'[a] = Count(events', Requests(a)) + One(a \in DOMAIN taskMap')
  BY DEF Balance, Requests
<1>1. Count(events', Requests(a)) = Count(events, Requests(a)) - One(Head(events) \in Requests(a))
  BY CountTail DEF TypeOK, Dispatch
<1>2. Count(events, Requests(a)) \in Nat /\ owed[a] \in Int
  BY CountType DEF TypeOK
<1>3. owed'[a] + One(Head(events) \in Requests(a)) + One(a \in DOMAIN taskMap)
          = owed[a] + One(a \in DOMAIN taskMap')
  OBVIOUS
<1> QED BY <1>1, <1>2, <1>3 DEF Balance, One

LEMMA BalanceStep ==
    ASSUME ServerAssumption, TypeOK, CallOuts, Balance, [Next]_vars
    PROVE  Balance'
<1> USE DEF envVars
<1>0. owed \in [Addr -> Int]
  BY DEF TypeOK
<1>1. ASSUME events' = events, owed' = owed, DOMAIN taskMap' = DOMAIN taskMap
      PROVE  Balance'
  BY <1>1 DEF Balance, Requests
<1>2. CASE UNCHANGED vars \/ Deliver
  BY <1>1, <1>2 DEF vars, Deliver
<1>3. ASSUME NEW a \in Addr, Connect(a)
      PROVE  Balance'
  BY <1>1, <1>3 DEF Connect
<1>4. ASSUME NEW a \in Addr, Receive(a)
      PROVE  Balance'
  <2>1. PICK k \in Kinds : \E w \in IF k = "task" THEN Work ELSE {NoWork} : Arrive(a, k, w)
    BY <1>4 DEF Receive
  <2>2. PICK w \in IF k = "task" THEN Work ELSE {NoWork} : Arrive(a, k, w)
    BY <2>1
  <2>3. Message(k, a, w) \in Event /\ Message(k, a, w).addr = a
        /\ Message(k, a, w).kind \in MessageKind
    BY MakeEvent DEF ServerAssumption, Message
  <2>4. /\ events' = Append(events, Message(k, a, w))
        /\ taskMap' = taskMap /\ owed' = [owed EXCEPT ![a] = @ + 1]
    BY <2>2 DEF Arrive
  <2>5. \A b \in Addr : owed'[b] = owed[b] + One(Message(k, a, w) \in Requests(b))
    BY <1>0, <2>3, <2>4 DEF Requests, One
  <2> QED BY <2>3, <2>4, <2>5, BalanceAfterPost
\* An event is posted that is no request.
<1>5. ASSUME NEW x \in Event, events' = Append(events, x), x.kind \notin MessageKind,
             DOMAIN taskMap' = DOMAIN taskMap, owed' = owed
      PROVE  Balance'
  <2>1. \A a \in Addr : owed'[a] = owed[a] + One(x \in Requests(a))
    BY <1>0, <1>5 DEF Requests, One
  <2> QED BY <1>5, <2>1, BalanceAfterPost
<1>6. ASSUME NEW a \in Addr, Disconnect(a)
      PROVE  Balance'
  <2>1. Message("gone", a, NoWork) \in Event /\ Message("gone", a, NoWork).kind \notin MessageKind
    BY MakeEvent DEF Message, MessageKind
  <2> QED BY <1>5, <1>6, <2>1 DEF Disconnect, Leave
<1>7. CASE HandleEvent
  <2> DEFINE e == Head(events)
  <2>0. ASSUME NEW K, Dispatch(K)
        PROVE  e \in Event /\ e.addr \in Addr /\ e.kind \in K
    BY <2>0, DispatchType DEF Dispatch, Event
  <2> HIDE DEF e
  \* A request is taken from the queue and answered.
  <2>1. ASSUME NEW K \in SUBSET MessageKind, Dispatch(K), DOMAIN taskMap' = DOMAIN taskMap,
               owed' = [owed EXCEPT ![e.addr] = @ - 1]
        PROVE  Balance'
    <3>1. e \in Event /\ e.addr \in Addr /\ e.kind \in MessageKind
      BY <2>0, <2>1
    <3>2. \A a \in Addr : /\ owed'[a] + One(e \in Requests(a)) + One(a \in DOMAIN taskMap)
                                 = owed[a] + One(a \in DOMAIN taskMap')
                          /\ owed'[a] \in Int
      <4> TAKE a \in Addr
      <4>1. owed'[a] + One(e \in Requests(a)) = owed[a] /\ owed'[a] \in Int
        BY <1>0, <2>1, <3>1 DEF Requests, One
      <4> QED BY <1>0, <2>1, <4>1 DEF One
    <3> QED BY <2>1, <3>2, BalanceAfterTake DEF e
  \* Something else is taken, and no client is told that it is over.
  <2>2. ASSUME NEW K, Dispatch(K), K \cap MessageKind = {}, DOMAIN taskMap' = DOMAIN taskMap,
               owed' = owed
        PROVE  Balance'
    <3>1. e \in Event /\ e.kind \notin MessageKind
      BY <2>0, <2>2
    <3>2. \A a \in Addr : /\ owed'[a] + One(e \in Requests(a)) + One(a \in DOMAIN taskMap)
                                 = owed[a] + One(a \in DOMAIN taskMap')
                          /\ owed'[a] \in Int
      BY <1>0, <2>2, <3>1 DEF Requests, One
    <3> QED BY <2>2, <3>2, BalanceAfterTake DEF e
  <2>3. CASE RejectCorrupted
    <3>1. Dispatch({"malformed", "incomplete"}) /\ taskMap' = taskMap
          /\ owed' = [owed EXCEPT ![e.addr] = @ - 1]
      BY <2>3 DEF RejectCorrupted, Answer, Error, MakeReply, e
    <3> QED BY <2>1, <3>1 DEF MessageKind
  <2>4. CASE RejectUnknown
    <3>1. Dispatch({"unknown"}) /\ taskMap' = taskMap
          /\ owed' = [owed EXCEPT ![e.addr] = @ - 1]
      BY <2>4 DEF RejectUnknown, Answer, Error, MakeReply, e
    <3> QED BY <2>1, <3>1 DEF MessageKind
  <2>5. CASE ReplyFromCache
    <3>1. Dispatch({"task"}) /\ taskMap' = taskMap
          /\ owed' = [owed EXCEPT ![e.addr] = @ - 1]
      BY <2>5 DEF ReplyFromCache, Answer, MakeReply, e
    <3> QED BY <2>1, <3>1 DEF MessageKind
  <2>6. CASE RefuseSecondTask
    <3>1. Dispatch({"task", "incomplete"}) /\ taskMap' = taskMap
          /\ owed' = [owed EXCEPT ![e.addr] = @ - 1]
      BY <2>6 DEF RefuseSecondTask, Answer, Error, MakeReply, e
    <3> QED BY <2>1, <3>1 DEF MessageKind
  <2>7. CASE CancelNothing
    <3>1. Dispatch({"cancel"}) /\ taskMap' = taskMap
          /\ owed' = [owed EXCEPT ![e.addr] = @ - 1]
      BY <2>7 DEF CancelNothing, Answer, Error, MakeReply, e
    <3> QED BY <2>1, <3>1 DEF MessageKind
  <2>8. CASE CancelTask
    <3>1. Dispatch({"cancel"}) /\ DOMAIN taskMap' = DOMAIN taskMap
          /\ owed' = [owed EXCEPT ![e.addr] = @ - 1]
      BY <2>8 DEF CancelTask, MarkCanceled, e
    <3> QED BY <2>1, <3>1 DEF MessageKind
  <2>9. CASE OnClientDisconnected \/ OnProgressRange \/ OnProgressValue
    <3>1. PICK K \in {{"gone"}, {"range"}, {"progress"}} : Dispatch(K)
      BY <2>9 DEF OnClientDisconnected, OnProgressRange, OnProgressValue
    <3>2. DOMAIN taskMap' = DOMAIN taskMap /\ owed' = owed
      BY <2>9 DEF OnClientDisconnected, OnProgressRange, OnProgressValue, MarkCanceled
    <3> QED BY <2>2, <3>1, <3>2 DEF MessageKind
  <2>10. CASE StartTask
    <3>1. PICK a \in Addr, w \in Work : \E k \in 0..Chunks[w] : StartFor(a, w, k)
      BY <2>10, StartTaskIs
    <3>2. PICK k \in 0..Chunks[w] : StartFor(a, w, k)
      BY <3>1
    <3> DEFINE r == CallOut("range", a, nextTask, Chunks[w])
               p == CallOut("progress", a, nextTask, k)
    <3>3. /\ r \in Event /\ p \in Event /\ r.kind \notin MessageKind /\ p.kind \notin MessageKind
      <4>1. nextTask \in Nat /\ Chunks[w] \in Nat /\ k \in Nat
        BY DEF TypeOK, ServerAssumption
      <4>2. r \in Event /\ p \in Event
        BY <4>1, MakeEvent DEF WatcherKind
      <4> QED BY <4>2 DEF CallOut, MessageKind
    <3>4. /\ events' = Append(Append(Tail(events), r), p) /\ owed' = owed
          /\ DOMAIN taskMap' = DOMAIN taskMap \cup {a} /\ a \notin DOMAIN taskMap
          /\ events # << >> /\ events \in Seq(Event) /\ e.kind = "task" /\ e \in Event
      BY <3>2, TakeHead DEF StartFor, TypeOK, e
    <3> HIDE DEF r, p
    <3>5. e.addr = a
      <4>1. e.addr \in DOMAIN taskMap' /\ e.addr \notin DOMAIN taskMap
        BY <2>10 DEF StartTask, Busy, HasTask, e
      <4> QED BY <3>4, <4>1
    <3>6. ASSUME NEW b \in Addr
          PROVE  owed'[b] = Count(events', Requests(b)) + One(b \in DOMAIN taskMap')
      <4>1. Tail(events) \in Seq(Event) /\ Append(Tail(events), r) \in Seq(Event)
        BY <3>3, <3>4
      <4>2. Count(Tail(events), Requests(b)) = Count(events, Requests(b)) - One(e \in Requests(b))
        BY <3>4, CountTail DEF e
      <4>3. Count(Append(Tail(events), r), Requests(b))
               = Count(Tail(events), Requests(b)) + One(r \in Requests(b))
        BY <3>3, <4>1, CountAppend
      <4>4. Count(events', Requests(b))
               = Count(Append(Tail(events), r), Requests(b)) + One(p \in Requests(b))
        BY <3>3, <3>4, <4>1, CountAppend, ZenonT(30)
      <4>5. r \notin Requests(b) /\ p \notin Requests(b) /\ (e \in Requests(b) <=> b = a)
        BY <3>3, <3>4, <3>5 DEF Requests, MessageKind
      <4>6. Count(events, Requests(b)) \in Nat
        BY <3>4, CountType
      <4>7. owed[b] = Count(events, Requests(b)) + One(b \in DOMAIN taskMap)
        BY DEF Balance
      <4> QED BY <3>4, <4>2, <4>3, <4>4, <4>5, <4>6, <4>7 DEF One
    <3> QED BY <3>6 DEF Balance, Requests
  <2>11. CASE OnFinished
    <3>1. Dispatch({"finished"}) /\ DOMAIN taskMap' = DOMAIN taskMap \ {e.addr}
          /\ owed' = [owed EXCEPT ![e.addr] = @ - 1]
      BY <2>11 DEF OnFinished, Answer, MakeReply, e
    <3>2. e \in Event /\ e.addr \in Addr /\ e.kind = "finished"
      BY <2>0, <3>1
    <3>3. e.addr \in DOMAIN taskMap
      <4>1. e = events[1] /\ 1 \in 1..Len(events)
        BY <3>1, TakeHead DEF Dispatch, TypeOK, e
      <4> QED BY <3>2, <4>1 DEF CallOuts, CallOutsFindTheirTask, FromWatcher, WatcherKind, HasTask
    <3>4. ASSUME NEW a \in Addr
          PROVE  /\ owed'[a] + One(e \in Requests(a)) + One(a \in DOMAIN taskMap)
                        = owed[a] + One(a \in DOMAIN taskMap')
                 /\ owed'[a] \in Int
      <4>1. e \notin Requests(a)
        BY <3>2 DEF Requests, MessageKind
      <4> QED BY <1>0, <3>1, <3>2, <3>3, <4>1 DEF One
    <3> QED BY <3>1, <3>4, BalanceAfterTake DEF e
  <2> QED BY <1>7, <2>3, <2>4, <2>5, <2>6, <2>7, <2>8, <2>9, <2>10, <2>11 DEF HandleEvent
<1>8. ASSUME NEW a \in Addr, Compute(a)
      PROVE  Balance'
  <2>1. a \in DOMAIN taskMap /\ taskMap[a] \in Task
    BY <1>8 DEF Compute, CompleteChunk, ReportFinished, Running, HasTask, TypeOK
  <2>2. DOMAIN taskMap' = DOMAIN taskMap /\ owed' = owed
    BY <1>8 DEF Compute, CompleteChunk, ReportFinished
  <2>3. \A k \in WatcherKind, v \in Nat :
            /\ CallOut(k, a, taskMap[a].id, v) \in Event
            /\ CallOut(k, a, taskMap[a].id, v).kind \notin MessageKind
    <3> TAKE k \in WatcherKind, v \in Nat
    <3>1. CallOut(k, a, taskMap[a].id, v) \in Event
      BY <2>1, MakeEvent DEF Task
    <3> QED BY <3>1 DEF CallOut, WatcherKind, MessageKind
  <2>4. \/ events' = events
        \/ events' = Append(events, CallOut("progress", a, taskMap[a].id, taskMap[a].done + 1))
        \/ events' = Append(events, CallOut("finished", a, taskMap[a].id, 0))
    BY <1>8 DEF Compute, CompleteChunk, ReportFinished
  <2>5. taskMap[a].done + 1 \in Nat /\ "progress" \in WatcherKind /\ "finished" \in WatcherKind
    BY <2>1 DEF Task, WatcherKind
  <2> QED BY <1>1, <1>5, <2>2, <2>3, <2>4, <2>5
<1> QED BY <1>2, <1>3, <1>4, <1>6, <1>7, <1>8 DEF Next, Environment

\* Every message a client sends is answered exactly once: parseRequest or
\* finished() answers it, and never both, except that a cancel request that met
\* a task shares the last reply of that task.
THEOREM RequestsAreAnswered == ServerAssumption => (Spec => []EveryRequestAnsweredOnce)
<1> SUFFICES ASSUME ServerAssumption PROVE Spec => []EveryRequestAnsweredOnce
  OBVIOUS
<1>1. Init => Balance
  BY CountEmpty DEF Init, Balance, One
<1>2. TypeOK /\ CallOuts /\ Balance /\ [Next]_vars => Balance'
  BY BalanceStep
<1>3. TypeOK /\ Balance => EveryRequestAnsweredOnce
  <2> SUFFICES ASSUME TypeOK, Balance, NEW a \in Addr
               PROVE  owed[a] = Cardinality(MessagesFrom(a)) + IF HasTask(a) THEN 1 ELSE 0
    BY DEF EveryRequestAnsweredOnce
  <2>1. MessagesFrom(a) = Places(events, Requests(a))
    BY DEF TypeOK, MessagesFrom, Places, Requests
  <2> QED BY <2>1 DEF Balance, Count, One, HasTask
<1> QED BY <1>1, <1>2, <1>3, SafeInvariant, PTL DEF Spec

-----------------------------------------------------------------------------
(* The replies of one task.  What a client is sent of a task was posted as   *)
(* its watcher's call-outs, so that order is kept through both queues.       *)

Final == {"result", "canceled", "finished"}

\* y may come after x, in the queues and to the client.
InOrder(x, y) ==
    (x.task = y.task /\ x.task # 0) =>
        /\ x.kind \notin Final
        /\ y.kind # "range"
        /\ (x.kind = "progress" /\ y.kind = "progress") => x.val < y.val

Ordered ==
    /\ \A i, j \in 1..Len(outbox) : i < j => InOrder(outbox[i], outbox[j])
    /\ \A i, j \in 1..Len(events) : i < j => InOrder(events[i], events[j])
    /\ \A i \in 1..Len(outbox), j \in 1..Len(events) : InOrder(outbox[i], events[j])

\* No two tasks are taken for each other.
TasksDiffer ==
    /\ \A i \in 1..Len(events) :
          /\ events[i].task < nextTask
          /\ ~FromWatcher(events[i]) => events[i].task = 0
    /\ \A i \in 1..Len(outbox) : outbox[i].task < nextTask
    /\ \A a \in DOMAIN taskMap : taskMap[a].id \in 1..(nextTask - 1)
    /\ \A a, b \in DOMAIN taskMap : taskMap[a].id = taskMap[b].id => a = b

\* What may have been sent of a task that is still in the map.
MaySend(m, a) ==
    m.task = taskMap[a].id =>
        m.kind \notin Final /\ (m.kind = "progress" => m.val <= taskMap[a].done)

SentOfTasks == \A a \in DOMAIN taskMap : \A i \in 1..Len(outbox) : MaySend(outbox[i], a)

Order == Ordered /\ TasksDiffer /\ SentOfTasks

\* The tasks are the ones there were, or fewer, and go on.
TasksGoOn ==
    /\ nextTask' = nextTask
    /\ DOMAIN taskMap' \subseteq DOMAIN taskMap
    /\ \A a \in DOMAIN taskMap' : /\ taskMap'[a].id = taskMap[a].id
                                  /\ taskMap[a].done <= taskMap'[a].done
    /\ \A a \in DOMAIN taskMap' : taskMap[a].done \in Nat /\ taskMap'[a].done \in Nat

LEMMA SameMapGoesOn ==
    ASSUME TypeOK, UNCHANGED <<taskMap, nextTask>>
    PROVE  TasksGoOn
BY DEF TypeOK, Task, TasksGoOn

LEMMA CanceledGoesOn ==
    ASSUME TypeOK, NEW a \in DOMAIN taskMap, MarkCanceled(a), UNCHANGED nextTask
    PROVE  TasksGoOn
BY DEF TypeOK, Task, TasksGoOn, MarkCanceled

\* The outbox is as it was, or shorter.
LEMMA SentAfterMove ==
    ASSUME TypeOK, SentOfTasks, TasksGoOn, NEW d \in {0, 1},
           Len(outbox') \in Nat,
           \A i \in 1..Len(outbox') : i + d \in 1..Len(outbox) /\ outbox'[i] = outbox[i + d]
    PROVE  SentOfTasks'
<1> SUFFICES ASSUME NEW a \in DOMAIN taskMap', NEW i \in 1..Len(outbox'),
                    outbox'[i].task = taskMap'[a].id
             PROVE  /\ outbox'[i].kind \notin Final
                    /\ outbox'[i].kind = "progress" => outbox'[i].val <= taskMap'[a].done
  BY DEF SentOfTasks, MaySend, Final
<1>1. i + d \in 1..Len(outbox) /\ outbox'[i] = outbox[i + d]
  OBVIOUS
<1>2. outbox[i + d] \in Reply
  BY <1>1 DEF TypeOK
<1>3. MaySend(outbox[i + d], a)
  BY <1>1 DEF SentOfTasks, TasksGoOn
<1>4. outbox[i + d].val \in Nat
  BY <1>2 DEF Reply
<1> QED BY <1>1, <1>3, <1>4 DEF MaySend, TasksGoOn

LEMMA OrderAfterDeliver ==
    ASSUME TypeOK, Order, Deliver
    PROVE  Order'
<1>1. /\ Len(outbox') \in Nat
      /\ \A i \in 1..Len(outbox') : i + 1 \in 1..Len(outbox) /\ outbox'[i] = outbox[i + 1]
      /\ UNCHANGED <<events, taskMap, nextTask>>
  BY TakeHead DEF TypeOK, Deliver
<1>2. SentOfTasks'
  BY <1>1, SameMapGoesOn, SentAfterMove DEF Order
<1>3. Ordered'
  <2>1. ASSUME NEW i \in 1..Len(outbox'), NEW j \in 1..Len(outbox'), i < j
        PROVE  InOrder(outbox'[i], outbox'[j])
    <3>1. i + 1 < j + 1
      BY <2>1
    <3> QED BY <1>1, <3>1 DEF Order, Ordered
  <2>2. ASSUME NEW i \in 1..Len(outbox'), NEW j \in 1..Len(events')
        PROVE  InOrder(outbox'[i], events'[j])
    BY <1>1 DEF Order, Ordered
  <2>3. \A i, j \in 1..Len(events') : i < j => InOrder(events'[i], events'[j])
    BY <1>1 DEF Order, Ordered
  <2> QED BY <2>1, <2>2, <2>3 DEF Ordered, InOrder, Final
<1>4. TasksDiffer'
  BY <1>1 DEF Order, TasksDiffer, FromWatcher
<1> QED BY <1>2, <1>3, <1>4 DEF Order

\* A call-out, or something that is none, is posted.
LEMMA OrderAfterPost ==
    ASSUME TypeOK, Order, TasksGoOn, UNCHANGED outbox,
           NEW x \in Event, events' = Append(events, x),
           x.task < nextTask, ~FromWatcher(x) => x.task = 0,
           \A i \in 1..Len(events) : InOrder(events[i], x),
           \A i \in 1..Len(outbox) : InOrder(outbox[i], x)
    PROVE  Order'
<1>1. /\ Len(events) \in Nat /\ Len(events') = Len(events) + 1
      /\ \A i \in 1..Len(events) : events'[i] = events[i]
      /\ events'[Len(events) + 1] = x
  BY AddLast DEF TypeOK
<1>2. \A i \in 1..Len(events') : i \in 1..Len(events) \/ i = Len(events) + 1
  BY <1>1
<1>3. SentOfTasks'
  <2>1. Len(outbox') \in Nat /\ \A i \in 1..Len(outbox') : i + 0 = i
    BY DEF TypeOK
  <2> QED BY <2>1, SentAfterMove DEF Order
<1>4. Ordered'
  <2>1. ASSUME NEW i \in 1..Len(events'), NEW j \in 1..Len(events'), i < j
        PROVE  InOrder(events'[i], events'[j])
    <3>1. i \in 1..Len(events)
      BY <1>1, <2>1
    <3> QED BY <1>1, <1>2, <2>1, <3>1 DEF Order, Ordered
  <2>2. ASSUME NEW i \in 1..Len(outbox), NEW j \in 1..Len(events')
        PROVE  InOrder(outbox[i], events'[j])
    BY <1>1, <1>2 DEF Order, Ordered
  <2> QED BY <2>1, <2>2 DEF Order, Ordered, InOrder
<1>5. TasksDiffer'
  BY <1>1, <1>2 DEF Order, TasksDiffer, TasksGoOn, FromWatcher
<1> QED BY <1>3, <1>4, <1>5 DEF Order

\* The first event is handled, and nothing is sent.
LEMMA OrderAfterTake ==
    ASSUME TypeOK, Order, TasksGoOn, UNCHANGED outbox, NEW K, Dispatch(K)
    PROVE  Order'
<1>1. \A i \in 1..Len(events') : i + 1 \in 1..Len(events) /\ events'[i] = events[i + 1]
      /\ i \in Int
  BY TakeHead DEF TypeOK, Dispatch
<1>2. SentOfTasks'
  <2>1. Len(outbox') \in Nat /\ \A i \in 1..Len(outbox') : i + 0 = i
    BY DEF TypeOK
  <2> QED BY <2>1, SentAfterMove DEF Order
<1>3. Ordered'
  <2>1. ASSUME NEW i \in 1..Len(events'), NEW j \in 1..Len(events'), i < j
        PROVE  InOrder(events'[i], events'[j])
    <3>1. i + 1 < j + 1
      BY <2>1
    <3> QED BY <1>1, <3>1 DEF Order, Ordered
  <2>2. ASSUME NEW i \in 1..Len(outbox'), NEW j \in 1..Len(events')
        PROVE  InOrder(outbox'[i], events'[j])
    BY <1>1 DEF Order, Ordered
  <2>3. \A i, j \in 1..Len(outbox') : i < j => InOrder(outbox'[i], outbox'[j])
    BY DEF Order, Ordered
  <2> QED BY <2>1, <2>2, <2>3 DEF Ordered, InOrder, Final
<1>4. TasksDiffer'
  BY <1>1 DEF Order, TasksDiffer, TasksGoOn, FromWatcher
<1> QED BY <1>2, <1>3, <1>4 DEF Order

\* m says no more of a task than the event e it is sent for.
Speaks(m, e) ==
    m.task # 0 =>
        /\ m.task = e.task
        /\ m.kind \in Final => e.kind \in Final
        /\ m.kind = "range" => e.kind = "range"
        /\ m.kind = "progress" => e.kind = "progress" /\ m.val = e.val

\* The first event is handled, and a message is sent for it.
LEMMA OrderAfterSend ==
    ASSUME TypeOK, Order, TasksGoOn, NEW K, Dispatch(K), NEW m \in Reply, Send(m),
           Speaks(m, Head(events)), \A a \in DOMAIN taskMap' : MaySend(m, a)
    PROVE  Order'
<1>1. /\ Len(events) \in Nat \ {0} /\ Head(events) = events[1] /\ 1 \in 1..Len(events)
      /\ \A i \in 1..Len(events') :
            /\ i + 1 \in 1..Len(events) /\ events'[i] = events[i + 1]
            /\ 1 < i + 1 /\ i \in Int
  BY TakeHead DEF TypeOK, Dispatch
<1>2. /\ Len(outbox) \in Nat /\ Len(outbox') = Len(outbox) + 1
      /\ \A i \in 1..Len(outbox) : outbox'[i] = outbox[i]
      /\ outbox'[Len(outbox) + 1] = m
  BY AddLast DEF TypeOK, Send
<1>3. \A i \in 1..Len(outbox') : i \in 1..Len(outbox) \/ i = Len(outbox) + 1
  BY <1>2
<1>4. Speaks(m, events[1])
  BY <1>1
<1>5. SentOfTasks'
  <2> SUFFICES ASSUME NEW a \in DOMAIN taskMap', NEW i \in 1..Len(outbox'),
                      outbox'[i].task = taskMap'[a].id
               PROVE  /\ outbox'[i].kind \notin Final
                      /\ outbox'[i].kind = "progress" => outbox'[i].val <= taskMap'[a].done
    BY DEF SentOfTasks, MaySend, Final
  <2>1. a \in DOMAIN taskMap /\ taskMap'[a].id = taskMap[a].id
        /\ taskMap[a].done <= taskMap'[a].done
        /\ taskMap[a].done \in Nat /\ taskMap'[a].done \in Nat
    BY DEF TasksGoOn
  <2>2. MaySend(outbox'[i], a)
    BY <1>2, <1>3, <2>1 DEF Order, SentOfTasks
  <2>3. outbox'[i].val \in Nat
    <3>1. \A k \in 1..Len(outbox) : outbox[k] \in Reply
      BY DEF TypeOK
    <3> QED BY <1>2, <1>3, <3>1 DEF Reply
  <2> QED BY <2>1, <2>2, <2>3 DEF MaySend
<1>6. Ordered'
  <2>1. ASSUME NEW i \in 1..Len(outbox)
        PROVE  InOrder(outbox[i], m)
    <3>1. InOrder(outbox[i], events[1])
      BY <1>1 DEF Order, Ordered
    <3> QED BY <1>4, <3>1 DEF InOrder, Speaks
  <2>2. ASSUME NEW j \in 2..Len(events)
        PROVE  InOrder(m, events[j])
    <3>1. InOrder(events[1], events[j])
      BY <1>1 DEF Order, Ordered
    <3> QED BY <1>4, <3>1 DEF InOrder, Speaks
  <2>3. ASSUME NEW i \in 1..Len(outbox'), NEW j \in 1..Len(outbox'), i < j
        PROVE  InOrder(outbox'[i], outbox'[j])
    <3>1. i \in 1..Len(outbox)
      BY <1>2, <2>3
    <3> QED BY <1>2, <1>3, <2>1, <2>3, <3>1 DEF Order, Ordered
  <2>4. ASSUME NEW i \in 1..Len(events'), NEW j \in 1..Len(events'), i < j
        PROVE  InOrder(events'[i], events'[j])
    <3>1. i + 1 < j + 1
      BY <1>1, <2>4
    <3> QED BY <1>1, <3>1 DEF Order, Ordered
  <2>5. ASSUME NEW i \in 1..Len(outbox'), NEW j \in 1..Len(events')
        PROVE  InOrder(outbox'[i], events'[j])
    <3>1. j + 1 \in 2..Len(events) /\ events'[j] = events[j + 1]
      BY <1>1
    <3>2. CASE i \in 1..Len(outbox)
      BY <1>1, <1>2, <3>1, <3>2 DEF Order, Ordered
    <3>3. CASE i = Len(outbox) + 1
      BY <1>2, <2>2, <3>1, <3>3
    <3> QED BY <1>3, <3>2, <3>3
  <2> QED BY <2>3, <2>4, <2>5 DEF Ordered, InOrder, Final
<1>7. TasksDiffer'
  <2>1. m.task < nextTask
    <3>1. events[1].task < nextTask /\ m.task \in Nat /\ nextTask \in Nat \ {0}
      BY <1>1 DEF Order, TasksDiffer, TypeOK, Reply
    <3> QED BY <1>4, <3>1 DEF Speaks
  <2>2. \A i \in 1..Len(events') : /\ events'[i].task < nextTask
                                   /\ ~FromWatcher(events'[i]) => events'[i].task = 0
    BY <1>1 DEF Order, TasksDiffer, FromWatcher
  <2>3. \A i \in 1..Len(outbox') : outbox'[i].task < nextTask
    <3>1. \A i \in 1..Len(outbox) : outbox'[i].task < nextTask
      BY <1>2 DEF Order, TasksDiffer
    <3> QED BY <1>2, <1>3, <2>1, <3>1
  <2>4. /\ \A a \in DOMAIN taskMap' : taskMap'[a].id \in 1..(nextTask - 1)
        /\ \A a, b \in DOMAIN taskMap' : taskMap'[a].id = taskMap'[b].id => a = b
    BY DEF Order, TasksDiffer, TasksGoOn
  <2> QED BY <2>2, <2>3, <2>4 DEF TasksDiffer, TasksGoOn, FromWatcher
<1> QED BY <1>5, <1>6, <1>7 DEF Order

\* A new task: all that is queued or sent is of older ones.
LEMMA OrderAfterStart ==
    ASSUME ServerAssumption, TypeOK, Order, StartTask
    PROVE  Order'
<1>1. PICK a \in Addr, w \in Work : \E k \in 0..Chunks[w] : StartFor(a, w, k)
  BY StartTaskIs
<1>2. PICK k \in 0..Chunks[w] : StartFor(a, w, k)
  BY <1>1
<1> DEFINE n == Len(events)
<1>3. /\ n \in Nat \ {0} /\ Len(events') = n + 1
      /\ \A i \in 1..(n - 1) : i + 1 \in 1..n /\ events'[i] = events[i + 1]
      /\ events'[n] = CallOut("range", a, nextTask, Chunks[w])
      /\ events'[n + 1] = CallOut("progress", a, nextTask, k)
  BY <1>2, StartTaskEvents
<1> HIDE DEF n
<1>4. /\ events'[n].task = nextTask /\ events'[n].kind = "range"
      /\ events'[n + 1].task = nextTask /\ events'[n + 1].kind = "progress"
  BY <1>3 DEF CallOut
<1>5. \A i \in 1..(n + 1) : i \in 1..(n - 1) \/ i = n \/ i = n + 1
  BY <1>3
<1>6. \A i \in 1..(n - 1) : events'[i].task < nextTask
      /\ (~FromWatcher(events'[i]) => events'[i].task = 0)
  BY <1>3 DEF n, Order, TasksDiffer, FromWatcher
<1>7. \A i \in 1..Len(outbox) : outbox[i].task < nextTask
  BY DEF Order, TasksDiffer
<1>8. /\ outbox' = outbox /\ nextTask' = nextTask + 1 /\ nextTask \in Nat \ {0}
      /\ DOMAIN taskMap' = DOMAIN taskMap \cup {a} /\ a \notin DOMAIN taskMap
      /\ taskMap'[a].id = nextTask
      /\ \A b \in DOMAIN taskMap : taskMap'[b] = taskMap[b]
  BY <1>2 DEF StartFor, TypeOK
<1>9. \A i \in 1..(n - 1) : events'[i].task \in Nat
  <2>1. \A i \in 1..n : events[i].task \in Nat
    BY DEF n, TypeOK, Event
  <2> QED BY <1>3, <2>1
<1>10. \A i \in 1..Len(outbox) : outbox[i].task \in Nat
  <2>1. \A i \in 1..Len(outbox) : outbox[i] \in Reply
    BY DEF TypeOK
  <2> QED BY <2>1 DEF Reply
<1>11. Ordered'
  <2>1. ASSUME NEW i \in 1..(n + 1), NEW j \in 1..(n + 1), i < j
        PROVE  InOrder(events'[i], events'[j])
    <3>1. CASE j \in 1..(n - 1)
      <4>1. i \in 1..(n - 1) /\ i + 1 < j + 1
        BY <1>3, <2>1, <3>1
      <4> QED BY <1>3, <3>1, <4>1 DEF n, Order, Ordered
    <3>2. CASE i \in 1..(n - 1) /\ j \in {n, n + 1}
      BY <1>4, <1>6, <1>8, <1>9, <3>2 DEF InOrder
    <3>3. CASE i = n /\ j = n + 1
      BY <1>4, <3>3 DEF InOrder, Final
    <3>4. \/ j \in 1..(n - 1)
          \/ i \in 1..(n - 1) /\ j \in {n, n + 1}
          \/ i = n /\ j = n + 1
      <4>1. i \in Int /\ j \in Int /\ n \in Int
        BY <1>3, <2>1
      <4>2. CASE j = n
        BY <1>5, <2>1, <4>1, <4>2
      <4>3. CASE j = n + 1
        BY <1>5, <2>1, <4>1, <4>3
      <4> QED BY <1>5, <4>2, <4>3
    <3> QED BY <3>1, <3>2, <3>3, <3>4
  <2>2. ASSUME NEW i \in 1..Len(outbox), NEW j \in 1..(n + 1)
        PROVE  InOrder(outbox[i], events'[j])
    <3>1. CASE j \in 1..(n - 1)
      BY <1>3, <3>1 DEF n, Order, Ordered
    <3>2. CASE j \in {n, n + 1}
      <4>1. events'[j].task = nextTask
        BY <1>4, <3>2
      <4>2. outbox[i].task < nextTask /\ outbox[i].task \in Nat /\ nextTask \in Nat
        BY <1>7, <1>8, <1>10
      <4>3. outbox[i].task # nextTask
        BY <4>2
      <4> QED BY <4>1, <4>3 DEF InOrder
    <3> QED BY <1>5, <3>1, <3>2
  <2>3. \A i, j \in 1..Len(outbox) : i < j => InOrder(outbox[i], outbox[j])
    BY DEF Order, Ordered
  <2> QED BY <1>3, <1>8, <2>1, <2>2, <2>3, SMTT(30) DEF Ordered, InOrder, Final
<1>12. TasksDiffer'
  <2>1. \A i \in 1..Len(events') : /\ events'[i].task < nextTask'
                                   /\ ~FromWatcher(events'[i]) => events'[i].task = 0
    <3> SUFFICES ASSUME NEW i \in 1..(n + 1)
                 PROVE  /\ events'[i].task < nextTask + 1
                        /\ ~FromWatcher(events'[i]) => events'[i].task = 0
      BY <1>3, <1>8
    <3>1. CASE i \in 1..(n - 1)
      BY <1>6, <1>8, <1>9, <3>1
    <3>2. CASE i \in {n, n + 1}
      BY <1>4, <1>8, <3>2 DEF FromWatcher, WatcherKind
    <3> QED BY <1>5, <3>1, <3>2
  <2>2. \A i \in 1..Len(outbox') : outbox'[i].task < nextTask'
    BY <1>7, <1>8, <1>10
  <2>3. \A b \in DOMAIN taskMap : taskMap[b].id \in 1..(nextTask - 1)
    BY DEF Order, TasksDiffer
  <2>4. \A b \in DOMAIN taskMap' : taskMap'[b].id \in 1..(nextTask' - 1)
    BY <1>8, <2>3
  <2>5. \A b, c \in DOMAIN taskMap' : taskMap'[b].id = taskMap'[c].id => b = c
    <3>1. \A b \in DOMAIN taskMap : taskMap[b].id # nextTask
      BY <1>8, <2>3
    <3> QED BY <1>8, <3>1 DEF Order, TasksDiffer
  <2> QED BY <2>1, <2>2, <2>4, <2>5 DEF TasksDiffer, FromWatcher
<1>13. SentOfTasks'
  <2> SUFFICES ASSUME NEW b \in DOMAIN taskMap', NEW i \in 1..Len(outbox'),
                      outbox'[i].task = taskMap'[b].id
               PROVE  /\ outbox'[i].kind \notin Final
                      /\ outbox'[i].kind = "progress" => outbox'[i].val <= taskMap'[b].done
    BY DEF SentOfTasks, MaySend, Final
  <2>1. b # a
    BY <1>7, <1>8, <1>10
  <2> QED BY <1>8, <2>1 DEF Order, SentOfTasks, MaySend
<1> QED BY <1>11, <1>12, <1>13 DEF Order

LEMMA OrderStep ==
    ASSUME ServerAssumption, TypeOK, CallOuts, Course, Order, [Next]_vars
    PROVE  Order'
<1> USE DEF envVars
<1>0. ASSUME UNCHANGED <<events, outbox>>, TasksGoOn
      PROVE  Order'
  <2>1. SentOfTasks'
    <3>1. Len(outbox') \in Nat /\ \A i \in 1..Len(outbox') : i + 0 = i
      BY <1>0 DEF TypeOK
    <3> QED BY <1>0, <3>1, SentAfterMove DEF Order
  <2>2. Ordered'
    BY <1>0 DEF Order, Ordered, InOrder
  <2>3. TasksDiffer'
    BY <1>0 DEF Order, TasksDiffer, TasksGoOn, FromWatcher
  <2> QED BY <2>1, <2>2, <2>3 DEF Order
<1>1. ASSUME UNCHANGED <<events, outbox, taskMap, nextTask>>
      PROVE  Order'
  BY <1>0, <1>1, SameMapGoesOn
<1>2. CASE UNCHANGED vars
  BY <1>1, <1>2 DEF vars
<1>3. CASE Deliver
  BY <1>3, OrderAfterDeliver
<1>4. ASSUME NEW a \in Addr, Connect(a)
      PROVE  Order'
  BY <1>1, <1>4 DEF Connect
\* What the net thread posts speaks for no task.
<1>5. ASSUME NEW x \in Event, events' = Append(events, x), ~FromWatcher(x), x.task = 0,
             UNCHANGED <<outbox, taskMap, nextTask>>
      PROVE  Order'
  <2>1. x.task < nextTask
    BY <1>5 DEF TypeOK
  <2>2. \A y : InOrder(y, x)
    BY <1>5 DEF InOrder
  <2> QED BY <1>5, <2>1, <2>2, SameMapGoesOn, OrderAfterPost
<1>6. ASSUME NEW a \in Addr, Receive(a)
      PROVE  Order'
  <2>1. PICK k \in Kinds : \E w \in IF k = "task" THEN Work ELSE {NoWork} : Arrive(a, k, w)
    BY <1>6 DEF Receive
  <2>2. PICK w \in IF k = "task" THEN Work ELSE {NoWork} : Arrive(a, k, w)
    BY <2>1
  <2>3. Message(k, a, w) \in Event
    BY MakeEvent DEF ServerAssumption
  <2>4. ~FromWatcher(Message(k, a, w)) /\ Message(k, a, w).task = 0
    BY DEF ServerAssumption, FromWatcher, Message, MessageKind, WatcherKind
  <2> QED BY <1>5, <2>2, <2>3, <2>4 DEF Arrive
<1>7. ASSUME NEW a \in Addr, Disconnect(a)
      PROVE  Order'
  <2>1. Message("gone", a, NoWork) \in Event
    BY MakeEvent
  <2>2. ~FromWatcher(Message("gone", a, NoWork)) /\ Message("gone", a, NoWork).task = 0
    BY DEF FromWatcher, Message, WatcherKind
  <2> QED BY <1>5, <1>7, <2>1, <2>2 DEF Disconnect, Leave
<1>8. CASE HandleEvent
  <2> DEFINE e == Head(events)
  <2>0. ASSUME NEW K, Dispatch(K)
        PROVE  /\ e \in Event /\ e.addr \in Addr /\ e.kind \in K
               /\ e = events[1] /\ 1 \in 1..Len(events)
    <3>1. events # << >> /\ events \in Seq(Event)
      BY <2>0 DEF Dispatch, TypeOK
    <3> QED BY <2>0, <3>1, TakeHead DEF Dispatch, Event
  \* The head of the queue, where it is a call-out.
  <2>a. ASSUME NEW K \in SUBSET WatcherKind, Dispatch(K)
        PROVE  /\ e.addr \in DOMAIN taskMap /\ taskMap[e.addr].id = e.task
               /\ taskMap[e.addr] \in Task
    <3>1. FromWatcher(events[1]) /\ 1 \in 1..Len(events)
      BY <2>0, <2>a DEF FromWatcher
    <3> QED BY <2>0, <2>a, <3>1 DEF CallOuts, CallOutsFindTheirTask, HasTask, TypeOK
  <2> HIDE DEF e
  \* A reply that speaks for no task.
  <2>1. ASSUME NEW K, Dispatch(K), NEW m \in Reply, Send(m), m.task = 0,
               UNCHANGED <<taskMap, nextTask>>
        PROVE  Order'
    <3>1. \A a \in DOMAIN taskMap' : MaySend(m, a)
      BY <2>1 DEF MaySend, Order, TasksDiffer
    <3>2. Speaks(m, e)
      BY <2>1 DEF Speaks
    <3>3. TasksGoOn
      BY <2>1, SameMapGoesOn
    <3> QED BY <2>1, <3>1, <3>2, <3>3, OrderAfterSend DEF e
  <2>2. ASSUME NEW K, Dispatch(K), NEW k \in ReplyKind, Send(Error(e.addr, k)),
               UNCHANGED <<taskMap, nextTask>>
        PROVE  Order'
    <3>1. Error(e.addr, k) \in Reply
      BY <2>0, <2>2, MakeReplyType DEF Error
    <3>2. Error(e.addr, k).task = 0
      BY DEF Error, MakeReply
    <3> QED BY <2>1, <2>2, <3>1, <3>2
  <2>3. CASE RejectCorrupted
    BY <2>2, <2>3 DEF RejectCorrupted, Answer, ReplyKind, e
  <2>4. CASE RejectUnknown
    BY <2>2, <2>4 DEF RejectUnknown, Answer, ReplyKind, e
  <2>5. CASE RefuseSecondTask
    BY <2>2, <2>5 DEF RefuseSecondTask, Answer, ReplyKind, e
  <2>6. CASE CancelNothing
    BY <2>2, <2>6 DEF CancelNothing, Answer, ReplyKind, e
  <2>7. CASE ReplyFromCache
    <3> DEFINE m == MakeReply(e.addr, "result", e.work, 0, cache[e.work])
    <3>1. /\ Dispatch({"task"}) /\ e.work \in DOMAIN cache /\ Send(m)
          /\ UNCHANGED <<taskMap, nextTask>>
      BY <2>7 DEF ReplyFromCache, Answer, e
    <3>2. e.addr \in Addr /\ e.work \in Work /\ cache[e.work] \in Nat
      BY <2>0, <3>1 DEF TypeOK
    <3>3. m \in Reply
      BY <3>2, MakeReplyType DEF ReplyKind
    <3>4. m.task = 0
      BY DEF MakeReply
    <3> QED BY <2>1, <3>1, <3>3, <3>4
  <2>8. CASE StartTask
    BY <2>8, OrderAfterStart
  <2>9. CASE CancelTask
    BY <2>9, CanceledGoesOn, OrderAfterTake DEF CancelTask, HasTask
  <2>10. CASE OnClientDisconnected
    BY <2>10, SameMapGoesOn, CanceledGoesOn, OrderAfterTake DEF OnClientDisconnected, HasTask
  <2>11. CASE OnProgressRange
    <3> DEFINE m == MakeReply(e.addr, "range", NoWork, e.task, e.val)
    <3>1. Dispatch({"range"}) /\ Send(m) /\ UNCHANGED <<taskMap, nextTask>>
      BY <2>11 DEF OnProgressRange, e
    <3>2. e \in Event /\ e.kind = "range" /\ e.addr \in Addr
      BY <2>0, <3>1
    <3>3. m \in Reply
      BY <3>2, MakeReplyType DEF ReplyKind, Event
    <3>4. Speaks(m, e)
      BY <3>2 DEF Speaks, MakeReply, Final
    <3>5. \A a \in DOMAIN taskMap' : MaySend(m, a)
      BY DEF MaySend, MakeReply, Final
    <3> HIDE DEF m
    <3> QED BY <3>1, <3>3, <3>4, <3>5, SameMapGoesOn, OrderAfterSend DEF e
  <2>12. CASE OnProgressValue
    <3> DEFINE m == MakeReply(e.addr, "progress", NoWork, e.task, e.val)
    <3>1. /\ Dispatch({"progress"}) /\ UNCHANGED <<taskMap, nextTask>>
          /\ outbox' = outbox \/ Send(m)
      BY <2>12 DEF OnProgressValue, e
    <3>2. e \in Event /\ e.kind = "progress" /\ e.addr \in Addr
      BY <2>0, <3>1
    <3>3. m \in Reply
      BY <3>2, MakeReplyType DEF ReplyKind, Event
    <3>4. Speaks(m, e)
      BY <3>2 DEF Speaks, MakeReply, Final
    <3>5. \A a \in DOMAIN taskMap' : MaySend(m, a)
      <4> SUFFICES ASSUME NEW a \in DOMAIN taskMap, e.task = taskMap[a].id
                   PROVE  e.val <= taskMap[a].done
        BY <3>1 DEF MaySend, MakeReply, Final
      <4>1. /\ e.addr \in DOMAIN taskMap /\ taskMap[e.addr].id = e.task
        BY <2>a, <3>1 DEF WatcherKind
      <4>2. a = e.addr
        BY <4>1 DEF Order, TasksDiffer
      <4>3. e = events[1] /\ 1 \in 1..Len(events)
        BY <2>0, <3>1
      <4> QED BY <3>2, <4>2, <4>3 DEF Course, CallOutsAreTrue
    <3> HIDE DEF m
    <3>6. TasksGoOn
      BY <3>1, SameMapGoesOn
    <3>7. CASE outbox' = outbox
      BY <3>1, <3>6, <3>7, OrderAfterTake
    <3>8. CASE Send(m)
      BY <3>1, <3>3, <3>4, <3>5, <3>6, <3>8, OrderAfterSend DEF e
    <3> QED BY <3>1, <3>7, <3>8
  <2>13. CASE OnFinished
    <3> DEFINE t == taskMap[e.addr]
    <3>1. /\ Dispatch({"finished"}) /\ nextTask' = nextTask
          /\ taskMap' = [b \in DOMAIN taskMap \ {e.addr} |-> taskMap[b]]
          /\ \/ Send(MakeReply(e.addr, "canceled", NoWork, t.id, 0))
             \/ Send(MakeReply(e.addr, "result", t.work, t.id, t.done))
      BY <2>13 DEF OnFinished, Answer, e
    <3>2. e \in Event /\ e.kind = "finished" /\ e.addr \in Addr
      BY <2>0, <3>1
    <3>3. e.addr \in DOMAIN taskMap /\ t.id = e.task /\ t \in Task
      BY <2>a, <3>1 DEF WatcherKind
    <3> HIDE DEF t
    <3>4. PICK k \in {"canceled", "result"}, w \in Work \cup {NoWork}, v \in Nat :
              Send(MakeReply(e.addr, k, w, e.task, v))
      BY <3>1, <3>3 DEF Task
    <3> DEFINE m == MakeReply(e.addr, k, w, e.task, v)
    <3>5. m \in Reply
      BY <3>2, MakeReplyType DEF ReplyKind, Event
    <3>6. Speaks(m, e)
      BY <3>2 DEF Speaks, MakeReply, Final
    <3>7. \A a \in DOMAIN taskMap' : MaySend(m, a)
      <4> SUFFICES ASSUME NEW a \in DOMAIN taskMap \ {e.addr}
                   PROVE  e.task # taskMap[a].id
        BY <3>1 DEF MaySend, MakeReply
      <4> QED BY <3>3 DEF Order, TasksDiffer, t
    <3>8. TasksGoOn
      BY <3>1 DEF TasksGoOn, TypeOK, Task
    <3> HIDE DEF m
    <3> QED BY <3>1, <3>4, <3>5, <3>6, <3>7, <3>8, OrderAfterSend DEF e, m
  <2> QED BY <1>8, <2>3, <2>4, <2>5, <2>6, <2>7, <2>8, <2>9, <2>10, <2>11, <2>12, <2>13
          DEF HandleEvent
<1>9. ASSUME NEW a \in Addr, Compute(a)
      PROVE  Order'
  <2> DEFINE t == taskMap[a]
  <2>1. a \in DOMAIN taskMap /\ t \in Task /\ t.future = "running"
    BY <1>9 DEF Compute, CompleteChunk, ReportFinished, Running, HasTask, TypeOK
  \* What is queued and sent of the task so far.
  <2>2. ASSUME NEW i \in 1..Len(events), events[i].task = t.id
        PROVE  /\ events[i].kind \notin Final
               /\ events[i].kind = "progress" => events[i].val <= t.done
    <3>1. t.id # 0
      BY <2>1 DEF Order, TasksDiffer
    <3>2. FromWatcher(events[i])
      BY <2>2, <3>1 DEF Order, TasksDiffer
    <3>3. events[i].addr \in DOMAIN taskMap /\ taskMap[events[i].addr].id = t.id
      BY <2>2, <3>2 DEF CallOuts, CallOutsFindTheirTask, HasTask
    <3>4. events[i].addr = a
      BY <2>1, <3>3 DEF Order, TasksDiffer
    <3>5. events[i].kind # "finished"
      BY <2>1, <3>4 DEF CallOuts, FinishedComesLast
    <3>6. events[i].kind = "progress" => events[i].val <= t.done
      BY <3>4 DEF Course, CallOutsAreTrue
    <3> QED BY <3>2, <3>5, <3>6 DEF FromWatcher, WatcherKind, Final
  <2>3. ASSUME NEW i \in 1..Len(outbox), outbox[i].task = t.id
        PROVE  /\ outbox[i].kind \notin Final
               /\ outbox[i].kind = "progress" => outbox[i].val <= t.done
    BY <2>1, <2>3 DEF Order, SentOfTasks, MaySend
  <2>4. t.id \in Nat /\ t.done \in Nat /\ t.id < nextTask
    BY <2>1 DEF Order, TasksDiffer, Task, TypeOK
  <2>5. (\A i \in 1..Len(events) : events[i].val \in Nat)
        /\ \A i \in 1..Len(outbox) : outbox[i].val \in Nat
    <3>1. /\ \A i \in 1..Len(events) : events[i] \in Event
          /\ \A i \in 1..Len(outbox) : outbox[i] \in Reply
      BY DEF TypeOK
    <3> QED BY <3>1 DEF Event, Reply
  <2>6. CASE CompleteChunk(a)
    <3> DEFINE n == t.done + 1
               x == CallOut("progress", a, t.id, n)
    <3>1. /\ taskMap' = [taskMap EXCEPT ![a].done = n]
          /\ events' = events \/ events' = Append(events, x)
          /\ UNCHANGED <<outbox, nextTask>>
      BY <2>6 DEF CompleteChunk
    <3>2. n \in Nat /\ t.done < n
      BY <2>4
    <3>3. x \in Event /\ x.kind = "progress" /\ x.task = t.id /\ x.val = n
      BY <2>4, <3>2, MakeEvent DEF CallOut, WatcherKind
    <3> HIDE DEF n, x
    <3>4. TasksGoOn
      <4>1. /\ DOMAIN taskMap' = DOMAIN taskMap
            /\ taskMap'[a].id = t.id /\ taskMap'[a].done = n
            /\ \A b \in DOMAIN taskMap \ {a} : taskMap'[b] = taskMap[b]
        BY <2>1, <3>1 DEF Task
      <4>2. \A b \in DOMAIN taskMap : taskMap[b].done \in Nat
        BY DEF TypeOK, Task
      <4> QED BY <2>4, <3>1, <3>2, <4>1, <4>2 DEF TasksGoOn
    <3>5. CASE events' = events
      BY <1>0, <3>1, <3>4, <3>5
    <3>6. CASE events' = Append(events, x)
      <4>1. \A i \in 1..Len(events) : InOrder(events[i], x)
        BY <2>2, <2>4, <2>5, <3>2, <3>3 DEF InOrder
      <4>2. \A i \in 1..Len(outbox) : InOrder(outbox[i], x)
        BY <2>3, <2>4, <2>5, <3>2, <3>3 DEF InOrder
      <4>3. FromWatcher(x) /\ x.task < nextTask
        BY <2>4, <3>3 DEF FromWatcher, WatcherKind
      <4> QED BY <3>1, <3>3, <3>4, <3>6, <4>1, <4>2, <4>3, OrderAfterPost
    <3> QED BY <3>1, <3>5, <3>6
  <2>7. CASE ReportFinished(a)
    <3> DEFINE x == CallOut("finished", a, t.id, 0)
    <3>1. /\ taskMap' = [taskMap EXCEPT ![a].future = "finished"]
          /\ events' = Append(events, x)
          /\ UNCHANGED <<outbox, nextTask>>
      BY <2>7 DEF ReportFinished
    <3>2. x \in Event /\ x.kind = "finished" /\ x.task = t.id
      BY <2>4, MakeEvent DEF CallOut, WatcherKind
    <3> HIDE DEF x
    <3>3. TasksGoOn
      BY <2>1, <3>1 DEF TasksGoOn, TypeOK, Task
    <3>4. \A i \in 1..Len(events) : InOrder(events[i], x)
      BY <2>2, <3>2 DEF InOrder
    <3>5. \A i \in 1..Len(outbox) : InOrder(outbox[i], x)
      BY <2>3, <3>2 DEF InOrder
    <3>6. FromWatcher(x) /\ x.task < nextTask
      BY <2>4, <3>2 DEF FromWatcher, WatcherKind
    <3> QED BY <3>1, <3>2, <3>3, <3>4, <3>5, <3>6, OrderAfterPost
  <2> QED BY <1>9, <2>6, <2>7 DEF Compute
<1> QED BY <1>2, <1>3, <1>4, <1>6, <1>7, <1>8, <1>9 DEF Next, Environment

\* A client sees one task after the other as it runs: its range first, progress
\* that increases, one result or "canceled", and then nothing more of it,
\* although progress comes from the pool threads and a cancel request or the
\* result from elsewhere.
THEOREM RepliesComeInOrder == ServerAssumption => (Spec => []RepliesInOrder)
<1> SUFFICES ASSUME ServerAssumption PROVE Spec => []RepliesInOrder
  OBVIOUS
<1>1. Init => Course /\ Order
  BY DEF Init, Course, TasksAreOnCourse, CallOutsAreTrue, Order, Ordered, TasksDiffer, SentOfTasks
<1>2. TypeOK /\ CallOuts /\ Course /\ Order /\ [Next]_vars => Course' /\ Order'
  BY CourseStep, OrderStep
<1>3. Course /\ Order => RepliesInOrder
  BY DEF Order, Ordered, InOrder, Final, RepliesInOrder, SameTask
<1> QED BY <1>1, <1>2, <1>3, SafeInvariant, PTL DEF Spec
=============================================================================
