------------------------- MODULE ExampleServerProofs -------------------------
(***************************************************************************)
(* Proofs about ExampleServer, for any peers, requests, numbers of chunks  *)
(* and bound on the inputs.                                                *)
(***************************************************************************)
EXTENDS ExampleServer, QueueCounting

-----------------------------------------------------------------------------
(* Type correctness.                                                        *)

LEMMA MakeEvent ==
    ASSUME ServerAssumption, NEW a \in Addr
    PROVE  /\ \A w \in Work : Message("task", a, w) \in Event
           /\ \A k \in (MessageKind \ {"task"}) \cup {"gone"} :
                  Message(k, a, NoWork) \in Event
           /\ \A t, v \in Nat : \A k \in WatcherKind : CallOut(k, a, t, v) \in Event
BY DEF ServerAssumption, Message, CallOut, Event, MessageKind, WatcherKind

LEMMA MakeReplyType ==
    ASSUME NEW a \in Addr, NEW k \in ReplyKind, NEW w \in Work \cup {NoWork},
           NEW t \in Nat, NEW v \in Nat
    PROVE  MakeReply(a, k, w, t, v) \in Reply /\ MakeReply(a, k, w, t, v).to = a
BY DEF MakeReply, Reply

LEMMA AnswerType ==
    ASSUME TypeOK, NEW m \in Reply, Answer(m)
    PROVE  outbox' \in Seq(Reply) /\ owed' \in [Addr -> Int]
<1>1. m.to \in Addr
  BY DEF Reply
<1>2. outbox' = Append(outbox, m)
  BY DEF Answer, Send
<1>3. owed' = [owed EXCEPT ![m.to] = @ - 1]
  BY DEF Answer
<1>4. outbox' \in Seq(Reply)
  BY <1>2, AddLast DEF TypeOK
<1>5. owed' \in [Addr -> Int]
  BY <1>1, <1>3 DEF TypeOK
<1> QED BY <1>4, <1>5

LEMMA DispatchType ==
    ASSUME TypeOK, NEW K, Dispatch(K)
    PROVE  events' \in Seq(Event) /\ Head(events) \in Event /\ Head(events) = events[1]
BY TakeHead DEF TypeOK, Dispatch

LEMMA MarkCanceledType ==
    ASSUME TypeOK, NEW a, HasTask(a), MarkCanceled(a)
    PROVE  /\ DOMAIN taskMap' = DOMAIN taskMap
           /\ \A b \in DOMAIN taskMap : taskMap'[b] \in Task
BY DEF TypeOK, MarkCanceled, HasTask, Task

\* What the net thread posts, whoever counts it (module ClientServer counts the
\* user's clicks in place of inputs).
Posts ==
    /\ inputs' \in Nat
    /\ \E a \in Addr :
          \/ Leave(a)
          \/ \E k \in Kinds : \E w \in IF k = "task" THEN Work ELSE {NoWork} : Arrive(a, k, w)

LEMMA PostsAre ==
    ASSUME TypeOK, \E a \in Addr : Receive(a) \/ Disconnect(a)
    PROVE  Posts
BY DEF TypeOK, Receive, Disconnect, Input, Posts

\* One event more, which is not the watcher's, and the tasks as they were.
LEMMA PostsAppend ==
    ASSUME ServerAssumption, Posts
    PROVE  /\ \E x \in Event : events' = Append(events, x) /\ x.kind # "finished" /\ ~FromWatcher(x)
           /\ UNCHANGED <<taskMap, cache, outbox, nextTask>>
           /\ connected' \subseteq connected
           /\ owed' = owed \/ \E a \in Addr : owed' = [owed EXCEPT ![a] = @ + 1]
<1>1. PICK a \in Addr :
          \/ Leave(a)
          \/ \E k \in Kinds : \E w \in IF k = "task" THEN Work ELSE {NoWork} : Arrive(a, k, w)
  BY DEF Posts
<1>2. CASE Leave(a)
  <2>1. Message("gone", a, NoWork) \in Event
    BY MakeEvent
  <2>2. Message("gone", a, NoWork).kind \notin WatcherKind
    BY DEF WatcherKind, Message
  <2> QED BY <1>2, <2>1, <2>2 DEF Leave, FromWatcher, WatcherKind
<1>3. CASE \E k \in Kinds : \E w \in IF k = "task" THEN Work ELSE {NoWork} : Arrive(a, k, w)
  <2>1. PICK k \in Kinds : \E w \in IF k = "task" THEN Work ELSE {NoWork} : Arrive(a, k, w)
    BY <1>3
  <2>2. PICK w \in IF k = "task" THEN Work ELSE {NoWork} : Arrive(a, k, w)
    BY <2>1
  <2>3. Message(k, a, w) \in Event
    BY MakeEvent DEF ServerAssumption
  <2>4. Message(k, a, w).kind \notin WatcherKind
    BY DEF ServerAssumption, MessageKind, WatcherKind, Message
  <2> QED BY <2>2, <2>3, <2>4 DEF Arrive, FromWatcher, WatcherKind
<1> QED BY <1>1, <1>2, <1>3

LEMMA PostsAreTyped ==
    ASSUME ServerAssumption, TypeOK, Posts
    PROVE  TypeOK'
<1>1. events' \in Seq(Event)
  <2>1. PICK x \in Event : events' = Append(events, x)
    BY PostsAppend
  <2>2. events \in Seq(Event)
    BY DEF TypeOK
  <2> QED BY <2>1, <2>2, AddLast
<1>2. owed' \in [Addr -> Int]
  BY PostsAppend DEF TypeOK
<1>3. /\ UNCHANGED <<taskMap, cache, outbox, nextTask>>
      /\ connected' \subseteq Addr /\ inputs' \in Nat
  BY PostsAppend DEF TypeOK, Posts
<1> QED BY <1>1, <1>2, <1>3 DEF TypeOK

\* OnFinished reads the task of its call-out: types alone are not inductive.
LEMMA TypeStep ==
    ASSUME ServerAssumption, TypeOK, CallOutsFindTheirTask, [Next]_vars
    PROVE  TypeOK'
<1>1. CASE UNCHANGED vars
  BY <1>1 DEF TypeOK, vars
<1>2. ASSUME NEW a \in Addr, Connect(a) \/ Receive(a) \/ Disconnect(a)
      PROVE  TypeOK'
  <2>1. CASE Connect(a)
    BY <2>1 DEF TypeOK, Connect
  <2>2. CASE Receive(a) \/ Disconnect(a)
    BY <2>2, PostsAre, PostsAreTyped
  <2> QED BY <1>2, <2>1, <2>2
<1>3. CASE Deliver
  BY <1>3, TakeHead DEF TypeOK, Deliver
<1>4. CASE HandleEvent
  <2> DEFINE e == Head(events)
  <2>0. events # << >> /\ e \in Event /\ e.addr \in Addr /\ e.work \in Work \cup {NoWork}
        /\ e.task \in Nat /\ e.val \in Nat /\ (e.kind = "task" => e.work \in Work)
    <3>1. events # << >>
      BY <1>4 DEF HandleEvent, RejectCorrupted, RejectUnknown, ReplyFromCache,
         RefuseSecondTask, StartTask, CancelNothing, CancelTask, OnClientDisconnected,
         OnProgressRange, OnProgressValue, OnFinished, Dispatch
    <3>2. events \in Seq(Event)
      BY DEF TypeOK
    <3>3. Head(events) \in Event
      BY <3>1, <3>2, TakeHead
    <3> QED BY <3>1, <3>3 DEF Event
  <2> HIDE DEF e
  <2>1. CASE RejectCorrupted
    <3>1. Answer(Error(e.addr, "CorruptedData"))
      BY <2>1 DEF RejectCorrupted, e
    <3>2. Error(e.addr, "CorruptedData") \in Reply
      BY <2>0, MakeReplyType DEF Error, ReplyKind
    <3> QED BY <2>1, <3>1, <3>2, AnswerType, DispatchType
            DEF TypeOK, RejectCorrupted, envVars
  <2>2. CASE RejectUnknown
    <3>1. Answer(Error(e.addr, "InvalidRequestType"))
      BY <2>2 DEF RejectUnknown, e
    <3>2. Error(e.addr, "InvalidRequestType") \in Reply
      BY <2>0, MakeReplyType DEF Error, ReplyKind
    <3> QED BY <2>2, <3>1, <3>2, AnswerType, DispatchType
            DEF TypeOK, RejectUnknown, envVars
  <2>3. CASE ReplyFromCache
    <3>1. e.work \in DOMAIN cache /\ Answer(MakeReply(e.addr, "result", e.work, 0, cache[e.work]))
      BY <2>3 DEF ReplyFromCache, e
    <3>2. MakeReply(e.addr, "result", e.work, 0, cache[e.work]) \in Reply
      BY <2>0, <3>1, MakeReplyType DEF ReplyKind, TypeOK
    <3> QED BY <2>3, <3>1, <3>2, AnswerType, DispatchType
            DEF TypeOK, ReplyFromCache, envVars
  <2>4. CASE RefuseSecondTask
    <3>1. Answer(Error(e.addr, "AlreadyRunningTask"))
      BY <2>4 DEF RefuseSecondTask, e
    <3>2. Error(e.addr, "AlreadyRunningTask") \in Reply
      BY <2>0, MakeReplyType DEF Error, ReplyKind
    <3> QED BY <2>4, <3>1, <3>2, AnswerType, DispatchType
            DEF TypeOK, RefuseSecondTask, envVars
  <2>5. CASE StartTask
    <3>1. PICK k \in 0..Chunks[e.work] :
            /\ taskMap' = [b \in DOMAIN taskMap \cup {e.addr} |->
                   IF b = e.addr
                   THEN [id |-> nextTask, work |-> e.work, future |-> "running",
                         done |-> k, canceled |-> FALSE]
                   ELSE taskMap[b]]
            /\ events' = Append(Append(Tail(events),
                            CallOut("range", e.addr, nextTask, Chunks[e.work])),
                            CallOut("progress", e.addr, nextTask, k))
      BY <2>5 DEF StartTask, e
    <3>2. e.work \in Work
      BY <2>0, <2>5 DEF StartTask, e
    <3>3. k \in Nat /\ Chunks[e.work] \in Nat /\ nextTask \in Nat
      BY <3>2, ServerAssumption DEF ServerAssumption, TypeOK
    <3>4. events' \in Seq(Event)
      <4>1. Tail(events) \in Seq(Event)
        BY <2>0, TakeHead DEF TypeOK
      <4>2. /\ CallOut("range", e.addr, nextTask, Chunks[e.work]) \in Event
            /\ CallOut("progress", e.addr, nextTask, k) \in Event
        BY <2>0, <3>3, MakeEvent DEF WatcherKind
      <4> QED BY <3>1, <4>1, <4>2, AddLast
    <3>5. DOMAIN taskMap' \subseteq Addr /\ \A b \in DOMAIN taskMap' : taskMap'[b] \in Task
      BY <2>0, <3>1, <3>2, <3>3 DEF TypeOK, Task
    <3>6. nextTask' = nextTask + 1 /\ UNCHANGED <<cache, outbox, owed, connected, inputs>>
      BY <2>5 DEF StartTask, envVars
    <3> QED BY <3>4, <3>5, <3>6 DEF TypeOK
  <2>6. CASE CancelNothing
    <3>1. Answer(Error(e.addr, "canceled"))
      BY <2>6 DEF CancelNothing, e
    <3>2. Error(e.addr, "canceled") \in Reply
      BY <2>0, MakeReplyType DEF Error, ReplyKind
    <3> QED BY <2>6, <3>1, <3>2, AnswerType, DispatchType
            DEF TypeOK, CancelNothing, envVars
  <2>7. CASE CancelTask
    <3>1. HasTask(e.addr) /\ MarkCanceled(e.addr) /\ owed' = [owed EXCEPT ![e.addr] = @ - 1]
      BY <2>7 DEF CancelTask, e
    <3>2. owed' \in [Addr -> Int]
      BY <2>0, <3>1 DEF TypeOK
    <3> QED BY <2>7, <3>1, <3>2, MarkCanceledType, DispatchType
            DEF TypeOK, CancelTask, envVars
  <2>8. CASE OnClientDisconnected
    <3>1. IF HasTask(e.addr) THEN MarkCanceled(e.addr) ELSE UNCHANGED taskMap
      BY <2>8 DEF OnClientDisconnected, e
    <3> QED BY <2>8, <3>1, MarkCanceledType, DispatchType
            DEF TypeOK, OnClientDisconnected, envVars
  <2>9. CASE OnProgressRange
    <3>1. outbox' = Append(outbox, MakeReply(e.addr, "range", NoWork, e.task, e.val))
      BY <2>9 DEF OnProgressRange, Send, e
    <3>2. outbox' \in Seq(Reply)
      BY <2>0, <3>1, MakeReplyType, AddLast DEF TypeOK, ReplyKind
    <3> QED BY <2>9, <3>2, DispatchType DEF TypeOK, OnProgressRange, envVars
  <2>10. CASE OnProgressValue
    <3>1. \/ UNCHANGED outbox
          \/ outbox' = Append(outbox, MakeReply(e.addr, "progress", NoWork, e.task, e.val))
      BY <2>10 DEF OnProgressValue, Send, e
    <3>2. MakeReply(e.addr, "progress", NoWork, e.task, e.val) \in Reply
      BY <2>0, MakeReplyType DEF ReplyKind
    <3>3. outbox \in Seq(Reply)
      BY DEF TypeOK
    <3>4. outbox' \in Seq(Reply)
      BY <3>1, <3>2, <3>3, AddLast
    <3> QED BY <2>10, <3>4, DispatchType DEF TypeOK, OnProgressValue, envVars
  <2>11. CASE OnFinished
    <3> DEFINE t == taskMap[e.addr]
    <3>0. Dispatch({"finished"}) /\ UNCHANGED <<nextTask, envVars>>
      BY <2>11 DEF OnFinished
    <3>1. /\ IF IsCanceled(t)
             THEN /\ Answer(MakeReply(e.addr, "canceled", NoWork, t.id, 0))
                  /\ UNCHANGED cache
             ELSE /\ Answer(MakeReply(e.addr, "result", t.work, t.id, t.done))
                  /\ CacheInsert(t.work, t.done)
          /\ taskMap' = [b \in DOMAIN taskMap \ {e.addr} |-> taskMap[b]]
      BY <2>11 DEF OnFinished, e
    <3>2. t \in Task
      <4>1. e = events[1] /\ e.kind = "finished" /\ 1 \in 1..Len(events)
        BY <3>0, TakeHead DEF Dispatch, TypeOK, e
      <4>2. HasTask(e.addr)
        BY <4>1 DEF CallOutsFindTheirTask, FromWatcher, WatcherKind
      <4> QED BY <4>2 DEF HasTask, TypeOK
    <3> HIDE DEF t
    <3>3. outbox' \in Seq(Reply) /\ owed' \in [Addr -> Int]
      <4>1. /\ MakeReply(e.addr, "canceled", NoWork, t.id, 0) \in Reply
            /\ MakeReply(e.addr, "result", t.work, t.id, t.done) \in Reply
        BY <2>0, <3>2, MakeReplyType DEF Task, ReplyKind
      <4> QED BY <3>1, <4>1, AnswerType
    <3>4. DOMAIN cache' \subseteq Work /\ \A w \in DOMAIN cache' : cache'[w] \in Nat
      BY <3>1, <3>2 DEF TypeOK, CacheInsert, Task
    <3>5. DOMAIN taskMap' \subseteq Addr /\ \A b \in DOMAIN taskMap' : taskMap'[b] \in Task
      BY <3>1 DEF TypeOK
    <3> QED BY <3>0, <3>3, <3>4, <3>5, DispatchType DEF TypeOK, envVars
  <2> QED BY <1>4, <2>1, <2>2, <2>3, <2>4, <2>5, <2>6, <2>7, <2>8, <2>9, <2>10, <2>11
          DEF HandleEvent
<1>5. ASSUME NEW a \in Addr, Compute(a)
      PROVE  TypeOK'
  <2>1. HasTask(a) /\ taskMap[a] \in Task
    BY <1>5 DEF Compute, CompleteChunk, ReportFinished, Running, HasTask, TypeOK
  <2>2. CASE CompleteChunk(a)
    <3> DEFINE n == taskMap[a].done + 1
    <3>1. n \in Nat /\ taskMap[a].id \in Nat
      BY <2>1 DEF Task
    <3>2. CallOut("progress", a, taskMap[a].id, n) \in Event
      BY <3>1, MakeEvent DEF WatcherKind
    <3>3. events' \in Seq(Event)
      <4>1. \/ events' = events
            \/ events' = Append(events, CallOut("progress", a, taskMap[a].id, n))
        BY <2>2 DEF CompleteChunk
      <4>2. events \in Seq(Event)
        BY DEF TypeOK
      <4> QED BY <3>2, <4>1, <4>2, AddLast
    <3>4. DOMAIN taskMap' \subseteq Addr /\ \A b \in DOMAIN taskMap' : taskMap'[b] \in Task
      <4>1. taskMap' = [taskMap EXCEPT ![a].done = n]
        BY <2>2 DEF CompleteChunk
      <4> HIDE DEF n
      <4> QED BY <2>1, <3>1, <4>1 DEF TypeOK, Task, HasTask
    <3> QED BY <2>2, <3>3, <3>4 DEF TypeOK, CompleteChunk, envVars
  <2>3. CASE ReportFinished(a)
    <3>1. CallOut("finished", a, taskMap[a].id, 0) \in Event
      BY <2>1, MakeEvent DEF WatcherKind, Task
    <3>2. events' \in Seq(Event)
      BY <2>3, <3>1, AddLast DEF ReportFinished, TypeOK
    <3>3. DOMAIN taskMap' \subseteq Addr /\ \A b \in DOMAIN taskMap' : taskMap'[b] \in Task
      BY <2>1, <2>3 DEF ReportFinished, TypeOK, Task, HasTask
    <3> QED BY <2>3, <3>2, <3>3 DEF TypeOK, ReportFinished, envVars
  <2> QED BY <1>5, <2>2, <2>3 DEF Compute
<1> QED BY <1>1, <1>2, <1>3, <1>4, <1>5 DEF Next, Environment

-----------------------------------------------------------------------------
(* The call-outs of the watchers.                                           *)

CallOuts == CallOutsFindTheirTask /\ FinishedComesLast

\* A map that has the same tasks, as far as call-outs are concerned.
SameTasks ==
    /\ DOMAIN taskMap' = DOMAIN taskMap
    /\ \A a \in DOMAIN taskMap : /\ taskMap'[a].id = taskMap[a].id
                                 /\ taskMap'[a].future = taskMap[a].future

LEMMA CallOutsAfterHead ==
    ASSUME TypeOK, CallOuts, NEW K, Dispatch(K), "finished" \notin K, SameTasks
    PROVE  CallOuts'
<1>1. /\ Len(events) \in Nat \ {0}
      /\ Len(events') = Len(events) - 1
      /\ \A i \in 1..Len(events') : i + 1 \in 1..Len(events) /\ events'[i] = events[i + 1]
      /\ events[1].kind # "finished"
  BY TakeHead DEF TypeOK, Dispatch
<1>2. CallOutsFindTheirTask'
  BY <1>1 DEF CallOuts, CallOutsFindTheirTask, FromWatcher, HasTask, SameTasks
<1>3. \A i, j \in 1..Len(events') :
          (events'[i].kind = "finished" /\ FromWatcher(events'[j]) /\ i < j)
              => events'[j].addr # events'[i].addr
  BY <1>1 DEF CallOuts, FinishedComesLast
<1>4. ASSUME NEW a \in DOMAIN taskMap
      PROVE  taskMap'[a].future = "finished" <=>
                 \E i \in 1..Len(events') :
                     events'[i].kind = "finished" /\ events'[i].addr = a
  <2>1. taskMap[a].future = "finished" <=>
            \E i \in 1..Len(events) : events[i].kind = "finished" /\ events[i].addr = a
    BY DEF CallOuts, FinishedComesLast
  <2>2. \A i \in 2..Len(events) : i - 1 \in 1..Len(events') /\ events[i] = events'[i - 1]
    BY <1>1
  <2>3. (\E i \in 1..Len(events) : events[i].kind = "finished" /\ events[i].addr = a)
           => \E i \in 1..Len(events') : events'[i].kind = "finished" /\ events'[i].addr = a
    <3>1. ASSUME NEW i \in 1..Len(events), events[i].kind = "finished", events[i].addr = a
          PROVE  \E j \in 1..Len(events') : events'[j].kind = "finished" /\ events'[j].addr = a
      <4>1. i \in 2..Len(events)
        BY <1>1, <3>1
      <4> QED BY <2>2, <3>1, <4>1
    <3> QED BY <3>1
  <2>4. (\E i \in 1..Len(events') : events'[i].kind = "finished" /\ events'[i].addr = a)
           => \E i \in 1..Len(events) : events[i].kind = "finished" /\ events[i].addr = a
    BY <1>1
  <2>5. taskMap'[a].future = taskMap[a].future
    BY DEF SameTasks
  <2> QED BY <2>1, <2>3, <2>4, <2>5
<1> QED BY <1>2, <1>3, <1>4 DEF CallOuts, FinishedComesLast, FromWatcher, SameTasks

\* An event is queued that is not a finished(); a call-out among those is one of
\* a task that runs.
LEMMA CallOutsAfterPost ==
    ASSUME TypeOK, CallOuts, SameTasks, NEW x \in Event, events' = Append(events, x),
           x.kind # "finished",
           FromWatcher(x) => /\ HasTask(x.addr)
                             /\ taskMap[x.addr].id = x.task
                             /\ taskMap[x.addr].future = "running"
    PROVE  CallOuts'
<1>1. /\ Len(events) \in Nat
      /\ Len(events') = Len(events) + 1
      /\ \A i \in 1..Len(events) : events'[i] = events[i]
      /\ events'[Len(events) + 1] = x
  BY AddLast DEF TypeOK
<1>2. CallOutsFindTheirTask'
  BY <1>1 DEF CallOuts, CallOutsFindTheirTask, FromWatcher, HasTask, SameTasks
<1>3. ASSUME NEW i \in 1..Len(events'), NEW j \in 1..Len(events'),
             events'[i].kind = "finished", FromWatcher(events'[j]), i < j
      PROVE  events'[j].addr # events'[i].addr
  <2>1. i \in 1..Len(events) /\ events'[i] = events[i]
    BY <1>1, <1>3
  <2>2. CASE j \in 1..Len(events)
    BY <1>1, <1>3, <2>1, <2>2 DEF CallOuts, FinishedComesLast
  <2>3. CASE j = Len(events) + 1
    BY <1>1, <1>3, <2>1, <2>3 DEF CallOuts, FinishedComesLast, HasTask
  <2> QED BY <1>1, <2>2, <2>3
<1>4. ASSUME NEW a \in DOMAIN taskMap
      PROVE  taskMap'[a].future = "finished" <=>
                 \E i \in 1..Len(events') :
                     events'[i].kind = "finished" /\ events'[i].addr = a
  <2>1. taskMap[a].future = "finished" <=>
            \E i \in 1..Len(events) : events[i].kind = "finished" /\ events[i].addr = a
    BY DEF CallOuts, FinishedComesLast
  <2> QED BY <1>1, <2>1 DEF SameTasks
<1> QED BY <1>2, <1>3, <1>4 DEF CallOuts, FinishedComesLast, FromWatcher, SameTasks

\* The step of StartTask, with the head of the queue named.
StartFor(a, w, k) ==
    /\ events # << >> /\ Head(events).kind = "task"
    /\ a \in Addr \ DOMAIN taskMap /\ w \in Work \ DOMAIN cache
    /\ k \in 0..Chunks[w]
    /\ taskMap' = [b \in DOMAIN taskMap \cup {a} |->
           IF b = a
           THEN [id |-> nextTask, work |-> w, future |-> "running",
                 done |-> k, canceled |-> FALSE]
           ELSE taskMap[b]]
    /\ events' = Append(Append(Tail(events),
                    CallOut("range", a, nextTask, Chunks[w])),
                    CallOut("progress", a, nextTask, k))
    /\ nextTask' = nextTask + 1
    /\ UNCHANGED <<cache, outbox, owed, connected, inputs>>

LEMMA StartTaskIs ==
    ASSUME TypeOK, StartTask
    PROVE  \E a \in Addr, w \in Work : \E k \in 0..Chunks[w] : StartFor(a, w, k)
<1> DEFINE a == Head(events).addr
           w == Head(events).work
<1>1. events # << >> /\ events \in Seq(Event)
  BY DEF TypeOK, StartTask
<1>2. Head(events) \in Event
  BY <1>1, TakeHead
<1>3. a \in Addr /\ w \in Work /\ a \notin DOMAIN taskMap /\ w \notin DOMAIN cache
  BY <1>2 DEF StartTask, Busy, HasTask, Event
<1>4. PICK k \in 0..Chunks[w] :
        /\ taskMap' = [b \in DOMAIN taskMap \cup {a} |->
              IF b = a
              THEN [id |-> nextTask, work |-> w, future |-> "running",
                    done |-> k, canceled |-> FALSE]
              ELSE taskMap[b]]
        /\ events' = Append(Append(Tail(events),
                        CallOut("range", a, nextTask, Chunks[w])),
                        CallOut("progress", a, nextTask, k))
  BY DEF StartTask
<1>5. Head(events).kind = "task" /\ nextTask' = nextTask + 1
      /\ UNCHANGED <<cache, outbox, owed, connected, inputs>>
  BY DEF StartTask, envVars
<1> HIDE DEF a, w
<1>6. StartFor(a, w, k)
  BY <1>1, <1>3, <1>4, <1>5 DEF StartFor
<1> QED BY <1>3, <1>6

\* What the two Appends of StartTask make of the queue.
LEMMA StartTaskEvents ==
    ASSUME ServerAssumption, TypeOK, NEW a \in Addr, NEW w \in Work, NEW k \in 0..Chunks[w],
           StartFor(a, w, k)
    PROVE  /\ Len(events) \in Nat \ {0}
           /\ Len(events') = Len(events) + 1
           /\ \A i \in 1..(Len(events) - 1) : i + 1 \in 1..Len(events) /\ events'[i] = events[i + 1]
           /\ events'[Len(events)] = CallOut("range", a, nextTask, Chunks[w])
           /\ events'[Len(events) + 1] = CallOut("progress", a, nextTask, k)
<1> DEFINE r == CallOut("range", a, nextTask, Chunks[w])
           p == CallOut("progress", a, nextTask, k)
           s == Tail(events)
<1>1. r \in Event /\ p \in Event
  BY MakeEvent DEF TypeOK, ServerAssumption, WatcherKind
<1>2. /\ s \in Seq(Event)
      /\ Len(events) \in Nat \ {0}
      /\ Len(s) = Len(events) - 1
      /\ \A i \in 1..Len(s) : i + 1 \in 1..Len(events) /\ s[i] = events[i + 1]
  BY TakeHead DEF TypeOK, StartFor
<1>3. events' = Append(Append(s, r), p)
  BY DEF StartFor
<1> HIDE DEF r, p, s
<1>4. /\ Append(s, r) \in Seq(Event)
      /\ Len(Append(s, r)) = Len(events)
      /\ \A i \in 1..Len(s) : Append(s, r)[i] = s[i]
      /\ Append(s, r)[Len(events)] = r
  BY <1>1, <1>2, AddLast
<1>5. /\ Len(events') = Len(events) + 1
      /\ \A i \in 1..Len(events) : events'[i] = Append(s, r)[i]
      /\ events'[Len(events) + 1] = p
  BY <1>1, <1>3, <1>4, AddLast
<1>6. events'[Len(events)] = r
  BY <1>2, <1>4, <1>5
<1>7. \A i \in 1..(Len(events) - 1) : events'[i] = s[i]
  BY <1>2, <1>4, <1>5
<1> QED BY <1>2, <1>5, <1>6, <1>7 DEF r, p

LEMMA CallOutsAfterStart ==
    ASSUME ServerAssumption, TypeOK, CallOuts, NEW a \in Addr, NEW w \in Work,
           NEW k \in 0..Chunks[w], StartFor(a, w, k)
    PROVE  CallOuts'
<1> DEFINE n == Len(events)
<1>1. /\ n \in Nat \ {0}
      /\ Len(events') = n + 1
      /\ \A i \in 1..(n - 1) : i + 1 \in 1..n /\ events'[i] = events[i + 1]
      /\ \A i \in n..(n + 1) : /\ events'[i].kind \in {"range", "progress"}
                               /\ events'[i].addr = a
                               /\ events'[i].task = nextTask
  <2>1. /\ n \in Nat \ {0}
        /\ Len(events') = n + 1
        /\ \A i \in 1..(n - 1) : i + 1 \in 1..n /\ events'[i] = events[i + 1]
        /\ events'[n] = CallOut("range", a, nextTask, Chunks[w])
        /\ events'[n + 1] = CallOut("progress", a, nextTask, k)
    BY StartTaskEvents
  <2> HIDE DEF n
  <2>2. /\ events'[n].kind = "range" /\ events'[n + 1].kind = "progress"
        /\ events'[n].addr = a /\ events'[n + 1].addr = a
        /\ events'[n].task = nextTask /\ events'[n + 1].task = nextTask
    BY <2>1 DEF CallOut
  <2>3. \A i \in n..(n + 1) : i = n \/ i = n + 1
    BY <2>1
  <2> QED BY <2>1, <2>2, <2>3
<1>2. /\ a \notin DOMAIN taskMap
      /\ DOMAIN taskMap' = DOMAIN taskMap \cup {a}
      /\ taskMap'[a].id = nextTask /\ taskMap'[a].future = "running"
      /\ \A b \in DOMAIN taskMap : taskMap'[b] = taskMap[b]
  BY DEF StartFor
<1>3. events[1].kind = "task"
  BY TakeHead DEF StartFor, TypeOK
<1> HIDE DEF n
<1>4. \A i \in 1..(n + 1) : i \in 1..(n - 1) \/ i \in n..(n + 1)
  BY <1>1
<1>5. \A i \in 1..n : FromWatcher(events[i]) => HasTask(events[i].addr)
  BY DEF n, CallOuts, CallOutsFindTheirTask
<1>6. ASSUME NEW i \in 1..(n + 1), FromWatcher(events'[i])
      PROVE  /\ events'[i].addr \in DOMAIN taskMap'
             /\ taskMap'[events'[i].addr].id = events'[i].task
  <2>1. CASE i \in 1..(n - 1)
    BY <1>1, <1>2, <1>6, <2>1 DEF n, CallOuts, CallOutsFindTheirTask, HasTask, FromWatcher
  <2>2. CASE i \in n..(n + 1)
    BY <1>1, <1>2, <2>2
  <2> QED BY <1>4, <2>1, <2>2
<1>7. ASSUME NEW i \in 1..(n + 1), NEW j \in 1..(n + 1),
             events'[i].kind = "finished", FromWatcher(events'[j]), i < j
      PROVE  events'[j].addr # events'[i].addr
  <2>1. i \in 1..(n - 1) /\ events'[i] = events[i + 1] /\ i + 1 \in 1..n
    BY <1>1, <1>4, <1>7
  <2>2. events'[i].addr \in DOMAIN taskMap
    BY <1>5, <1>7, <2>1 DEF FromWatcher, WatcherKind, HasTask
  <2>3. CASE j \in 1..(n - 1)
    BY <1>1, <1>7, <2>1, <2>3 DEF n, CallOuts, FinishedComesLast, FromWatcher
  <2>4. CASE j \in n..(n + 1)
    BY <1>1, <1>2, <2>2, <2>4
  <2> QED BY <1>4, <2>3, <2>4
<1>8. ASSUME NEW b \in DOMAIN taskMap'
      PROVE  taskMap'[b].future = "finished" <=>
                 \E i \in 1..(n + 1) : events'[i].kind = "finished" /\ events'[i].addr = b
  <2>1. \A i \in 2..n : i - 1 \in 1..(n - 1) /\ i - 1 \in 1..(n + 1) /\ events'[i - 1] = events[i]
    BY <1>1
  <2>2. CASE b = a
    <3>1. ~ \E i \in 1..n : events[i].kind = "finished" /\ events[i].addr = a
      BY <1>2, <1>5 DEF FromWatcher, WatcherKind, HasTask
    <3> QED BY <1>1, <1>2, <1>4, <2>2, <3>1, SMTT(30)
  <2>3. CASE b \in DOMAIN taskMap
    <3>1. taskMap[b].future = "finished" <=>
              \E i \in 1..n : events[i].kind = "finished" /\ events[i].addr = b
      BY <2>3 DEF n, CallOuts, FinishedComesLast
    <3>2. (\E i \in 1..n : events[i].kind = "finished" /\ events[i].addr = b)
             <=> \E i \in 2..n : events[i].kind = "finished" /\ events[i].addr = b
      BY <1>1, <1>3
    <3>3. (\E i \in 2..n : events[i].kind = "finished" /\ events[i].addr = b)
             <=> \E i \in 1..(n + 1) : events'[i].kind = "finished" /\ events'[i].addr = b
      BY <1>1, <1>4, <2>1
    <3> QED BY <1>2, <2>3, <3>1, <3>2, <3>3
  <2> QED BY <1>2, <2>2, <2>3
<1> QED BY <1>1, <1>6, <1>7, <1>8
        DEF CallOuts, CallOutsFindTheirTask, FinishedComesLast, FromWatcher, HasTask

LEMMA CallOutsAfterReport ==
    ASSUME ServerAssumption, TypeOK, CallOuts, NEW a \in Addr, ReportFinished(a)
    PROVE  CallOuts'
<1> DEFINE n == Len(events)
<1>1. /\ a \in DOMAIN taskMap /\ taskMap[a].future = "running"
      /\ events' = Append(events, CallOut("finished", a, taskMap[a].id, 0))
      /\ taskMap' = [taskMap EXCEPT ![a].future = "finished"]
  BY DEF ReportFinished, Running, HasTask
<1>2. taskMap[a] \in Task
  BY <1>1 DEF TypeOK
<1>3. /\ DOMAIN taskMap' = DOMAIN taskMap
      /\ taskMap'[a].future = "finished"
      /\ \A b \in DOMAIN taskMap : taskMap'[b].id = taskMap[b].id
      /\ \A b \in DOMAIN taskMap \ {a} : taskMap'[b].future = taskMap[b].future
  BY <1>1, <1>2 DEF Task
<1>4. /\ n \in Nat
      /\ Len(events') = n + 1
      /\ \A i \in 1..n : events'[i] = events[i]
      /\ events'[n + 1] = CallOut("finished", a, taskMap[a].id, 0)
  <2>1. CallOut("finished", a, taskMap[a].id, 0) \in Event
    BY <1>2, ServerAssumption, MakeEvent DEF Task, WatcherKind
  <2> QED BY <1>1, <2>1, AddLast DEF TypeOK
<1> HIDE DEF n
<1>5. /\ events'[n + 1].kind = "finished" /\ events'[n + 1].addr = a
      /\ events'[n + 1].task = taskMap[a].id
  BY <1>4 DEF CallOut
<1>6. CallOutsFindTheirTask'
  BY <1>1, <1>3, <1>4, <1>5 DEF n, CallOuts, CallOutsFindTheirTask, FromWatcher, HasTask
<1>7. ~ \E i \in 1..n : events[i].kind = "finished" /\ events[i].addr = a
  BY <1>1 DEF n, CallOuts, FinishedComesLast
<1>8. ASSUME NEW i \in 1..(n + 1), NEW j \in 1..(n + 1),
             events'[i].kind = "finished", FromWatcher(events'[j]), i < j
      PROVE  events'[j].addr # events'[i].addr
  <2>1. i \in 1..n /\ events'[i] = events[i]
    BY <1>4, <1>8
  <2>2. CASE j \in 1..n
    BY <1>4, <1>8, <2>1, <2>2 DEF n, CallOuts, FinishedComesLast
  <2>3. CASE j = n + 1
    BY <1>5, <1>7, <1>8, <2>1, <2>3
  <2> QED BY <1>4, <2>2, <2>3
<1>9. ASSUME NEW b \in DOMAIN taskMap
      PROVE  taskMap'[b].future = "finished" <=>
                 \E i \in 1..(n + 1) : events'[i].kind = "finished" /\ events'[i].addr = b
  <2>1. CASE b = a
    BY <1>3, <1>4, <1>5, <2>1
  <2>2. CASE b # a
    BY <1>3, <1>4, <1>5, <2>2 DEF n, CallOuts, FinishedComesLast
  <2> QED BY <2>1, <2>2
<1> QED BY <1>3, <1>4, <1>6, <1>8, <1>9
        DEF CallOuts, FinishedComesLast, FromWatcher

\* finished() was the last call-out of its task: with the task gone from the map,
\* none of the queued ones is left without its own.
LEMMA CallOutsAfterFinished ==
    ASSUME TypeOK, CallOuts, OnFinished
    PROVE  CallOuts'
<1> DEFINE a == events[1].addr
           n == Len(events)
<1>1. /\ n \in Nat \ {0}
      /\ Len(events') = n - 1
      /\ \A i \in 1..(n - 1) : i + 1 \in 1..n /\ events'[i] = events[i + 1]
      /\ events[1].kind = "finished"
      /\ Head(events) = events[1]
  BY TakeHead DEF TypeOK, OnFinished, Dispatch
<1>2. taskMap' = [b \in DOMAIN taskMap \ {a} |-> taskMap[b]]
  BY <1>1 DEF OnFinished
<1> HIDE DEF n, a
<1>3. \A i \in 2..n : FromWatcher(events[i]) => events[i].addr # a
  BY <1>1 DEF a, n, CallOuts, FinishedComesLast
<1>4. \A i \in 1..(n - 1) : i + 1 \in 2..n
  BY <1>1
<1>5. CallOutsFindTheirTask'
  <2>1. ASSUME NEW i \in 1..(n - 1), FromWatcher(events'[i])
        PROVE  /\ events'[i].addr \in DOMAIN taskMap \ {a}
               /\ taskMap'[events'[i].addr].id = events'[i].task
    <3>1. FromWatcher(events[i + 1]) /\ i + 1 \in 1..n /\ events'[i] = events[i + 1]
      BY <1>1, <2>1 DEF FromWatcher
    <3>2. /\ events[i + 1].addr \in DOMAIN taskMap
          /\ taskMap[events[i + 1].addr].id = events[i + 1].task
      BY <3>1 DEF n, CallOuts, CallOutsFindTheirTask, HasTask
    <3> QED BY <1>2, <1>3, <1>4, <3>1, <3>2
  <2> QED BY <1>1, <1>2, <2>1 DEF CallOutsFindTheirTask, FromWatcher, HasTask
<1>6. ASSUME NEW i \in 1..(n - 1), NEW j \in 1..(n - 1),
             events'[i].kind = "finished", FromWatcher(events'[j]), i < j
      PROVE  events'[j].addr # events'[i].addr
  <2>1. /\ i + 1 \in 1..n /\ events'[i] = events[i + 1]
        /\ j + 1 \in 1..n /\ events'[j] = events[j + 1]
    BY <1>1
  <2>2. i + 1 < j + 1
    BY <1>6
  <2> QED BY <1>6, <2>1, <2>2 DEF n, CallOuts, FinishedComesLast, FromWatcher
<1>7. ASSUME NEW b \in DOMAIN taskMap \ {a}
      PROVE  taskMap'[b].future = "finished" <=>
                 \E i \in 1..(n - 1) : events'[i].kind = "finished" /\ events'[i].addr = b
  <2>1. taskMap[b].future = "finished" <=>
            \E i \in 1..n : events[i].kind = "finished" /\ events[i].addr = b
    BY DEF n, CallOuts, FinishedComesLast
  <2>2. \A i \in 2..n : i - 1 \in 1..(n - 1) /\ events[i] = events'[i - 1]
    BY <1>1
  <2>3. (\E i \in 1..n : events[i].kind = "finished" /\ events[i].addr = b)
           <=> \E i \in 2..n : events[i].kind = "finished" /\ events[i].addr = b
    BY <1>1 DEF a
  <2>4. (\E i \in 2..n : events[i].kind = "finished" /\ events[i].addr = b)
           <=> \E i \in 1..(n - 1) : events'[i].kind = "finished" /\ events'[i].addr = b
    BY <1>1, <1>4, <2>2
  <2>5. taskMap'[b] = taskMap[b]
    BY <1>2
  <2> QED BY <2>1, <2>3, <2>4, <2>5
<1>8. DOMAIN taskMap' = DOMAIN taskMap \ {a}
  BY <1>2
<1> QED BY <1>1, <1>5, <1>6, <1>7, <1>8 DEF CallOuts, FinishedComesLast

LEMMA SameMapSameTasks ==
    ASSUME UNCHANGED taskMap
    PROVE  SameTasks
BY DEF SameTasks

LEMMA CanceledSameTasks ==
    ASSUME TypeOK, NEW a, HasTask(a), MarkCanceled(a)
    PROVE  SameTasks
BY DEF TypeOK, HasTask, MarkCanceled, SameTasks, Task

LEMMA PostsKeepCallOuts ==
    ASSUME ServerAssumption, TypeOK, CallOuts, Posts
    PROVE  CallOuts'
<1>1. PICK x \in Event : events' = Append(events, x) /\ x.kind # "finished" /\ ~FromWatcher(x)
  BY PostsAppend
<1>2. SameTasks
  BY PostsAppend, SameMapSameTasks
<1> QED BY <1>1, <1>2, CallOutsAfterPost

LEMMA CallOutsStep ==
    ASSUME ServerAssumption, TypeOK, CallOuts, [Next]_vars
    PROVE  CallOuts'
<1>1. CASE UNCHANGED vars
  BY <1>1 DEF CallOuts, CallOutsFindTheirTask, FinishedComesLast, FromWatcher, HasTask, vars
<1>2. ASSUME NEW a \in Addr, Connect(a) \/ Receive(a) \/ Disconnect(a)
      PROVE  CallOuts'
  <2>1. CASE Connect(a)
    BY <2>1 DEF Connect, CallOuts, CallOutsFindTheirTask, FinishedComesLast,
                FromWatcher, HasTask
  <2>2. CASE Receive(a) \/ Disconnect(a)
    BY <2>2, PostsAre, PostsKeepCallOuts
  <2> QED BY <1>2, <2>1, <2>2
<1>3. CASE Deliver
  BY <1>3 DEF Deliver, CallOuts, CallOutsFindTheirTask, FinishedComesLast, FromWatcher, HasTask
<1>4. CASE HandleEvent
  <2>1. ASSUME NEW K, Dispatch(K), "finished" \notin K, UNCHANGED taskMap
        PROVE  CallOuts'
    BY <2>1, SameMapSameTasks, CallOutsAfterHead
  <2>2. CASE RejectCorrupted
    BY <2>2, <2>1 DEF RejectCorrupted
  <2>3. CASE RejectUnknown
    BY <2>3, <2>1 DEF RejectUnknown
  <2>4. CASE ReplyFromCache
    BY <2>4, <2>1 DEF ReplyFromCache
  <2>5. CASE RefuseSecondTask
    BY <2>5, <2>1 DEF RefuseSecondTask
  <2>6. CASE StartTask
    BY <2>6, StartTaskIs, CallOutsAfterStart
  <2>7. CASE CancelNothing
    BY <2>7, <2>1 DEF CancelNothing
  <2>8. CASE CancelTask
    BY <2>8, CanceledSameTasks, CallOutsAfterHead DEF CancelTask
  <2>9. CASE OnClientDisconnected
    BY <2>9, CanceledSameTasks, SameMapSameTasks, CallOutsAfterHead DEF OnClientDisconnected
  <2>10. CASE OnProgressRange
    BY <2>10, <2>1 DEF OnProgressRange
  <2>11. CASE OnProgressValue
    BY <2>11, <2>1 DEF OnProgressValue
  <2>12. CASE OnFinished
    BY <2>12, CallOutsAfterFinished
  <2> QED BY <1>4, <2>2, <2>3, <2>4, <2>5, <2>6, <2>7, <2>8, <2>9, <2>10, <2>11, <2>12
          DEF HandleEvent
<1>5. ASSUME NEW a \in Addr, Compute(a)
      PROVE  CallOuts'
  <2>1. HasTask(a) /\ taskMap[a] \in Task /\ taskMap[a].future = "running"
    BY <1>5 DEF Compute, CompleteChunk, ReportFinished, Running, HasTask, TypeOK
  <2>2. CASE CompleteChunk(a)
    <3> DEFINE n == taskMap[a].done + 1
               x == CallOut("progress", a, taskMap[a].id, n)
    <3>1. x \in Event
      BY <2>1, MakeEvent DEF WatcherKind, Task
    <3>2. x.kind # "finished" /\ x.addr = a /\ x.task = taskMap[a].id
      BY DEF CallOut
    <3>3. \/ events' = events
          \/ events' = Append(events, x)
      BY <2>2 DEF CompleteChunk
    <3>4. SameTasks
      <4>1. taskMap' = [taskMap EXCEPT ![a].done = n]
        BY <2>2 DEF CompleteChunk
      <4> HIDE DEF n
      <4> QED BY <2>1, <4>1 DEF SameTasks, Task, HasTask, TypeOK
    <3> HIDE DEF n, x
    <3>5. CASE events' = events
      BY <3>4, <3>5 DEF SameTasks, CallOuts, CallOutsFindTheirTask, FinishedComesLast,
                        FromWatcher, HasTask
    <3>6. CASE events' = Append(events, x)
      BY <2>1, <3>1, <3>2, <3>4, <3>6, CallOutsAfterPost
    <3> QED BY <3>3, <3>5, <3>6
  <2>3. CASE ReportFinished(a)
    BY <2>3, CallOutsAfterReport
  <2> QED BY <1>5, <2>2, <2>3 DEF Compute
<1> QED BY <1>1, <1>2, <1>3, <1>4, <1>5 DEF Next, Environment

\* The invariant that is inductive: types and call-outs, neither without the other.
LEMMA SafeInvariant == ServerAssumption => (Spec => [](TypeOK /\ CallOuts))
<1> SUFFICES ASSUME ServerAssumption PROVE Spec => [](TypeOK /\ CallOuts)
  OBVIOUS
<1>1. Init => TypeOK
  BY ServerAssumption DEF Init, TypeOK, ServerAssumption
<1>2. Init => CallOuts
  BY DEF Init, CallOuts, CallOutsFindTheirTask, FinishedComesLast
<1>3. TypeOK /\ CallOuts /\ [Next]_vars => TypeOK'
  BY TypeStep DEF CallOuts
<1>4. TypeOK /\ CallOuts /\ [Next]_vars => CallOuts'
  BY CallOutsStep
<1> QED BY <1>1, <1>2, <1>3, <1>4, PTL DEF Spec

\* Every variable of the server keeps its type: what is posted, what the map and
\* the cache hold, what is sent.
THEOREM TypeCorrect == ServerAssumption => (Spec => []TypeOK)
<1> SUFFICES ASSUME ServerAssumption PROVE Spec => []TypeOK
  OBVIOUS
<1>1. Spec => [](TypeOK /\ CallOuts)
  BY SafeInvariant
<1> QED BY <1>1, PTL

\* Every queued call-out finds its Task alive: no callback of parseRequest runs
\* with a pointer to a Task that was destroyed.
THEOREM CallOutsAreSafe == ServerAssumption => (Spec => []CallOutsFindTheirTask)
<1> SUFFICES ASSUME ServerAssumption PROVE Spec => []CallOutsFindTheirTask
  OBVIOUS
<1>1. CallOuts => CallOutsFindTheirTask
  BY DEF CallOuts
<1> QED BY <1>1, SafeInvariant, PTL

\* finished() is the last call-out of its task, and queued exactly when the
\* future has finished: no Task is destroyed twice, or with a call-out to come,
\* and none that has finished stays in the map unnoticed.
THEOREM FinishedIsLast == ServerAssumption => (Spec => []FinishedComesLast)
<1> SUFFICES ASSUME ServerAssumption PROVE Spec => []FinishedComesLast
  OBVIOUS
<1>1. CallOuts => FinishedComesLast
  BY DEF CallOuts
<1> QED BY <1>1, SafeInvariant, PTL

-----------------------------------------------------------------------------
(* What the tasks have computed, and what is said of it.                    *)

\* A task never counts more chunks than its request has; a future that finished
\* without being canceled has them all.
TasksAreOnCourse ==
    \A a \in DOMAIN taskMap : LET t == taskMap[a] IN
        /\ t.done <= Chunks[t.work]
        /\ (t.future = "finished" /\ ~t.canceled) => t.done = Chunks[t.work]

\* What a queued call-out reports is true of its task.
CallOutsAreTrue ==
    \A i \in 1..Len(events) : LET t == taskMap[events[i].addr] IN
        /\ events[i].kind = "range" => events[i].val = Chunks[t.work]
        /\ events[i].kind = "progress" => events[i].val <= t.done

Course == TasksAreOnCourse /\ CallOutsAreTrue

LEMMA CourseStep ==
    ASSUME ServerAssumption, TypeOK, CallOuts, Course, [Next]_vars
    PROVE  Course'
<1>0. /\ events \in Seq(Event) /\ Len(events) \in Nat
      /\ \A i \in 1..Len(events) : events[i] \in Event
      /\ \A a \in DOMAIN taskMap : /\ taskMap[a] \in Task
                                   /\ Chunks[taskMap[a].work] \in Nat
  BY DEF TypeOK, ServerAssumption, Task
<1> DEFINE Calls(i) == events[i].kind \in {"range", "progress"}
<1>0a. \A i \in 1..Len(events) : Calls(i) => events[i].addr \in DOMAIN taskMap
  BY DEF CallOuts, CallOutsFindTheirTask, FromWatcher, WatcherKind, HasTask
\* Steps that keep what the tasks have computed, and add no call-out.
<1>1. ASSUME DOMAIN taskMap' = DOMAIN taskMap,
             \A a \in DOMAIN taskMap : /\ taskMap'[a].work = taskMap[a].work
                                       /\ taskMap'[a].done = taskMap[a].done
                                       /\ taskMap'[a].future = taskMap[a].future
                                       /\ taskMap[a].canceled => taskMap'[a].canceled,
             \/ events' = events
             \/ events # << >> /\ events' = Tail(events)
             \/ \E x \in Event : ~FromWatcher(x) /\ events' = Append(events, x)
      PROVE  Course'
  <2>1. TasksAreOnCourse'
    BY <1>1, <1>0 DEF Course, TasksAreOnCourse, Task
  <2>2. CASE events' = events
    BY <1>0a, <1>1, <2>1, <2>2 DEF Course, CallOutsAreTrue
  <2>3. CASE events # << >> /\ events' = Tail(events)
    <3>1. /\ Len(events') = Len(events) - 1
          /\ \A i \in 1..Len(events') : i + 1 \in 1..Len(events) /\ events'[i] = events[i + 1]
      BY <1>0, <2>3, TakeHead
    <3>2. \A i \in 1..Len(events) : LET t == taskMap'[events[i].addr] IN
              /\ events[i].kind = "range" => events[i].val = Chunks[t.work]
              /\ events[i].kind = "progress" => events[i].val <= t.done
      BY <1>0a, <1>1 DEF Course, CallOutsAreTrue
    <3>3. CallOutsAreTrue'
      BY <3>1, <3>2 DEF CallOutsAreTrue
    <3> QED BY <2>1, <3>3 DEF Course
  <2>4. CASE \E x \in Event : ~FromWatcher(x) /\ events' = Append(events, x)
    <3>1. PICK x \in Event : ~FromWatcher(x) /\ events' = Append(events, x)
      BY <2>4
    <3>2. /\ Len(events') = Len(events) + 1
          /\ \A i \in 1..Len(events) : events'[i] = events[i]
          /\ events'[Len(events) + 1] = x
      BY <1>0, <3>1, AddLast
    <3>3. x.kind # "range" /\ x.kind # "progress"
      BY <3>1 DEF FromWatcher, WatcherKind
    <3>4. \A i \in 1..Len(events') : i \in 1..Len(events) \/ i = Len(events) + 1
      BY <1>0, <3>2
    <3>5. CallOutsAreTrue'
      BY <1>0a, <1>1, <3>2, <3>3, <3>4 DEF Course, CallOutsAreTrue
    <3> QED BY <2>1, <3>5 DEF Course
  <2> QED BY <1>1, <2>2, <2>3, <2>4
<1>2. ASSUME UNCHANGED taskMap,
             \/ events' = events
             \/ events # << >> /\ events' = Tail(events)
             \/ \E x \in Event : ~FromWatcher(x) /\ events' = Append(events, x)
      PROVE  Course'
  BY <1>1, <1>2
<1>3. ASSUME NEW a, HasTask(a), MarkCanceled(a), events # << >> /\ events' = Tail(events)
      PROVE  Course'
  <2>1. /\ DOMAIN taskMap' = DOMAIN taskMap
        /\ \A b \in DOMAIN taskMap : /\ taskMap'[b].work = taskMap[b].work
                                     /\ taskMap'[b].done = taskMap[b].done
                                     /\ taskMap'[b].future = taskMap[b].future
                                     /\ taskMap[b].canceled => taskMap'[b].canceled
    BY <1>0, <1>3 DEF MarkCanceled, HasTask, Task
  <2> QED BY <1>1, <1>3, <2>1
<1>4. CASE UNCHANGED vars
  BY <1>2, <1>4 DEF vars
<1>5. ASSUME NEW a \in Addr, Connect(a) \/ Receive(a) \/ Disconnect(a)
      PROVE  Course'
  <2>1. CASE Connect(a)
    BY <1>2, <2>1 DEF Connect
  <2>2. CASE Receive(a)
    <3>1. PICK k \in Kinds : \E w \in IF k = "task" THEN Work ELSE {NoWork} :
              events' = Append(events, Message(k, a, w))
      BY <2>2 DEF Receive, Arrive
    <3>2. PICK w \in IF k = "task" THEN Work ELSE {NoWork} :
              events' = Append(events, Message(k, a, w))
      BY <3>1
    <3>3. Message(k, a, w) \in Event
      BY MakeEvent DEF ServerAssumption
    <3>4. ~FromWatcher(Message(k, a, w))
      BY ServerAssumption DEF ServerAssumption, MessageKind, WatcherKind, FromWatcher, Message
    <3> QED BY <1>2, <2>2, <3>2, <3>3, <3>4 DEF Receive, Arrive
  <2>3. CASE Disconnect(a)
    <3>1. Message("gone", a, NoWork) \in Event /\ ~FromWatcher(Message("gone", a, NoWork))
      BY MakeEvent DEF WatcherKind, FromWatcher, Message
    <3> QED BY <1>2, <2>3, <3>1 DEF Disconnect, Leave
  <2> QED BY <1>5, <2>1, <2>2, <2>3
<1>6. CASE Deliver
  BY <1>2, <1>6 DEF Deliver
<1>7. CASE HandleEvent
  <2>1. CASE StartTask
    <3>1. PICK a \in Addr, w \in Work : \E k \in 0..Chunks[w] : StartFor(a, w, k)
      BY <2>1, StartTaskIs
    <3>2. PICK k \in 0..Chunks[w] : StartFor(a, w, k)
      BY <3>1
    <3>3. Chunks[w] \in Nat /\ k \in Nat /\ k <= Chunks[w]
      BY ServerAssumption DEF ServerAssumption
    <3>4. /\ DOMAIN taskMap' = DOMAIN taskMap \cup {a} /\ a \notin DOMAIN taskMap
          /\ taskMap'[a].done = k /\ taskMap'[a].work = w /\ taskMap'[a].future = "running"
          /\ \A b \in DOMAIN taskMap : taskMap'[b] = taskMap[b]
      BY <3>2 DEF StartFor
    <3>5. TasksAreOnCourse'
      BY <3>3, <3>4 DEF Course, TasksAreOnCourse
    <3> DEFINE n == Len(events)
    <3>6. /\ n \in Nat \ {0} /\ Len(events') = n + 1
          /\ \A i \in 1..(n - 1) : i + 1 \in 1..n /\ events'[i] = events[i + 1]
          /\ events'[n] = CallOut("range", a, nextTask, Chunks[w])
          /\ events'[n + 1] = CallOut("progress", a, nextTask, k)
      BY <3>2, StartTaskEvents
    <3>7. ASSUME NEW i \in 1..(n + 1)
          PROVE  LET t == taskMap'[events'[i].addr] IN
                    /\ events'[i].kind = "range" => events'[i].val = Chunks[t.work]
                    /\ events'[i].kind = "progress" => events'[i].val <= t.done
      <4>1. CASE i \in 1..(n - 1)
        BY <1>0a, <3>4, <3>6, <4>1 DEF Course, CallOutsAreTrue
      <4>2. CASE i = n
        BY <3>4, <3>6, <4>2 DEF CallOut
      <4>3. CASE i = n + 1
        BY <3>3, <3>4, <3>6, <4>3 DEF CallOut
      <4> QED BY <3>6, <4>1, <4>2, <4>3
    <3>8. CallOutsAreTrue'
      BY <3>6, <3>7 DEF CallOutsAreTrue
    <3> QED BY <3>5, <3>8 DEF Course
  <2>2. CASE CancelTask
    BY <1>3, <2>2 DEF CancelTask, Dispatch
  <2>3. CASE OnClientDisconnected
    BY <1>2, <1>3, <2>3 DEF OnClientDisconnected, Dispatch
  <2>4. CASE OnFinished
    <3> DEFINE n == Len(events)
               a == events[1].addr
    <3>1. /\ n \in Nat \ {0} /\ Len(events') = n - 1
          /\ \A i \in 1..(n - 1) : i + 1 \in 1..n /\ events'[i] = events[i + 1]
          /\ events[1].kind = "finished" /\ Head(events) = events[1]
      BY <1>0, <2>4, TakeHead DEF OnFinished, Dispatch
    <3>2. taskMap' = [b \in DOMAIN taskMap \ {a} |-> taskMap[b]]
      BY <2>4, <3>1 DEF OnFinished
    <3>3. \A i \in 2..n : FromWatcher(events[i]) => events[i].addr # a
      BY <3>1 DEF CallOuts, FinishedComesLast
    <3>4. ASSUME NEW i \in 1..(n - 1), events'[i].kind \in {"range", "progress"}
          PROVE  taskMap'[events'[i].addr] = taskMap[events[i + 1].addr]
      <4>1. i + 1 \in 2..n /\ events'[i] = events[i + 1] /\ FromWatcher(events[i + 1])
        BY <3>1, <3>4 DEF FromWatcher, WatcherKind
      <4>2. events[i + 1].addr \in DOMAIN taskMap \ {a}
        BY <1>0a, <3>1, <3>3, <3>4, <4>1
      <4> QED BY <3>2, <4>1, <4>2
    <3>5. CallOutsAreTrue'
      BY <3>1, <3>4 DEF Course, CallOutsAreTrue
    <3>6. TasksAreOnCourse'
      BY <3>2 DEF Course, TasksAreOnCourse
    <3> QED BY <3>5, <3>6 DEF Course
  <2>5. CASE \/ RejectCorrupted \/ RejectUnknown \/ ReplyFromCache \/ RefuseSecondTask
             \/ CancelNothing \/ OnProgressRange \/ OnProgressValue
    <3>1. UNCHANGED taskMap /\ events # << >> /\ events' = Tail(events)
      BY <2>5 DEF RejectCorrupted, RejectUnknown, ReplyFromCache, RefuseSecondTask,
                  CancelNothing, OnProgressRange, OnProgressValue, Dispatch
    <3> QED BY <1>2, <3>1
  <2> QED BY <1>7, <2>1, <2>2, <2>3, <2>4, <2>5 DEF HandleEvent
<1>8. ASSUME NEW a \in Addr, Compute(a)
      PROVE  Course'
  <2>1. a \in DOMAIN taskMap /\ taskMap[a].future = "running"
    BY <1>8 DEF Compute, CompleteChunk, ReportFinished, Running, HasTask
  <2>2. CASE CompleteChunk(a)
    <3> DEFINE n == taskMap[a].done + 1
               x == CallOut("progress", a, taskMap[a].id, n)
    <3>1. /\ taskMap' = [taskMap EXCEPT ![a].done = n]
          /\ events' = events \/ events' = Append(events, x)
          /\ taskMap[a].done < Chunks[taskMap[a].work]
      BY <2>2 DEF CompleteChunk
    <3>2. n \in Nat /\ n <= Chunks[taskMap[a].work] /\ taskMap[a].done <= n
      BY <1>0, <2>1, <3>1 DEF Task
    <3>3. x \in Event /\ x.addr = a /\ x.kind = "progress" /\ x.val = n
      BY <1>0, <2>1, <3>2, MakeEvent DEF CallOut, WatcherKind, Task, TypeOK
    <3> HIDE DEF n, x
    <3>4. /\ DOMAIN taskMap' = DOMAIN taskMap
          /\ taskMap'[a].done = n /\ taskMap'[a].work = taskMap[a].work
          /\ taskMap'[a].future = "running"
          /\ \A b \in DOMAIN taskMap \ {a} : taskMap'[b] = taskMap[b]
      BY <1>0, <2>1, <3>1 DEF Task
    <3>5. TasksAreOnCourse'
      BY <3>2, <3>4 DEF Course, TasksAreOnCourse
    <3>6. \A i \in 1..Len(events) :
              LET t == taskMap'[events[i].addr] IN
                 /\ events[i].kind = "range" => events[i].val = Chunks[t.work]
                 /\ events[i].kind = "progress" => events[i].val <= t.done
      <4> SUFFICES ASSUME NEW i \in 1..Len(events), Calls(i)
                   PROVE  LET t == taskMap'[events[i].addr] IN
                             /\ events[i].kind = "range" => events[i].val = Chunks[t.work]
                             /\ events[i].kind = "progress" => events[i].val <= t.done
        OBVIOUS
      <4>1. events[i].addr \in DOMAIN taskMap
        BY <1>0a
      <4>2. CASE events[i].addr # a
        BY <3>4, <4>1, <4>2 DEF Course, CallOutsAreTrue
      <4>3. CASE events[i].addr = a
        <5>1. /\ events[i].kind = "range" => events[i].val = Chunks[taskMap[a].work]
              /\ events[i].kind = "progress" => events[i].val <= taskMap[a].done
          BY <4>3 DEF Course, CallOutsAreTrue
        <5>2. events[i].val \in Nat /\ taskMap[a].done \in Nat
          BY <1>0, <2>1 DEF Event, Task
        <5> QED BY <3>2, <3>4, <4>3, <5>1, <5>2
      <4> QED BY <4>2, <4>3
    <3>7. CASE events' = events
      BY <3>5, <3>6, <3>7 DEF Course, CallOutsAreTrue
    <3>8. CASE events' = Append(events, x)
      <4>1. /\ Len(events') = Len(events) + 1
            /\ \A i \in 1..Len(events) : events'[i] = events[i]
            /\ events'[Len(events) + 1] = x
        BY <1>0, <3>3, <3>8, AddLast
      <4>2. \A i \in 1..Len(events') : i \in 1..Len(events) \/ i = Len(events) + 1
        BY <1>0, <4>1
      <4>3. x.kind # "range" /\ x.val <= taskMap'[x.addr].done
        BY <3>2, <3>3, <3>4
      <4>4. CallOutsAreTrue'
        BY <3>6, <4>1, <4>2, <4>3 DEF CallOutsAreTrue
      <4> QED BY <3>5, <4>4 DEF Course
    <3> QED BY <3>1, <3>7, <3>8
  <2>3. CASE ReportFinished(a)
    <3> DEFINE x == CallOut("finished", a, taskMap[a].id, 0)
    <3>1. /\ taskMap' = [taskMap EXCEPT ![a].future = "finished"]
          /\ events' = Append(events, x)
          /\ taskMap[a].canceled \/ taskMap[a].done = Chunks[taskMap[a].work]
      BY <2>3 DEF ReportFinished
    <3>2. x \in Event /\ x.kind = "finished"
      BY <1>0, <2>1, MakeEvent DEF CallOut, WatcherKind, Task, TypeOK
    <3> HIDE DEF x
    <3>3. /\ DOMAIN taskMap' = DOMAIN taskMap
          /\ \A b \in DOMAIN taskMap : /\ taskMap'[b].done = taskMap[b].done
                                       /\ taskMap'[b].work = taskMap[b].work
                                       /\ taskMap'[b].canceled = taskMap[b].canceled
          /\ \A b \in DOMAIN taskMap \ {a} : taskMap'[b].future = taskMap[b].future
      BY <1>0, <2>1, <3>1 DEF Task
    <3>4. TasksAreOnCourse'
      BY <3>1, <3>3 DEF Course, TasksAreOnCourse
    <3>5. /\ Len(events') = Len(events) + 1
          /\ \A i \in 1..Len(events) : events'[i] = events[i]
          /\ events'[Len(events) + 1] = x
      BY <1>0, <3>1, <3>2, AddLast
    <3>6. \A i \in 1..Len(events') : i \in 1..Len(events) \/ i = Len(events) + 1
      BY <1>0, <3>5
    <3>7. CallOutsAreTrue'
      BY <1>0a, <3>2, <3>3, <3>5, <3>6 DEF Course, CallOutsAreTrue
    <3> QED BY <3>4, <3>7 DEF Course
  <2> QED BY <1>8, <2>2, <2>3 DEF Compute
<1> QED BY <1>4, <1>5, <1>6, <1>7, <1>8 DEF Next, Environment

\* The parts of ResultsAreComplete.
CacheComplete == \A w \in DOMAIN cache : cache[w] = Chunks[w]

ResultReply(m) == m.kind = "result" => m.work \in Work /\ m.val = Chunks[m.work]

OutboxComplete == \A i \in 1..Len(outbox) : ResultReply(outbox[i])

LEMMA OutboxAfterSend ==
    ASSUME TypeOK, OutboxComplete, NEW m \in Reply, Send(m), ResultReply(m)
    PROVE  OutboxComplete'
<1>1. /\ Len(outbox) \in Nat
      /\ Len(outbox') = Len(outbox) + 1
      /\ \A i \in 1..Len(outbox) : outbox'[i] = outbox[i]
      /\ outbox'[Len(outbox) + 1] = m
  BY AddLast DEF TypeOK, Send
<1>2. \A i \in 1..Len(outbox') : i \in 1..Len(outbox) \/ i = Len(outbox) + 1
  BY <1>1
<1> QED BY <1>1, <1>2 DEF OutboxComplete, ResultReply

LEMMA ResultsStep ==
    ASSUME ServerAssumption, TypeOK, CallOuts, Course, CacheComplete, OutboxComplete,
           [Next]_vars
    PROVE  CacheComplete' /\ OutboxComplete'
<1>1. CASE UNCHANGED <<cache, outbox>>
  BY <1>1 DEF CacheComplete, OutboxComplete, ResultReply
<1>2. CASE Deliver
  <2>1. /\ Len(outbox') = Len(outbox) - 1
        /\ \A i \in 1..Len(outbox') : i + 1 \in 1..Len(outbox) /\ outbox'[i] = outbox[i + 1]
    BY <1>2, TakeHead DEF Deliver, TypeOK
  <2> QED BY <1>2, <2>1 DEF Deliver, CacheComplete, OutboxComplete, ResultReply
<1>3. CASE HandleEvent
  <2> DEFINE e == Head(events)
  <2>0. events # << >> /\ events \in Seq(Event)
    BY <1>3 DEF HandleEvent, RejectCorrupted, RejectUnknown, ReplyFromCache,
       RefuseSecondTask, StartTask, CancelNothing, CancelTask, OnClientDisconnected,
       OnProgressRange, OnProgressValue, OnFinished, Dispatch, TypeOK
  <2>1. e \in Event /\ e = events[1] /\ Len(events) \in Nat \ {0}
    BY <2>0, TakeHead
  <2>2. e.addr \in Addr /\ e.task \in Nat /\ e.val \in Nat
    BY <2>1 DEF Event
  <2> HIDE DEF e
  \* A reply that is no result, and the cache as it was.
  <2>3. ASSUME NEW k \in ReplyKind \ {"result"}, NEW t \in Nat, NEW v \in Nat,
               Send(MakeReply(e.addr, k, NoWork, t, v)), UNCHANGED cache
        PROVE  CacheComplete' /\ OutboxComplete'
    <3>1. MakeReply(e.addr, k, NoWork, t, v) \in Reply
      BY <2>2, MakeReplyType
    <3>2. ResultReply(MakeReply(e.addr, k, NoWork, t, v))
      BY DEF ResultReply, MakeReply
    <3> QED BY <2>3, <3>1, <3>2, OutboxAfterSend DEF CacheComplete
  <2>4. CASE RejectCorrupted
    BY <2>3, <2>4 DEF RejectCorrupted, Answer, Error, ReplyKind, e
  <2>5. CASE RejectUnknown
    BY <2>3, <2>5 DEF RejectUnknown, Answer, Error, ReplyKind, e
  <2>6. CASE RefuseSecondTask
    BY <2>3, <2>6 DEF RefuseSecondTask, Answer, Error, ReplyKind, e
  <2>7. CASE CancelNothing
    BY <2>3, <2>7 DEF CancelNothing, Answer, Error, ReplyKind, e
  <2>8. CASE OnProgressRange
    BY <2>2, <2>3, <2>8 DEF OnProgressRange, ReplyKind, e
  <2>9. CASE OnProgressValue
    BY <1>1, <2>2, <2>3, <2>9 DEF OnProgressValue, ReplyKind, e
  <2>10. CASE StartTask \/ CancelTask \/ OnClientDisconnected
    BY <1>1, <2>10 DEF StartTask, CancelTask, OnClientDisconnected
  <2>11. CASE ReplyFromCache
    <3> DEFINE m == MakeReply(e.addr, "result", e.work, 0, cache[e.work])
    <3>1. e.work \in DOMAIN cache /\ Send(m) /\ UNCHANGED cache
      BY <2>11 DEF ReplyFromCache, Answer, e
    <3>2. e.work \in Work /\ cache[e.work] \in Nat /\ cache[e.work] = Chunks[e.work]
      BY <3>1 DEF TypeOK, CacheComplete
    <3>3. m \in Reply
      BY <2>2, <3>2, MakeReplyType DEF ReplyKind
    <3>4. ResultReply(m)
      BY <3>2 DEF ResultReply, MakeReply
    <3> QED BY <3>1, <3>3, <3>4, OutboxAfterSend DEF CacheComplete
  <2>12. CASE OnFinished
    <3> DEFINE t == taskMap[e.addr]
               m == MakeReply(e.addr, "result", t.work, t.id, t.done)
    <3>1. e.kind = "finished"
      BY <2>12 DEF OnFinished, Dispatch, e
    <3>2. e.addr \in DOMAIN taskMap /\ t.future = "finished" /\ t \in Task
      BY <2>1, <3>1 DEF CallOuts, CallOutsFindTheirTask, FinishedComesLast, FromWatcher,
                        WatcherKind, HasTask, TypeOK
    <3>3. ~t.canceled => t.done = Chunks[t.work]
      BY <3>2 DEF Course, TasksAreOnCourse
    <3>4. /\ IF IsCanceled(t)
             THEN Send(MakeReply(e.addr, "canceled", NoWork, t.id, 0)) /\ UNCHANGED cache
             ELSE Send(m) /\ CacheInsert(t.work, t.done)
      BY <2>12 DEF OnFinished, Answer, e
    <3>5. t.id \in Nat /\ t.work \in Work /\ t.done \in Nat
      BY <3>2 DEF Task
    <3>6. m \in Reply
      BY <2>2, <3>5, MakeReplyType DEF ReplyKind
    <3> HIDE DEF t
    <3>7. CASE IsCanceled(t)
      BY <2>3, <3>4, <3>5, <3>7 DEF ReplyKind
    <3>8. CASE ~IsCanceled(t)
      <4>1. t.done = Chunks[t.work]
        BY <3>3, <3>8 DEF IsCanceled
      <4>2. ResultReply(m)
        BY <3>5, <4>1 DEF ResultReply, MakeReply
      <4>3. Send(m) /\ CacheInsert(t.work, t.done)
        BY <3>4, <3>8
      <4>4. CacheComplete'
        BY <4>1, <4>3 DEF CacheInsert, CacheComplete
      <4> QED BY <3>6, <4>2, <4>3, <4>4, OutboxAfterSend
    <3> QED BY <3>7, <3>8
  <2> QED BY <1>3, <2>4, <2>5, <2>6, <2>7, <2>8, <2>9, <2>10, <2>11, <2>12 DEF HandleEvent
<1>4. CASE Environment \/ UNCHANGED vars \/ \E a \in Addr : Compute(a)
  BY <1>1, <1>4 DEF Environment, Connect, Receive, Arrive, Disconnect, Leave, Compute, CompleteChunk,
                    ReportFinished, vars
<1> QED BY <1>2, <1>3, <1>4 DEF Next

\* No client ever gets, and the cache never keeps, the result of a computation
\* that was cut short: every result covers all the chunks of its request.
THEOREM ResultsComplete == ServerAssumption => (Spec => []ResultsAreComplete)
<1> SUFFICES ASSUME ServerAssumption PROVE Spec => []ResultsAreComplete
  OBVIOUS
<1> DEFINE IInv == CallOuts /\ Course /\ CacheComplete /\ OutboxComplete
<1>1. Init => IInv
  BY DEF Init, CallOuts, CallOutsFindTheirTask, FinishedComesLast, Course,
         TasksAreOnCourse, CallOutsAreTrue, CacheComplete, OutboxComplete
<1>2. TypeOK /\ IInv /\ [Next]_vars => IInv'
  BY CallOutsStep, CourseStep, ResultsStep
<1>3. IInv => ResultsAreComplete
  BY DEF CacheComplete, OutboxComplete, ResultReply, ResultsAreComplete
<1>4. Spec => []TypeOK
  BY TypeCorrect
<1> QED BY <1>1, <1>2, <1>3, <1>4, PTL DEF Spec

-----------------------------------------------------------------------------
(* The contract.  Every step of the server is a step of TaskContract or      *)
(* leaves what that speaks of unchanged.                                     *)

\* What the refinement mapping makes of the task map.
JobOf(t) == [serial |-> t.id, work |-> t.work, stopping |-> t.canceled]

Jobs == [a \in DOMAIN taskMap |-> JobOf(taskMap[a])]

LEMMA ContractStutter ==
    ASSUME DOMAIN taskMap' = DOMAIN taskMap,
           \A a \in DOMAIN taskMap : JobOf(taskMap'[a]) = JobOf(taskMap[a]),
           UNCHANGED <<cache, outbox, nextTask>>
    PROVE  UNCHANGED Contract!vars
<1>1. Jobs' = Jobs
  BY DEF Jobs
<1> QED BY <1>1 DEF Contract!vars, Jobs, JobOf

\* A reply that leaves tasks and cache alone.
LEMMA ContractReply ==
    ASSUME NEW a, NEW k, NEW w, NEW t, NEW v,
           Send(MakeReply(a, k, w, t, v))
    PROVE  Contract!Post(a, k, w, t, v)
BY DEF Send, MakeReply, Contract!Post

LEMMA ContractRefuse ==
    ASSUME NEW a \in Addr, NEW code,
           Answer(Error(a, code)), UNCHANGED <<taskMap, cache, nextTask>>,
           \/ code = "AlreadyRunningTask" /\ a \in DOMAIN taskMap
           \/ code = "CorruptedData"
           \/ code = "InvalidRequestType"
           \/ code = "canceled" /\ a \notin DOMAIN taskMap
    PROVE  Contract!Refuse(a)
<1>1. Contract!Post(a, code, NoWork, 0, 0)
  BY ContractReply DEF Answer, Error
<1>2. Contract!HasJob(a) <=> a \in DOMAIN taskMap
  BY DEF Contract!HasJob
<1> QED BY <1>1, <1>2 DEF Contract!Refuse

LEMMA ContractStop ==
    ASSUME TypeOK, NEW a \in Addr, HasTask(a), MarkCanceled(a),
           UNCHANGED <<cache, outbox, nextTask>>
    PROVE  Contract!Stop(a)
<1>1. Jobs' = [Jobs EXCEPT ![a] = [serial |-> Jobs[a].serial, work |-> Jobs[a].work,
                                   stopping |-> TRUE]]
  <2>1. a \in DOMAIN taskMap /\ taskMap[a] \in Task
    BY DEF HasTask, TypeOK
  <2>2. /\ DOMAIN taskMap' = DOMAIN taskMap
        /\ taskMap'[a].id = taskMap[a].id /\ taskMap'[a].work = taskMap[a].work
        /\ taskMap'[a].canceled = TRUE
        /\ \A b \in DOMAIN taskMap \ {a} : taskMap'[b] = taskMap[b]
    BY <2>1 DEF MarkCanceled, Task
  <2>3. JobOf(taskMap'[a]) = [serial |-> Jobs[a].serial, work |-> Jobs[a].work,
                              stopping |-> TRUE]
    BY <2>1, <2>2 DEF Jobs, JobOf
  <2>4. \A b \in DOMAIN taskMap \ {a} : Jobs'[b] = Jobs[b]
    BY <2>1, <2>2 DEF Jobs
  <2> QED BY <2>1, <2>2, <2>3, <2>4 DEF Jobs
<1> QED BY <1>1 DEF Contract!Stop, Contract!HasJob, HasTask, Jobs, JobOf

LEMMA ContractStep ==
    ASSUME ServerAssumption, TypeOK, CallOuts, Course, CacheComplete, [Next]_vars
    PROVE  [Contract!Next]_(Contract!vars)
<1>1. CASE UNCHANGED vars \/ Environment
  <2>1. UNCHANGED <<taskMap, cache, outbox, nextTask>>
    BY <1>1 DEF vars, Environment, Connect, Receive, Arrive, Disconnect, Leave
  <2> QED BY <2>1, ContractStutter
<1>2. CASE Deliver
  <2>1. Contract!Deliver
    BY <1>2 DEF Deliver, Contract!Deliver
  <2> QED BY <2>1 DEF Contract!Next
<1>3. ASSUME NEW a \in Addr, Compute(a)
      PROVE  [Contract!Next]_(Contract!vars)
  <2>1. a \in DOMAIN taskMap /\ taskMap[a] \in Task
    BY <1>3 DEF Compute, CompleteChunk, ReportFinished, Running, HasTask, TypeOK
  <2>2. CASE CompleteChunk(a)
    <3>1. /\ taskMap' = [taskMap EXCEPT ![a].done = taskMap[a].done + 1]
          /\ UNCHANGED <<cache, outbox, nextTask>>
      BY <2>2 DEF CompleteChunk
    <3>2. /\ DOMAIN taskMap' = DOMAIN taskMap
          /\ \A b \in DOMAIN taskMap : JobOf(taskMap'[b]) = JobOf(taskMap[b])
      BY <2>1, <3>1 DEF JobOf, Task
    <3> QED BY <3>1, <3>2, ContractStutter
  <2>3. CASE ReportFinished(a)
    <3>1. /\ DOMAIN taskMap' = DOMAIN taskMap
          /\ \A b \in DOMAIN taskMap : JobOf(taskMap'[b]) = JobOf(taskMap[b])
      BY <2>1, <2>3 DEF ReportFinished, JobOf, Task
    <3> QED BY <2>3, <3>1, ContractStutter DEF ReportFinished
  <2> QED BY <1>3, <2>2, <2>3 DEF Compute
<1>4. CASE HandleEvent
  <2> DEFINE e == Head(events)
  <2>0. events # << >> /\ events \in Seq(Event)
    BY <1>4 DEF HandleEvent, RejectCorrupted, RejectUnknown, ReplyFromCache,
       RefuseSecondTask, StartTask, CancelNothing, CancelTask, OnClientDisconnected,
       OnProgressRange, OnProgressValue, OnFinished, Dispatch, TypeOK
  <2>1. e \in Event /\ e = events[1] /\ 1 \in 1..Len(events)
    BY <2>0, TakeHead
  <2>2. e.addr \in Addr /\ e.task \in Nat /\ e.val \in Nat
    BY <2>1 DEF Event
  <2>3. FromWatcher(e) => /\ e.addr \in DOMAIN taskMap
                          /\ taskMap[e.addr] \in Task
                          /\ taskMap[e.addr].id = e.task
    BY <2>1 DEF CallOuts, CallOutsFindTheirTask, HasTask, TypeOK
  <2> HIDE DEF e
  <2>4. CASE RejectCorrupted
    <3>1. Contract!Refuse(e.addr)
      BY <2>2, <2>4, ContractRefuse DEF RejectCorrupted, e
    <3> QED BY <2>2, <3>1 DEF Contract!Next
  <2>5. CASE RejectUnknown
    <3>1. Contract!Refuse(e.addr)
      BY <2>2, <2>5, ContractRefuse DEF RejectUnknown, e
    <3> QED BY <2>2, <3>1 DEF Contract!Next
  <2>6. CASE RefuseSecondTask
    <3>1. Contract!Refuse(e.addr)
      BY <2>2, <2>6, ContractRefuse DEF RefuseSecondTask, Busy, HasTask, e
    <3> QED BY <2>2, <3>1 DEF Contract!Next
  <2>7. CASE CancelNothing
    <3>1. Contract!Refuse(e.addr)
      BY <2>2, <2>7, ContractRefuse DEF CancelNothing, HasTask, e
    <3> QED BY <2>2, <3>1 DEF Contract!Next
  <2>8. CASE ReplyFromCache
    <3>1. /\ e.work \in DOMAIN cache
          /\ Send(MakeReply(e.addr, "result", e.work, 0, cache[e.work]))
          /\ UNCHANGED <<taskMap, cache, nextTask>>
      BY <2>8 DEF ReplyFromCache, Answer, e
    <3>2. Contract!Post(e.addr, "result", e.work, 0, Chunks[e.work])
      BY <3>1, ContractReply DEF CacheComplete
    <3>3. Contract!Recall(e.addr)
      BY <3>1, <3>2 DEF Contract!Recall
    <3> QED BY <2>2, <3>3 DEF Contract!Next
  <2>9. CASE StartTask
    <3>1. PICK a \in Addr, w \in Work : \E k \in 0..Chunks[w] : StartFor(a, w, k)
      BY <2>9, StartTaskIs
    <3>2. PICK k \in 0..Chunks[w] : StartFor(a, w, k)
      BY <3>1
    <3>3. Jobs' = [b \in DOMAIN Jobs \cup {a} |->
                     IF b = a
                     THEN [serial |-> nextTask, work |-> w, stopping |-> FALSE]
                     ELSE Jobs[b]]
      BY <3>2 DEF StartFor, Jobs, JobOf
    <3>4. Contract!Accept(a)
      BY <3>2, <3>3 DEF StartFor, Contract!Accept, Contract!HasJob, Jobs, JobOf
    <3> QED BY <3>4 DEF Contract!Next
  <2>10. CASE CancelTask
    <3>1. PICK a \in Addr : a = e.addr
      BY <2>2
    <3>2. Contract!Stop(a)
      BY <2>10, <3>1, ContractStop DEF CancelTask, e
    <3> QED BY <3>2 DEF Contract!Next
  <2>11. CASE OnClientDisconnected
    <3>1. CASE HasTask(e.addr)
      <4>1. PICK a \in Addr : a = e.addr
        BY <2>2
      <4>2. Contract!Stop(a)
        BY <2>11, <3>1, <4>1, ContractStop DEF OnClientDisconnected, e
      <4> QED BY <4>2 DEF Contract!Next
    <3>2. CASE ~HasTask(e.addr)
      BY <2>11, <3>2, ContractStutter DEF OnClientDisconnected, e
    <3> QED BY <3>1, <3>2
  <2>12. CASE OnProgressRange
    <3>1. e.kind = "range" /\ FromWatcher(e)
      BY <2>12 DEF OnProgressRange, Dispatch, FromWatcher, WatcherKind, e
    <3>2. e.val = Chunks[taskMap[e.addr].work]
      BY <2>1, <3>1 DEF Course, CallOutsAreTrue
    <3>3. /\ Contract!Post(e.addr, "range", NoWork, e.task, e.val)
          /\ UNCHANGED <<taskMap, cache, nextTask>>
      BY <2>12, ContractReply DEF OnProgressRange, e
    <3>4. Contract!ReportProgress(e.addr)
      BY <2>3, <3>1, <3>2, <3>3 DEF Contract!ReportProgress, Contract!HasJob
    <3> QED BY <2>2, <3>4 DEF Contract!Next
  <2>13. CASE OnProgressValue
    <3>1. e.kind = "progress" /\ FromWatcher(e)
      BY <2>13 DEF OnProgressValue, Dispatch, FromWatcher, WatcherKind, e
    <3>2. UNCHANGED <<taskMap, cache, nextTask>>
      BY <2>13 DEF OnProgressValue
    <3>3. CASE taskMap[e.addr].canceled
      <4>1. UNCHANGED outbox
        BY <2>13, <3>3 DEF OnProgressValue, e
      <4> QED BY <3>2, <4>1, ContractStutter
    <3>4. CASE ~taskMap[e.addr].canceled
      <4>1. Contract!Post(e.addr, "progress", NoWork, e.task, e.val)
        BY <2>13, <3>4, ContractReply DEF OnProgressValue, e
      <4>2. e.val \in 0..Chunks[taskMap[e.addr].work]
        <5>1. e.val <= taskMap[e.addr].done
          BY <2>1, <3>1 DEF Course, CallOutsAreTrue
        <5>2. taskMap[e.addr].done <= Chunks[taskMap[e.addr].work]
          BY <2>3, <3>1 DEF Course, TasksAreOnCourse
        <5>3. taskMap[e.addr].done \in Nat /\ Chunks[taskMap[e.addr].work] \in Nat
          BY <2>3, <3>1, ServerAssumption DEF Task, ServerAssumption
        <5> QED BY <2>2, <5>1, <5>2, <5>3
      <4>3. Contract!ReportProgress(e.addr)
        BY <2>3, <3>1, <3>2, <3>4, <4>1, <4>2 DEF Contract!ReportProgress, Contract!HasJob
      <4> QED BY <2>2, <4>3 DEF Contract!Next
    <3> QED BY <3>3, <3>4
  <2>14. CASE OnFinished
    <3>0. PICK a \in Addr : a = e.addr
      BY <2>2
    <3> DEFINE t == taskMap[a]
    <3>1. e.kind = "finished" /\ FromWatcher(e)
      BY <2>14 DEF OnFinished, Dispatch, FromWatcher, WatcherKind, e
    <3>2. a \in DOMAIN taskMap /\ t \in Task
      BY <2>3, <3>0, <3>1
    <3>3. /\ IF t.canceled
             THEN Send(MakeReply(a, "canceled", NoWork, t.id, 0)) /\ UNCHANGED cache
             ELSE /\ Send(MakeReply(a, "result", t.work, t.id, t.done))
                  /\ CacheInsert(t.work, t.done)
          /\ taskMap' = [b \in DOMAIN taskMap \ {a} |-> taskMap[b]]
          /\ UNCHANGED nextTask
      BY <2>14, <3>0 DEF OnFinished, IsCanceled, Answer, e
    <3>4. ~t.canceled => t.done = Chunks[t.work]
      BY <2>1, <3>0, <3>1, <3>2 DEF CallOuts, FinishedComesLast, Course, TasksAreOnCourse
    <3>5. Jobs[a] = JobOf(t) /\ a \in DOMAIN Jobs
      BY <3>2 DEF Jobs
    <3>6. Jobs' = [b \in DOMAIN Jobs \ {a} |-> Jobs[b]]
      BY <3>3 DEF Jobs
    <3> HIDE DEF t
    <3>7. CASE t.canceled
      <4>1. Contract!Post(a, "canceled", NoWork, t.id, 0) /\ UNCHANGED cache
        BY <3>3, <3>7, ContractReply
      <4>2. Contract!EndJob(a)
        BY <3>3, <3>5, <3>6, <3>7, <4>1
           DEF Contract!EndJob, Contract!HasJob, Jobs, JobOf
      <4> QED BY <4>2 DEF Contract!Next
    <3>8. CASE ~t.canceled
      <4>1. Contract!Post(a, "result", t.work, t.id, Chunks[t.work])
        BY <3>3, <3>4, <3>8, ContractReply
      <4>2. DOMAIN cache' \in SUBSET (DOMAIN cache \cup {t.work})
        BY <3>3, <3>8 DEF CacheInsert
      <4>3. Contract!EndJob(a)
        BY <3>3, <3>5, <3>6, <3>8, <4>1, <4>2
           DEF Contract!EndJob, Contract!HasJob, Jobs, JobOf
      <4> QED BY <4>3 DEF Contract!Next
    <3> QED BY <3>7, <3>8
  <2> QED BY <1>4, <2>4, <2>5, <2>6, <2>7, <2>8, <2>9, <2>10, <2>11, <2>12, <2>13, <2>14
          DEF HandleEvent
<1> QED BY <1>1, <1>2, <1>3, <1>4 DEF Next

\* The server keeps its contract: a peer has one job at a time, told to stop by
\* its cancel request or its disconnection only, and ended by one reply, complete
\* if nothing told it to stop.
THEOREM ServerImplementsContract == ServerAssumption => (Spec => ImplementsContract)
<1> SUFFICES ASSUME ServerAssumption PROVE Spec => ImplementsContract
  OBVIOUS
<1> DEFINE IInv == CallOuts /\ Course /\ CacheComplete /\ OutboxComplete
<1>1. Init => IInv
  BY DEF Init, CallOuts, CallOutsFindTheirTask, FinishedComesLast, Course,
         TasksAreOnCourse, CallOutsAreTrue, CacheComplete, OutboxComplete
<1>2. TypeOK /\ IInv /\ [Next]_vars => IInv'
  BY CallOutsStep, CourseStep, ResultsStep
<1>3. Init => Contract!Init
  BY DEF Init, Contract!Init
<1>4. TypeOK /\ IInv /\ [Next]_vars => [Contract!Next]_(Contract!vars)
  BY ContractStep
<1>5. Spec => []TypeOK
  BY TypeCorrect
<1> QED BY <1>1, <1>2, <1>3, <1>4, <1>5, PTL DEF Spec, ImplementsContract, Contract!Spec
=============================================================================
