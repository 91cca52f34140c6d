--------------------------- MODULE ExampleServer ---------------------------
(***************************************************************************)
(* The server's request handling (src/src/Server/ExampleServer.cpp): the   *)
(* main thread that owns m_taskMap and m_cache, the pool threads that      *)
(* compute, and the two event queues between the main thread and the       *)
(* thread of TcpServer.                                                    *)
(*                                                                         *)
(* The main thread is an event loop: messages and disconnections posted by *)
(* the net thread, and the call-outs of every QFutureWatcher, are posted   *)
(* to one FIFO ("events").  A handler runs to completion, so each handler  *)
(* is one action that takes the head of that queue.  What a handler sends  *)
(* is queued for the net thread ("outbox", sendMessageToQueued).           *)
(***************************************************************************)
EXTENDS Integers, Sequences, FiniteSets

CONSTANTS
    Addr,       \* peers, as Net::AddressPort values
    Work,       \* task requests, one per message text (equal hash = equal text)
    NoWork,     \* the request of a message that carries none
    Chunks,     \* Chunks[w]: length of the sequence that w is divided into
    Kinds,      \* kinds of message the peers send, out of MessageKind
    MaxInputs   \* bound: messages and disconnections in all

\* What can arrive from a peer: a well-formed task request, text that is not a
\* request, a task request with a field missing, a request of a type the
\* server does not serve, and CancelCurrentTask.
MessageKind == {"task", "malformed", "incomplete", "unknown", "cancel"}

ASSUME ServerAssumption ==
    /\ Kinds \subseteq MessageKind
    /\ NoWork \notin Work
    /\ Chunks \in [Work -> Nat]
    /\ MaxInputs \in Nat

VARIABLES
    events,     \* posted events of the main thread
    taskMap,    \* m_taskMap: peer -> its Task
    cache,      \* m_cache: request -> number of chunks in the stored result
    outbox,     \* messages queued for the net thread
    nextTask,   \* identity of the next Task object (the pointer lambdas capture)
    connected,  \* peers with an authorized socket in TcpServer
    inputs,     \* messages and disconnections so far
    owed        \* history: replies still owed to each peer

vars == <<events, taskMap, cache, outbox, nextTask, connected, inputs, owed>>
envVars == <<connected, inputs>>

-----------------------------------------------------------------------------
(* A Task and the future its watcher follows.  done counts the chunks whose *)
(* result the future holds.                                                 *)
Task == [id : Nat, work : Work, future : {"running", "finished"},
         done : Nat, canceled : BOOLEAN]

WatcherKind == {"range", "progress", "finished"}

Event ==
    {e \in [kind : MessageKind \cup WatcherKind \cup {"gone"}, addr : Addr,
            work : Work \cup {NoWork}, task : Nat, val : Nat] :
        e.kind = "task" <=> e.work \in Work}

Message(k, a, w) == [kind |-> k, addr |-> a, work |-> w, task |-> 0, val |-> 0]
CallOut(k, a, t, v) ==
    [kind |-> k, addr |-> a, work |-> NoWork, task |-> t, val |-> v]

\* Replies.  task is the Task a reply speaks for (0: none), val the progress
\* value, the range, or the number of chunks in a result.
ReplyKind == {"range", "progress", "result", "canceled", "CorruptedData",
              "AlreadyRunningTask", "InvalidRequestType"}

Reply == [to : Addr, kind : ReplyKind, work : Work \cup {NoWork},
          task : Nat, val : Nat]

MakeReply(a, k, w, t, v) ==
    [to |-> a, kind |-> k, work |-> w, task |-> t, val |-> v]
Error(a, code) == MakeReply(a, code, NoWork, 0, 0)

HasTask(a) == a \in DOMAIN taskMap

(* Definitions named X_<word> are faulty variants of X, each the way a      *)
(* plausible mistake in the code would read; no action refers to them.      *)

\* Faulty: a peer counts as idle once its future has finished.
Busy_WhileRunning(a) == HasTask(a) /\ taskMap[a].future = "running"

\* m_taskMap.contains(addrPort): no second task before finished() was handled.
Busy(a) == HasTask(a)

-----------------------------------------------------------------------------
Init ==
    /\ events = << >>
    /\ taskMap = [a \in {} |-> 0]
    /\ cache = [w \in {} |-> 0]
    /\ outbox = << >>
    /\ nextTask = 1
    /\ connected = {}
    /\ inputs = 0
    /\ owed = [a \in Addr |-> 0]

-----------------------------------------------------------------------------
(* The net thread, as far as the main thread can tell.                      *)

Input == inputs < MaxInputs /\ inputs' = inputs + 1

Connect(a) ==
    /\ a \notin connected
    /\ connected' = connected \cup {a}
    /\ UNCHANGED <<events, taskMap, cache, outbox, nextTask, inputs, owed>>

\* TcpServer calls the callback of ExampleServer's constructor, which posts
\* parseRequest to the main thread.
Arrive(a, k, w) ==
    /\ a \in connected
    /\ events' = Append(events, Message(k, a, w))
    /\ owed' = [owed EXCEPT ![a] = @ + 1]
    /\ UNCHANGED <<taskMap, cache, outbox, nextTask, connected>>

\* onSocketDisconnected, whose clientDisconnected is queued to the main thread.
Leave(a) ==
    /\ a \in connected
    /\ connected' = connected \ {a}
    /\ events' = Append(events, Message("gone", a, NoWork))
    /\ UNCHANGED <<taskMap, cache, outbox, nextTask, owed>>

Receive(a) ==
    /\ Input
    /\ \E k \in Kinds : \E w \in IF k = "task" THEN Work ELSE {NoWork} : Arrive(a, k, w)

Disconnect(a) == Input /\ Leave(a)

\* The queued sendMessageTo: written to the socket of that address, or logged
\* and dropped when there is none.  The main thread sees no difference.
Deliver ==
    /\ outbox # << >>
    /\ outbox' = Tail(outbox)
    /\ UNCHANGED <<events, taskMap, cache, nextTask, connected, inputs, owed>>

-----------------------------------------------------------------------------
(* The main thread.                                                         *)

Dispatch(kinds) ==
    /\ events # << >>
    /\ Head(events).kind \in kinds
    /\ events' = Tail(events)

Send(m) == outbox' = Append(outbox, m)

\* A reply that settles a request of m.to.
Answer(m) ==
    /\ Send(m)
    /\ owed' = [owed EXCEPT ![m.to] = @ - 1]

\* onCorruptedMessage: the text does not decode at all, or a task request of a
\* peer with no running task lacks a field (that check comes after the one for
\* a running task).
RejectCorrupted ==
    /\ Dispatch({"malformed", "incomplete"})
    /\ Head(events).kind = "incomplete" => ~Busy(Head(events).addr)
    /\ Answer(Error(Head(events).addr, "CorruptedData"))
    /\ UNCHANGED <<taskMap, cache, nextTask, envVars>>

RejectUnknown ==
    /\ Dispatch({"unknown"})
    /\ Answer(Error(Head(events).addr, "InvalidRequestType"))
    /\ UNCHANGED <<taskMap, cache, nextTask, envVars>>

\* The cache is looked up before anything else is asked of the request.
ReplyFromCache ==
    /\ Dispatch({"task"})
    /\ LET a == Head(events).addr
           w == Head(events).work
       IN  /\ w \in DOMAIN cache
           /\ Answer(MakeReply(a, "result", w, 0, cache[w]))
    /\ UNCHANGED <<taskMap, cache, nextTask, envVars>>

RefuseSecondTask ==
    /\ Dispatch({"task", "incomplete"})
    /\ Head(events).work \notin DOMAIN cache
    /\ Busy(Head(events).addr)
    /\ Answer(Error(Head(events).addr, "AlreadyRunningTask"))
    /\ UNCHANGED <<taskMap, cache, nextTask, envVars>>

\* A new Task in the map, the computation handed to the pool, and the watcher
\* attached to its future: the pool may have completed some chunks by then, and
\* the watcher is told the range and the value it has got to.
StartTask ==
    /\ events # << >>
    /\ Head(events).kind = "task"
    /\ LET a == Head(events).addr
           w == Head(events).work
       IN  /\ w \notin DOMAIN cache
           /\ ~Busy(a)
           /\ \E k \in 0..Chunks[w] :
                 /\ taskMap' = [b \in DOMAIN taskMap \cup {a} |->
                       IF b = a
                       THEN [id |-> nextTask, work |-> w, future |-> "running",
                             done |-> k, canceled |-> FALSE]
                       ELSE taskMap[b]]
                 /\ events' = Append(Append(Tail(events),
                                 CallOut("range", a, nextTask, Chunks[w])),
                                 CallOut("progress", a, nextTask, k))
    /\ nextTask' = nextTask + 1
    /\ UNCHANGED <<cache, outbox, owed, envVars>>

\* Faulty: nothing to cancel, nothing to say.
CancelNothing_Silent ==
    /\ Dispatch({"cancel"})
    /\ ~HasTask(Head(events).addr)
    /\ UNCHANGED <<taskMap, cache, outbox, nextTask, owed, envVars>>

\* Nothing to cancel: the request is sent back, for the client awaits an answer.
CancelNothing ==
    /\ Dispatch({"cancel"})
    /\ ~HasTask(Head(events).addr)
    /\ Answer(Error(Head(events).addr, "canceled"))
    /\ UNCHANGED <<taskMap, cache, nextTask, envVars>>

\* Faulty: the task is removed at once, without waiting for finished().
MarkCanceled_Remove(a) ==
    taskMap' = [b \in DOMAIN taskMap \ {a} |-> taskMap[b]]

\* QFuture::cancel() marks the future, even one that has finished already.
MarkCanceled(a) == taskMap' = [taskMap EXCEPT ![a].canceled = TRUE]

\* Faulty: the cancel request is answered here as well as in finished().
CancelTask_Reply ==
    /\ Dispatch({"cancel"})
    /\ HasTask(Head(events).addr)
    /\ LET a == Head(events).addr
       IN  /\ MarkCanceled(a)
           /\ Answer(MakeReply(a, "canceled", NoWork, taskMap[a].id, 0))
    /\ UNCHANGED <<cache, nextTask, envVars>>

\* The last reply of the task answers the cancel request as well.
CancelTask ==
    /\ Dispatch({"cancel"})
    /\ HasTask(Head(events).addr)
    /\ MarkCanceled(Head(events).addr)
    /\ owed' = [owed EXCEPT ![Head(events).addr] = @ - 1]
    /\ UNCHANGED <<cache, outbox, nextTask, envVars>>

\* Faulty: left to the client, which "will have canceled its task".
OnClientDisconnected_Ignore ==
    /\ Dispatch({"gone"})
    /\ UNCHANGED <<taskMap, cache, outbox, nextTask, owed, envVars>>

OnClientDisconnected ==
    /\ Dispatch({"gone"})
    /\ IF HasTask(Head(events).addr)
       THEN MarkCanceled(Head(events).addr)
       ELSE UNCHANGED taskMap
    /\ UNCHANGED <<cache, outbox, nextTask, owed, envVars>>

OnProgressRange ==
    /\ Dispatch({"range"})
    /\ LET e == Head(events)
       IN  Send(MakeReply(e.addr, "range", NoWork, e.task, e.val))
    /\ UNCHANGED <<taskMap, cache, nextTask, owed, envVars>>

\* The watcher does not report progress of a canceled future.
OnProgressValue ==
    /\ Dispatch({"progress"})
    /\ LET e == Head(events)
       IN  IF taskMap[e.addr].canceled
           THEN UNCHANGED outbox
           ELSE Send(MakeReply(e.addr, "progress", NoWork, e.task, e.val))
    /\ UNCHANGED <<taskMap, cache, nextTask, owed, envVars>>

\* Faulty: rmsgHash was left at its default, which is no request's key.
CacheInsert_NoKey(w, n) ==
    cache' = [v \in DOMAIN cache \cup {NoWork} |-> n]

\* QCache::insert: the new entry replaces one of the same key; entries (the new
\* one too) are dropped when their total cost exceeds the limit.
CacheInsert(w, n) ==
    \E kept \in SUBSET (DOMAIN cache \cup {w}) :
        cache' = [v \in kept |-> IF v = w THEN n ELSE cache[v]]

\* Faulty: a canceled future passes for a completed one.
IsCanceled_Never(t) == FALSE

IsCanceled(t) == t.canceled

\* Both slots of finished(): the result goes to the peer and into the cache
\* unless the future was canceled, and the Task is destroyed with its watcher.
OnFinished ==
    /\ Dispatch({"finished"})
    /\ LET a == Head(events).addr
           t == taskMap[a]
       IN  /\ IF IsCanceled(t)
              THEN /\ Answer(MakeReply(a, "canceled", NoWork, t.id, 0))
                   /\ UNCHANGED cache
              ELSE /\ Answer(MakeReply(a, "result", t.work, t.id, t.done))
                   /\ CacheInsert(t.work, t.done)
           /\ taskMap' = [b \in DOMAIN taskMap \ {a} |-> taskMap[b]]
    /\ UNCHANGED <<nextTask, envVars>>

HandleEvent ==
    \/ RejectCorrupted \/ RejectUnknown
    \/ ReplyFromCache \/ RefuseSecondTask \/ StartTask
    \/ CancelNothing \/ CancelTask \/ OnClientDisconnected
    \/ OnProgressRange \/ OnProgressValue \/ OnFinished

-----------------------------------------------------------------------------
(* The pool threads (QtConcurrent).  A future takes no result and reports   *)
(* no progress once it is canceled; it finishes when every chunk is done,   *)
(* or when its threads notice the cancellation.                             *)

Running(a) == HasTask(a) /\ taskMap[a].future = "running"

\* Progress call-outs are throttled, except the last one.
CompleteChunk(a) ==
    /\ Running(a)
    /\ ~taskMap[a].canceled
    /\ taskMap[a].done < Chunks[taskMap[a].work]
    /\ LET n == taskMap[a].done + 1
           report == Append(events, CallOut("progress", a, taskMap[a].id, n))
       IN  /\ taskMap' = [taskMap EXCEPT ![a].done = n]
           /\ \/ events' = report
              \/ n # Chunks[taskMap[a].work] /\ events' = events
    /\ UNCHANGED <<cache, outbox, nextTask, owed, envVars>>

\* Faulty: the threads do not look whether the future was canceled.
ReportFinished_Full(a) ==
    /\ Running(a)
    /\ taskMap[a].done = Chunks[taskMap[a].work]
    /\ taskMap' = [taskMap EXCEPT ![a].future = "finished"]
    /\ events' = Append(events, CallOut("finished", a, taskMap[a].id, 0))
    /\ UNCHANGED <<cache, outbox, nextTask, owed, envVars>>

ReportFinished(a) ==
    /\ Running(a)
    /\ \/ taskMap[a].canceled
       \/ taskMap[a].done = Chunks[taskMap[a].work]
    /\ taskMap' = [taskMap EXCEPT ![a].future = "finished"]
    /\ events' = Append(events, CallOut("finished", a, taskMap[a].id, 0))
    /\ UNCHANGED <<cache, outbox, nextTask, owed, envVars>>

Compute(a) == CompleteChunk(a) \/ ReportFinished(a)

-----------------------------------------------------------------------------
Environment == \E a \in Addr : Connect(a) \/ Receive(a) \/ Disconnect(a)

Next ==
    \/ Environment
    \/ Deliver
    \/ HandleEvent
    \/ \E a \in Addr : Compute(a)

\* The two event loops take their next event, and the pool goes on with every
\* computation that was handed to it.  Nothing is asked of the peers.
Fairness ==
    /\ WF_vars(Deliver)
    /\ WF_vars(HandleEvent)
    /\ \A a \in Addr : WF_vars(Compute(a))

Spec == Init /\ [][Next]_vars

FairSpec == Spec /\ Fairness

-----------------------------------------------------------------------------
(* Properties.                                                              *)

\* Type invariant.
TypeOK ==
    /\ events \in Seq(Event)
    /\ DOMAIN taskMap \subseteq Addr
    /\ \A a \in DOMAIN taskMap : taskMap[a] \in Task
    /\ DOMAIN cache \subseteq Work
    /\ \A w \in DOMAIN cache : cache[w] \in Nat
    /\ outbox \in Seq(Reply)
    /\ nextTask \in Nat \ {0}
    /\ connected \subseteq Addr
    /\ inputs \in Nat
    /\ owed \in [Addr -> Int]

FromWatcher(e) == e.kind \in WatcherKind

\* A queued call-out finds its Task in the map: the lambdas of parseRequest
\* hold a raw Task pointer, and finished() destroys the Task.
CallOutsFindTheirTask ==
    \A i \in 1..Len(events) : FromWatcher(events[i]) =>
        /\ HasTask(events[i].addr)
        /\ taskMap[events[i].addr].id = events[i].task

\* Nothing of a task is queued behind its finished(), and finished() is queued
\* once the future has finished and never before: the Task is destroyed once,
\* by the last call-out.
FinishedComesLast ==
    /\ \A i, j \in 1..Len(events) :
          (events[i].kind = "finished" /\ FromWatcher(events[j]) /\ i < j)
              => events[j].addr # events[i].addr
    /\ \A a \in DOMAIN taskMap :
          taskMap[a].future = "finished" <=>
              \E i \in 1..Len(events) :
                  events[i].kind = "finished" /\ events[i].addr = a

\* "Server-side caching of completed request results": what the cache holds and
\* what a client gets as a result covers every chunk, whatever was canceled.
ResultsAreComplete ==
    /\ \A w \in DOMAIN cache : cache[w] = Chunks[w]
    /\ \A i \in 1..Len(outbox) : outbox[i].kind = "result" =>
           /\ outbox[i].work \in Work
           /\ outbox[i].val = Chunks[outbox[i].work]

\* The messages of one task, whatever is sent in between: its range, then
\* progress values that increase, then one result or "canceled", then nothing.
SameTask(m, n) == m.task = n.task /\ m.task # 0

RepliesInOrder ==
    \A i, j \in 1..Len(outbox) :
        (i < j /\ SameTask(outbox[i], outbox[j])) =>
            /\ outbox[i].kind \notin {"result", "canceled"}
            /\ outbox[j].kind # "range"
            /\ (outbox[i].kind = "progress" /\ outbox[j].kind = "progress")
                   => outbox[i].val < outbox[j].val

\* Every message of a client is answered exactly once, except that a cancel
\* request that met a running task shares the last reply of that task.
MessagesFrom(a) ==
    {i \in 1..Len(events) : events[i].kind \in MessageKind /\ events[i].addr = a}

EveryRequestAnsweredOnce ==
    \A a \in Addr :
        owed[a] = Cardinality(MessagesFrom(a)) + IF HasTask(a) THEN 1 ELSE 0

\* "Client can disconnect without sending cancel request -> need to force
\* cancel its task": once the disconnection was handled, no task of a client
\* that is gone computes on, whatever the client had sent before it went.
OrphansAreCanceled ==
    \A a \in DOMAIN taskMap \ connected :
        \/ taskMap[a].canceled
        \/ \E i \in 1..Len(events) : events[i].kind = "gone" /\ events[i].addr = a

\* Every task ends and leaves the map, so that its peer is served again.
EveryTaskEnds ==
    \A a \in Addr : \A n \in 1..MaxInputs :
        (HasTask(a) /\ taskMap[a].id = n) ~> ~(HasTask(a) /\ taskMap[a].id = n)

\* Everything a peer has asked is answered in the end.
EverythingIsAnswered == \A a \in Addr : owed[a] > 0 ~> owed[a] = 0

\* The server is an implementation of the contract.
Contract == INSTANCE TaskContract WITH
    Size <- Chunks,
    job <- [a \in DOMAIN taskMap |->
               [serial |-> taskMap[a].id, work |-> taskMap[a].work,
                stopping |-> taskMap[a].canceled]],
    serial <- nextTask,
    known <- DOMAIN cache,
    mail <- outbox

ImplementsContract == Contract!Spec

FairlyImplementsContract == Contract!FairSpec
=============================================================================
