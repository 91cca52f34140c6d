-------------------------- MODULE ClientServerProofs --------------------------
(***************************************************************************)
(* Proofs about ClientServer.  What the server keeps by itself is taken    *)
(* from ExampleServerProofs, whose definitions are those of ExampleServer. *)
(***************************************************************************)
EXTENDS ClientServer, QueueCounting

Proved == INSTANCE ExampleServerProofs WITH
    Kinds <- {"task", "cancel", "malformed"},
    MaxInputs <- MaxClicks

LEMMA ServersAssumption == ClientServerAssumption => Proved!ServerAssumption
BY DEF ClientServerAssumption, Proved!ServerAssumption, Proved!MessageKind

-----------------------------------------------------------------------------
(* The server is the one of ExampleServerProofs.                            *)

LEMMA SameTypes ==
    /\ Server!Reply = Proved!Reply
    /\ Server!TypeOK <=> Proved!TypeOK
BY DEF Server!TypeOK, Server!Event, Server!Reply, Server!Task, Server!MessageKind,
       Server!WatcherKind, Server!ReplyKind,
       Proved!TypeOK, Proved!Event, Proved!Reply, Proved!Task, Proved!MessageKind,
       Proved!WatcherKind, Proved!ReplyKind

LEMMA SameInit == Server!Init <=> Proved!Init
BY DEF Server!Init, Proved!Init

LEMMA SameNetActions ==
    ASSUME NEW a, NEW k, NEW w
    PROVE  /\ Server!Connect(a) <=> Proved!Connect(a)
           /\ Server!Arrive(a, k, w) <=> Proved!Arrive(a, k, w)
           /\ Server!Leave(a) <=> Proved!Leave(a)
           /\ Server!Deliver <=> Proved!Deliver
BY DEF Server!Connect, Server!Arrive, Server!Leave, Server!Deliver, Server!Message,
       Proved!Connect, Proved!Arrive, Proved!Leave, Proved!Deliver, Proved!Message

LEMMA SamePoolActions ==
    ASSUME NEW a
    PROVE  Server!Compute(a) <=> Proved!Compute(a)
BY DEF Server!Compute, Server!CompleteChunk, Server!ReportFinished, Server!Running,
       Server!HasTask, Server!CallOut, Server!envVars,
       Proved!Compute, Proved!CompleteChunk, Proved!ReportFinished, Proved!Running,
       Proved!HasTask, Proved!CallOut, Proved!envVars

LEMMA SameHandlers == Server!HandleEvent <=> Proved!HandleEvent
<1> USE DEF Server!Dispatch, Server!Answer, Server!Send, Server!Error, Server!MakeReply,
            Server!Busy, Server!HasTask, Server!envVars, Server!MarkCanceled,
            Proved!Dispatch, Proved!Answer, Proved!Send, Proved!Error, Proved!MakeReply,
            Proved!Busy, Proved!HasTask, Proved!envVars, Proved!MarkCanceled
<1>1. /\ Server!RejectCorrupted <=> Proved!RejectCorrupted
      /\ Server!RejectUnknown <=> Proved!RejectUnknown
      /\ Server!ReplyFromCache <=> Proved!ReplyFromCache
      /\ Server!RefuseSecondTask <=> Proved!RefuseSecondTask
  BY DEF Server!RejectCorrupted, Server!RejectUnknown, Server!ReplyFromCache,
         Server!RefuseSecondTask, Proved!RejectCorrupted, Proved!RejectUnknown,
         Proved!ReplyFromCache, Proved!RefuseSecondTask
<1>2. Server!StartTask <=> Proved!StartTask
  BY DEF Server!StartTask, Server!CallOut, Proved!StartTask, Proved!CallOut
<1>3. /\ Server!CancelNothing <=> Proved!CancelNothing
      /\ Server!CancelTask <=> Proved!CancelTask
      /\ Server!OnClientDisconnected <=> Proved!OnClientDisconnected
  BY DEF Server!CancelNothing, Server!CancelTask, Server!OnClientDisconnected,
         Proved!CancelNothing, Proved!CancelTask, Proved!OnClientDisconnected
<1>4. /\ Server!OnProgressRange <=> Proved!OnProgressRange
      /\ Server!OnProgressValue <=> Proved!OnProgressValue
  BY DEF Server!OnProgressRange, Server!OnProgressValue,
         Proved!OnProgressRange, Proved!OnProgressValue
<1>5. Server!OnFinished <=> Proved!OnFinished
  BY DEF Server!OnFinished, Server!IsCanceled, Server!CacheInsert,
         Proved!OnFinished, Proved!IsCanceled, Proved!CacheInsert
<1> QED BY <1>1, <1>2, <1>3, <1>4, <1>5 DEF Server!HandleEvent, Proved!HandleEvent

-----------------------------------------------------------------------------
(* Type correctness.                                                        *)

\* What the window posts.
Asked == {Request("task", w) : w \in Work} \cup {Request("cancel", NoWork)}

ServerSound == Proved!TypeOK /\ Proved!CallOuts

ClientSound ==
    /\ WindowType
    /\ posted \in Seq(Asked)
    /\ guiEvents \in Seq(Proved!Reply \cup {Unconnected})
    /\ opens \in 0..MaxOpens /\ clicks \in 0..MaxClicks /\ cancels \in 0..clicks

WireSound ==
    /\ link \in Addr \cup {NoAddr} /\ served \in BOOLEAN
    /\ served => link \in connected
    /\ up \in Seq(Asked \cup {Login})
    /\ down \in Seq(Proved!Reply)
    /\ link = NoAddr => up = << >> /\ down = << >> /\ ~served

ReaderSound == torn \in BOOLEAN /\ misread \in Nat

Sound == ServerSound /\ ClientSound /\ WireSound /\ ReaderSound

LEMMA SoundIsTyped == Sound => TypeOK
<1> SUFFICES ASSUME Sound PROVE TypeOK
  OBVIOUS
<1>1. Server!TypeOK /\ down \in Seq(Server!Reply)
  BY SameTypes DEF Sound, ServerSound, WireSound
<1>2. up \in Seq([kind : {"login", "task", "cancel"}, work : Work \cup {NoWork}])
  <2>1. Asked \cup {Login} \subseteq [kind : {"login", "task", "cancel"}, work : Work \cup {NoWork}]
    BY DEF Asked, Login, Request
  <2>2. up \in Seq(Asked \cup {Login})
    BY DEF Sound, WireSound
  <2> QED BY <2>1, <2>2, WiderQueue
<1>3. \A i \in 1..Len(guiEvents) : guiEvents[i] = Unconnected \/ guiEvents[i] \in Server!Reply
  BY SameTypes DEF Sound, ClientSound
<1> QED BY <1>1, <1>2, <1>3 DEF Sound, ClientSound, WireSound, ReaderSound, TypeOK

\* What the server does in a step of the composition.
ServerStep ==
    \/ UNCHANGED serverVars
    \/ \E a \in Addr : Proved!Connect(a) \/ Proved!Compute(a)
    \/ Proved!Deliver \/ Proved!HandleEvent
    \/ Proved!Posts

LEMMA ServerStaysSound ==
    ASSUME ClientServerAssumption, ServerSound, ServerStep
    PROVE  ServerSound'
<1> USE ServersAssumption DEF ServerSound
<1>1. CASE Proved!Posts
  BY <1>1, Proved!PostsAreTyped, Proved!PostsKeepCallOuts
<1>2. CASE ~Proved!Posts
  <2>1. [Proved!Next]_(Proved!vars)
    BY <1>2 DEF ServerStep, Proved!Next, Proved!Environment, Proved!vars, serverVars
  <2>2. Proved!CallOutsFindTheirTask
    BY DEF Proved!CallOuts
  <2> QED BY <2>1, <2>2, Proved!TypeStep, Proved!CallOutsStep
<1> QED BY <1>1, <1>2

\* A request that reaches the server.
LEMMA RequestIsPosted ==
    ASSUME Sound, ReadRequest, served
    PROVE  Proved!Posts
<1>1. /\ up # << >>
      /\ Server!Arrive(link, IF Head(up) = Login THEN "malformed" ELSE Head(up).kind,
                       Head(up).work)
      /\ UNCHANGED inputs
  BY DEF ReadRequest
<1>2. link \in Addr
  BY DEF Sound, WireSound
<1>3. Head(up) \in Asked \cup {Login}
  BY <1>1 DEF Sound, WireSound
<1>4. inputs' \in Nat
  BY <1>1 DEF Sound, ServerSound, Proved!TypeOK
<1>5. CASE Head(up) = Login
  BY <1>1, <1>2, <1>4, <1>5, SameNetActions DEF Proved!Posts, Login, Request
<1>6. CASE Head(up) # Login
  <2>1. \/ Head(up).kind = "cancel" /\ Head(up).work = NoWork
        \/ Head(up).kind = "task" /\ Head(up).work \in Work
    BY <1>3, <1>6 DEF Asked, Request
  <2>2. Proved!Arrive(link, Head(up).kind, Head(up).work)
    BY <1>1, <1>6, SameNetActions
  <2> QED BY <1>2, <1>4, <2>1, <2>2 DEF Proved!Posts
<1> QED BY <1>5, <1>6

LEMMA MisreadsAreReplies ==
    ASSUME Sound, NEW m \in Misreads
    PROVE  link # NoAddr => m \in Proved!Reply
BY DEF Misreads, Server!MakeReply, Proved!Reply, Proved!ReplyKind, Sound, WireSound

LEMMA ServerSteps ==
    ASSUME Sound, [Next]_vars
    PROVE  ServerStep
<1>1. CASE UNCHANGED serverVars
  BY <1>1 DEF ServerStep
<1>2. CASE ReadRequest
  <2>1. CASE served
    BY <2>1, <1>2, RequestIsPosted DEF ServerStep
  <2>2. CASE ~served /\ ~UNCHANGED serverVars
    <3>1. Server!Connect(link) /\ link # NoAddr
      BY <1>2, <2>2 DEF ReadRequest
    <3>2. link \in Addr
      BY <3>1 DEF Sound, WireSound
    <3> QED BY <3>1, <3>2, SameNetActions DEF ServerStep
  <2> QED BY <1>1, <2>1, <2>2
<1>3. CASE WriteReply \/ ServerMain
  BY <1>3, SameNetActions, SameHandlers DEF WriteReply, ServerMain, ServerStep
<1>4. ASSUME NEW a \in Addr, CloseSocket(a)
      PROVE  ServerStep
  <2>1. Proved!Leave(a) /\ inputs' \in Nat
    BY <1>4, SameNetActions DEF CloseSocket, Sound, ServerSound, Proved!TypeOK
  <2> QED BY <2>1 DEF ServerStep, Proved!Posts
<1>5. ASSUME NEW a \in Addr, ServerPool(a)
      PROVE  ServerStep
  BY <1>5, SamePoolActions DEF ServerPool, ServerStep
<1>6. CASE \/ Click \/ Window \/ Open \/ FailToOpen \/ LoginAgain \/ SendPosted \/ ReadReply
           \/ LoseLink \/ NoticeShut \/ UNCHANGED vars
  BY <1>1, <1>6 DEF Click, Window, Open, FailToOpen, LoginAgain, SendPosted, ReadReply,
                    LoseLink, NoticeShut, Drop, vars
<1> QED BY <1>2, <1>3, <1>4, <1>5, <1>6 DEF Next

LEMMA ClientStaysSound ==
    ASSUME ClientServerAssumption, Sound, [Next]_vars
    PROVE  ClientSound'
<1> USE DEF Sound, ClientSound
<1>0. opens \in Nat /\ clicks \in Nat /\ cancels \in Nat /\ MaxOpens \in Nat /\ MaxClicks \in Nat
  BY DEF ClientServerAssumption
<1>1. CASE UNCHANGED <<windowVars, guiEvents, posted, opens, userVars>>
  BY <1>1 DEF windowVars, userVars, WindowType
<1>2. CASE Click
  <2>1. UNCHANGED <<guiEvents, opens>> /\ clicks' \in 0..MaxClicks /\ cancels' \in 0..clicks'
    BY <1>0, <1>2 DEF Click, OnSendRequest, OnSendCancel
  <2>2. WindowType'
    BY <1>2 DEF Click, OnSendRequest, OnSendCancel, WindowType
  <2>3. \E m \in Asked : posted' = Append(posted, m)
    BY <1>2 DEF Click, OnSendRequest, OnSendCancel, Asked
  <2> QED BY <2>1, <2>2, <2>3
<1>3. CASE Window
  <2>1. guiEvents # << >> /\ guiEvents' = Tail(guiEvents) /\ UNCHANGED <<posted, opens, userVars>>
    BY <1>3 DEF Window, HandleGuiEvent, OnFinalReply, OnRefused, OnProgress,
                OnSocketStateChanged, Take
  <2>2. WindowType'
    BY <1>3 DEF Window, HandleGuiEvent, OnFinalReply, OnRefused, OnProgress,
                OnSocketStateChanged, ResetAwaitingState, WindowType, windowVars
  <2> QED BY <2>1, <2>2 DEF userVars
<1>4. CASE Open \/ LoginAgain
  BY <1>0, <1>4 DEF Open, LoginAgain, windowVars, userVars, WindowType
<1>5. CASE FailToOpen
  BY <1>0, <1>5 DEF FailToOpen, windowVars, userVars, WindowType
<1>6. CASE SendPosted
  BY <1>6 DEF SendPosted, windowVars, userVars, WindowType
<1>7. CASE ReadReply
  <2>1. Head(down) \in Proved!Reply /\ link # NoAddr
    BY <1>7, TakeHead DEF ReadReply, WireSound
  <2>2. guiEvents' = guiEvents \/ \E m \in Proved!Reply : guiEvents' = Append(guiEvents, m)
    BY <1>7, <2>1, MisreadsAreReplies DEF ReadReply
  <2>3. guiEvents' \in Seq(Proved!Reply \cup {Unconnected})
    BY <2>2, AddLast
  <2> QED BY <1>7, <2>3 DEF ReadReply, windowVars, userVars, WindowType
<1>8. CASE LoseLink \/ NoticeShut
  <2>1. /\ guiEvents' = Append(guiEvents, Unconnected)
        /\ UNCHANGED <<windowVars, posted, opens, userVars>>
    BY <1>8 DEF LoseLink, NoticeShut, Drop
  <2>2. guiEvents' \in Seq(Proved!Reply \cup {Unconnected})
    BY <2>1, AddLast
  <2> QED BY <2>1, <2>2 DEF windowVars, userVars, WindowType
<1>9. CASE ReadRequest \/ WriteReply \/ ServerMain
           \/ \E a \in Addr : CloseSocket(a) \/ ServerPool(a)
  <2>1. CASE ReadRequest
    BY <1>1, <2>1 DEF ReadRequest
  <2>2. CASE WriteReply
    BY <1>1, <2>2 DEF WriteReply
  <2>3. CASE ServerMain
    BY <1>1, <2>3 DEF ServerMain, netVars
  <2>4. ASSUME NEW a \in Addr, CloseSocket(a) \/ ServerPool(a)
        PROVE  ClientSound'
    BY <1>1, <2>4 DEF CloseSocket, ServerPool, netVars
  <2> QED BY <1>9, <2>1, <2>2, <2>3, <2>4
<1>10. CASE UNCHANGED vars
  BY <1>1, <1>10 DEF vars, netVars
<1> QED BY <1>2, <1>3, <1>4, <1>5, <1>6, <1>7, <1>8, <1>9, <1>10 DEF Next

\* Who is connected, for the server.
LEMMA ConnectedStays ==
    ASSUME ServerStep, ~Proved!Posts
    PROVE  connected \subseteq connected'
BY DEF ServerStep, serverVars, Proved!Connect, Proved!Compute, Proved!CompleteChunk,
       Proved!ReportFinished, Proved!Deliver, Proved!HandleEvent, Proved!RejectCorrupted,
       Proved!RejectUnknown, Proved!ReplyFromCache, Proved!RefuseSecondTask, Proved!StartTask,
       Proved!CancelNothing, Proved!CancelTask, Proved!OnClientDisconnected,
       Proved!OnProgressRange, Proved!OnProgressValue, Proved!OnFinished, Proved!envVars

LEMMA WireStaysSound ==
    ASSUME ClientServerAssumption, Sound, [Next]_vars
    PROVE  WireSound'
<1> USE DEF Sound, WireSound
<1>0. NoAddr \notin Addr
  BY DEF ClientServerAssumption
<1>1. CASE UNCHANGED <<up, down, link, served, connected>>
  BY <1>1
<1>2. CASE Click \/ Window \/ FailToOpen \/ UNCHANGED vars
  BY <1>1, <1>2 DEF Click, OnSendRequest, OnSendCancel, Window, HandleGuiEvent, OnFinalReply,
                    OnRefused, OnProgress, OnSocketStateChanged, FailToOpen, vars, netVars,
                    serverVars
<1>3. CASE Open
  BY <1>0, <1>3 DEF Open, serverVars
<1>4. CASE LoginAgain
  BY <1>4 DEF LoginAgain, serverVars
<1>5. CASE SendPosted
  <2>1. Head(posted) \in Asked
    BY <1>5 DEF SendPosted, ClientSound
  <2> QED BY <1>5, <2>1 DEF SendPosted, serverVars
<1>6. CASE ReadReply
  <2>1. down' = Tail(down) /\ down # << >> /\ UNCHANGED <<up, link, served, connected>>
    BY <1>6 DEF ReadReply, serverVars
  <2>2. down' \in Seq(Proved!Reply) /\ link # NoAddr
    BY <2>1, TakeHead
  <2> QED BY <2>1, <2>2
<1>7. CASE LoseLink \/ NoticeShut
  <2>1. up' = << >> /\ down' = << >> /\ link' = NoAddr /\ served' = FALSE
    BY <1>7 DEF LoseLink, NoticeShut, Drop
  <2> QED BY <2>1, EmptyQueue
<1>8. CASE ReadRequest
  <2>1. up # << >> /\ link # NoAddr /\ UNCHANGED <<down, link>>
    BY <1>8 DEF ReadRequest
  <2>2. up' = Tail(up) \/ up' = << >>
    BY <1>8 DEF ReadRequest
  <2>3. /\ served' \in BOOLEAN
        /\ served' => link \in connected'
    <3>0. /\ served \in BOOLEAN
          /\ served => link \in connected
      BY DEF Sound, WireSound
    <3> HIDE DEF Sound, WireSound
    <3>1. \/ connected' = connected \cup {link} /\ served' = TRUE
          \/ connected' = connected /\ served' = served
      BY <1>8 DEF ReadRequest, Server!Connect, Server!Arrive, serverVars
    <3>2. CASE connected' = connected \cup {link} /\ served' = TRUE
      BY <2>1, <3>2
    <3>3. CASE connected' = connected /\ served' = served
      <4>1. link' = link
        BY <2>1
      <4> QED BY <3>0, <3>3, <4>1
    <3> QED BY <3>1, <3>2, <3>3
  <2>4. up' \in Seq(Asked \cup {Login})
    BY <2>1, <2>2, TakeHead, EmptyQueue
  <2> QED BY <2>1, <2>3, <2>4
<1>9. CASE WriteReply
  <2>1. UNCHANGED <<up, link, served, connected>> /\ outbox # << >>
    BY <1>9 DEF WriteReply, Server!Deliver
  <2>2. Head(outbox) \in Proved!Reply
    BY <2>1 DEF ServerSound, Proved!TypeOK
  <2>3. down' = down \/ (served /\ down' = Append(down, Head(outbox)))
    BY <1>9 DEF WriteReply
  <2> QED BY <2>1, <2>2, <2>3
<1>10. CASE ServerMain \/ \E a \in Addr : ServerPool(a)
  <2>1. UNCHANGED netVars
    BY <1>10 DEF ServerMain, ServerPool
  <2>2. connected' = connected
    BY <1>10, SameHandlers, SamePoolActions
       DEF ServerMain, ServerPool, Proved!Compute, Proved!CompleteChunk,
           Proved!ReportFinished, Proved!HandleEvent, Proved!RejectCorrupted,
           Proved!RejectUnknown, Proved!ReplyFromCache, Proved!RefuseSecondTask,
           Proved!StartTask, Proved!CancelNothing, Proved!CancelTask,
           Proved!OnClientDisconnected, Proved!OnProgressRange, Proved!OnProgressValue,
           Proved!OnFinished, Proved!envVars
  <2> QED BY <1>1, <2>1, <2>2 DEF netVars
<1>11. ASSUME NEW a \in Addr, CloseSocket(a)
       PROVE  WireSound'
  <2>1. /\ UNCHANGED <<down, link>> /\ connected' = connected \ {a}
        /\ served' = (served /\ a # link)
        /\ up' = IF served /\ a = link THEN << >> ELSE up
    BY <1>11 DEF CloseSocket, Server!Leave
  <2>2. /\ served' \in BOOLEAN
        /\ served' => link \in connected'
    BY <2>1
  <2>3. up' \in Seq(Asked \cup {Login})
    BY <2>1
  <2> QED BY <2>1, <2>2, <2>3
<1> QED BY <1>2, <1>3, <1>4, <1>5, <1>6, <1>7, <1>8, <1>9, <1>10, <1>11 DEF Next

LEMMA ReaderStaysSound ==
    ASSUME Sound, [Next]_vars
    PROVE  ReaderSound'
<1> USE DEF Sound, ReaderSound
<1>1. CASE UNCHANGED readVars
  BY <1>1 DEF readVars
<1>2. CASE ReadReply
  BY <1>2 DEF ReadReply
<1>3. CASE Drop
  BY <1>3 DEF Drop
<1>4. CASE UNCHANGED netVars
  BY <1>1, <1>4 DEF netVars
<1> QED BY <1>1, <1>2, <1>3, <1>4
        DEF Next, Click, Window, Open, FailToOpen, LoginAgain, SendPosted, LoseLink, NoticeShut,
            ReadRequest, WriteReply, ServerMain, CloseSocket, ServerPool, vars

LEMMA AlwaysSound == ClientServerAssumption => (Spec => []Sound)
<1> SUFFICES ASSUME ClientServerAssumption PROVE Spec => []Sound
  OBVIOUS
<1>1. Init => Sound
  <2> SUFFICES ASSUME Init PROVE Sound
    OBVIOUS
  <2>1. ServerSound
    <3>1. Proved!Init
      BY SameInit DEF Init
    <3>2. Proved!TypeOK
      BY <3>1 DEF Proved!Init, Proved!TypeOK
    <3>3. Proved!CallOuts
      BY <3>1 DEF Proved!Init, Proved!CallOuts, Proved!CallOutsFindTheirTask,
                  Proved!FinishedComesLast
    <3> QED BY <3>2, <3>3 DEF ServerSound
  <2>2. ClientSound
    <3>1. WindowType
      BY DEF Init, WindowInit, WindowType
    <3>2. opens \in 0..MaxOpens /\ clicks \in 0..MaxClicks /\ cancels \in 0..clicks
      BY DEF Init, ClientServerAssumption
    <3>3. posted = << >> /\ guiEvents = << >>
      BY DEF Init, WindowInit
    <3> QED BY <3>1, <3>2, <3>3, EmptyQueue DEF ClientSound
  <2>3. WireSound
    BY EmptyQueue DEF Init, WireSound
  <2>4. ReaderSound
    BY DEF Init, ReaderSound
  <2> QED BY <2>1, <2>2, <2>3, <2>4 DEF Sound
<1>2. Sound /\ [Next]_vars => Sound'
  BY ServerSteps, ServerStaysSound, ClientStaysSound, WireStaysSound, ReaderStaysSound
     DEF Sound
<1> QED BY <1>1, <1>2, PTL DEF Spec

\* The state of the two programs and of what is between them stays what its
\* declarations say, on every connection: the addresses that come back included.
THEOREM ClientServerTypeCorrect == ClientServerAssumption => (Spec => []TypeOK)
<1> SUFFICES ASSUME ClientServerAssumption PROVE Spec => []TypeOK
  OBVIOUS
<1> QED BY AlwaysSound, SoundIsTyped, PTL

-----------------------------------------------------------------------------
(* The requests that are not answered yet.                                  *)

\* The events that ask something of the server, and the replies that may unblock
\* the window or end a task.
Asks == {e \in Proved!Event : e.kind \in Proved!MessageKind}
Ends == {m \in Proved!Reply : m.kind \notin {"range", "progress"}}

\* What leads to such a reply, on the server and on the way.
ServerLoad == Count(events, Asks) + Cardinality(DOMAIN taskMap) + Count(outbox, Ends)

ServerCounts ==
    /\ IsFiniteSet(DOMAIN taskMap)
    /\ Cardinality(DOMAIN taskMap) \in Nat
    /\ Count(events, Asks) \in Nat /\ Count(outbox, Ends) \in Nat

LEMMA ServerCountsType ==
    ASSUME ServerSound, IsFiniteSet(DOMAIN taskMap)
    PROVE  ServerCounts
<1>1. events \in Seq(Proved!Event) /\ outbox \in Seq(Proved!Reply)
  BY DEF ServerSound, Proved!TypeOK
<1> QED BY <1>1, CountType, FS_CardinalityType DEF ServerCounts

\* A message is replaced by a task or by its reply, and a task by its last reply.
LEMMA ServerLoadAfterEvent ==
    ASSUME ServerSound, ServerCounts, Proved!HandleEvent
    PROVE  IsFiniteSet(DOMAIN taskMap') /\ ServerLoad' <= ServerLoad
<1> DEFINE e == Head(events)
<1> USE DEF ServerCounts
<1>1. events \in Seq(Proved!Event) /\ outbox \in Seq(Proved!Reply)
  BY DEF ServerSound, Proved!TypeOK
<1>2. ASSUME NEW K, Proved!Dispatch(K)
      PROVE  /\ Count(events', Asks) \in Nat
             /\ Count(events', Asks) = Count(events, Asks) - One(e \in Asks)
             /\ e.kind \in Proved!MessageKind => e \in Asks
             /\ e.kind \in K /\ e = events[1] /\ 1 \in 1..Len(events)
  <2>1. events # << >> /\ events' = Tail(events) /\ e.kind \in K
    BY <1>2 DEF Proved!Dispatch
  <2>2. /\ e \in Proved!Event /\ e = events[1] /\ 1 \in 1..Len(events)
        /\ Tail(events) \in Seq(Proved!Event)
    BY <1>1, <2>1, TakeHead
  <2>3. Count(events', Asks) = Count(events, Asks) - One(e \in Asks)
    BY <1>1, <2>1, CountTail
  <2>4. Count(events', Asks) \in Nat
    BY <2>1, <2>2, CountType
  <2> QED BY <2>1, <2>2, <2>3, <2>4 DEF Asks
<1>3. ASSUME NEW m, outbox' = Append(outbox, m)
      PROVE  /\ Count(outbox', Ends) \in Nat
             /\ Count(outbox', Ends) = Count(outbox, Ends) + One(m \in Ends)
  <2>1. Count(outbox', Ends) = Count(outbox, Ends) + One(m \in Ends)
    BY <1>1, <1>3, CountAppendAny
  <2> QED BY <2>1 DEF One
<1> HIDE DEF e
<1>4. CASE \/ Proved!RejectCorrupted \/ Proved!RejectUnknown \/ Proved!ReplyFromCache
           \/ Proved!RefuseSecondTask \/ Proved!CancelNothing
  <2>1. PICK K : Proved!Dispatch(K) /\ K \subseteq Proved!MessageKind
    BY <1>4 DEF Proved!RejectCorrupted, Proved!RejectUnknown, Proved!ReplyFromCache,
                Proved!RefuseSecondTask, Proved!CancelNothing, Proved!MessageKind
  <2>2. PICK m : outbox' = Append(outbox, m)
    BY <1>4 DEF Proved!RejectCorrupted, Proved!RejectUnknown, Proved!ReplyFromCache,
                Proved!RefuseSecondTask, Proved!CancelNothing, Proved!Answer, Proved!Send
  <2>3. taskMap' = taskMap
    BY <1>4 DEF Proved!RejectCorrupted, Proved!RejectUnknown, Proved!ReplyFromCache,
                Proved!RefuseSecondTask, Proved!CancelNothing
  <2>4. Count(events', Asks) = Count(events, Asks) - 1
    BY <1>2, <2>1 DEF One
  <2>5. Count(outbox', Ends) <= Count(outbox, Ends) + 1 /\ Count(outbox', Ends) \in Nat
    BY <1>3, <2>2 DEF One
  <2> QED BY <2>3, <2>4, <2>5 DEF ServerLoad
<1>5. ASSUME NEW K, Proved!Dispatch(K), DOMAIN taskMap' = DOMAIN taskMap,
             \/ outbox' = outbox
             \/ \E m : outbox' = Append(outbox, m) /\ m \notin Ends
      PROVE  IsFiniteSet(DOMAIN taskMap') /\ ServerLoad' <= ServerLoad
  <2>1. Count(outbox', Ends) = Count(outbox, Ends)
    BY <1>3, <1>5 DEF One
  <2>2. Count(events', Asks) \in Nat /\ Count(events', Asks) <= Count(events, Asks)
    BY <1>2, <1>5 DEF One
  <2> QED BY <1>5, <2>1, <2>2 DEF ServerLoad
<1>6. CASE Proved!CancelTask \/ Proved!OnClientDisconnected
  <2>1. DOMAIN taskMap' = DOMAIN taskMap /\ outbox' = outbox
    BY <1>6 DEF Proved!CancelTask, Proved!OnClientDisconnected, Proved!MarkCanceled
  <2> QED BY <1>5, <1>6, <2>1 DEF Proved!CancelTask, Proved!OnClientDisconnected
<1>7. CASE Proved!OnProgressRange \/ Proved!OnProgressValue
  <2>1. \A a, t, v : /\ Proved!MakeReply(a, "range", NoWork, t, v) \notin Ends
                     /\ Proved!MakeReply(a, "progress", NoWork, t, v) \notin Ends
    BY DEF Proved!MakeReply, Ends
  <2>2. \/ outbox' = outbox
        \/ \E m : outbox' = Append(outbox, m) /\ m \notin Ends
    BY <1>7, <2>1 DEF Proved!OnProgressRange, Proved!OnProgressValue, Proved!Send
  <2> QED BY <1>5, <1>7, <2>2 DEF Proved!OnProgressRange, Proved!OnProgressValue
<1>8. CASE Proved!OnFinished
  <2>1. /\ Proved!Dispatch({"finished"}) /\ DOMAIN taskMap' = DOMAIN taskMap \ {e.addr}
        /\ \E m : outbox' = Append(outbox, m)
    BY <1>8 DEF Proved!OnFinished, Proved!Answer, Proved!Send, e
  <2>2. e.addr \in DOMAIN taskMap
    BY <1>2, <2>1 DEF ServerSound, Proved!CallOuts, Proved!CallOutsFindTheirTask,
                      Proved!FromWatcher, Proved!WatcherKind, Proved!HasTask
  <2>3. /\ IsFiniteSet(DOMAIN taskMap')
        /\ Cardinality(DOMAIN taskMap') = Cardinality(DOMAIN taskMap) - 1
    BY <2>1, <2>2, FS_RemoveElement
  <2>4. Count(outbox', Ends) <= Count(outbox, Ends) + 1 /\ Count(outbox', Ends) \in Nat
    BY <1>3, <2>1 DEF One
  <2>5. Count(events', Asks) \in Nat /\ Count(events', Asks) <= Count(events, Asks)
    BY <1>2, <2>1 DEF One
  <2> QED BY <2>3, <2>4, <2>5 DEF ServerLoad
<1>9. CASE Proved!StartTask
  <2>1. /\ events # << >> /\ e.kind = "task" /\ outbox' = outbox
        /\ \E k : /\ DOMAIN taskMap' = DOMAIN taskMap \cup {e.addr}
                  /\ events' = Append(Append(Tail(events),
                         Proved!CallOut("range", e.addr, nextTask, Chunks[e.work])),
                         Proved!CallOut("progress", e.addr, nextTask, k))
    BY <1>9 DEF Proved!StartTask, e
  <2>2. PICK k : /\ DOMAIN taskMap' = DOMAIN taskMap \cup {e.addr}
                 /\ events' = Append(Append(Tail(events),
                         Proved!CallOut("range", e.addr, nextTask, Chunks[e.work])),
                         Proved!CallOut("progress", e.addr, nextTask, k))
    BY <2>1
  <2> DEFINE x == Proved!CallOut("range", e.addr, nextTask, Chunks[e.work])
             y == Proved!CallOut("progress", e.addr, nextTask, k)
  <2>3. x \notin Asks /\ y \notin Asks
    BY DEF Proved!CallOut, Asks, Proved!MessageKind
  <2>4. e \in Asks /\ Tail(events) \in Seq(Proved!Event)
    BY <1>1, <2>1, TakeHead DEF Asks, Proved!MessageKind, e
  <2>5. Count(Tail(events), Asks) = Count(events, Asks) - 1
    BY <1>1, <2>1, <2>4, CountTail DEF One, e
  <2> HIDE DEF x, y
  <2>6. Count(Append(Tail(events), x), Asks) = Count(Tail(events), Asks) + One(x \in Asks)
    BY <2>4, CountAppendAny
  <2>7. Append(Tail(events), x) \in Seq(Proved!Event \cup {x})
    <3>1. Tail(events) \in Seq(Proved!Event \cup {x})
      BY <2>4, WiderQueue
    <3> QED BY <3>1, AddLast
  <2>8. Count(Append(Append(Tail(events), x), y), Asks)
            = Count(Append(Tail(events), x), Asks) + One(y \in Asks)
    BY <2>7, CountAppendAny
  <2>9. /\ IsFiniteSet(DOMAIN taskMap') /\ Cardinality(DOMAIN taskMap') \in Nat
        /\ Cardinality(DOMAIN taskMap') <= Cardinality(DOMAIN taskMap) + 1
    <3>1. /\ IsFiniteSet(DOMAIN taskMap \cup {e.addr})
          /\ Cardinality(DOMAIN taskMap \cup {e.addr}) =
                 IF e.addr \in DOMAIN taskMap
                 THEN Cardinality(DOMAIN taskMap) ELSE Cardinality(DOMAIN taskMap) + 1
      BY FS_AddElement
    <3> QED BY <2>2, <3>1
  <2>10. Count(events', Asks) = Count(events, Asks) - 1
    <3>1. One(x \in Asks) = 0 /\ One(y \in Asks) = 0
      BY <2>3 DEF One
    <3>2. events' = Append(Append(Tail(events), x), y)
      BY <2>2 DEF x, y
    <3> QED BY <2>5, <2>6, <2>8, <3>1, <3>2
  <2> QED BY <2>1, <2>9, <2>10 DEF ServerLoad
<1> QED BY <1>4, <1>6, <1>7, <1>8, <1>9 DEF Proved!HandleEvent

\* The pool posts call-outs only.
LEMMA ServerLoadAfterPool ==
    ASSUME ServerSound, ServerCounts, NEW a, Proved!Compute(a)
    PROVE  IsFiniteSet(DOMAIN taskMap') /\ ServerLoad' <= ServerLoad
<1>1. events \in Seq(Proved!Event)
  BY DEF ServerSound, Proved!TypeOK
<1>2. DOMAIN taskMap' = DOMAIN taskMap /\ outbox' = outbox
  BY DEF Proved!Compute, Proved!CompleteChunk, Proved!ReportFinished
<1>3. \A k \in {"progress", "finished"} : \A t, v : Proved!CallOut(k, a, t, v) \notin Asks
  BY DEF Proved!CallOut, Asks, Proved!MessageKind
<1>4. events' = events \/ \E x : events' = Append(events, x) /\ x \notin Asks
  BY <1>3 DEF Proved!Compute, Proved!CompleteChunk, Proved!ReportFinished
<1>5. Count(events', Asks) = Count(events, Asks)
  <2>1. ASSUME NEW x, events' = Append(events, x), x \notin Asks
        PROVE  Count(events', Asks) = Count(events, Asks)
    BY <1>1, <2>1, CountAppendAny DEF One, ServerCounts
  <2> QED BY <1>4, <2>1
<1> QED BY <1>2, <1>5 DEF ServerLoad, ServerCounts

\* The first login of a connection is not one too many.
LoginLeads == ~served /\ up # << >> /\ Head(up) = Login

WireLoad == Len(up) - One(LoginLeads) + Count(down, Ends)

ClientLoad == Len(posted) + Count(guiEvents, Ends \cup {Unconnected})

Credit == One(~sendEnabled) + cancels + misread + Lost

Accounted ==
    /\ IsFiniteSet(DOMAIN taskMap)
    /\ ServerLoad + WireLoad + ClientLoad <= Credit

LoadsAreNumbers ==
    /\ ServerCounts
    /\ ServerLoad \in Nat /\ WireLoad \in Nat /\ ClientLoad \in Nat /\ Credit \in Int
    /\ Len(up) \in Nat /\ Len(posted) \in Nat
    /\ Count(down, Ends) \in Nat /\ Count(guiEvents, Ends \cup {Unconnected}) \in Nat

LEMMA LoadTypes ==
    ASSUME Sound, IsFiniteSet(DOMAIN taskMap)
    PROVE  LoadsAreNumbers
<1>1. ServerCounts
  BY ServerCountsType DEF Sound
<1>2. /\ Len(up) \in Nat /\ Len(posted) \in Nat
      /\ Count(down, Ends) \in Nat /\ Count(guiEvents, Ends \cup {Unconnected}) \in Nat
  BY CountType DEF Sound, WireSound, ClientSound
<1>3. WireLoad \in Nat
  <2>1. LoginLeads => Len(up) # 0
    BY DEF LoginLeads, Sound, WireSound
  <2>2. One(LoginLeads) \in {0, 1} /\ (One(LoginLeads) = 1 => Len(up) # 0)
    BY <2>1 DEF One
  <2> QED BY <1>2, <2>2 DEF WireLoad
<1>4. Credit \in Int
  BY DEF Credit, One, Lost, Sound, ClientSound, ReaderSound
<1> QED BY <1>1, <1>2, <1>3, <1>4 DEF LoadsAreNumbers, ServerLoad, ServerCounts, ClientLoad

\* What the server itself does, with what it is given and what is taken from it.
LEMMA ServerLoadAfterPost ==
    ASSUME ServerSound, ServerCounts, NEW x, events' = Append(events, x),
           UNCHANGED <<taskMap, outbox>>
    PROVE  ServerLoad' = ServerLoad + One(x \in Asks)
<1>1. events \in Seq(Proved!Event)
  BY DEF ServerSound, Proved!TypeOK
<1>2. Count(events', Asks) = Count(events, Asks) + One(x \in Asks)
  BY <1>1, CountAppendAny
<1>3. One(x \in Asks) \in {0, 1}
  BY DEF One
<1> QED BY <1>2, <1>3 DEF ServerLoad, ServerCounts

LEMMA ServerLoadAfterDeliver ==
    ASSUME ServerSound, ServerCounts, Proved!Deliver
    PROVE  ServerLoad' = ServerLoad - One(Head(outbox) \in Ends)
<1>1. outbox \in Seq(Proved!Reply) /\ outbox # << >> /\ outbox' = Tail(outbox)
  BY DEF ServerSound, Proved!TypeOK, Proved!Deliver
<1>2. Count(outbox', Ends) = Count(outbox, Ends) - One(Head(outbox) \in Ends)
  BY <1>1, CountTail
<1>3. One(Head(outbox) \in Ends) \in {0, 1}
  BY DEF One
<1> QED BY <1>2, <1>3 DEF ServerLoad, ServerCounts, Proved!Deliver

\* A bit more on the client's side, and no less credit for it.
LEMMA ClickIsAccounted ==
    ASSUME Sound, LoadsAreNumbers, Click
    PROVE  /\ UNCHANGED <<ServerLoad, WireLoad>>
           /\ ClientLoad' = ClientLoad + 1 /\ Credit' = Credit + 1
<1>1. UNCHANGED <<events, taskMap, outbox, up, down, served, guiEvents, opens, link, misread>>
  BY DEF Click, OnSendRequest, OnSendCancel, serverVars, readVars
<1>2. UNCHANGED <<ServerLoad, WireLoad>>
  BY <1>1 DEF ServerLoad, WireLoad, LoginLeads
<1>3. Len(posted') = Len(posted) + 1
  <2>1. \E m \in Asked : posted' = Append(posted, m)
    BY DEF Click, OnSendRequest, OnSendCancel, Asked
  <2> QED BY <2>1, AddLast DEF Sound, ClientSound
<1>4. ClientLoad' = ClientLoad + 1
  BY <1>1, <1>3 DEF ClientLoad, LoadsAreNumbers
<1>5. opens \in Nat /\ cancels \in Nat /\ misread \in Nat
  BY DEF Sound, ClientSound, ReaderSound
<1>6. Lost' = Lost /\ Lost \in Int
  BY <1>1, <1>5 DEF Lost
<1>7. CASE OnSendRequest /\ cancels' = cancels
  <2>1. sendEnabled /\ sendEnabled' = FALSE
    BY <1>7 DEF OnSendRequest
  <2>2. One(~sendEnabled) = 0 /\ One(~sendEnabled') = 1
    BY <2>1 DEF One
  <2> QED BY <1>1, <1>2, <1>4, <1>5, <1>6, <1>7, <2>2 DEF Credit
<1>8. CASE OnSendCancel /\ cancels' = cancels + 1
  <2>1. One(~sendEnabled') = One(~sendEnabled) /\ One(~sendEnabled) \in {0, 1}
    BY <1>8 DEF OnSendCancel, One
  <2> QED BY <1>1, <1>2, <1>4, <1>5, <1>6, <1>8, <2>1 DEF Credit
<1> QED BY <1>7, <1>8 DEF Click

\* Whatever unblocks the window is counted until then.
LEMMA WindowIsAccounted ==
    ASSUME Sound, LoadsAreNumbers, Window
    PROVE  /\ UNCHANGED <<ServerLoad, WireLoad>>
           /\ ClientLoad' - ClientLoad <= Credit' - Credit
<1> DEFINE e == Head(guiEvents)
           E == Ends \cup {Unconnected}
<1>1. UNCHANGED <<events, taskMap, outbox, up, down, served, posted, opens, link, cancels,
                  misread>>
  BY DEF Window, HandleGuiEvent, OnFinalReply, OnRefused, OnProgress, OnSocketStateChanged,
         serverVars, userVars, readVars
<1>2. UNCHANGED <<ServerLoad, WireLoad>>
  BY <1>1 DEF ServerLoad, WireLoad, LoginLeads
<1>3. guiEvents # << >> /\ guiEvents' = Tail(guiEvents)
  BY DEF Window, HandleGuiEvent, OnFinalReply, OnRefused, OnProgress, OnSocketStateChanged, Take
<1>4. guiEvents \in Seq(Proved!Reply \cup {Unconnected})
  BY DEF Sound, ClientSound
<1>5. e \in Proved!Reply \cup {Unconnected}
  BY <1>3, <1>4, TakeHead
<1>6. Count(guiEvents', E) = Count(guiEvents, E) - One(e \in E)
  BY <1>3, <1>4, CountTail
<1> HIDE DEF e
<1>7. ClientLoad' = ClientLoad - One(e \in E)
  <2>1. One(e \in E) \in {0, 1}
    BY DEF One
  <2> HIDE DEF E
  <2> QED BY <1>1, <1>6, <2>1 DEF ClientLoad, LoadsAreNumbers, E
<1>8. opens \in Nat /\ cancels \in Nat /\ misread \in Nat
  BY DEF Sound, ClientSound, ReaderSound
<1>9. Lost' = Lost /\ Lost \in Int
  BY <1>1, <1>8 DEF Lost
<1>10. CASE e \in E /\ sendEnabled' = TRUE
  <2>1. One(e \in E) = 1 /\ One(~sendEnabled') = 0 /\ One(~sendEnabled) \in {0, 1}
    BY <1>10 DEF One
  <2> QED BY <1>1, <1>2, <1>7, <1>8, <1>9, <2>1 DEF Credit, LoadsAreNumbers
<1>11. CASE sendEnabled' = sendEnabled
  <2>1. Credit' = Credit /\ Credit \in Int
    BY <1>1, <1>9, <1>11 DEF Credit, LoadsAreNumbers
  <2>2. One(e \in E) \in {0, 1}
    BY DEF One
  <2> QED BY <1>2, <1>7, <2>1, <2>2 DEF LoadsAreNumbers
<1>12. CASE OnFinalReply
  <2>1. e.kind \in {"result", "canceled", "CorruptedData", "InvalidRequestType"}
        /\ sendEnabled' = TRUE
    BY <1>12 DEF OnFinalReply, Take, ResetAwaitingState, e
  <2>2. e \in E
    BY <1>5, <2>1 DEF Ends
  <2> QED BY <1>10, <2>1, <2>2
<1>13. CASE OnSocketStateChanged
  <2>1. e.kind = "Unconnected" /\ sendEnabled' = TRUE
    BY <1>13 DEF OnSocketStateChanged, Take, ResetAwaitingState, e
  <2>2. e \notin Proved!Reply
    BY <2>1 DEF Proved!Reply, Proved!ReplyKind
  <2> QED BY <1>5, <1>10, <2>1, <2>2
<1>14. CASE OnRefused \/ OnProgress
  BY <1>11, <1>14 DEF OnRefused, OnProgress, windowVars
<1> QED BY <1>12, <1>13, <1>14 DEF Window, HandleGuiEvent

\* What goes from one of the four threads to the next.
ServerUnmoved == UNCHANGED <<events, taskMap, outbox>>

LEMMA UnmovedLoad ==
    ASSUME ServerUnmoved
    PROVE  ServerLoad' = ServerLoad
BY DEF ServerUnmoved, ServerLoad


\* Whatever leads to a connection or not: one credit for each attempt in vain.
LEMMA OpeningIsAccounted ==
    ASSUME ClientServerAssumption, Sound, LoadsAreNumbers, Open \/ FailToOpen \/ LoginAgain
    PROVE  /\ ServerLoad' = ServerLoad
           /\ WireLoad' - WireLoad + (ClientLoad' - ClientLoad) <= Credit' - Credit
<1>1. ServerLoad' = ServerLoad
  BY UnmovedLoad DEF Open, FailToOpen, LoginAgain, serverVars, ServerUnmoved
<1>2. /\ opens \in Nat /\ cancels \in Nat /\ misread \in Nat
      /\ opens' = opens + 1 /\ UNCHANGED <<sendEnabled, cancels, misread>>
  BY DEF Sound, ClientSound, ReaderSound, Open, FailToOpen, LoginAgain, windowVars, userVars,
         readVars
<1>3. One(~sendEnabled') = One(~sendEnabled) /\ One(~sendEnabled) \in {0, 1}
  BY <1>2 DEF One
<1>4. CASE Open
  <2>1. link = NoAddr /\ link' \in Addr /\ up' = <<Login>> /\ down' = << >> /\ served' = served
        /\ UNCHANGED <<guiEvents, posted>>
    BY <1>4 DEF Open
  <2>2. Lost' = Lost /\ Lost \in Int
    BY <1>2, <2>1 DEF Lost, ClientServerAssumption
  <2>3. ~served
    BY <2>1 DEF Sound, WireSound
  <2>4. LoginLeads'
    BY <2>1, <2>3 DEF LoginLeads
  <2>5. Len(up') = 1 /\ Count(down', Ends) = 0 /\ One(LoginLeads') = 1
    BY <2>1, <2>4, CountEmpty DEF One
  <2>6. WireLoad' = 0
    BY <2>5 DEF WireLoad
  <2>7. ClientLoad' = ClientLoad
    BY <2>1 DEF ClientLoad
  <2>8. Credit' = Credit
    BY <1>2, <1>3, <2>2 DEF Credit
  <2> QED BY <1>1, <2>6, <2>7, <2>8 DEF LoadsAreNumbers
<1>5. CASE FailToOpen
  <2>1. link = NoAddr /\ guiEvents' = Append(guiEvents, Unconnected)
        /\ UNCHANGED <<up, down, link, served, posted>>
    BY <1>5 DEF FailToOpen
  <2>2. Lost' = Lost + 1 /\ Lost \in Int
    BY <1>2, <2>1 DEF Lost
  <2>3. Count(guiEvents', Ends \cup {Unconnected}) = Count(guiEvents, Ends \cup {Unconnected}) + 1
    BY <2>1, CountAppendAny DEF One, Sound, ClientSound
  <2>4. WireLoad' = WireLoad
    BY <2>1 DEF WireLoad, LoginLeads
  <2>5. ClientLoad' = ClientLoad + 1
    BY <2>1, <2>3 DEF ClientLoad, LoadsAreNumbers
  <2>6. Credit' = Credit + 1
    BY <1>2, <1>3, <2>2 DEF Credit
  <2> QED BY <1>1, <2>4, <2>5, <2>6 DEF LoadsAreNumbers
<1>6. CASE LoginAgain
  <2>1. link # NoAddr /\ ~Shut /\ up' = Append(up, Login)
        /\ UNCHANGED <<guiEvents, posted, down, link, served>>
    BY <1>6 DEF LoginAgain
  <2>2. Lost' = Lost + 1 /\ Lost \in Int
    BY <1>2, <2>1 DEF Lost
  <2>3. up \in Seq(Asked \cup {Login})
    BY DEF Sound, WireSound
  <2>4. Len(up') = Len(up) + 1
    BY <2>1, <2>3, AddLast
  <2>5. LoginLeads' = LoginLeads
    <3>1. CASE served
      BY <2>1, <3>1 DEF LoginLeads
    <3>2. CASE ~served
      <4>1. up # << >>
        BY <2>1, <3>2 DEF Shut
      <4>2. Head(up') = Head(up) /\ up' # << >>
        BY <2>1, <2>3, <4>1, TakeHead, AddLast
      <4> QED BY <2>1, <4>1, <4>2 DEF LoginLeads
    <3> QED BY <3>1, <3>2
  <2>6. One(LoginLeads') = One(LoginLeads) /\ One(LoginLeads) \in {0, 1}
    BY <2>5 DEF One
  <2>7. WireLoad' = WireLoad + 1
    BY <2>1, <2>4, <2>6 DEF WireLoad, LoadsAreNumbers
  <2>8. ClientLoad' = ClientLoad
    BY <2>1 DEF ClientLoad
  <2>9. Credit' = Credit + 1
    BY <1>2, <1>3, <2>2 DEF Credit
  <2> QED BY <1>1, <2>7, <2>8, <2>9 DEF LoadsAreNumbers
<1> QED BY <1>4, <1>5, <1>6

LEMMA LosingIsAccounted ==
    ASSUME ClientServerAssumption, Sound, LoadsAreNumbers, LoseLink \/ NoticeShut
    PROVE  /\ ServerLoad' = ServerLoad
           /\ WireLoad' - WireLoad + (ClientLoad' - ClientLoad) <= Credit' - Credit
<1>1. /\ link # NoAddr /\ link' = NoAddr /\ up' = << >> /\ down' = << >> /\ served' = FALSE
      /\ guiEvents' = Append(guiEvents, Unconnected)
      /\ UNCHANGED <<windowVars, posted, serverVars, misread, opens, userVars>>
  BY DEF LoseLink, NoticeShut, Shut, Drop
<1>2. ServerLoad' = ServerLoad
  BY <1>1, UnmovedLoad DEF serverVars, ServerUnmoved
<1>3. WireLoad' = 0
  <2>1. ~LoginLeads'
    BY <1>1 DEF LoginLeads
  <2>2. Len(up') = 0 /\ Count(down', Ends) = 0 /\ One(LoginLeads') = 0
    BY <1>1, <2>1, CountEmpty DEF One
  <2> QED BY <2>2 DEF WireLoad
<1>4. ClientLoad' = ClientLoad + 1
  <2>1. Count(guiEvents', Ends \cup {Unconnected}) = Count(guiEvents, Ends \cup {Unconnected}) + 1
    BY <1>1, CountAppendAny DEF One, Sound, ClientSound
  <2> QED BY <1>1, <2>1 DEF ClientLoad, LoadsAreNumbers
<1>5. Credit' = Credit + 1
  <2>1. /\ opens \in Nat /\ cancels \in Nat /\ misread \in Nat
        /\ UNCHANGED <<sendEnabled, cancels, misread, opens>>
    BY <1>1 DEF Sound, ClientSound, ReaderSound, windowVars, userVars
  <2>2. Lost' = Lost + 1 /\ Lost \in Int
    BY <1>1, <2>1 DEF Lost
  <2>3. One(~sendEnabled') = One(~sendEnabled) /\ One(~sendEnabled) \in {0, 1}
    BY <2>1 DEF One
  <2> QED BY <2>1, <2>2, <2>3 DEF Credit
<1> QED BY <1>2, <1>3, <1>4, <1>5 DEF LoadsAreNumbers

\* A message goes from one queue to the next, or is lost.
LEMMA SendingIsAccounted ==
    ASSUME Sound, LoadsAreNumbers, SendPosted
    PROVE  WireLoad' + ClientLoad' <= WireLoad + ClientLoad
<1>1. /\ posted # << >> /\ posted' = Tail(posted)
      /\ up' = up \/ up' = Append(up, Head(posted))
      /\ UNCHANGED <<guiEvents, down, served>>
  BY DEF SendPosted
<1>2. posted \in Seq(Asked) /\ up \in Seq(Asked \cup {Login})
  BY DEF Sound, WireSound, ClientSound
<1>3. Len(posted') = Len(posted) - 1 /\ Head(posted) \in Asked
  BY <1>1, <1>2, TakeHead
<1>4. ClientLoad' = ClientLoad - 1
  BY <1>1, <1>3 DEF ClientLoad, LoadsAreNumbers
<1>5. WireLoad' = WireLoad \/ WireLoad' = WireLoad + 1
  <2>1. CASE up' = up
    BY <1>1, <2>1 DEF WireLoad, LoginLeads, LoadsAreNumbers
  <2>2. CASE up' = Append(up, Head(posted))
    <3>1. Len(up') = Len(up) + 1
      BY <1>2, <1>3, <2>2, AddLast
    <3>2. LoginLeads' <=> LoginLeads
      <4>1. CASE up = << >>
        <5>1. Head(up') = Head(posted)
          BY <1>3, <2>2, <4>1
        <5>2. Head(posted) # Login
          BY <1>3 DEF Asked, Login, Request
        <5> QED BY <4>1, <5>1, <5>2 DEF LoginLeads
      <4>2. CASE up # << >>
        <5>1. Head(up') = Head(up) /\ up' # << >>
          BY <1>2, <1>3, <2>2, <4>2, TakeHead, AddLast
        <5> QED BY <1>1, <4>2, <5>1 DEF LoginLeads
      <4> QED BY <4>1, <4>2
    <3>3. One(LoginLeads') = One(LoginLeads) /\ One(LoginLeads) \in {0, 1}
      BY <3>2 DEF One
    <3> QED BY <1>1, <3>1, <3>3 DEF WireLoad, LoadsAreNumbers
  <2> QED BY <1>1, <2>1, <2>2
<1>6. WireLoad \in Int /\ ClientLoad \in Int
  BY DEF LoadsAreNumbers
<1> QED BY <1>4, <1>5, <1>6

\* A reply that is read is a load no longer, and a message that no reply was is a
\* new one, and a credit.
LEMMA ReadingIsAccounted ==
    ASSUME Sound, LoadsAreNumbers, ReadReply
    PROVE  WireLoad' - WireLoad + (ClientLoad' - ClientLoad) <= misread' - misread
<1> DEFINE m == Head(down)
           E == Ends \cup {Unconnected}
<1>1. /\ down # << >> /\ down' = Tail(down)
      /\ UNCHANGED <<posted, up, served>>
  BY DEF ReadReply
<1>2. down \in Seq(Proved!Reply) /\ guiEvents \in Seq(Proved!Reply \cup {Unconnected})
  BY DEF Sound, WireSound, ClientSound
<1>3. m \in Proved!Reply
  BY <1>1, <1>2, TakeHead
<1>4. m \in E <=> m \in Ends
  BY <1>3 DEF Proved!Reply, Proved!ReplyKind, Unconnected
<1>5. Count(down', Ends) = Count(down, Ends) - One(m \in Ends)
  BY <1>1, <1>2, CountTail
<1>6. ASSUME NEW x, guiEvents' = Append(guiEvents, x)
      PROVE  Count(guiEvents', E) = Count(guiEvents, E) + One(x \in E)
  BY <1>2, <1>6, CountAppendAny
<1>7. One(m \in E) = One(m \in Ends) /\ One(m \in Ends) \in {0, 1}
  BY <1>4 DEF One
<1> HIDE DEF m
<1>8. WireLoad' = WireLoad - One(m \in Ends)
  <2>1. One(LoginLeads') = One(LoginLeads) /\ One(LoginLeads) \in {0, 1} /\ Len(up') = Len(up)
    BY <1>1 DEF LoginLeads, One
  <2> QED BY <1>5, <1>7, <2>1 DEF WireLoad, LoadsAreNumbers
<1>9. CASE guiEvents' = Append(guiEvents, m) /\ misread' = misread
  <2>1. ClientLoad' = ClientLoad + One(m \in Ends)
    <3>1. Count(guiEvents', E) = Count(guiEvents, E) + One(m \in E)
      BY <1>6, <1>9
    <3> QED BY <1>1, <1>7, <3>1 DEF ClientLoad, LoadsAreNumbers
  <2>2. misread' - misread = 0
    BY <1>9 DEF Sound, ReaderSound
  <2> QED BY <1>7, <1>8, <2>1, <2>2 DEF LoadsAreNumbers
<1>10. CASE UNCHANGED <<guiEvents, misread>>
  <2>1. ClientLoad' = ClientLoad
    BY <1>1, <1>10 DEF ClientLoad
  <2>2. misread' - misread = 0
    BY <1>10 DEF Sound, ReaderSound
  <2> QED BY <1>7, <1>8, <2>1, <2>2 DEF LoadsAreNumbers
<1>11. ASSUME NEW x, guiEvents' = Append(guiEvents, x), misread' = misread + 1
       PROVE  WireLoad' - WireLoad + (ClientLoad' - ClientLoad) <= misread' - misread
  <2>1. One(x \in E) \in {0, 1}
    BY DEF One
  <2>2. Count(guiEvents', E) = Count(guiEvents, E) + One(x \in E)
    BY <1>6, <1>11
  <2> HIDE DEF E
  <2>3. ClientLoad' = ClientLoad + One(x \in E)
    BY <1>1, <2>1, <2>2 DEF ClientLoad, LoadsAreNumbers, E
  <2>4. misread' - misread = 1
    BY <1>11 DEF Sound, ReaderSound
  <2> QED BY <1>7, <1>8, <2>1, <2>3, <2>4 DEF LoadsAreNumbers
<1>12. \/ guiEvents' = Append(guiEvents, m) /\ misread' = misread
       \/ UNCHANGED <<guiEvents, misread>>
       \/ \E x : guiEvents' = Append(guiEvents, x) /\ misread' = misread + 1
  BY DEF ReadReply, m
<1> QED BY <1>9, <1>10, <1>11, <1>12

LEMMA RequestIsAccounted ==
    ASSUME Sound, LoadsAreNumbers, ReadRequest
    PROVE  ServerLoad' + WireLoad' <= ServerLoad + WireLoad
<1>1. up # << >> /\ down' = down
  BY DEF ReadRequest
<1>2. up \in Seq(Asked \cup {Login})
  BY DEF Sound, WireSound
<1>3. Len(Tail(up)) = Len(up) - 1
  BY <1>1, <1>2, TakeHead
<1>4. CASE ~served /\ Server!Connect(link) /\ served' = TRUE /\ up' = Tail(up) /\ Head(up) = Login
  <2>1. ServerLoad' = ServerLoad
    BY <1>4, UnmovedLoad DEF Server!Connect, ServerUnmoved
  <2>2. LoginLeads /\ ~LoginLeads'
    BY <1>1, <1>4 DEF LoginLeads
  <2>3. One(LoginLeads) = 1 /\ One(LoginLeads') = 0
    BY <2>2 DEF One
  <2> QED BY <1>1, <1>3, <1>4, <2>1, <2>3 DEF WireLoad, LoadsAreNumbers
<1>5. CASE up' = << >> /\ UNCHANGED serverVars
  <2>1. ServerLoad' = ServerLoad
    BY <1>5, UnmovedLoad DEF serverVars, ServerUnmoved
  <2>2. ~LoginLeads' /\ Len(up') = 0
    BY <1>5 DEF LoginLeads
  <2>3. One(LoginLeads') = 0
    BY <2>2 DEF One
  <2>4. One(LoginLeads) \in {0, 1} /\ Len(up) # 0
    BY <1>1, <1>2 DEF One
  <2> QED BY <1>1, <2>1, <2>2, <2>3, <2>4 DEF WireLoad, LoadsAreNumbers
<1>6. CASE /\ served /\ served' = served /\ up' = Tail(up)
           /\ \E k, w : Server!Arrive(link, k, w)
  <2>1. PICK x : events' = Append(events, x) /\ UNCHANGED <<taskMap, outbox>>
    BY <1>6 DEF Server!Arrive
  <2>2. ServerLoad' = ServerLoad + One(x \in Asks)
    BY <2>1, ServerLoadAfterPost DEF Sound, LoadsAreNumbers
  <2>3. ~LoginLeads /\ ~LoginLeads'
    BY <1>6 DEF LoginLeads
  <2>4. One(LoginLeads) = 0 /\ One(LoginLeads') = 0 /\ One(x \in Asks) \in {0, 1}
    BY <2>3 DEF One
  <2> QED BY <1>1, <1>3, <1>6, <2>2, <2>4 DEF WireLoad, LoadsAreNumbers
<1>7. \/ ~served /\ Server!Connect(link) /\ served' = TRUE /\ up' = Tail(up) /\ Head(up) = Login
      \/ up' = << >> /\ UNCHANGED serverVars
      \/ /\ served /\ served' = served /\ up' = Tail(up)
         /\ \E k, w : Server!Arrive(link, k, w)
  BY DEF ReadRequest
<1> QED BY <1>4, <1>5, <1>6, <1>7

LEMMA ReplyIsAccounted ==
    ASSUME Sound, LoadsAreNumbers, WriteReply
    PROVE  ServerLoad' + WireLoad' <= ServerLoad + WireLoad
<1> DEFINE m == Head(outbox)
<1>1. /\ Proved!Deliver /\ UNCHANGED <<up, served>>
      /\ down' = down \/ down' = Append(down, m)
  BY SameNetActions DEF WriteReply
<1>2. ServerLoad' = ServerLoad - One(m \in Ends)
  BY <1>1, ServerLoadAfterDeliver DEF Sound, LoadsAreNumbers
<1>3. Count(down', Ends) = Count(down, Ends)
      \/ Count(down', Ends) = Count(down, Ends) + One(m \in Ends)
  BY <1>1, CountAppendAny DEF Sound, WireSound
<1>4. One(m \in Ends) \in {0, 1}
  BY DEF One
<1> HIDE DEF m
<1>5. One(LoginLeads') = One(LoginLeads) /\ One(LoginLeads) \in {0, 1} /\ Len(up') = Len(up)
  BY <1>1 DEF LoginLeads, One
<1>6. WireLoad' = WireLoad \/ WireLoad' = WireLoad + One(m \in Ends)
  BY <1>3, <1>4, <1>5 DEF WireLoad, LoadsAreNumbers
<1> QED BY <1>2, <1>4, <1>6 DEF LoadsAreNumbers

LEMMA ClosingIsAccounted ==
    ASSUME Sound, LoadsAreNumbers, NEW a, CloseSocket(a)
    PROVE  ServerLoad' + WireLoad' <= ServerLoad + WireLoad
<1>1. /\ Server!Leave(a) /\ down' = down /\ link' = link
      /\ served' = (served /\ a # link)
      /\ up' = IF served /\ a = link THEN << >> ELSE up
  BY DEF CloseSocket
<1>2. ServerLoad' = ServerLoad
  <2>1. events' = Append(events, Server!Message("gone", a, NoWork)) /\ UNCHANGED <<taskMap, outbox>>
    BY <1>1 DEF Server!Leave
  <2>2. Server!Message("gone", a, NoWork) \notin Asks
    BY DEF Server!Message, Asks, Proved!MessageKind
  <2>3. One(Server!Message("gone", a, NoWork) \in Asks) = 0
    BY <2>2 DEF One
  <2>4. ServerLoad' = ServerLoad + One(Server!Message("gone", a, NoWork) \in Asks)
    BY <2>1, ServerLoadAfterPost DEF Sound, LoadsAreNumbers
  <2> QED BY <2>3, <2>4 DEF LoadsAreNumbers
<1>3. CASE served /\ a = link
  <2>1. ~LoginLeads' /\ Len(up') = 0 /\ ~LoginLeads
    BY <1>1, <1>3 DEF LoginLeads
  <2>2. One(LoginLeads') = 0 /\ One(LoginLeads) = 0
    BY <2>1 DEF One
  <2> QED BY <1>1, <1>2, <2>1, <2>2 DEF WireLoad, LoadsAreNumbers
<1>4. CASE ~(served /\ a = link)
  <2>1. up' = up /\ (served' <=> served)
    BY <1>1, <1>4
  <2>2. LoginLeads' <=> LoginLeads
    BY <2>1 DEF LoginLeads
  <2>3. One(LoginLeads') = One(LoginLeads) /\ One(LoginLeads) \in {0, 1}
    BY <2>2 DEF One
  <2> QED BY <1>1, <1>2, <2>1, <2>3 DEF WireLoad, LoadsAreNumbers
<1> QED BY <1>3, <1>4

LEMMA LoadTypesThen == (Sound /\ IsFiniteSet(DOMAIN taskMap) => LoadsAreNumbers)'
<1>1. Sound /\ IsFiniteSet(DOMAIN taskMap) => LoadsAreNumbers
  BY LoadTypes
<1> QED BY <1>1, PTL

\* How the loads of server, wire and client (s, w, c) and the credit (k) may
\* change in a step, so that there is no more load without as much more credit.
MayChange(s, w, c, k, t, x, d, l) ==
    \/ t <= s /\ x = w /\ d = c /\ l = k
    \/ t + x <= s + w /\ d = c /\ l = k
    \/ t = s /\ x + d <= w + c /\ l = k
    \/ t = s /\ x = w /\ d - c <= l - k
    \/ t = s /\ x - w + (d - c) <= l - k

LEMMA LoadStaysLess ==
    ASSUME NEW s \in Int, NEW w \in Int, NEW c \in Int, NEW k \in Int,
           NEW t \in Int, NEW x \in Int, NEW d \in Int, NEW l \in Int,
           s + w + c <= k, MayChange(s, w, c, k, t, x, d, l)
    PROVE  t + x + d <= l
BY DEF MayChange

LoadsMayChange ==
    MayChange(ServerLoad, WireLoad, ClientLoad, Credit,
              ServerLoad', WireLoad', ClientLoad', Credit')

LEMMA AccountedStep ==
    ASSUME ClientServerAssumption, Sound, Accounted, [Next]_vars
    PROVE  Accounted'
<1>1. LoadsAreNumbers
  BY LoadTypes DEF Accounted
<1>2. Sound'
  BY ServerSteps, ServerStaysSound, ClientStaysSound, WireStaysSound, ReaderStaysSound
     DEF Sound
<1>3. ASSUME IsFiniteSet(DOMAIN taskMap'), LoadsMayChange
      PROVE  Accounted'
  <2>1. LoadsAreNumbers'
    BY <1>2, <1>3, LoadTypesThen
  <2>2. ServerLoad' \in Int /\ WireLoad' \in Int /\ ClientLoad' \in Int /\ Credit' \in Int
    BY <2>1 DEF LoadsAreNumbers
  <2>3. ServerLoad \in Int /\ WireLoad \in Int /\ ClientLoad \in Int /\ Credit \in Int
    BY <1>1 DEF LoadsAreNumbers
  <2>4. ServerLoad + WireLoad + ClientLoad <= Credit
    BY DEF Accounted
  <2>5. ServerLoad' + WireLoad' + ClientLoad' <= Credit'
    <3>1. MayChange(ServerLoad, WireLoad, ClientLoad, Credit,
                    ServerLoad', WireLoad', ClientLoad', Credit')
      BY <1>3 DEF LoadsMayChange
    <3> QED BY <2>2, <2>3, <2>4, <3>1, LoadStaysLess
  <2> QED BY <1>3, <2>5 DEF Accounted
<1>4. CASE UNCHANGED <<sendEnabled, cancels, misread, opens, link, guiEvents, posted, up, down,
                       served>>
           /\ IsFiniteSet(DOMAIN taskMap') /\ ServerLoad' <= ServerLoad
  <2>1. Credit' = Credit /\ ClientLoad' = ClientLoad /\ WireLoad' = WireLoad
    BY <1>4 DEF Credit, Lost, ClientLoad, WireLoad, LoginLeads
  <2>2. LoadsMayChange
    BY <1>4, <2>1 DEF LoadsMayChange, MayChange
  <2> QED BY <1>3, <1>4, <2>2
<1>5. ASSUME UNCHANGED taskMap
      PROVE  IsFiniteSet(DOMAIN taskMap')
  BY <1>5 DEF Accounted
<1>6. CASE Click
  <2>1. UNCHANGED taskMap
    BY <1>6 DEF Click, serverVars
  <2>2. LoadsMayChange
    BY <1>1, <1>6, ClickIsAccounted DEF LoadsMayChange, MayChange, LoadsAreNumbers
  <2> QED BY <1>3, <1>5, <2>1, <2>2
<1>7. CASE Window
  <2>1. UNCHANGED taskMap
    BY <1>7 DEF Window, serverVars
  <2>2. LoadsMayChange
    BY <1>1, <1>7, WindowIsAccounted DEF LoadsMayChange, MayChange
  <2> QED BY <1>3, <1>5, <2>1, <2>2
<1>8. CASE Open \/ FailToOpen \/ LoginAgain
  <2>1. UNCHANGED taskMap
    BY <1>8 DEF Open, FailToOpen, LoginAgain, serverVars
  <2>2. LoadsMayChange
    BY <1>1, <1>8, OpeningIsAccounted DEF LoadsMayChange, MayChange
  <2> QED BY <1>3, <1>5, <2>1, <2>2
<1>9. CASE LoseLink \/ NoticeShut
  <2>1. UNCHANGED taskMap
    BY <1>9 DEF LoseLink, NoticeShut, Drop, serverVars
  <2>2. LoadsMayChange
    BY <1>1, <1>9, LosingIsAccounted DEF LoadsMayChange, MayChange
  <2> QED BY <1>3, <1>5, <2>1, <2>2
<1>10. CASE SendPosted
  <2>1. /\ ServerUnmoved /\ UNCHANGED <<sendEnabled, cancels, misread, opens, link>>
    BY <1>10 DEF SendPosted, serverVars, ServerUnmoved, windowVars, userVars, readVars
  <2>2. ServerLoad' = ServerLoad /\ Credit' = Credit
    BY <2>1, UnmovedLoad DEF Credit, Lost
  <2>3. WireLoad' + ClientLoad' <= WireLoad + ClientLoad
    BY <1>1, <1>10, SendingIsAccounted
  <2>4. LoadsMayChange
    BY <2>2, <2>3 DEF LoadsMayChange, MayChange
  <2> QED BY <1>3, <1>5, <2>1, <2>4 DEF ServerUnmoved
<1>14. CASE ReadReply
  <2>1. /\ ServerUnmoved /\ UNCHANGED <<sendEnabled, cancels, opens, link>>
        /\ misread' \in Int
    BY <1>2, <1>14 DEF ReadReply, serverVars, ServerUnmoved, windowVars, userVars, Sound,
                       ReaderSound
  <2>2. ServerLoad' = ServerLoad
    BY <2>1, UnmovedLoad
  <2>3. Credit' - Credit = misread' - misread
    <3>1. /\ One(~sendEnabled') = One(~sendEnabled) /\ One(~sendEnabled) \in {0, 1}
          /\ Lost' = Lost /\ Lost \in Int
      BY <2>1 DEF One, Lost, Sound, ClientSound
    <3> QED BY <2>1, <3>1 DEF Credit, Sound, ClientSound, ReaderSound
  <2>4. WireLoad' - WireLoad + (ClientLoad' - ClientLoad) <= misread' - misread
    BY <1>1, <1>14, ReadingIsAccounted
  <2>5. LoadsMayChange
    BY <2>2, <2>3, <2>4 DEF LoadsMayChange, MayChange
  <2> QED BY <1>3, <1>5, <2>1, <2>5 DEF ServerUnmoved
<1>11. CASE ReadRequest \/ WriteReply \/ \E a \in Addr : CloseSocket(a)
  <2>1. /\ UNCHANGED <<taskMap, sendEnabled, cancels, misread, opens, link, guiEvents, posted>>
    <3>1. CASE ReadRequest
      BY <3>1 DEF ReadRequest, Server!Connect, Server!Arrive, serverVars, windowVars, userVars,
                  readVars
    <3>2. CASE WriteReply
      BY <3>2 DEF WriteReply, Server!Deliver, windowVars, userVars, readVars
    <3>3. CASE \E a \in Addr : CloseSocket(a)
      BY <3>3 DEF CloseSocket, Server!Leave, windowVars, userVars, readVars
    <3> QED BY <1>11, <3>1, <3>2, <3>3
  <2>2. ClientLoad' = ClientLoad /\ Credit' = Credit
    BY <2>1 DEF ClientLoad, Credit, Lost
  <2>3. ServerLoad' + WireLoad' <= ServerLoad + WireLoad
    BY <1>1, <1>11, RequestIsAccounted, ReplyIsAccounted, ClosingIsAccounted
  <2>4. LoadsMayChange
    BY <2>2, <2>3 DEF LoadsMayChange, MayChange
  <2> QED BY <1>3, <1>5, <2>1, <2>4
<1>12. CASE ServerMain \/ \E a \in Addr : ServerPool(a)
  <2>1. UNCHANGED <<sendEnabled, cancels, misread, opens, link, guiEvents, posted, up, down,
                    served>>
    BY <1>12 DEF ServerMain, ServerPool, windowVars, netVars, userVars, readVars
  <2>2. \/ Proved!HandleEvent
        \/ \E a \in Addr : Proved!Compute(a)
    BY <1>12, SameHandlers, SamePoolActions DEF ServerMain, ServerPool
  <2>3. IsFiniteSet(DOMAIN taskMap') /\ ServerLoad' <= ServerLoad
    BY <1>1, <2>2, ServerLoadAfterEvent, ServerLoadAfterPool DEF Sound, LoadsAreNumbers
  <2> QED BY <1>4, <2>1, <2>3
<1>13. CASE UNCHANGED vars
  <2>1. UNCHANGED <<sendEnabled, cancels, misread, opens, link, guiEvents, posted, up, down,
                    served, taskMap, events, outbox>>
    BY <1>13 DEF vars, windowVars, serverVars, netVars, userVars, readVars
  <2>2. Credit' = Credit /\ ClientLoad' = ClientLoad /\ WireLoad' = WireLoad
        /\ ServerLoad' = ServerLoad
    BY <2>1 DEF Credit, Lost, ClientLoad, WireLoad, LoginLeads, ServerLoad
  <2> QED BY <1>1, <1>4, <1>5, <2>1, <2>2 DEF LoadsAreNumbers
<1> QED BY <1>6, <1>7, <1>8, <1>9, <1>10, <1>11, <1>12, <1>13, <1>14 DEF Next

\* The terms of Awaited, by name.
IsTask(m) == m.kind = "task"
OwnTask(m) == m.kind = "task" /\ m.addr = link
OwnEnd(m) == OfLink(m) /\ EndsTask(m)
AnyEnd(m) == m # Unconnected /\ EndsTask(m)

AwaitedTerms ==
    /\ Awaited = Cardinality(At(posted, IsTask)) + Cardinality(At(up, IsTask))
           + Cardinality(At(events, OwnTask)) + One(link \in DOMAIN taskMap)
           + Cardinality(At(outbox, OwnEnd)) + Cardinality(At(down, OwnEnd))
           + Cardinality(At(guiEvents, AnyEnd))
    /\ One(link \in DOMAIN taskMap) \in {0, 1}
    /\ Cardinality(At(posted, IsTask)) \in Nat /\ Cardinality(At(up, IsTask)) \in Nat
    /\ Cardinality(At(events, OwnTask)) \in Nat /\ Cardinality(At(outbox, OwnEnd)) \in Nat
    /\ Cardinality(At(down, OwnEnd)) \in Nat /\ Cardinality(At(guiEvents, AnyEnd)) \in Nat

Queues ==
    /\ events \in Seq(Proved!Event) /\ outbox \in Seq(Proved!Reply)
    /\ posted \in Seq(Asked) /\ up \in Seq(Asked \cup {Login}) /\ down \in Seq(Proved!Reply)
    /\ guiEvents \in Seq(Proved!Reply \cup {Unconnected})

LEMMA QueuesAreSound == Sound => Queues
BY DEF Queues, Sound, ServerSound, Proved!TypeOK, ClientSound, WireSound

LEMMA AwaitedHasTerms ==
    ASSUME Sound
    PROVE  AwaitedTerms
<1>1. /\ At(posted, IsTask) \subseteq 1..Len(posted) /\ At(up, IsTask) \subseteq 1..Len(up)
      /\ At(events, OwnTask) \subseteq 1..Len(events)
      /\ At(outbox, OwnEnd) \subseteq 1..Len(outbox)
      /\ At(down, OwnEnd) \subseteq 1..Len(down)
      /\ At(guiEvents, AnyEnd) \subseteq 1..Len(guiEvents)
  BY DEF At
<1>2. /\ Cardinality(At(posted, IsTask)) \in Nat /\ Cardinality(At(up, IsTask)) \in Nat
      /\ Cardinality(At(events, OwnTask)) \in Nat /\ Cardinality(At(outbox, OwnEnd)) \in Nat
      /\ Cardinality(At(down, OwnEnd)) \in Nat /\ Cardinality(At(guiEvents, AnyEnd)) \in Nat
  BY <1>1, QueuesAreSound, PlacesBound DEF Queues
<1>3. Awaited = Cardinality(At(posted, IsTask)) + Cardinality(At(up, IsTask))
           + Cardinality(At(events, OwnTask))
           + (IF link \in DOMAIN taskMap THEN 1 ELSE 0)
           + Cardinality(At(outbox, OwnEnd)) + Cardinality(At(down, OwnEnd))
           + Cardinality(At(guiEvents, AnyEnd))
  BY Zenon DEF Awaited, IsTask, OwnTask, OwnEnd, AnyEnd
<1> DEFINE n == IF link \in DOMAIN taskMap THEN 1 ELSE 0
<1>4. Awaited = Cardinality(At(posted, IsTask)) + Cardinality(At(up, IsTask))
           + Cardinality(At(events, OwnTask)) + n
           + Cardinality(At(outbox, OwnEnd)) + Cardinality(At(down, OwnEnd))
           + Cardinality(At(guiEvents, AnyEnd))
  BY Zenon, <1>3 DEF n
<1>5. n \in {0, 1} /\ n = One(link \in DOMAIN taskMap)
  BY DEF One
<1> HIDE DEF n
<1>6. One(link \in DOMAIN taskMap) \in {0, 1}
  BY <1>5
<1> QED BY Zenon, <1>2, <1>4, <1>5, <1>6 DEF AwaitedTerms

\* What is awaited is part of the load.
LEMMA AwaitedIsLoad ==
    ASSUME Sound, Accounted
    PROVE  Awaited \in Int /\ Awaited <= ServerLoad + WireLoad + ClientLoad
<1>1. LoadsAreNumbers /\ AwaitedTerms /\ Queues
  BY LoadTypes, AwaitedHasTerms, QueuesAreSound DEF Accounted
<1>2. \A m \in Proved!Reply : EndsTask(m) => m \in Ends
  BY DEF Ends, EndsTask
<1>3. Cardinality(At(posted, IsTask)) <= Len(posted)
  BY <1>1, PlacesBound DEF At, Queues
<1>4. Cardinality(At(up, IsTask)) <= Len(up) - One(LoginLeads)
  <2>1. CASE ~LoginLeads
    <3>1. Cardinality(At(up, IsTask)) <= Len(up)
      BY <1>1, PlacesBound DEF At, Queues
    <3>2. One(LoginLeads) = 0 /\ Len(up) \in Nat
      BY <1>1, <2>1 DEF One, LoadsAreNumbers
    <3> QED BY <3>1, <3>2
  <2>2. CASE LoginLeads
    <3>1. up # << >> /\ up[1] = Login /\ Len(up) \in Nat \ {0}
      BY <1>1, <2>2, TakeHead DEF LoginLeads, Queues
    <3>2. At(up, IsTask) \subseteq 2..Len(up)
      BY <3>1 DEF At, IsTask, Login, Request
    <3>3. IsFiniteSet(2..Len(up)) /\ Cardinality(2..Len(up)) = Len(up) - 1
      BY <3>1, FS_Interval
    <3>4. One(LoginLeads) = 1
      BY <2>2 DEF One
    <3> QED BY <3>2, <3>3, <3>4, FS_Subset
  <2> QED BY <2>1, <2>2
<1>5. Cardinality(At(events, OwnTask)) <= Count(events, Asks)
  <2>1. At(events, OwnTask) \subseteq Places(events, Asks)
    BY <1>1 DEF At, Places, Asks, OwnTask, Proved!MessageKind, Queues
  <2> QED BY <1>1, <2>1, CountBounds DEF Queues
<1>6. One(link \in DOMAIN taskMap) <= Cardinality(DOMAIN taskMap)
  <2>1. CASE link \in DOMAIN taskMap
    <3>1. Cardinality(DOMAIN taskMap) # 0
      BY <2>1, FS_EmptySet DEF Accounted
    <3> QED BY <1>1, <2>1, <3>1 DEF One, LoadsAreNumbers, ServerCounts
  <2>2. CASE link \notin DOMAIN taskMap
    BY <1>1, <2>2 DEF One, LoadsAreNumbers, ServerCounts
  <2> QED BY <2>1, <2>2
<1>7. Cardinality(At(outbox, OwnEnd)) <= Count(outbox, Ends)
  <2>1. At(outbox, OwnEnd) \subseteq Places(outbox, Ends)
    BY <1>1, <1>2 DEF At, Places, OwnEnd, Queues
  <2> QED BY <1>1, <2>1, CountBounds DEF Queues
<1>8. Cardinality(At(down, OwnEnd)) <= Count(down, Ends)
  <2>1. At(down, OwnEnd) \subseteq Places(down, Ends)
    BY <1>1, <1>2 DEF At, Places, OwnEnd, Queues
  <2> QED BY <1>1, <2>1, CountBounds DEF Queues
<1>9. Cardinality(At(guiEvents, AnyEnd)) <= Count(guiEvents, Ends \cup {Unconnected})
  <2>1. At(guiEvents, AnyEnd) \subseteq Places(guiEvents, Ends \cup {Unconnected})
    BY <1>1, <1>2 DEF At, Places, AnyEnd, Queues
  <2> QED BY <1>1, <2>1, CountBounds DEF Queues
<1>10. One(LoginLeads) \in {0, 1}
  BY DEF One
<1>11. /\ Cardinality(At(posted, IsTask)) \in Nat /\ Cardinality(At(up, IsTask)) \in Nat
       /\ Cardinality(At(events, OwnTask)) \in Nat /\ Cardinality(At(outbox, OwnEnd)) \in Nat
       /\ Cardinality(At(down, OwnEnd)) \in Nat /\ Cardinality(At(guiEvents, AnyEnd)) \in Nat
       /\ One(link \in DOMAIN taskMap) \in {0, 1}
       /\ ServerLoad \in Nat /\ WireLoad \in Nat /\ ClientLoad \in Nat
  BY <1>1 DEF AwaitedTerms, LoadsAreNumbers
<1>12. /\ Count(events, Asks) \in Nat /\ Count(outbox, Ends) \in Nat
       /\ Cardinality(DOMAIN taskMap) \in Nat
       /\ Len(up) \in Nat /\ Len(posted) \in Nat
       /\ Count(down, Ends) \in Nat /\ Count(guiEvents, Ends \cup {Unconnected}) \in Nat
  BY <1>1 DEF LoadsAreNumbers, ServerCounts
<1>13. Cardinality(At(events, OwnTask)) + One(link \in DOMAIN taskMap)
           + Cardinality(At(outbox, OwnEnd)) <= ServerLoad
  BY <1>5, <1>6, <1>7, <1>11, <1>12, SMTT(30) DEF ServerLoad
<1>14. Cardinality(At(up, IsTask)) + Cardinality(At(down, OwnEnd)) <= WireLoad
  BY <1>4, <1>8, <1>10, <1>11, <1>12 DEF WireLoad
<1>15. Cardinality(At(posted, IsTask)) + Cardinality(At(guiEvents, AnyEnd)) <= ClientLoad
  BY <1>3, <1>9, <1>11, <1>12 DEF ClientLoad
<1>16. Awaited = Cardinality(At(posted, IsTask)) + Cardinality(At(up, IsTask))
           + Cardinality(At(events, OwnTask)) + One(link \in DOMAIN taskMap)
           + Cardinality(At(outbox, OwnEnd)) + Cardinality(At(down, OwnEnd))
           + Cardinality(At(guiEvents, AnyEnd))
  BY <1>1 DEF AwaitedTerms
<1> QED BY <1>11, <1>13, <1>14, <1>15, <1>16

LEMMA InitIsAccounted == ClientServerAssumption /\ Init => Accounted
<1> SUFFICES ASSUME ClientServerAssumption, Init PROVE Accounted
  OBVIOUS
<1>1. /\ events = << >> /\ outbox = << >> /\ DOMAIN taskMap = {} /\ up = << >> /\ down = << >>
      /\ posted = << >> /\ guiEvents = << >> /\ opens = 0 /\ cancels = 0 /\ link = NoAddr
      /\ sendEnabled = TRUE /\ misread = 0
  BY DEF Init, Server!Init, WindowInit
<1>2. IsFiniteSet(DOMAIN taskMap) /\ Cardinality(DOMAIN taskMap) = 0
  BY <1>1, FS_EmptySet
<1>3. /\ Count(events, Asks) = 0 /\ Count(outbox, Ends) = 0 /\ Count(down, Ends) = 0
      /\ Count(guiEvents, Ends \cup {Unconnected}) = 0 /\ Len(up) = 0 /\ Len(posted) = 0
  BY <1>1, CountEmpty
<1>4. One(LoginLeads) = 0 /\ One(~sendEnabled) = 0 /\ Lost = 0
  BY <1>1 DEF One, LoginLeads, Lost
<1> QED BY <1>1, <1>2, <1>3, <1>4 DEF Accounted, ServerLoad, WireLoad, ClientLoad, Credit

\* "Block button while awaiting Task completion", for the window, both programs
\* and every queue in between, whatever was lost and whatever crossed: no request
\* overlaps an unanswered one but for a cancel request, an attempt to connect, or
\* a message made of the bytes of several replies that has let it through.
THEOREM OverlapsAreFew == ClientServerAssumption => (Spec => []OverlapsAreAccounted)
<1> SUFFICES ASSUME ClientServerAssumption PROVE Spec => []OverlapsAreAccounted
  OBVIOUS
<1>1. Init => Accounted
  BY InitIsAccounted
<1>2. Accounted /\ Sound /\ [Next]_vars => Accounted'
  BY AccountedStep
<1>3. Accounted /\ Sound => OverlapsAreAccounted
  <2> SUFFICES ASSUME Accounted, Sound PROVE OverlapsAreAccounted
    OBVIOUS
  <2>1. LoadsAreNumbers /\ Awaited \in Int /\ Awaited <= ServerLoad + WireLoad + ClientLoad
    BY LoadTypes, AwaitedIsLoad DEF Accounted
  <2>2. Credit = (IF sendEnabled THEN 0 ELSE 1) + cancels + misread + Lost
    BY DEF Credit, One
  <2> QED BY <2>1, <2>2 DEF OverlapsAreAccounted, Accounted, LoadsAreNumbers
<1> QED BY <1>1, <1>2, <1>3, AlwaysSound, PTL DEF Spec

-----------------------------------------------------------------------------
(* The dialog, and what ends what it shows.                                 *)

IsStep(m) == m.kind \in {"range", "progress"}

\* The last message of a task, or a result from the cache.
RealEnd(m) == m.kind = "result" \/ (m.kind = "canceled" /\ m.task # 0)

Closes(m) == m = Unconnected \/ RealEnd(m)

\* An end is still on its way to this address, or to the connection there is.
Ending(a) ==
    \/ a \in DOMAIN taskMap
    \/ \E j \in 1..Len(outbox) : outbox[j].to = a /\ RealEnd(outbox[j])

Coming == (served /\ Ending(link)) \/ Shut \/ OutOfStep

OutEndAfter(i) ==
    \E j \in 1..Len(outbox) : i < j /\ outbox[j].to = outbox[i].to /\ RealEnd(outbox[j])
DownEndAfter(i) == \E j \in 1..Len(down) : i < j /\ RealEnd(down[j])
ClosedAfter(i) == \E j \in 1..Len(guiEvents) : i < j /\ Closes(guiEvents[j])

Soon == DownEndAfter(0) \/ Coming

\* Behind a message of progress comes its end, wherever it is.
HasIds == \A a \in DOMAIN taskMap : taskMap[a].id # 0

ServerEndsSteps ==
    \A i \in 1..Len(outbox) :
        IsStep(outbox[i]) => outbox[i].to \in DOMAIN taskMap \/ OutEndAfter(i)

WireEndsSteps ==
    /\ \A i \in 1..Len(down) : down[i].to = link
    /\ \A i \in 1..Len(down) : IsStep(down[i]) => DownEndAfter(i) \/ Coming

DialogEnds == dialog => ClosedAfter(0) \/ Soon
WindowEndsSteps ==
    \A i \in 1..Len(guiEvents) : IsStep(guiEvents[i]) => ClosedAfter(i) \/ Soon

StepsEnd == HasIds /\ ServerEndsSteps /\ WireEndsSteps /\ DialogEnds /\ WindowEndsSteps

\* What the server does to its tasks and replies: a task leaves the map with its
\* last reply, and progress is sent of a task in the map.
KeepsTasks ==
    /\ DOMAIN taskMap \subseteq DOMAIN taskMap'
    /\ outbox' = outbox
Replies(m) ==
    /\ outbox' = Append(outbox, m)
    /\ DOMAIN taskMap \subseteq DOMAIN taskMap'
    /\ IsStep(m) => m.to \in DOMAIN taskMap
EndsOne(m) ==
    /\ outbox' = Append(outbox, m)
    /\ DOMAIN taskMap' = DOMAIN taskMap \ {m.to}
    /\ RealEnd(m)

LEMMA HandlersReply ==
    ASSUME ServerSound, HasIds, Proved!HandleEvent
    PROVE  KeepsTasks \/ (\E m : Replies(m)) \/ (\E m : EndsOne(m))
<1> DEFINE e == Head(events)
<1>1. ASSUME NEW K, Proved!Dispatch(K)
      PROVE  e = events[1] /\ 1 \in 1..Len(events) /\ e \in Proved!Event /\ e.kind \in K
  BY <1>1, TakeHead DEF Proved!Dispatch, ServerSound, Proved!TypeOK
<1>2. ASSUME NEW K, Proved!Dispatch(K), K \subseteq Proved!WatcherKind
      PROVE  e.addr \in DOMAIN taskMap /\ taskMap[e.addr].id = e.task
  BY <1>1, <1>2 DEF ServerSound, Proved!CallOuts, Proved!CallOutsFindTheirTask,
                    Proved!FromWatcher, Proved!HasTask
<1>3. CASE \/ Proved!RejectCorrupted \/ Proved!RejectUnknown \/ Proved!ReplyFromCache
           \/ Proved!RefuseSecondTask \/ Proved!CancelNothing
  <2>1. taskMap' = taskMap
    BY <1>3 DEF Proved!RejectCorrupted, Proved!RejectUnknown, Proved!ReplyFromCache,
                Proved!RefuseSecondTask, Proved!CancelNothing
  <2>2. \E m : outbox' = Append(outbox, m) /\ ~IsStep(m)
    BY <1>3 DEF Proved!RejectCorrupted, Proved!RejectUnknown, Proved!ReplyFromCache,
                Proved!RefuseSecondTask, Proved!CancelNothing, Proved!Answer, Proved!Send,
                Proved!Error, Proved!MakeReply, IsStep
  <2> QED BY <2>1, <2>2 DEF Replies
<1>4. CASE Proved!CancelTask \/ Proved!OnClientDisconnected \/ Proved!StartTask
  BY <1>4 DEF Proved!CancelTask, Proved!OnClientDisconnected, Proved!StartTask,
              Proved!MarkCanceled, KeepsTasks
<1>5. CASE Proved!OnProgressRange \/ Proved!OnProgressValue
  <2>1. e.addr \in DOMAIN taskMap /\ taskMap' = taskMap
    BY <1>2, <1>5 DEF Proved!OnProgressRange, Proved!OnProgressValue, Proved!WatcherKind
  <2>2. outbox' = outbox \/ \E m : outbox' = Append(outbox, m) /\ m.to = e.addr
    BY <1>5 DEF Proved!OnProgressRange, Proved!OnProgressValue, Proved!Send, Proved!MakeReply
  <2> QED BY <2>1, <2>2 DEF KeepsTasks, Replies
<1>6. CASE Proved!OnFinished
  <2>1. Proved!Dispatch({"finished"})
    BY <1>6 DEF Proved!OnFinished
  <2>2. e.addr \in DOMAIN taskMap
    BY <1>2, <2>1 DEF Proved!WatcherKind
  <2>3. DOMAIN taskMap' = DOMAIN taskMap \ {e.addr}
    BY <1>6 DEF Proved!OnFinished
  <2>4. \E m : /\ outbox' = Append(outbox, m) /\ m.to = e.addr
               /\ m.kind = "result" \/ (m.kind = "canceled" /\ m.task = taskMap[e.addr].id)
    BY <1>6 DEF Proved!OnFinished, Proved!Answer, Proved!Send, Proved!MakeReply
  <2>5. taskMap[e.addr].id # 0
    BY <2>2 DEF HasIds
  <2> QED BY <2>3, <2>4, <2>5 DEF EndsOne, RealEnd
<1> QED BY <1>3, <1>4, <1>5, <1>6 DEF Proved!HandleEvent

LEMMA IdsStep ==
    ASSUME ServerSound, HasIds, ServerStep
    PROVE  HasIds'
<1>1. CASE UNCHANGED taskMap
  BY <1>1 DEF HasIds
<1>0. \A a \in DOMAIN taskMap : taskMap[a] \in Proved!Task
  BY DEF ServerSound, Proved!TypeOK
<1>2. ASSUME NEW a, Proved!Compute(a)
      PROVE  HasIds'
  <2>1. /\ a \in DOMAIN taskMap
        /\ \/ \E n : taskMap' = [taskMap EXCEPT ![a].done = n]
           \/ taskMap' = [taskMap EXCEPT ![a].future = "finished"]
    BY <1>2 DEF Proved!Compute, Proved!CompleteChunk, Proved!ReportFinished, Proved!Running,
                Proved!HasTask
  <2>2. taskMap[a] \in Proved!Task
    BY <1>0, <2>1
  <2>3. /\ DOMAIN taskMap' = DOMAIN taskMap
        /\ \A b \in DOMAIN taskMap : taskMap'[b].id = taskMap[b].id
    BY <2>1, <2>2 DEF Proved!Task
  <2> QED BY <2>3 DEF HasIds
<1>3. CASE Proved!HandleEvent
  <2>1. CASE Proved!CancelTask \/ Proved!OnClientDisconnected
    <3>1. UNCHANGED taskMap \/ \E a \in DOMAIN taskMap : Proved!MarkCanceled(a)
      BY <2>1 DEF Proved!CancelTask, Proved!OnClientDisconnected, Proved!HasTask
    <3>2. ASSUME NEW a \in DOMAIN taskMap, Proved!MarkCanceled(a)
          PROVE  HasIds'
      <4>1. taskMap' = [taskMap EXCEPT ![a].canceled = TRUE] /\ taskMap[a] \in Proved!Task
        BY <1>0, <3>2 DEF Proved!MarkCanceled
      <4>2. /\ DOMAIN taskMap' = DOMAIN taskMap
            /\ \A b \in DOMAIN taskMap : taskMap'[b].id = taskMap[b].id
        BY <4>1 DEF Proved!Task
      <4> QED BY <4>2 DEF HasIds
    <3> QED BY <1>1, <3>1, <3>2
  <2>2. CASE Proved!StartTask
    <3>1. nextTask # 0
      BY DEF ServerSound, Proved!TypeOK
    <3> QED BY <2>2, <3>1 DEF Proved!StartTask, HasIds
  <2>3. CASE Proved!OnFinished
    BY <2>3 DEF Proved!OnFinished, HasIds
  <2> QED BY <1>1, <1>3, <2>1, <2>2, <2>3
          DEF Proved!HandleEvent, Proved!RejectCorrupted, Proved!RejectUnknown,
              Proved!ReplyFromCache, Proved!RefuseSecondTask, Proved!CancelNothing,
              Proved!OnProgressRange, Proved!OnProgressValue
<1> QED BY <1>1, <1>2, <1>3 DEF ServerStep, serverVars, Proved!Connect, Proved!Deliver,
                                Proved!Posts, Proved!Arrive, Proved!Leave

\* An end that was on its way still is.
EndingStays == \A a : Ending(a) => Ending(a)'

LEMMA EndsStayThen ==
    ASSUME outbox \in Seq(Proved!Reply), ServerEndsSteps,
           KeepsTasks \/ (\E m : Replies(m)) \/ (\E m : EndsOne(m))
    PROVE  ServerEndsSteps' /\ EndingStays
<1>1. CASE KeepsTasks
  BY <1>1 DEF KeepsTasks, ServerEndsSteps, OutEndAfter, EndingStays, Ending
<1>2. ASSUME NEW m, outbox' = Append(outbox, m),
             \/ DOMAIN taskMap \subseteq DOMAIN taskMap' /\ (IsStep(m) => m.to \in DOMAIN taskMap)
             \/ DOMAIN taskMap' = DOMAIN taskMap \ {m.to} /\ RealEnd(m)
      PROVE  ServerEndsSteps' /\ EndingStays
  <2>1. /\ Len(outbox) \in Nat /\ Len(outbox') = Len(outbox) + 1
        /\ \A i \in 1..Len(outbox) : i \in 1..Len(outbox') /\ outbox'[i] = outbox[i]
        /\ Len(outbox) + 1 \in 1..Len(outbox') /\ outbox'[Len(outbox) + 1] = m
    BY <1>2, AddAny
  <2>2. ASSUME NEW a
        PROVE  \/ a \in DOMAIN taskMap => a \in DOMAIN taskMap'
               \/ a = m.to /\ RealEnd(m)
    BY <1>2
  <2>3. EndingStays
    <3> SUFFICES ASSUME NEW a, Ending(a) PROVE Ending(a)'
      BY DEF EndingStays
    <3>1. CASE a \in DOMAIN taskMap
      BY <2>1, <2>2, <3>1 DEF Ending
    <3>2. CASE \E j \in 1..Len(outbox) : outbox[j].to = a /\ RealEnd(outbox[j])
      BY <2>1, <3>2 DEF Ending, RealEnd
    <3> QED BY <3>1, <3>2 DEF Ending
  <2>4. ASSUME NEW i \in 1..Len(outbox'), IsStep(outbox'[i])
        PROVE  outbox'[i].to \in DOMAIN taskMap' \/ OutEndAfter(i)'
    <3>1. CASE i \in 1..Len(outbox)
      <4>1. outbox[i].to \in DOMAIN taskMap \/ OutEndAfter(i)
        BY <2>1, <2>4, <3>1 DEF ServerEndsSteps, IsStep
      <4>2. CASE OutEndAfter(i)
        <5>1. PICK j \in 1..Len(outbox) : i < j /\ outbox[j].to = outbox[i].to /\ RealEnd(outbox[j])
          BY <4>2 DEF OutEndAfter
        <5>2. /\ j \in 1..Len(outbox') /\ outbox'[j] = outbox[j] /\ outbox'[i] = outbox[i]
          BY <2>1, <3>1
        <5> QED BY <5>1, <5>2 DEF OutEndAfter, RealEnd
      <4>3. CASE outbox[i].to \in DOMAIN taskMap
        <5>1. CASE outbox[i].to \in DOMAIN taskMap'
          BY <2>1, <3>1, <5>1
        <5>2. CASE outbox[i].to = m.to /\ RealEnd(m)
          <6>1. i < Len(outbox) + 1
            BY <2>1, <3>1
          <6> QED BY <2>1, <3>1, <5>2, <6>1 DEF OutEndAfter, RealEnd
        <5> QED BY <2>2, <4>3, <5>1, <5>2
      <4> QED BY <4>1, <4>2, <4>3
    <3>2. CASE i = Len(outbox) + 1
      <4>1. IsStep(m)
        BY <2>1, <2>4, <3>2 DEF IsStep
      <4>2. ~RealEnd(m)
        BY <4>1 DEF RealEnd, IsStep
      <4> QED BY <1>2, <2>1, <3>2, <4>1, <4>2
    <3> QED BY <2>1, <2>4, <3>1, <3>2
  <2>5. ServerEndsSteps'
    BY <2>4 DEF ServerEndsSteps, IsStep
  <2> QED BY <2>3, <2>5
<1>3. ASSUME NEW m, Replies(m)
      PROVE  ServerEndsSteps' /\ EndingStays
  BY <1>2, <1>3 DEF Replies
<1>4. ASSUME NEW m, EndsOne(m)
      PROVE  ServerEndsSteps' /\ EndingStays
  BY <1>2, <1>4 DEF EndsOne
<1> QED BY <1>1, <1>3, <1>4

LEMMA EndsAfterDeliver ==
    ASSUME ServerSound, ServerEndsSteps, Proved!Deliver
    PROVE  /\ ServerEndsSteps'
           /\ \A a : Ending(a) => Ending(a)' \/ (RealEnd(Head(outbox)) /\ Head(outbox).to = a)
           /\ \A a : IsStep(Head(outbox)) /\ a = Head(outbox).to => Ending(a)'
<1> DEFINE h == Head(outbox)
<1>1. outbox # << >> /\ outbox' = Tail(outbox) /\ taskMap' = taskMap
  BY DEF Proved!Deliver
<1>2. /\ Len(outbox) \in Nat \ {0} /\ h = outbox[1] /\ Len(outbox') = Len(outbox) - 1
      /\ \A i \in 1..Len(outbox') : i + 1 \in 1..Len(outbox) /\ outbox'[i] = outbox[i + 1]
  BY <1>1, TakeHead DEF ServerSound, Proved!TypeOK
<1> HIDE DEF h
<1>3. ASSUME NEW j \in 2..Len(outbox)
      PROVE  j - 1 \in 1..Len(outbox') /\ outbox'[j - 1] = outbox[j]
  BY <1>2
<1>4. ASSUME NEW i \in 1..Len(outbox'), IsStep(outbox'[i])
      PROVE  outbox'[i].to \in DOMAIN taskMap' \/ OutEndAfter(i)'
  <2>1. i + 1 \in 1..Len(outbox) /\ outbox'[i] = outbox[i + 1]
    BY <1>2
  <2>2. outbox[i + 1].to \in DOMAIN taskMap \/ OutEndAfter(i + 1)
    BY <1>4, <2>1 DEF ServerEndsSteps
  <2>3. CASE OutEndAfter(i + 1)
    <3>1. PICK j \in 1..Len(outbox) :
              i + 1 < j /\ outbox[j].to = outbox[i + 1].to /\ RealEnd(outbox[j])
      BY <2>3 DEF OutEndAfter
    <3>2. j \in 2..Len(outbox) /\ i < j - 1
      BY <1>2, <3>1
    <3>3. j - 1 \in 1..Len(outbox') /\ outbox'[j - 1] = outbox[j]
      BY <1>3, <3>2
    <3> QED BY <2>1, <3>1, <3>2, <3>3 DEF OutEndAfter, RealEnd
  <2> QED BY <1>1, <2>1, <2>2, <2>3
<1>5. ServerEndsSteps'
  BY <1>4 DEF ServerEndsSteps, IsStep
<1>6. ASSUME NEW a, NEW j \in 1..Len(outbox), outbox[j].to = a, RealEnd(outbox[j]), j # 1
      PROVE  Ending(a)'
  <2>1. j - 1 \in 1..Len(outbox') /\ outbox'[j - 1] = outbox[j]
    BY <1>2, <1>3, <1>6
  <2> QED BY <1>6, <2>1 DEF Ending, RealEnd
<1>7. ASSUME NEW a, Ending(a)
      PROVE  Ending(a)' \/ (RealEnd(h) /\ h.to = a)
  <2>1. CASE a \in DOMAIN taskMap
    BY <1>1, <2>1 DEF Ending
  <2>2. CASE \E j \in 1..Len(outbox) : outbox[j].to = a /\ RealEnd(outbox[j])
    BY <1>2, <1>6, <2>2
  <2> QED BY <1>7, <2>1, <2>2 DEF Ending
<1>8. ASSUME NEW a, IsStep(h), a = h.to
      PROVE  Ending(a)'
  <2>1. 1 \in 1..Len(outbox) /\ IsStep(outbox[1])
    BY <1>2, <1>8
  <2>2. outbox[1].to \in DOMAIN taskMap \/ OutEndAfter(1)
    BY <2>1 DEF ServerEndsSteps
  <2>3. CASE outbox[1].to \in DOMAIN taskMap
    BY <1>1, <1>2, <1>8, <2>3 DEF Ending
  <2>4. CASE OutEndAfter(1)
    BY <1>2, <1>6, <1>8, <2>4 DEF OutEndAfter
  <2> QED BY <2>2, <2>3, <2>4
<1> QED BY <1>5, <1>7, <1>8 DEF h

\* Every other step leaves the replies to come on their way.
SameReplies == UNCHANGED outbox /\ DOMAIN taskMap' = DOMAIN taskMap

LEMMA EndsStay ==
    ASSUME Sound, HasIds, ServerEndsSteps, Proved!HandleEvent \/ SameReplies
    PROVE  ServerEndsSteps' /\ EndingStays
<1>1. outbox \in Seq(Proved!Reply) /\ ServerSound
  BY DEF Sound, ServerSound, Proved!TypeOK
<1>2. CASE Proved!HandleEvent
  BY <1>1, <1>2, HandlersReply, EndsStayThen
<1>3. CASE SameReplies
  BY <1>1, <1>3, EndsStayThen DEF KeepsTasks, SameReplies
<1> QED BY <1>2, <1>3

ClientEndsSteps == WireEndsSteps /\ DialogEnds /\ WindowEndsSteps

LEMMA NothingRead ==
    ASSUME ClientEndsSteps, UNCHANGED <<dialog, guiEvents, down, link>>, Coming => Coming'
    PROVE  ClientEndsSteps'
BY DEF ClientEndsSteps, WireEndsSteps, DialogEnds, WindowEndsSteps, DownEndAfter, ClosedAfter,
       Soon, IsStep, RealEnd, Closes

LEMMA ComingStays ==
    ASSUME EndingStays, link' = link, torn' = torn, Shut => Shut', served => served' \/ Shut'
    PROVE  Coming => Coming'
<1> SUFFICES ASSUME Coming PROVE Coming'
  OBVIOUS
<1>1. CASE Shut \/ OutOfStep
  BY <1>1 DEF Coming, OutOfStep
<1>2. CASE served /\ Ending(link)
  <2>1. Ending(link)'
    <3>1. PICK a : a = link
      OBVIOUS
    <3>2. Ending(a)'
      BY <1>2, <3>1 DEF EndingStays
    <3> QED BY <3>1, <3>2 DEF Ending
  <2> QED BY <1>2, <2>1 DEF Coming
<1> QED BY <1>1, <1>2 DEF Coming

\* Whoever is told that the connection is lost needs no other end.
LEMMA UnconnectedEnds ==
    ASSUME Sound, guiEvents' = Append(guiEvents, Unconnected), down' = << >>,
           UNCHANGED dialog
    PROVE  ClientEndsSteps'
<1>1. /\ Len(guiEvents) \in Nat /\ Len(guiEvents') = Len(guiEvents) + 1
      /\ \A i \in 1..Len(guiEvents) : i \in 1..Len(guiEvents') /\ guiEvents'[i] = guiEvents[i]
      /\ Len(guiEvents) + 1 \in 1..Len(guiEvents') /\ guiEvents'[Len(guiEvents) + 1] = Unconnected
  BY AddAny DEF Sound, ClientSound
<1>2. ASSUME NEW i \in 0..Len(guiEvents)
      PROVE  ClosedAfter(i)'
  <2>1. i < Len(guiEvents) + 1
    BY <1>1
  <2> QED BY <1>1, <2>1 DEF ClosedAfter, Closes
<1>3. ASSUME NEW i \in 1..Len(guiEvents'), IsStep(guiEvents'[i])
      PROVE  i \in 0..Len(guiEvents)
  BY <1>1, <1>3 DEF IsStep, Unconnected
<1>4. WireEndsSteps'
  BY DEF WireEndsSteps
<1>5. DialogEnds'
  BY <1>1, <1>2 DEF DialogEnds
<1>6. WindowEndsSteps'
  BY <1>2, <1>3 DEF WindowEndsSteps, IsStep
<1> QED BY <1>4, <1>5, <1>6 DEF ClientEndsSteps

\* The next reply comes to the window, with what it ends.
LEMMA ReadingInStepEnds ==
    ASSUME Sound, ClientEndsSteps, ReadReply, ~torn
    PROVE  ClientEndsSteps'
<1> DEFINE m == Head(down)
           n == Len(guiEvents)
<1>1. /\ down # << >> /\ down' = Tail(down) /\ guiEvents' = Append(guiEvents, m)
      /\ UNCHANGED <<dialog, link>> /\ Coming' = Coming
  BY DEF ReadReply, Coming, OutOfStep, Shut, Ending, windowVars, serverVars
<1>2. /\ Len(down) \in Nat \ {0} /\ m = down[1] /\ Len(down') = Len(down) - 1
      /\ \A i \in 1..Len(down') : i + 1 \in 1..Len(down) /\ down'[i] = down[i + 1]
  BY <1>1, TakeHead DEF Sound, WireSound
<1>3. /\ n \in Nat /\ Len(guiEvents') = n + 1
      /\ \A i \in 1..n : i \in 1..Len(guiEvents') /\ guiEvents'[i] = guiEvents[i]
      /\ n + 1 \in 1..Len(guiEvents') /\ guiEvents'[n + 1] = m
  BY <1>1, AddAny DEF Sound, ClientSound
<1> HIDE DEF m, n
<1>4. ASSUME NEW i \in 0..Len(down'), DownEndAfter(i + 1)
      PROVE  DownEndAfter(i)'
  <2>1. PICK j \in 1..Len(down) : i + 1 < j /\ RealEnd(down[j])
    BY <1>4 DEF DownEndAfter
  <2>2. j - 1 \in 1..Len(down') /\ i < j - 1 /\ down'[j - 1] = down[j]
    BY <1>2, <2>1
  <2> QED BY <2>1, <2>2 DEF DownEndAfter, RealEnd
<1>5. ASSUME Soon
      PROVE  RealEnd(m) \/ Soon'
  <2>1. CASE Coming
    BY <1>1, <2>1 DEF Soon
  <2>2. CASE DownEndAfter(0)
    <3>1. PICK j \in 1..Len(down) : RealEnd(down[j])
      BY <2>2 DEF DownEndAfter
    <3>2. CASE j = 1
      BY <1>2, <3>1, <3>2
    <3>3. CASE j # 1
      <4>1. 1 < j /\ DownEndAfter(1) /\ 0 \in 0..Len(down')
        BY <1>2, <3>1, <3>3 DEF DownEndAfter
      <4>2. DownEndAfter(0)'
        BY <1>4, <4>1
      <4> QED BY <4>2 DEF Soon
    <3> QED BY <3>2, <3>3
  <2> QED BY <1>5, <2>1, <2>2 DEF Soon
<1>6. ASSUME NEW i \in 0..n, ClosedAfter(i) \/ Soon
      PROVE  ClosedAfter(i)' \/ Soon'
  <2>1. CASE ClosedAfter(i)
    BY <1>3, <2>1 DEF ClosedAfter, Closes, RealEnd, n
  <2>2. CASE RealEnd(m)
    <3>1. i < n + 1
      BY <1>3
    <3>2. ClosedAfter(i)'
      BY <1>3, <2>2, <3>1 DEF ClosedAfter, Closes, RealEnd
    <3> QED BY <3>2
  <2> QED BY <1>5, <1>6, <2>1, <2>2
<1>7. WireEndsSteps'
  <2>1. ASSUME NEW i \in 1..Len(down')
        PROVE  /\ down'[i].to = link'
               /\ IsStep(down'[i]) => DownEndAfter(i)' \/ Coming'
    BY <1>1, <1>2, <1>4, <2>1 DEF ClientEndsSteps, WireEndsSteps
  <2> QED BY <2>1 DEF WireEndsSteps, IsStep
<1>8. DialogEnds'
  BY <1>1, <1>3, <1>6 DEF ClientEndsSteps, DialogEnds
<1>9. ASSUME NEW i \in 1..Len(guiEvents'), IsStep(guiEvents'[i])
      PROVE  ClosedAfter(i)' \/ Soon'
  <2>1. CASE i \in 1..n
    BY <1>3, <1>6, <1>9, <2>1 DEF ClientEndsSteps, WindowEndsSteps, n
  <2>2. CASE i = n + 1
    <3>1. IsStep(down[1]) /\ 1 \in 1..Len(down)
      BY <1>2, <1>3, <1>9, <2>2
    <3>2. DownEndAfter(1) \/ Coming
      BY <3>1 DEF ClientEndsSteps, WireEndsSteps
    <3>3. 0 \in 0..Len(down')
      BY <1>2
    <3> QED BY <1>1, <1>4, <3>2, <3>3 DEF Soon
  <2> QED BY <1>3, <2>1, <2>2
<1>10. WindowEndsSteps'
  BY <1>9 DEF WindowEndsSteps, IsStep
<1> QED BY <1>7, <1>8, <1>10 DEF ClientEndsSteps

\* Out of step, nothing is promised before the connection is lost.
LEMMA ReadingEnds ==
    ASSUME Sound, ClientEndsSteps, ReadReply
    PROVE  ClientEndsSteps'
<1>1. CASE ~torn
  BY <1>1, ReadingInStepEnds
<1>2. CASE torn
  <2>1. down # << >> /\ down' = Tail(down) /\ torn' /\ link' = link
    BY <1>2 DEF ReadReply
  <2>2. Coming' /\ Soon'
    BY <2>1 DEF Sound, WireSound, Coming, OutOfStep, Soon
  <2>3. \A i \in 1..Len(down') : i + 1 \in 1..Len(down) /\ down'[i] = down[i + 1]
    BY <2>1, TakeHead DEF Sound, WireSound
  <2>4. WireEndsSteps'
    BY <2>1, <2>2, <2>3 DEF ClientEndsSteps, WireEndsSteps
  <2> QED BY <2>2, <2>4 DEF ClientEndsSteps, DialogEnds, WindowEndsSteps
<1> QED BY <1>1, <1>2

\* The window handles what came first.
LEMMA HandlingEnds ==
    ASSUME Sound, ClientEndsSteps, Window
    PROVE  ClientEndsSteps'
<1> DEFINE e == Head(guiEvents)
<1>1. /\ guiEvents # << >> /\ guiEvents' = Tail(guiEvents)
      /\ UNCHANGED <<up, down, link, served, torn, taskMap, outbox>>
  BY DEF Window, HandleGuiEvent, OnFinalReply, OnRefused, OnProgress, OnSocketStateChanged, Take,
         serverVars, readVars
<1>2. /\ Len(guiEvents) \in Nat \ {0} /\ e = guiEvents[1]
      /\ Len(guiEvents') = Len(guiEvents) - 1
      /\ \A i \in 1..Len(guiEvents') :
            i + 1 \in 1..Len(guiEvents) /\ guiEvents'[i] = guiEvents[i + 1]
  BY <1>1, TakeHead DEF Sound, ClientSound
<1>3. Coming' = Coming /\ Soon' = Soon
  BY <1>1 DEF Coming, OutOfStep, Shut, Ending, Soon, DownEndAfter
<1>4. ASSUME NEW i \in 0..Len(guiEvents'), ClosedAfter(i + 1)
      PROVE  ClosedAfter(i)'
  <2>1. PICK j \in 1..Len(guiEvents) : i + 1 < j /\ Closes(guiEvents[j])
    BY <1>4 DEF ClosedAfter
  <2>2. j - 1 \in 1..Len(guiEvents') /\ i < j - 1 /\ guiEvents'[j - 1] = guiEvents[j]
    BY <1>2, <2>1
  <2> QED BY <2>1, <2>2 DEF ClosedAfter, Closes, RealEnd
<1>5. WireEndsSteps'
  BY <1>1, <1>3 DEF ClientEndsSteps, WireEndsSteps, DownEndAfter, IsStep, RealEnd
<1>6. WindowEndsSteps'
  <2>1. ASSUME NEW i \in 1..Len(guiEvents'), IsStep(guiEvents'[i])
        PROVE  ClosedAfter(i)' \/ Soon'
    <3>1. i + 1 \in 1..Len(guiEvents) /\ IsStep(guiEvents[i + 1])
      BY <1>2, <2>1
    <3>2. ClosedAfter(i + 1) \/ Soon
      BY <3>1 DEF ClientEndsSteps, WindowEndsSteps
    <3>3. i \in 0..Len(guiEvents')
      BY <1>2
    <3> QED BY <1>3, <1>4, <3>2, <3>3
  <2> QED BY <2>1 DEF WindowEndsSteps, IsStep
<1>7. 0 \in 0..Len(guiEvents') /\ 1 \in 1..Len(guiEvents)
  BY <1>2
<1>8. DialogEnds'
  <2>1. CASE OnFinalReply \/ OnSocketStateChanged
    <3>1. dialog' = FALSE
      BY <2>1 DEF OnFinalReply, OnSocketStateChanged, ResetAwaitingState
    <3> QED BY <3>1 DEF DialogEnds
  <2>2. CASE OnProgress
    <3>1. IsStep(guiEvents[1])
      BY <1>2, <2>2 DEF OnProgress, Take, IsStep
    <3>2. ClosedAfter(0 + 1) \/ Soon
      BY <1>7, <3>1 DEF ClientEndsSteps, WindowEndsSteps
    <3> QED BY <1>3, <1>4, <1>7, <3>2 DEF DialogEnds
  <2>3. CASE OnRefused
    <3>1. dialog' = dialog /\ ~Closes(guiEvents[1])
      BY <1>2, <2>3 DEF OnRefused, Take, Closes, RealEnd, Unconnected, windowVars
    <3>2. ClosedAfter(0) => ClosedAfter(0 + 1)
      BY <1>2, <3>1 DEF ClosedAfter
    <3> QED BY <1>3, <1>4, <1>7, <3>1, <3>2 DEF ClientEndsSteps, DialogEnds
  <2> QED BY <2>1, <2>2, <2>3 DEF Window, HandleGuiEvent
<1> QED BY <1>5, <1>6, <1>8 DEF ClientEndsSteps

\* A reply is written to the connection that has its address now.
LEMMA WritingEnds ==
    ASSUME Sound, ServerEndsSteps, ClientEndsSteps, WriteReply
    PROVE  ClientEndsSteps'
<1> DEFINE m == Head(outbox)
           n == Len(down)
<1>1. /\ Proved!Deliver /\ UNCHANGED <<dialog, guiEvents, link, served, torn, up>>
      /\ down' = IF m.to = link /\ served THEN Append(down, m) ELSE down
  BY SameNetActions DEF WriteReply, windowVars, readVars
<1>2. /\ \A a : Ending(a) => Ending(a)' \/ (RealEnd(m) /\ m.to = a)
      /\ \A a : IsStep(m) /\ a = m.to => Ending(a)'
  BY <1>1, EndsAfterDeliver DEF Sound
<1>3. down \in Seq(Proved!Reply)
  BY DEF Sound, WireSound
<1> HIDE DEF m
<1>4. Shut' = Shut
  BY <1>1 DEF Shut
<1>5. ASSUME Coming
      PROVE  Coming' \/ (RealEnd(m) /\ m.to = link /\ served)
  <2>1. CASE Shut \/ OutOfStep
    BY <1>1, <1>4, <2>1 DEF Coming, OutOfStep
  <2>2. CASE served /\ Ending(link)
    <3>1. PICK a : a = link
      OBVIOUS
    <3>2. Ending(a)' \/ (RealEnd(m) /\ m.to = a)
      BY <1>2, <2>2, <3>1
    <3>3. Ending(a)' => Coming'
      BY <1>1, <2>2, <3>1 DEF Coming, Ending
    <3> QED BY <2>2, <3>1, <3>2, <3>3
  <2> QED BY <1>5, <2>1, <2>2 DEF Coming
<1>6. CASE ~(m.to = link /\ served)
  <2>1. down' = down /\ (Coming => Coming')
    BY <1>1, <1>5, <1>6
  <2> QED BY <1>1, <2>1, NothingRead
<1>7. CASE m.to = link /\ served
  <2>1. /\ n \in Nat /\ Len(down') = n + 1
        /\ \A i \in 1..n : i \in 1..Len(down') /\ down'[i] = down[i]
        /\ n + 1 \in 1..Len(down') /\ down'[n + 1] = m
    BY <1>1, <1>3, <1>7, AddAny
  <2> HIDE DEF n
  <2>2. ASSUME NEW i \in 0..n, DownEndAfter(i) \/ Coming
        PROVE  DownEndAfter(i)' \/ Coming'
    <3>1. CASE DownEndAfter(i)
      BY <2>1, <3>1 DEF DownEndAfter, RealEnd, n
    <3>2. CASE RealEnd(m)
      <4>1. i < n + 1
        BY <2>1
      <4> QED BY <2>1, <3>2, <4>1 DEF DownEndAfter, RealEnd
    <3> QED BY <1>5, <2>2, <3>1, <3>2
  <2>3. ASSUME IsStep(m)
        PROVE  Coming'
    <3>1. PICK a : a = m.to
      OBVIOUS
    <3>2. Ending(a)'
      BY <1>2, <2>3, <3>1
    <3> QED BY <1>1, <1>7, <3>1, <3>2 DEF Coming, Ending
  <2>4. ASSUME NEW i \in 1..Len(down')
        PROVE  /\ down'[i].to = link'
               /\ IsStep(down'[i]) => DownEndAfter(i)' \/ Coming'
    <3>1. CASE i \in 1..n
      <4>1. /\ down[i].to = link
            /\ IsStep(down[i]) => DownEndAfter(i) \/ Coming
        BY <3>1 DEF ClientEndsSteps, WireEndsSteps, n
      <4>2. down'[i] = down[i] /\ i \in 0..n
        BY <2>1, <3>1
      <4> QED BY <1>1, <2>2, <4>1, <4>2
    <3>2. CASE i = n + 1
      BY <1>1, <1>7, <2>1, <2>3, <3>2
    <3> QED BY <2>1, <3>1, <3>2
  <2>5. WireEndsSteps'
    BY <2>4 DEF WireEndsSteps, IsStep
  <2>6. Soon => Soon'
    <3>1. 0 \in 0..n
      BY <2>1
    <3> QED BY <2>2, <3>1 DEF Soon
  <2>7. DialogEnds' /\ WindowEndsSteps'
    BY <1>1, <2>6 DEF ClientEndsSteps, DialogEnds, WindowEndsSteps, ClosedAfter, IsStep, Closes,
                      RealEnd
  <2> QED BY <2>5, <2>7 DEF ClientEndsSteps
<1> QED BY <1>6, <1>7

\* All that is neither read nor written.
QuietStep ==
    \/ Click \/ LoginAgain \/ SendPosted \/ ReadRequest \/ ServerMain
    \/ (\E a \in Addr : CloseSocket(a) \/ ServerPool(a))
    \/ UNCHANGED vars

LEMMA QuietKeepsComing ==
    ASSUME Sound, QuietStep, EndingStays
    PROVE  Coming => Coming'
<1>0. torn' = torn
  BY DEF QuietStep, Click, LoginAgain, SendPosted, ReadRequest, ServerMain, CloseSocket,
         ServerPool, netVars, readVars, vars
<1>1. CASE Click \/ ServerMain \/ (\E a \in Addr : ServerPool(a)) \/ UNCHANGED vars
  <2>1. UNCHANGED <<up, link, served>>
    BY <1>1 DEF Click, OnSendRequest, OnSendCancel, ServerMain, ServerPool, netVars, vars
  <2> QED BY <2>1, <1>0, ComingStays DEF Shut
<1>2. CASE LoginAgain
  <2>1. ~Shut /\ UNCHANGED <<link, served>>
    BY <1>2 DEF LoginAgain
  <2> QED BY <2>1, <1>0, ComingStays
<1>3. CASE SendPosted
  <2>1. /\ up' = up \/ up' = Append(up, Head(posted))
        /\ UNCHANGED <<link, served>> /\ posted # << >>
    BY <1>3 DEF SendPosted
  <2>2. Head(posted) \in Asked /\ up \in Seq(Asked \cup {Login})
    BY <2>1, TakeHead DEF Sound, ClientSound, WireSound
  <2>3. Head(posted) # Login
    BY <2>2 DEF Asked, Login, Request
  <2>4. CASE up' = Append(up, Head(posted))
    <3>1. \A i \in 1..Len(up') : up'[i] = Head(posted) \/ \E j \in 1..Len(up) : up'[i] = up[j]
      BY <2>2, <2>4, AddLast
    <3>2. Shut => Shut'
      BY <2>1, <2>3, <3>1 DEF Shut
    <3> QED BY <2>1, <3>2, <1>0, ComingStays
  <2>5. CASE up' = up
    BY <2>1, <2>5, <1>0, ComingStays DEF Shut
  <2> QED BY <2>1, <2>4, <2>5
<1>4. CASE ReadRequest
  <2>1. link' = link /\ link # NoAddr /\ up # << >>
    BY <1>4 DEF ReadRequest
  <2>2. CASE up' = << >> /\ served' = served
    <3>1. Shut' <=> ~served
      BY <2>1, <2>2 DEF Shut
    <3> QED BY <2>1, <2>2, <3>1, <1>0, ComingStays DEF Shut
  <2>3. CASE served /\ served' = served
    BY <2>1, <2>3, <1>0, ComingStays DEF Shut
  <2>4. CASE ~served /\ Head(up) = Login
    <3>1. 1 \in 1..Len(up) /\ up[1] = Login
      BY <2>1, <2>4, TakeHead DEF Sound, WireSound
    <3>2. ~Shut
      BY <3>1 DEF Shut
    <3> QED BY <1>0, <2>1, <2>4, <3>2 DEF Coming, OutOfStep
  <2> QED BY <1>4, <2>2, <2>3, <2>4 DEF ReadRequest
<1>5. ASSUME NEW a \in Addr, CloseSocket(a)
      PROVE  Coming => Coming'
  <2>1. /\ link' = link /\ served' = (served /\ a # link)
        /\ up' = IF served /\ a = link THEN << >> ELSE up
    BY <1>5 DEF CloseSocket
  <2>2. CASE served /\ a = link
    <3>1. ~served' /\ up' = << >>
      BY <2>1, <2>2
    <3>2. link' # NoAddr
      BY <2>1, <2>2 DEF Sound, WireSound
    <3>3. Shut'
      BY <3>1, <3>2 DEF Shut
    <3> QED BY <3>3 DEF Coming
  <2>3. CASE ~(served /\ a = link)
    <3>1. up' = up /\ (served' <=> served)
      BY <2>1, <2>3
    <3>2. Shut' <=> Shut
      BY <2>1, <3>1 DEF Shut
    <3> QED BY <2>1, <3>1, <3>2, <1>0, ComingStays
  <2> QED BY <2>2, <2>3
<1> QED BY <1>1, <1>2, <1>3, <1>4, <1>5 DEF QuietStep

LEMMA StepsEndStep ==
    ASSUME ClientServerAssumption, Sound, StepsEnd, [Next]_vars
    PROVE  StepsEnd'
<1> USE DEF StepsEnd
<1>1. HasIds'
  BY ServerSteps, IdsStep DEF Sound
<1>2. ClientEndsSteps
  BY DEF ClientEndsSteps
<1>3. ASSUME ServerEndsSteps', ClientEndsSteps'
      PROVE  StepsEnd'
  BY <1>1, <1>3 DEF ClientEndsSteps
<1>4. CASE WriteReply
  BY <1>2, <1>3, <1>4, WritingEnds, EndsAfterDeliver, SameNetActions DEF WriteReply, Sound
<1>6. ASSUME ~WriteReply
      PROVE  ServerEndsSteps' /\ EndingStays
  <2>1. CASE ServerMain
    BY <2>1, SameHandlers, EndsStay DEF ServerMain
  <2>2. CASE UNCHANGED serverVars
    BY <2>2, EndsStay DEF serverVars, SameReplies
  <2>3. CASE ReadRequest \/ \E a \in Addr : CloseSocket(a)
    BY <2>2, <2>3, EndsStay DEF ReadRequest, CloseSocket, Server!Connect, Server!Arrive,
                                Server!Leave, SameReplies
  <2>4. ASSUME NEW a \in Addr, ServerPool(a)
        PROVE  ServerEndsSteps' /\ EndingStays
    <3>1. Proved!Compute(a)
      BY <2>4, SamePoolActions DEF ServerPool
    <3> QED BY <3>1, EndsStay DEF Proved!Compute, Proved!CompleteChunk, Proved!ReportFinished,
                                  SameReplies
  <2> QED BY <1>6, <2>1, <2>2, <2>3, <2>4
          DEF Next, Click, Window, Open, FailToOpen, LoginAgain, SendPosted, ReadReply, LoseLink,
              NoticeShut, Drop, vars
<1>7. CASE QuietStep /\ ~WriteReply
  <2>1. Coming => Coming'
    BY <1>6, <1>7, QuietKeepsComing
  <2>2. UNCHANGED <<dialog, guiEvents, down, link>>
    <3>1. CASE Click \/ LoginAgain \/ SendPosted \/ ReadRequest
      BY <3>1 DEF Click, OnSendRequest, OnSendCancel, LoginAgain, SendPosted, ReadRequest,
                  windowVars
    <3>2. CASE ServerMain \/ (\E a \in Addr : CloseSocket(a) \/ ServerPool(a)) \/ UNCHANGED vars
      BY <3>2 DEF ServerMain, CloseSocket, ServerPool, vars, netVars, windowVars
    <3> QED BY <1>7, <3>1, <3>2 DEF QuietStep
  <2> QED BY <1>2, <1>3, <1>6, <1>7, <2>1, <2>2, NothingRead
<1>8. CASE Window /\ ~WriteReply
  BY <1>2, <1>3, <1>6, <1>8, HandlingEnds
<1>9. CASE ReadReply /\ ~WriteReply
  BY <1>2, <1>3, <1>6, <1>9, ReadingEnds
<1>10. CASE (FailToOpen \/ LoseLink \/ NoticeShut) /\ ~WriteReply
  <2>1. guiEvents' = Append(guiEvents, Unconnected) /\ down' = << >> /\ UNCHANGED dialog
    BY <1>10 DEF FailToOpen, LoseLink, NoticeShut, Drop, Sound, WireSound, windowVars
  <2> QED BY <1>3, <1>6, <1>10, <2>1, UnconnectedEnds
<1>11. CASE Open /\ ~WriteReply
  <2>1. link = NoAddr /\ down' = << >> /\ UNCHANGED <<dialog, guiEvents>>
    BY <1>11 DEF Open, windowVars
  <2>2. down = << >> /\ ~Coming
    BY <2>1 DEF Sound, WireSound, Coming, OutOfStep, Shut
  <2>3. ~Soon
    BY <2>2 DEF Soon, DownEndAfter
  <2>4. ClientEndsSteps'
    BY <1>2, <2>1, <2>3 DEF ClientEndsSteps, WireEndsSteps, DialogEnds, WindowEndsSteps,
                            ClosedAfter, IsStep, RealEnd, Closes
  <2> QED BY <1>3, <1>6, <1>11, <2>4
<1> QED BY <1>4, <1>7, <1>8, <1>9, <1>10, <1>11 DEF Next, QuietStep

\* What ends a task is awaited.
LEMMA AwaitedIsPositive ==
    ASSUME Sound,
           \/ Ending(link)
           \/ \E j \in 1..Len(down) : RealEnd(down[j]) /\ down[j].to = link
           \/ \E j \in 1..Len(guiEvents) : RealEnd(guiEvents[j]) /\ guiEvents[j] # Unconnected
    PROVE  Awaited > 0
<1>1. AwaitedTerms /\ Queues
  BY AwaitedHasTerms, QueuesAreSound
<1>2. \A m : RealEnd(m) => EndsTask(m)
  BY DEF RealEnd, EndsTask
<1>3. /\ At(outbox, OwnEnd) \subseteq 1..Len(outbox)
      /\ At(down, OwnEnd) \subseteq 1..Len(down)
      /\ At(guiEvents, AnyEnd) \subseteq 1..Len(guiEvents)
  BY DEF At
<1>4. CASE link \in DOMAIN taskMap
  <2>1. One(link \in DOMAIN taskMap) = 1
    BY <1>4 DEF One
  <2> QED BY <1>1, <2>1 DEF AwaitedTerms
<1>5. CASE \E j \in 1..Len(outbox) : outbox[j].to = link /\ RealEnd(outbox[j])
  <2>1. At(outbox, OwnEnd) # {}
    BY <1>2, <1>5 DEF At, OwnEnd, OfLink
  <2>2. Cardinality(At(outbox, OwnEnd)) # 0
    BY <1>1, <1>3, <2>1, SomePlace DEF Queues
  <2> QED BY <1>1, <2>2 DEF AwaitedTerms
<1>6. CASE \E j \in 1..Len(down) : RealEnd(down[j]) /\ down[j].to = link
  <2>1. At(down, OwnEnd) # {}
    BY <1>2, <1>6 DEF At, OwnEnd, OfLink
  <2>2. Cardinality(At(down, OwnEnd)) # 0
    BY <1>1, <1>3, <2>1, SomePlace DEF Queues
  <2> QED BY <1>1, <2>2 DEF AwaitedTerms
<1>7. CASE \E j \in 1..Len(guiEvents) : RealEnd(guiEvents[j]) /\ guiEvents[j] # Unconnected
  <2>1. At(guiEvents, AnyEnd) # {}
    BY <1>2, <1>7 DEF At, AnyEnd
  <2>2. Cardinality(At(guiEvents, AnyEnd)) # 0
    BY <1>1, <1>3, <2>1, SomePlace DEF Queues
  <2> QED BY <1>1, <2>2 DEF AwaitedTerms
<1> QED BY <1>4, <1>5, <1>6, <1>7 DEF Ending

\* The progress dialog closes with its task: whenever it is on the screen, the end
\* of the task is on its way to the window, behind every message of progress, or
\* the loss of the connection is, over all the queues there are; unless the
\* connection of now is one that is read out of step.
THEOREM DialogEndsWithItsTask == ClientServerAssumption => (Spec => []DialogShowsATask)
<1> SUFFICES ASSUME ClientServerAssumption PROVE Spec => []DialogShowsATask
  OBVIOUS
<1>1. Init => StepsEnd
  BY DEF Init, WindowInit, Server!Init, StepsEnd, HasIds, ServerEndsSteps, WireEndsSteps,
         DialogEnds, WindowEndsSteps
<1>2. StepsEnd /\ Sound /\ [Next]_vars => StepsEnd'
  BY StepsEndStep
<1>3. StepsEnd /\ Sound => DialogShowsATask
  <2> SUFFICES ASSUME StepsEnd, Sound, dialog, ~ToldUnconnected, ~Shut, ~OutOfStep
                  PROVE  Awaited > 0
    BY DEF DialogShowsATask
  <2>1. ClosedAfter(0) \/ DownEndAfter(0) \/ Ending(link)
    BY DEF StepsEnd, DialogEnds, Soon, Coming
  <2>2. CASE ClosedAfter(0)
    <3>1. PICK j \in 1..Len(guiEvents) : Closes(guiEvents[j])
      BY <2>2 DEF ClosedAfter
    <3>2. RealEnd(guiEvents[j]) /\ guiEvents[j] # Unconnected
      BY <3>1 DEF Closes, ToldUnconnected
    <3> QED BY <3>2, AwaitedIsPositive
  <2>3. CASE DownEndAfter(0)
    BY <2>3, AwaitedIsPositive DEF DownEndAfter, StepsEnd, WireEndsSteps
  <2> QED BY <2>1, <2>2, <2>3, AwaitedIsPositive
<1> QED BY <1>1, <1>2, <1>3, AlwaysSound, PTL DEF Spec
=============================================================================
