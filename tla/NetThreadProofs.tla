--------------------------- MODULE NetThreadProofs ---------------------------
(***************************************************************************)
(* Proofs about a TcpClient on its net thread, for any hosts and settings  *)
(* and any number of calls by other threads.                               *)
(***************************************************************************)
EXTENDS NetThread, TLAPS

-----------------------------------------------------------------------------
(* The state of the object.                                                 *)

Known == Settings \cup {NoSettings}

Setters == [at : {"test", "write"}, call : Setting] \cup {NoSetter}

Object == [
    conn : {"NotCreated", "Created", "IncorrectIp"},
    settings : Known,
    authorization : BOOLEAN,
    setter : Setters,
    raced : BOOLEAN,
    socket : {"unconnected", "connected", "closing"},
    peer : Host \cup {NoHost},
    timer : BOOLEAN,
    wanted : BOOLEAN,
    written : Seq({"login", "request"}),
    crossed : BOOLEAN,
    said : SUBSET {"opened", "closed"}]

\* The fields fit each other.
Fits(c) ==
    /\ c \in Object
    /\ c.conn = "Created" => c.wanted
    /\ c.conn = "Created" /\ ~c.raced =>
          c.settings.local /\ c.settings.dest # NoHost /\ c.setter.at # "write"
    /\ c.peer = NoHost <=> c.socket = "unconnected"
    /\ c.socket = "unconnected" => c.written = << >>
    /\ (c.conn = "Created" /\ c.socket = "connected" /\ ~c.raced) => c.peer = c.settings.dest

LogsInFirst(c) ==
    (c.socket = "connected" /\ c.conn = "Created" /\ c.authorization /\ ~c.raced) =>
        c.written # << >> /\ Head(c.written) = "login"

LogsInOnce(c) ==
    \A i, j \in 1..Len(c.written) :
        (i < j /\ c.written[i] = "login" /\ c.written[j] = "login") => c.crossed

Sound(c) == Fits(c) /\ LogsInFirst(c) /\ LogsInOnce(c)

\* An attempt to connect is behind the event that is being handled.
Tries(e) == e.op \in {"try", "open"}
TriesLater == \E k \in 2..Len(events) : Tries(events[k])

\* What a handler may make of c.
Results(c, d) ==
    /\ Sound(d)
    /\ d.timer => d.socket # "connected" /\ (c.timer \/ enabled)
    /\ d.socket = "connected" /\ TriesLater => d.crossed

\* What a handler is called with.  To log in again is for a connection that is
\* crossed.
Ready(c) ==
    /\ Sound(c)
    /\ c.timer => c.socket # "connected"
    /\ c.socket = "connected" /\ TriesLater => c.crossed

SwitchesOK == enabled \in BOOLEAN

\* What a handler leaves of an object unless it opens, closes or sets.
Kept(c, d) ==
    /\ d.conn = c.conn /\ d.settings = c.settings /\ d.wanted = c.wanted
    /\ d.authorization = c.authorization /\ d.setter = c.setter /\ d.raced = c.raced

LEMMA KnownIs ==
    ASSUME TcpClientAssumption, NEW s \in Known
    PROVE  s \in [local : BOOLEAN, dest : Host \cup {NoHost}]
<1>1. NoSettings \in [local : BOOLEAN, dest : Host \cup {NoHost}]
  BY DEF NoSettings
<1> QED BY <1>1 DEF TcpClientAssumption, Known

-----------------------------------------------------------------------------
(* Handlers.                                                                *)

\* A message behind those that were written.
LEMMA AppendedIs ==
    ASSUME NEW w \in Seq({"login", "request"}), NEW kind \in {"login", "request"}
    PROVE  /\ Append(w, kind) \in Seq({"login", "request"})
           /\ Append(w, kind) # << >>
           /\ Len(w) \in Nat /\ Len(Append(w, kind)) = Len(w) + 1
           /\ \A i \in 1..Len(w) : Append(w, kind)[i] = w[i]
           /\ Append(w, kind)[Len(w) + 1] = kind
           /\ w # << >> => Head(Append(w, kind)) = Head(w)
           /\ w = << >> => Head(Append(w, kind)) = kind
OBVIOUS

\* The object after a message was written to it, or not.
Wrote(c, d, kind) ==
    /\ d \in Object /\ Kept(c, d)
    /\ d.socket = c.socket /\ d.peer = c.peer
    /\ d.timer = c.timer /\ d.crossed = c.crossed
    /\ \/ c.socket # "connected" /\ d.written = c.written
       \/ c.socket = "connected" /\ d.written = Append(c.written, kind)

LEMMA SendIs ==
    ASSUME NEW c \in Object, NEW kind \in {"login", "request"}
    PROVE  Wrote(c, sendMessage(c, kind), kind)
<1>1. CASE c.socket = "connected"
  <2>1. Append(c.written, kind) \in Seq({"login", "request"})
    BY AppendedIs DEF Object
  <2>2. sendMessage(c, kind) = [c EXCEPT !.written = Append(c.written, kind)]
    BY <1>1 DEF sendMessage
  <2> QED BY <1>1, <2>1, <2>2 DEF Wrote, Object, Kept
<1>2. CASE c.socket # "connected"
  BY <1>2 DEF sendMessage, Wrote, Kept
<1> QED BY <1>1, <1>2

\* A message other than the login, or the login where nothing was written
\* before, or on a connection that is crossed.
LEMMA WroteIsSound ==
    ASSUME NEW c, NEW d, NEW kind \in {"login", "request"}, Wrote(c, d, kind),
           Fits(c), LogsInOnce(c),
           c.socket = "connected" =>
               \/ kind = "request" /\ LogsInFirst(c)
               \/ kind = "login" /\ c.crossed /\ LogsInFirst(c)
               \/ kind = "login" /\ c.written = << >>
    PROVE  Sound(d)
<1>1. CASE c.socket # "connected"
  BY <1>1 DEF Wrote, Sound, Fits, LogsInFirst, LogsInOnce, Kept
<1>2. CASE c.socket = "connected"
  <2> DEFINE w == c.written
  <2>1. /\ d.written = Append(w, kind) /\ w \in Seq({"login", "request"})
        /\ d \in Object /\ Kept(c, d) /\ d.socket = "connected"
        /\ d.peer = c.peer /\ d.crossed = c.crossed
    BY <1>2 DEF Wrote, Fits, Object
  <2>2. Fits(d)
    BY <1>2, <2>1 DEF Fits, Kept
  <2> HIDE DEF w
  <2>3. LogsInFirst(d)
    <3>1. d.written # << >>
      BY <2>1, AppendedIs
    <3>2. CASE w = << >> /\ kind = "login"
      BY <2>1, <3>1, <3>2, AppendedIs DEF LogsInFirst
    <3>3. CASE LogsInFirst(c)
      <4>1. w # << >> => Head(d.written) = Head(w)
        BY <2>1, AppendedIs
      <4> QED BY <1>2, <2>1, <3>1, <3>3, <4>1 DEF LogsInFirst, w, Kept
    <3> QED BY <1>2, <3>2, <3>3 DEF w
  <2>4. LogsInOnce(d)
    <3> SUFFICES ASSUME NEW i \in 1..Len(d.written), NEW j \in 1..Len(d.written), i < j,
                        d.written[i] = "login", d.written[j] = "login", ~c.crossed
                 PROVE  FALSE
      BY <2>1 DEF LogsInOnce
    <3>1. /\ Len(w) \in Nat /\ Len(d.written) = Len(w) + 1
          /\ \A k \in 1..Len(w) : d.written[k] = w[k]
          /\ d.written[Len(w) + 1] = kind
      BY <2>1, AppendedIs
    <3>2. i \in 1..Len(w) /\ w[i] = "login"
      BY <3>1
    <3>3. kind = "request"
      BY <1>2, <3>2 DEF w
    <3>4. j \in 1..Len(w) /\ w[j] = "login"
      BY <3>1, <3>3
    <3> QED BY <3>2, <3>4 DEF LogsInOnce, w
  <2> QED BY <2>2, <2>3, <2>4 DEF Sound
<1> QED BY <1>1, <1>2

\* The login may be written.
MayLogIn(c) == c.written = << >> \/ (c.crossed /\ LogsInFirst(c))

LEMMA SucceededIs ==
    ASSUME SwitchesOK, NEW c, Fits(c), LogsInOnce(c), c.socket = "connected", MayLogIn(c)
    PROVE  /\ Sound(Succeeded(c))
           /\ Succeeded(c).timer = FALSE /\ Succeeded(c).socket = "connected"
           /\ Succeeded(c).crossed = c.crossed
<1> DEFINE b == [Say(c, "opened") EXCEPT !.timer = FALSE]
<1>1. /\ b \in Object /\ b.timer = FALSE /\ Kept(c, b)
      /\ b.socket = c.socket /\ b.peer = c.peer
      /\ b.written = c.written /\ b.crossed = c.crossed
  BY DEF Fits, Object, Say, Kept
<1>2. Succeeded(c) = IF b.authorization THEN sendMessage(b, "login") ELSE b
  BY DEF Succeeded, authorize
<1> HIDE DEF b
<1>3. Fits(b) /\ LogsInOnce(b) /\ (LogsInFirst(c) => LogsInFirst(b))
  BY <1>1 DEF Fits, LogsInOnce, LogsInFirst, Kept
<1>4. CASE b.authorization
  <2>1. Wrote(b, Succeeded(c), "login")
    BY <1>1, <1>2, <1>4, SendIs
  <2>2. Sound(Succeeded(c))
    BY <1>1, <1>3, <2>1, WroteIsSound DEF MayLogIn
  <2> QED BY <1>1, <2>1, <2>2 DEF Wrote
<1>5. CASE ~b.authorization
  BY <1>1, <1>2, <1>3, <1>5 DEF Sound, LogsInFirst
<1> QED BY <1>4, <1>5

LEMMA GoneIs ==
    ASSUME NEW c, Fits(c)
    PROVE  /\ Sound(Gone(c)) /\ Gone(c).socket = "unconnected"
           /\ Gone(c).timer = c.timer /\ Kept(c, Gone(c))
<1> DEFINE g == Gone(c)
<1>1. << >> \in Seq({"login", "request"}) /\ NoHost \in Host \cup {NoHost}
  OBVIOUS
<1>2. /\ g \in Object /\ g.socket = "unconnected" /\ g.peer = NoHost /\ g.written = << >>
      /\ g.timer = c.timer /\ Kept(c, g)
  BY <1>1 DEF Fits, Object, Gone, Kept
<1> HIDE DEF g
<1>3. Sound(g)
  BY <1>2 DEF Fits, Sound, LogsInFirst, LogsInOnce, Kept
<1> QED BY <1>2, <1>3 DEF g

\* onDisconnected, or an attempt that failed, whatever was there before it.
LEMMA EndedIs ==
    ASSUME SwitchesOK, NEW c, Fits(c), NEW d \in {onDisconnected(c), Failed(c)}
    PROVE  /\ Sound(d) /\ d.socket = "unconnected"
           /\ d.timer = (c.timer \/ enabled) /\ Kept(c, d)
<1>1. ASSUME NEW b, Fits(b), b.timer = c.timer, Kept(c, b),
             d = [Gone(b) EXCEPT !.timer = @ \/ enabled]
      PROVE  /\ Sound(d) /\ d.socket = "unconnected"
             /\ d.timer = (c.timer \/ enabled) /\ Kept(c, d)
  <2>1. /\ Sound(Gone(b)) /\ Gone(b).socket = "unconnected" /\ Gone(b).timer = b.timer
        /\ Kept(b, Gone(b))
    BY <1>1, GoneIs
  <2> DEFINE g == Gone(b)
  <2> HIDE DEF g
  <2>2. g \in Object /\ d = [g EXCEPT !.timer = c.timer \/ enabled]
    BY <1>1, <2>1 DEF Sound, Fits, g
  <2>3. (c.timer \/ enabled) \in BOOLEAN
    BY DEF Fits, Object, SwitchesOK
  <2>4. /\ d \in Object /\ d.timer = (c.timer \/ enabled) /\ Kept(g, d)
        /\ d.socket = g.socket /\ d.peer = g.peer
        /\ d.written = g.written /\ d.crossed = g.crossed
    BY <2>2, <2>3 DEF Object, Kept
  <2> QED BY <1>1, <2>1, <2>4 DEF Sound, Fits, LogsInFirst, LogsInOnce, Kept, g
<1>2. CASE d = onDisconnected(c)
  BY <1>1, <1>2 DEF onDisconnected, Kept
<1>3. CASE d = Failed(c)
  <2> DEFINE b == Say(c, "opened")
  <2>1. Fits(b) /\ b.timer = c.timer /\ Kept(c, b)
    BY DEF Fits, Object, Say, Kept
  <2>2. d = [Gone(b) EXCEPT !.timer = @ \/ enabled]
    BY <1>3 DEF Failed
  <2> QED BY <1>1, <2>1, <2>2
<1> QED BY <1>2, <1>3

\* A connection that there was goes on, one that is made is new.
LEMMA TryIs ==
    ASSUME TcpClientAssumption, SwitchesOK, NEW c, Fits(c), LogsInOnce(c),
           c.socket = "connected" => c.crossed /\ LogsInFirst(c),
           NEW d \in tryConnectToHost(c)
    PROVE  Results(c, d)
<1>1. CASE d = Failed(c)
  BY <1>1, EndedIs DEF Results
<1>2. CASE c.socket = "connected"
  <2>1. d = Succeeded(c)
    BY <1>2 DEF tryConnectToHost
  <2>2. MayLogIn(c)
    BY <1>2 DEF MayLogIn
  <2> QED BY <1>2, <2>1, <2>2, SucceededIs DEF Results
<1>3. CASE c.socket = "unconnected" /\ c.settings.dest # NoHost /\ d = Succeeded(Joined(c))
  <2>0. PICK b : b = Joined(c)
    OBVIOUS
  <2>1. c \in Object /\ c.settings \in Known /\ c.written = << >>
    BY <1>3 DEF Fits, Object
  <2>2. c.settings.dest \in Host
    BY <1>3, <2>1, KnownIs
  <2>3. /\ b \in Object /\ b.socket = "connected" /\ b.peer = c.settings.dest
        /\ Kept(c, b) /\ b.written = << >> /\ b.crossed = TriesLater
    BY <2>0, <2>1, <2>2 DEF Joined, Object, TriesLater, Tries, Kept
  <2>4. Fits(b) /\ LogsInOnce(b)
    BY <1>3, <2>2, <2>3, TcpClientAssumption DEF Fits, LogsInOnce, TcpClientAssumption, Kept
  <2>5. /\ Sound(Succeeded(b)) /\ Succeeded(b).timer = FALSE
        /\ Succeeded(b).crossed = b.crossed
    <3>1. b.socket = "connected" /\ MayLogIn(b)
      BY <2>3 DEF MayLogIn
    <3> QED BY <2>4, <3>1, SucceededIs
  <2> QED BY <1>3, <2>0, <2>3, <2>5 DEF Results
<1> QED BY <1>1, <1>2, <1>3 DEF tryConnectToHost

\* Between two lines of a handler a setter may have gone on, on another thread.
Moved(c, d) ==
    /\ d \in Object
    /\ d.conn = c.conn /\ d.socket = c.socket /\ d.peer = c.peer /\ d.timer = c.timer
    /\ d.wanted = c.wanted /\ d.written = c.written /\ d.crossed = c.crossed
    /\ d.raced = c.raced
    /\ c.setter = NoSetter => d.setter = NoSetter /\ d.settings = c.settings
    /\ c.conn = "Created" /\ c.setter.at # "write" =>
          /\ d.setter.at # "write"
          /\ d.settings = c.settings /\ d.authorization = c.authorization

LEMMA SettingIs ==
    ASSUME NEW call \in Setting
    PROVE  call.op = "settings" => call.with[1] \in Settings
BY DEF Setting, Event

LEMMA SetterGoesIs ==
    ASSUME NEW c \in Object
    PROVE  Moved(c, SetterGoes(c))
<1> DEFINE d == SetterGoes(c)
<1>1. /\ c.setter \in Setters /\ NoSetter \in Setters
      /\ NoSetter.at = "out" /\ c.settings \in Known /\ c.authorization \in BOOLEAN
  BY DEF Object, Setters, NoSetter
<1>2. CASE c.setter.at = "test" /\ MayBeSet(c)
  <2>1. c.setter \in [at : {"test", "write"}, call : Setting]
    BY <1>1, <1>2 DEF Setters
  <2>2. [c.setter EXCEPT !.at = "write"] \in Setters
    BY <2>1 DEF Setters
  <2>3. d = [c EXCEPT !.setter = [c.setter EXCEPT !.at = "write"]]
    BY <1>2 DEF SetterGoes
  <2> QED BY <1>1, <1>2, <2>2, <2>3 DEF Moved, Object, MayBeSet
<1>3. CASE c.setter.at = "write"
  <2> DEFINE call == c.setter.call
             x == IF call.op = "settings" THEN call.with[1] ELSE c.settings
             y == IF call.op = "settings" THEN c.authorization ELSE call.op = "authorize"
  <2>1. call \in Setting
    BY <1>1, <1>3 DEF Setters
  <2>2. x \in Known /\ y \in BOOLEAN
    BY <1>1, <2>1, SettingIs DEF Known
  <2>3. d = [c EXCEPT !.settings = x, !.authorization = y, !.setter = NoSetter]
    BY <1>3 DEF SetterGoes, Set
  <2> HIDE DEF x, y
  <2> QED BY <1>1, <1>3, <2>2, <2>3 DEF Moved, Object
<1>4. CASE c.setter.at # "write" /\ ~(c.setter.at = "test" /\ MayBeSet(c))
  <2>1. d = [c EXCEPT !.setter = NoSetter]
    BY <1>4 DEF SetterGoes
  <2> QED BY <1>1, <1>4, <2>1 DEF Moved, Object
<1> QED BY <1>2, <1>3, <1>4

LEMMA MeanwhileIs ==
    ASSUME NEW c \in Object, NEW d \in Meanwhile(c)
    PROVE  Moved(c, d)
<1>1. \A e \in Object : Moved(e, e)
  BY DEF Moved
<1>2. CASE d = c
  BY <1>1, <1>2
<1>3. PICK b : b = SetterGoes(c)
  OBVIOUS
<1>4. CASE d = b
  BY <1>3, <1>4, SetterGoesIs
<1>5. CASE d = SetterGoes(b)
  <2>1. Moved(c, b) /\ b \in Object
    BY <1>3, SetterGoesIs DEF Moved
  <2>2. Moved(b, d)
    BY <1>5, <2>1, SetterGoesIs
  <2> QED BY <2>1, <2>2 DEF Moved
<1> QED BY <1>2, <1>3, <1>4, <1>5 DEF Meanwhile

\* An object whose connection is being opened.  A setter that is at work was
\* noticed when that began.
Opening(c) ==
    /\ c \in Object /\ LogsInOnce(c)
    /\ c.raced \/ c.setter = NoSetter
    /\ c.peer = NoHost <=> c.socket = "unconnected"
    /\ c.socket = "unconnected" => c.written = << >>
    /\ c.socket = "connected" => c.crossed /\ c.timer = FALSE

LEMMA OpeningGoesOn ==
    ASSUME NEW c, Opening(c), NEW d \in Meanwhile(c)
    PROVE  Opening(d) /\ Moved(c, d) /\ (c.raced \/ d.settings = c.settings)
<1>1. Moved(c, d)
  BY MeanwhileIs DEF Opening
<1> QED BY <1>1 DEF Opening, Moved, LogsInOnce

\* An attempt that failed before the socket was touched.
LEMMA NotOpenedIs ==
    ASSUME NEW c, Opening(c), NEW k \in {"NotCreated", "IncorrectIp"},
           NEW d, d = [Say(c, "opened") EXCEPT !.conn = k]
    PROVE  Results(c, d)
<1>1. /\ d \in Object /\ d.conn = k /\ d.socket = c.socket /\ d.peer = c.peer
      /\ d.timer = c.timer /\ d.written = c.written /\ d.crossed = c.crossed
  BY DEF Opening, Object, Say
<1>2. Sound(d)
  BY <1>1 DEF Opening, Sound, Fits, LogsInFirst, LogsInOnce
<1> QED BY <1>1, <1>2 DEF Opening, Results

LEMMA TriedIs ==
    ASSUME TcpClientAssumption, SwitchesOK, NEW c, Opening(c),
           c.conn = "Created" =>
               /\ c.socket = "unconnected"
               /\ ~c.raced => c.settings.local /\ c.settings.dest # NoHost,
           NEW d \in Tried(c)
    PROVE  Results(c, d)
<1>1. PICK b : b = [c EXCEPT !.wanted = TRUE]
  OBVIOUS
<1>2. PICK e \in Meanwhile(b) : d \in tryConnectToHost(e)
  BY <1>1 DEF Tried
<1>3. /\ b \in Object /\ b.conn = c.conn /\ b.settings = c.settings /\ b.wanted = TRUE
      /\ b.setter = c.setter /\ b.raced = c.raced
      /\ b.socket = c.socket /\ b.peer = c.peer /\ b.timer = c.timer
      /\ b.written = c.written /\ b.crossed = c.crossed
  BY <1>1 DEF Opening, Object
<1>4. Opening(b)
  BY <1>3 DEF Opening, LogsInOnce
<1>5. Opening(e) /\ Moved(b, e) /\ (b.raced \/ e.settings = b.settings)
  BY <1>4, OpeningGoesOn
<1>6. NoSetter.at # "write"
  BY DEF NoSetter
<1>7. Fits(e) /\ LogsInOnce(e)
  BY <1>3, <1>5, <1>6 DEF Opening, Moved, Fits
<1>8. e.socket = "connected" => e.crossed /\ LogsInFirst(e)
  BY <1>3, <1>5 DEF Opening, Moved, LogsInFirst
<1>9. Results(e, d)
  BY <1>2, <1>7, <1>8, TryIs
<1> QED BY <1>3, <1>5, <1>9 DEF Results, Moved

LEMMA BindIs ==
    ASSUME TcpClientAssumption, SwitchesOK, NEW c, Opening(c), c.conn # "Created",
           c.raced \/ c.settings.dest # NoHost,
           NEW d \in Bind(c)
    PROVE  Results(c, d)
<1>1. CASE d = BindFailed(c)
  BY <1>1, NotOpenedIs DEF BindFailed
<1>2. CASE c.settings.local /\ d \in Bound(c)
  <2>1. PICK b : b = [c EXCEPT !.conn = "Created"]
    OBVIOUS
  <2>2. c.socket = "unconnected" /\ d \in Tried(b)
    BY <1>2, <2>1 DEF Bound
  <2>3. /\ b \in Object /\ b.conn = "Created" /\ b.settings = c.settings
        /\ b.setter = c.setter /\ b.raced = c.raced
        /\ b.socket = c.socket /\ b.peer = c.peer /\ b.timer = c.timer
        /\ b.written = c.written /\ b.crossed = c.crossed
    BY <2>1 DEF Opening, Object
  <2>4. Opening(b)
    BY <2>3 DEF Opening, LogsInOnce
  <2>5. Results(b, d)
    BY <1>2, <2>2, <2>3, <2>4, TriedIs
  <2> QED BY <2>3, <2>5 DEF Results
<1>3. CASE d \in Tried(c)
  BY <1>3, TriedIs
<1> QED BY <1>1, <1>2, <1>3 DEF Bind

LEMMA CheckedIs ==
    ASSUME TcpClientAssumption, SwitchesOK, NEW c, Opening(c), c.conn # "Created",
           NEW d \in Checked(c)
    PROVE  Results(c, d)
<1>1. CASE c.settings.dest = NoHost
  <2>1. d = [Say(c, "opened") EXCEPT !.conn = "IncorrectIp"]
    BY <1>1 DEF Checked
  <2> QED BY <2>1, NotOpenedIs
<1>2. CASE c.settings.dest # NoHost
  <2>1. PICK e \in Meanwhile(c) : d \in Bind(e)
    BY <1>2 DEF Checked
  <2>2. Opening(e) /\ Moved(c, e) /\ (c.raced \/ e.settings = c.settings)
    BY OpeningGoesOn
  <2>3. e.conn # "Created" /\ (e.raced \/ e.settings.dest # NoHost) /\ e.timer = c.timer
    BY <1>2, <2>2 DEF Moved
  <2>4. Results(e, d)
    BY <2>1, <2>2, <2>3, BindIs
  <2> QED BY <2>3, <2>4 DEF Results
<1> QED BY <1>1, <1>2

LEMMA OpenIs ==
    ASSUME TcpClientAssumption, SwitchesOK, NEW c, Ready(c),
           c.socket = "connected" => c.crossed,
           NEW s \in Known, NEW d \in openConnection(c, s)
    PROVE  Results(c, d)
<1>0. c \in Object /\ Sound(c) /\ Fits(c) /\ LogsInOnce(c)
  BY DEF Ready, Sound, Fits
<1>1. CASE c.conn = "Created"
  <2>1. d = c
    BY <1>1 DEF openConnection
  <2> QED BY <2>1 DEF Ready, Results
<1>2. CASE c.conn # "Created"
  <2>1. PICK b : b = [c EXCEPT !.settings = s, !.raced = c.setter # NoSetter]
    OBVIOUS
  <2>2. PICK e \in Meanwhile(b) : d \in Checked(e)
    BY <1>2, <2>1 DEF openConnection
  <2>3. (c.setter # NoSetter) \in BOOLEAN
    OBVIOUS
  <2>4. /\ b \in Object /\ b.conn = c.conn /\ b.setter = c.setter
        /\ b.raced \/ b.setter = NoSetter
        /\ b.socket = c.socket /\ b.peer = c.peer /\ b.timer = c.timer
        /\ b.written = c.written /\ b.crossed = c.crossed
    BY <1>0, <2>1, <2>3 DEF Object
  <2>5. Opening(b)
    <3>1. c.timer \in BOOLEAN
      BY <1>0 DEF Object
    <3> QED BY <1>0, <2>4, <3>1 DEF Opening, Fits, LogsInOnce, Ready
  <2>6. Opening(e) /\ e.conn # "Created" /\ e.timer = c.timer
    BY <1>2, <2>4, <2>5, OpeningGoesOn DEF Moved
  <2>7. Results(e, d)
    BY <2>2, <2>6, CheckedIs
  <2> QED BY <2>6, <2>7 DEF Results
<1> QED BY <1>1, <1>2

\* Where close() leaves the object, the timer having been stopped.
LEMMA ClosedIs ==
    ASSUME SwitchesOK, NEW c, Fits(c), LogsInOnce(c), c.timer = FALSE, NEW d \in Closed(c)
    PROVE  /\ Fits(d) /\ LogsInOnce(d) /\ d.socket # "connected"
           /\ d.timer => enabled
           /\ d.settings = c.settings
<1>1. CASE c.socket # "connected"
  <2>1. d = c
    BY <1>1 DEF Closed
  <2> QED BY <1>1, <2>1
<1>2. CASE c.socket = "connected" /\ d = onDisconnected(c)
  BY <1>2, EndedIs DEF Sound, Kept
<1>3. CASE c.socket = "connected" /\ d = [c EXCEPT !.socket = "closing"]
  <2>1. /\ d \in Object /\ d.socket = "closing" /\ Kept(c, d)
        /\ d.peer = c.peer /\ d.timer = FALSE
        /\ d.written = c.written /\ d.crossed = c.crossed
    BY <1>3 DEF Fits, Object, Kept
  <2> QED BY <1>3, <2>1 DEF Fits, LogsInOnce, Kept
<1> QED BY <1>1, <1>2, <1>3 DEF Closed

LEMMA CloseIs ==
    ASSUME SwitchesOK, NEW c, Ready(c), NEW d \in closeConnection(c)
    PROVE  /\ Results(c, d) /\ d.socket # "connected"
           /\ d.conn = "NotCreated" /\ d.settings = c.settings
<1> DEFINE b == [c EXCEPT !.timer = FALSE]
<1>1. /\ b \in Object /\ b.timer = FALSE /\ Kept(c, b)
      /\ b.socket = c.socket /\ b.peer = c.peer
      /\ b.written = c.written /\ b.crossed = c.crossed
  BY DEF Ready, Sound, Fits, Object, Kept
<1>2. PICK e \in Closed(b) :
          d = [Say(e, "closed") EXCEPT !.conn = "NotCreated", !.wanted = FALSE]
  BY DEF closeConnection
<1> HIDE DEF b
<1>3. Fits(b) /\ LogsInOnce(b)
  BY <1>1 DEF Ready, Sound, Fits, LogsInOnce, Kept
<1>4. /\ Fits(e) /\ LogsInOnce(e) /\ e.socket # "connected"
      /\ e.timer => enabled
      /\ e.settings = c.settings
  BY <1>1, <1>3, ClosedIs DEF Kept
<1>5. /\ d \in Object /\ d.conn = "NotCreated" /\ d.settings = e.settings
      /\ d.socket = e.socket /\ d.peer = e.peer /\ d.timer = e.timer
      /\ d.written = e.written /\ d.crossed = e.crossed
  BY <1>2, <1>4 DEF Fits, Object, Say
<1>6. Sound(d)
  BY <1>4, <1>5 DEF Sound, Fits, LogsInFirst, LogsInOnce
<1> QED BY <1>4, <1>5, <1>6 DEF Results

LEMMA ReopenIs ==
    ASSUME TcpClientAssumption, SwitchesOK, NEW c, Ready(c), NEW s \in Known,
           NEW d \in reopenConnection(c, s)
    PROVE  Results(c, d)
<1>1. PICK b \in closeConnection(c) :
          \E f \in Meanwhile(setConnectionSettings(b, s)) : d \in openConnection(f, f.settings)
  BY DEF reopenConnection
<1>2. /\ Results(c, b) /\ b.socket # "connected" /\ b.conn = "NotCreated"
  BY CloseIs
<1>3. PICK e : e = [b EXCEPT !.settings = s]
  OBVIOUS
<1>4. /\ e \in Object /\ e.conn = "NotCreated"
      /\ e.socket = b.socket /\ e.peer = b.peer /\ e.timer = b.timer
      /\ e.written = b.written /\ e.crossed = b.crossed
  BY <1>2, <1>3 DEF Results, Sound, Fits, Object
<1>5. PICK f \in Meanwhile(e) : d \in openConnection(f, f.settings)
  BY <1>1, <1>2, <1>3 DEF setConnectionSettings, MayBeSet
<1>6. /\ f \in Object /\ f.conn = "NotCreated"
      /\ f.socket = b.socket /\ f.peer = b.peer /\ f.timer = b.timer
      /\ f.written = b.written /\ f.crossed = b.crossed
  BY <1>4, <1>5, MeanwhileIs DEF Moved
<1>7. Ready(f) /\ f.settings \in Known
  BY <1>2, <1>6 DEF Results, Ready, Sound, Fits, LogsInFirst, LogsInOnce, Object
<1>8. Results(f, d)
  BY <1>2, <1>5, <1>6, <1>7, OpenIs
<1> QED BY <1>2, <1>6, <1>8 DEF Results

-----------------------------------------------------------------------------
(* The queue of the net thread, and the invariant.                          *)

NetEvent == Call \cup {Event(op) : op \in {"try", "enable", "make", "delete"}}

EnableQueued == \E i \in 1..Len(events) : events[i].op = "enable"

TriesQueued == \E i \in 1..Len(events) : Tries(events[i])

OnlyMakes == \A i \in 1..Len(events) : events[i].op = "make"

Typed ==
    /\ SwitchesOK
    /\ events \in Seq(NetEvent)
    /\ calls \in 0..MaxCalls
    /\ thread \in {"running", "finished"} /\ quits \in BOOLEAN /\ made \in BOOLEAN
    /\ waiting \in {"nothing", "make", "delete", "open", "reopen", "close"}

\* What is queued is handled: there is a thread, and for all but its making an
\* object.
IsHandled ==
    /\ ~made => OnlyMakes
    /\ made \/ events # << >> => thread = "running"

Timed == client.timer => client.socket # "connected" /\ (enabled \/ EnableQueued)

\* An attempt that is on its way to a socket that is connected was noticed.
Noticed == client.socket = "connected" /\ TriesQueued => client.crossed

NetInv == Typed /\ IsHandled /\ Timed /\ Noticed /\ Sound(client)

LEMMA CallIs ==
    ASSUME NEW call \in Call
    PROVE  /\ call \in NetEvent
           /\ call.op \in {"open", "reopen", "close", "send"}
           /\ call.with = << >> \/ call.with[1] \in Settings
BY DEF Call, NetEvent, Event

LEMMA NetEventIs ==
    ASSUME NEW e \in NetEvent
    PROVE  /\ e.with = << >> \/ e.with[1] \in Settings
           /\ e.op = "enable" => e = Event("enable")
           /\ e.op = "make" => e = Event("make")
<1>1. CASE e \in Call
  BY <1>1, CallIs
<1>2. CASE e \notin Call
  BY <1>2 DEF NetEvent, Event
<1> QED BY <1>1, <1>2

\* An event is posted.
Grows(x) ==
    /\ events' \in Seq(NetEvent) /\ events' # << >>
    /\ EnableQueued \/ x.op = "enable" => EnableQueued'
    /\ TriesQueued' <=> TriesQueued \/ Tries(x)
    /\ OnlyMakes /\ x.op = "make" => OnlyMakes'

LEMMA GrowsIs ==
    ASSUME events \in Seq(NetEvent), NEW x \in NetEvent, events' = Append(events, x)
    PROVE  Grows(x)
<1>1. /\ Len(events) \in Nat /\ Len(events') = Len(events) + 1
      /\ events' \in Seq(NetEvent) /\ events' # << >>
      /\ \A i \in 1..Len(events) : i \in 1..Len(events') /\ events'[i] = events[i]
      /\ Len(events) + 1 \in 1..Len(events') /\ events'[Len(events) + 1] = x
  OBVIOUS
<1>2. \A i \in 1..Len(events') : i \in 1..Len(events) \/ i = Len(events) + 1
  BY <1>1
<1>3. EnableQueued \/ x.op = "enable" => EnableQueued'
  BY <1>1 DEF EnableQueued
<1>4. TriesQueued' <=> TriesQueued \/ Tries(x)
  BY <1>1, <1>2 DEF TriesQueued, Tries
<1>5. OnlyMakes /\ x.op = "make" => OnlyMakes'
  BY <1>1, <1>2 DEF OnlyMakes
<1> QED BY <1>1, <1>3, <1>4, <1>5 DEF Grows

\* The first event is taken.
Shrinks ==
    /\ events' \in Seq(NetEvent) /\ Head(events) \in NetEvent
    /\ EnableQueued /\ Head(events).op # "enable" => EnableQueued'
    /\ TriesQueued' <=> TriesLater
    /\ TriesLater \/ Tries(Head(events)) => TriesQueued
    /\ OnlyMakes => OnlyMakes' /\ Head(events).op = "make"

LEMMA ShrinksIs ==
    ASSUME events \in Seq(NetEvent), events # << >>, events' = Tail(events)
    PROVE  Shrinks
<1>1. /\ Len(events) \in Nat \ {0} /\ Len(events') = Len(events) - 1
      /\ events' \in Seq(NetEvent) /\ Head(events) \in NetEvent
      /\ Head(events) = events[1] /\ 1 \in 1..Len(events)
      /\ \A i \in 1..Len(events') : i + 1 \in 2..Len(events) /\ events'[i] = events[i + 1]
  OBVIOUS
<1>2. \A i \in 2..Len(events) :
          i \in 1..Len(events) /\ i - 1 \in 1..Len(events') /\ events'[i - 1] = events[i]
  BY <1>1
<1>3. \A i \in 1..Len(events) : i = 1 \/ i \in 2..Len(events)
  BY <1>1
<1>4. EnableQueued /\ Head(events).op # "enable" => EnableQueued'
  BY <1>1, <1>2, <1>3 DEF EnableQueued
<1>5. TriesQueued' <=> TriesLater
  BY <1>1, <1>2 DEF TriesQueued, TriesLater, Tries
<1>6. TriesLater \/ Tries(Head(events)) => TriesQueued
  BY <1>1, <1>2 DEF TriesQueued, TriesLater
<1>7. OnlyMakes => OnlyMakes' /\ Head(events).op = "make"
  <2>1. \A i \in 1..Len(events') : i + 1 \in 1..Len(events)
    BY <1>1, <1>2
  <2> QED BY <1>1, <2>1 DEF OnlyMakes
<1> QED BY <1>1, <1>4, <1>5, <1>6, <1>7 DEF Shrinks

-----------------------------------------------------------------------------
(* The steps.                                                               *)

LEMMA NewIsSound ==
    ASSUME TcpClientAssumption
    PROVE  /\ Fits(New) /\ LogsInOnce(New) /\ New.conn = "NotCreated"
           /\ New.timer = FALSE /\ New.socket = "unconnected"
<1>1. New \in Object
  <2>1. << >> \in Seq({"login", "request"})
    OBVIOUS
  <2> QED BY <2>1 DEF New, Object, Known, Setters
<1> QED BY <1>1 DEF New, Fits, LogsInOnce

\* The object before a handler.
LEMMA NowIsReady ==
    ASSUME NetInv, Shrinks
    PROVE  /\ Ready(Now)
           /\ Tries(Head(events)) => (Now.socket = "connected" => Now.crossed)
           /\ Now.timer = client.timer /\ Now.socket = client.socket
           /\ Now.settings = client.settings /\ client.settings \in Known
<1>1. /\ Now \in Object /\ Kept(client, Now)
      /\ Now.socket = client.socket /\ Now.peer = client.peer
      /\ Now.timer = client.timer
      /\ Now.written = client.written /\ Now.crossed = client.crossed
  BY DEF NetInv, Sound, Fits, Object, Now, Kept
<1>2. Sound(Now)
  BY <1>1 DEF NetInv, Sound, Fits, LogsInFirst, LogsInOnce, Kept
<1>3. client.settings \in Known
  BY DEF NetInv, Sound, Fits, Object
<1> QED BY <1>1, <1>2, <1>3 DEF NetInv, Timed, Noticed, Shrinks, Ready, Kept

\* The events are handled as they come.
LEMMA HandledStep ==
    ASSUME TcpClientAssumption, NetInv, Shrinks, UNCHANGED enabled,
           Results(Now, client'),
           Head(events).op # "enable"
    PROVE  Timed' /\ Noticed' /\ Sound(client)'
<1>1. Sound(client)'
  BY DEF Results, Sound, Fits, LogsInFirst, LogsInOnce
<1>2. Timed'
  BY NowIsReady DEF NetInv, Results, Shrinks, Timed
<1>3. Noticed'
  BY DEF Results, Shrinks, Noticed
<1> QED BY <1>1, <1>2, <1>3

LEMMA CallStep ==
    ASSUME TcpClientAssumption, NetInv, Shrinks, HandleCall
    PROVE  Timed' /\ Noticed' /\ Sound(client)'
<1>0. SwitchesOK /\ UNCHANGED enabled
  BY DEF NetInv, Typed, HandleCall, OnTimeout, OnOpen, OnReopen, OnClose, OnSend, OnEnable, Take
<1>1. PICK c : c = Now
  OBVIOUS
<1>2. PICK d : d = client'
  OBVIOUS
<1>3. /\ Ready(c)
      /\ Tries(Head(events)) => (c.socket = "connected" => c.crossed)
      /\ Sound(c) /\ Fits(c) /\ LogsInFirst(c) /\ LogsInOnce(c) /\ c \in Object
  BY <1>1, NowIsReady DEF Ready, Sound, Fits
<1>4. ASSUME Results(c, d), Head(events).op # "enable"
      PROVE  Timed' /\ Noticed' /\ Sound(client)'
  BY <1>0, <1>1, <1>2, <1>4, HandledStep
<1>5. PICK s \in Known : s = Asked
  <2>1. Head(events).with = << >> \/ Head(events).with[1] \in Settings
    BY NetEventIs DEF Shrinks
  <2> QED BY <2>1, NowIsReady DEF Asked, Known
<1>6. CASE OnTimeout
  <2>1. d \in tryConnectToHost(c) /\ Head(events).op = "try"
    BY <1>1, <1>2, <1>6 DEF OnTimeout, Take
  <2>2. Results(c, d)
    BY <1>0, <1>3, <2>1, TryIs DEF Tries
  <2> QED BY <1>4, <2>1, <2>2
<1>7. CASE OnOpen
  <2>1. d \in openConnection(c, s) /\ Head(events).op = "open"
    BY <1>1, <1>2, <1>5, <1>7 DEF OnOpen, Take
  <2>2. Results(c, d)
    BY <1>0, <1>3, <2>1, OpenIs DEF Tries
  <2> QED BY <1>4, <2>1, <2>2
<1>8. CASE OnReopen
  <2>1. d \in reopenConnection(c, s) /\ Head(events).op = "reopen"
    BY <1>1, <1>2, <1>5, <1>8 DEF OnReopen, Take
  <2>2. Results(c, d)
    BY <1>0, <1>3, <2>1, ReopenIs
  <2> QED BY <1>4, <2>1, <2>2
<1>9. CASE OnClose
  <2>1. d \in closeConnection(c) /\ Head(events).op = "close"
    BY <1>1, <1>2, <1>9 DEF OnClose, Take
  <2>2. Results(c, d)
    BY <1>0, <1>3, <2>1, CloseIs
  <2> QED BY <1>4, <2>1, <2>2
<1>10. CASE OnSend
  <2>1. d = sendMessage(c, "request") /\ Head(events).op = "send"
    BY <1>1, <1>2, <1>10 DEF OnSend, Take
  <2>2. Wrote(c, d, "request")
    BY <1>3, <2>1, SendIs
  <2>3. Sound(d)
    BY <1>3, <2>2, WroteIsSound
  <2>4. Results(c, d)
    BY <1>3, <2>2, <2>3 DEF Results, Wrote, Ready
  <2> QED BY <1>4, <2>1, <2>4
<1>11. CASE OnEnable
  <2>1. d = [c EXCEPT !.timer = enabled /\ (c.timer \/ c.socket # "connected")]
    BY <1>1, <1>2, <1>11, NowIsReady DEF OnEnable
  <2>2. /\ d \in Object
        /\ d.timer => enabled /\ d.socket # "connected"
        /\ Kept(c, d) /\ d.socket = c.socket /\ d.peer = c.peer
        /\ d.written = c.written /\ d.crossed = c.crossed
    <3>1. (enabled /\ (c.timer \/ c.socket # "connected")) \in BOOLEAN
      BY <1>0, <1>3 DEF Object, SwitchesOK
    <3> QED BY <1>3, <2>1, <3>1 DEF Object, Ready, Kept
  <2>3. Sound(client)'
    BY <1>0, <1>2, <1>3, <2>2 DEF Sound, Fits, LogsInFirst, LogsInOnce, Kept
  <2>4. Timed' /\ Noticed'
    BY <1>0, <1>2, <1>3, <2>2 DEF Timed, Noticed, Shrinks, Ready
  <2> QED BY <2>3, <2>4
<1> QED BY <1>6, <1>7, <1>8, <1>9, <1>10, <1>11 DEF HandleCall

\* What other threads do to the object.
LEMMA UseStep ==
    ASSUME TcpClientAssumption, NetInv, made, Use
    PROVE  /\ Timed' /\ Noticed' /\ Sound(client)' /\ SwitchesOK'
           /\ events' \in Seq(NetEvent) /\ calls' \in 0..MaxCalls
<1>0. /\ SwitchesOK /\ events \in Seq(NetEvent) /\ calls \in 0..MaxCalls /\ MaxCalls \in Nat
      /\ Sound(client) /\ Fits(client) /\ client \in Object
  BY DEF NetInv, Typed, Sound, Fits, TcpClientAssumption
<1>1. calls' \in 0..MaxCalls
  BY <1>0 DEF Use, Post, setEnableReconnect, Configure, SetterRuns
<1>2. ASSUME NEW call \in Call, Post(call)
      PROVE  Timed' /\ Noticed' /\ Sound(client)' /\ SwitchesOK' /\ events' \in Seq(NetEvent)
  <2>1. Grows(call)
    BY <1>0, <1>2, CallIs, GrowsIs DEF Post
  <2>2. PICK x \in BOOLEAN : /\ client' = [client EXCEPT !.crossed = x]
                             /\ client.crossed => x
                             /\ call.op = "open" /\ client.socket = "connected" => x
    BY <1>0, <1>2 DEF Post, Object
  <2>3. /\ client' \in Object /\ client'.crossed = x /\ Kept(client, client')
        /\ client'.socket = client.socket /\ client'.peer = client.peer
        /\ client'.timer = client.timer
        /\ client'.written = client.written
    BY <1>0, <2>2 DEF Object, Kept
  <2>4. UNCHANGED enabled
    BY <1>2 DEF Post
  <2>5. Sound(client)'
    BY <1>0, <2>2, <2>3, <2>4 DEF Sound, Fits, LogsInFirst, LogsInOnce, Kept
  <2>6. Timed'
    BY <2>1, <2>3, <2>4 DEF NetInv, Timed, Grows
  <2>7. Noticed'
    <3>1. Tries(call) => call.op = "open"
      BY CallIs DEF Tries
    <3> QED BY <2>1, <2>2, <2>3, <3>1 DEF NetInv, Noticed, Grows
  <2> QED BY <1>0, <2>1, <2>4, <2>5, <2>6, <2>7 DEF Grows, SwitchesOK
<1>3. ASSUME NEW b \in BOOLEAN, setEnableReconnect(b)
      PROVE  Timed' /\ Noticed' /\ Sound(client)' /\ SwitchesOK' /\ events' \in Seq(NetEvent)
  <2>1. /\ Event("enable") \in NetEvent
        /\ Event("enable").op = "enable" /\ ~Tries(Event("enable"))
    BY DEF NetEvent, Event, Tries
  <2>2. Grows(Event("enable"))
    BY <1>0, <1>3, <2>1, GrowsIs DEF setEnableReconnect
  <2>3. UNCHANGED client /\ enabled' = b
    BY <1>3 DEF setEnableReconnect
  <2>4. Sound(client)' /\ SwitchesOK'
    BY <1>0, <2>3 DEF Sound, Fits, LogsInFirst, LogsInOnce, SwitchesOK
  <2>5. Timed' /\ Noticed'
    BY <2>1, <2>2, <2>3 DEF NetInv, Timed, Noticed, Grows
  <2> QED BY <2>2, <2>4, <2>5 DEF Grows
<1>4. ASSUME NEW call \in Setting, Configure(call)
      PROVE  Timed' /\ Noticed' /\ Sound(client)' /\ SwitchesOK' /\ events' \in Seq(NetEvent)
  <2>1. UNCHANGED <<enabled, events>> /\ client.setter = NoSetter
        /\ client' = [client EXCEPT !.setter = [at |-> "test", call |-> call]]
    BY <1>4 DEF Configure
  <2>2. [at |-> "test", call |-> call] \in Setters
    BY DEF Setters
  <2>3. /\ client' \in Object /\ client'.setter.at = "test"
        /\ client'.conn = client.conn /\ client'.settings = client.settings
        /\ client'.authorization = client.authorization /\ client'.raced = client.raced
        /\ client'.socket = client.socket /\ client'.peer = client.peer
        /\ client'.timer = client.timer /\ client'.wanted = client.wanted
        /\ client'.written = client.written /\ client'.crossed = client.crossed
    BY <1>0, <2>1, <2>2 DEF Object
  <2>4. Sound(client)' /\ SwitchesOK'
    BY <1>0, <2>1, <2>3 DEF Sound, Fits, LogsInFirst, LogsInOnce, SwitchesOK
  <2>5. Timed' /\ Noticed'
    BY <2>1, <2>3 DEF NetInv, Timed, Noticed, EnableQueued, TriesQueued, Tries
  <2> QED BY <1>0, <2>1, <2>4, <2>5
\* A setter writes to a connection that is open only if it was at work when that
\* was opened.
<1>5. CASE SetterRuns
  <2>1. UNCHANGED <<enabled, events>> /\ client' = SetterGoes(client)
    BY <1>5 DEF SetterRuns
  <2>2. Moved(client, client')
    BY <1>0, <2>1, SetterGoesIs
  <2>3. Sound(client)' /\ SwitchesOK'
    BY <1>0, <2>1, <2>2 DEF Moved, Sound, Fits, LogsInFirst, LogsInOnce, SwitchesOK
  <2>4. Timed' /\ Noticed'
    BY <2>1, <2>2 DEF NetInv, Moved, Timed, Noticed, EnableQueued, TriesQueued, Tries
  <2> QED BY <1>0, <1>1, <2>1, <2>3, <2>4
<1> QED BY <1>1, <1>2, <1>3, <1>4, <1>5 DEF Use

LEMMA NetInvStep ==
    ASSUME TcpClientAssumption, NetInv, [Next]_vars
    PROVE  NetInv'
<1>0. /\ Typed /\ SwitchesOK /\ events \in Seq(NetEvent) /\ calls \in 0..MaxCalls
      /\ Sound(client) /\ Fits(client) /\ client \in Object
  BY DEF NetInv, Typed, Sound, Fits
\* The object is as it was.
<1>1. ASSUME UNCHANGED <<client, enabled>>, EnableQueued => EnableQueued',
             TriesQueued' => TriesQueued
      PROVE  Timed' /\ Noticed' /\ Sound(client)' /\ SwitchesOK'
  BY <1>0, <1>1 DEF NetInv, Timed, Noticed, Sound, Fits, LogsInFirst, LogsInOnce, SwitchesOK
\* Something is posted that is no attempt and starts none.
<1>2. ASSUME NEW x \in NetEvent, ~Tries(x), events' = Append(events, x),
             UNCHANGED <<client, enabled, calls>>
      PROVE  /\ Timed' /\ Noticed' /\ Sound(client)' /\ SwitchesOK' /\ Grows(x)
             /\ calls' \in 0..MaxCalls
  <2>1. Grows(x)
    BY <1>0, <1>2, GrowsIs
  <2>2. (EnableQueued => EnableQueued') /\ (TriesQueued' => TriesQueued)
    BY <1>2, <2>1 DEF Grows
  <2> QED BY <1>0, <1>1, <1>2, <2>1, <2>2
<1>3. CASE UNCHANGED vars
  <2>1. Timed' /\ Noticed' /\ Sound(client)' /\ SwitchesOK'
    BY <1>1, <1>3 DEF vars, EnableQueued, TriesQueued, Tries
  <2>2. Typed' /\ IsHandled'
    BY <1>0, <1>3, <2>1 DEF NetInv, Typed, IsHandled, OnlyMakes, vars
  <2> QED BY <2>1, <2>2 DEF NetInv
<1>4. CASE instantiateWait
  <2>1. Event("make") \in NetEvent /\ ~Tries(Event("make")) /\ Event("make").op = "make"
    BY DEF NetEvent, Event, Tries
  <2>2. /\ Timed' /\ Noticed' /\ Sound(client)' /\ SwitchesOK' /\ Grows(Event("make"))
        /\ calls' \in 0..MaxCalls
    BY <1>2, <1>4, <2>1 DEF instantiateWait
  <2>3. Typed'
    BY <1>0, <1>4, <2>2 DEF Typed, instantiateWait, Grows
  <2>4. IsHandled'
    BY <1>4, <2>1, <2>2 DEF NetInv, IsHandled, instantiateWait, Grows
  <2> QED BY <2>2, <2>3, <2>4 DEF NetInv
<1>5. CASE destroyWait
  <2>1. Event("delete") \in NetEvent /\ ~Tries(Event("delete"))
    BY DEF NetEvent, Event, Tries
  <2>2. /\ Timed' /\ Noticed' /\ Sound(client)' /\ SwitchesOK' /\ Grows(Event("delete"))
        /\ calls' \in 0..MaxCalls
    BY <1>2, <1>5, <2>1 DEF destroyWait
  <2>3. Typed'
    BY <1>0, <1>5, <2>2 DEF Typed, destroyWait, Grows
  <2>4. IsHandled'
    BY <1>5 DEF NetInv, IsHandled, destroyWait
  <2> QED BY <2>2, <2>3, <2>4 DEF NetInv
<1>6. ASSUME NEW b \in BOOLEAN, setQuitWhenNoConnections(b)
      PROVE  NetInv'
  <2>1. Timed' /\ Noticed' /\ Sound(client)' /\ SwitchesOK'
    BY <1>1, <1>6 DEF setQuitWhenNoConnections, EnableQueued, TriesQueued, Tries
  <2>2. Typed' /\ IsHandled'
    BY <1>0, <1>6, <2>1 DEF NetInv, Typed, IsHandled, OnlyMakes, setQuitWhenNoConnections
  <2> QED BY <2>1, <2>2 DEF NetInv
\* Other threads use the object there is.
<1>7. ASSUME made, Use, UNCHANGED <<thread, quits, made>>,
             waiting' \in {"nothing", "make", "delete", "open", "reopen", "close"}
      PROVE  NetInv'
  <2>1. /\ Timed' /\ Noticed' /\ Sound(client)' /\ SwitchesOK'
        /\ events' \in Seq(NetEvent) /\ calls' \in 0..MaxCalls
    BY <1>7, UseStep
  <2>2. Typed' /\ IsHandled'
    BY <1>0, <1>7, <2>1 DEF NetInv, Typed, IsHandled
  <2> QED BY <2>1, <2>2 DEF NetInv
<1>8. CASE UseConnection
  BY <1>0, <1>7, <1>8 DEF UseConnection, Typed
<1>9. ASSUME NEW call \in WaitCall, Wait(call)
      PROVE  NetInv'
  <2>1. call \in Call /\ call.op # "send"
    BY DEF WaitCall, Call, Event
  <2>2. call.op \in {"open", "reopen", "close"}
    BY <2>1, CallIs
  <2> QED BY <1>7, <1>9, <2>1, <2>2 DEF Wait, Use
\* The net thread takes an event.
<1>10. ASSUME events # << >>, events' = Tail(events)
       PROVE  Shrinks
  BY <1>0, <1>10, ShrinksIs
<1>11. CASE OnCall
  <2>1. /\ Shrinks /\ made /\ HandleCall /\ UNCHANGED <<enabled, calls>>
        /\ UNCHANGED <<thread, quits, made>>
    BY <1>10, <1>11 DEF OnCall, HandleCall, OnTimeout, OnOpen, OnReopen, OnClose, OnSend,
                        OnEnable, Take
  <2>2. Timed' /\ Noticed' /\ Sound(client)'
    BY <2>1, CallStep
  <2>3. waiting' \in {waiting, "nothing"}
    BY <1>11 DEF OnCall, Wake
  <2>4. Typed' /\ IsHandled'
    BY <1>0, <2>1, <2>3 DEF NetInv, Typed, SwitchesOK, IsHandled, Shrinks
  <2> QED BY <2>2, <2>4 DEF NetInv
<1>12. CASE onMakeNetConnection
  <2>1. /\ Shrinks /\ events # << >> /\ Head(events).op = "make"
        /\ UNCHANGED <<client, enabled, calls, thread, quits>>
        /\ made' = TRUE /\ waiting' = "nothing"
    BY <1>10, <1>12 DEF onMakeNetConnection, Take
  <2>2. Timed' /\ Noticed' /\ Sound(client)' /\ SwitchesOK'
    BY <1>1, <2>1 DEF Shrinks
  <2>3. Typed' /\ IsHandled'
    BY <1>0, <2>1, <2>2 DEF NetInv, Typed, IsHandled, Shrinks
  <2> QED BY <2>2, <2>3 DEF NetInv
<1>13. CASE OnDelete
  <2>1. /\ events' = << >> /\ client' = New /\ enabled' = TRUE
        /\ made' = FALSE /\ thread' \in {thread, "finished"} /\ waiting' = "nothing"
        /\ UNCHANGED <<calls, quits>>
    BY <1>13 DEF OnDelete, Undelivered, Destroyed
  <2>2. /\ events' \in Seq(NetEvent) /\ Len(events') = 0
    BY <2>1
  <2>3. Sound(client)' /\ SwitchesOK'
    BY <2>1, NewIsSound DEF Sound, Fits, LogsInFirst, LogsInOnce, SwitchesOK
  <2>4. Timed' /\ Noticed'
    BY <2>1, NewIsSound DEF Timed, Noticed
  <2>5. Typed'
    BY <1>0, <2>1, <2>2, <2>3 DEF Typed
  <2>6. IsHandled'
    <3>1. OnlyMakes'
      BY <2>2 DEF OnlyMakes
    <3>2. ~made' /\ ~(events' # << >>)
      BY <2>1
    <3> QED BY <3>1, <3>2 DEF IsHandled
  <2> QED BY <2>3, <2>4, <2>5, <2>6 DEF NetInv
<1>14. CASE made /\ SocketEnds /\ UNCHANGED <<thread, quits, made, waiting>>
  <2>1. client' = onDisconnected(Now) /\ UNCHANGED <<enabled, events, calls>>
    BY <1>14 DEF SocketEnds
  <2>2. PICK c : c = Now
    OBVIOUS
  <2>3. PICK d : d = client'
    OBVIOUS
  <2>4. Fits(c) /\ c.timer = client.timer
    BY <1>0, <2>2 DEF Fits, Object, Now
  <2>5. Sound(d) /\ d.socket = "unconnected" /\ (d.timer <=> c.timer \/ enabled)
    BY <1>0, <2>1, <2>2, <2>3, <2>4, EndedIs
  <2>6. Sound(client)' /\ SwitchesOK'
    BY <1>0, <2>1, <2>3, <2>5 DEF Sound, Fits, LogsInFirst, LogsInOnce, SwitchesOK
  <2>7. Timed' /\ Noticed'
    BY <2>1, <2>3, <2>4, <2>5 DEF NetInv, Timed, Noticed, EnableQueued
  <2>8. Typed' /\ IsHandled'
    BY <1>0, <1>14, <2>1, <2>6 DEF NetInv, Typed, IsHandled, OnlyMakes
  <2> QED BY <2>6, <2>7, <2>8 DEF NetInv
<1>15. CASE made /\ TimerFires /\ UNCHANGED <<thread, quits, made, waiting>>
  <2>1. /\ client.timer /\ client' = [Now EXCEPT !.timer = FALSE]
        /\ events' = Append(events, Event("try")) /\ UNCHANGED <<enabled, calls>>
    BY <1>15 DEF TimerFires
  <2>2. Event("try") \in NetEvent
    BY DEF NetEvent, Event
  <2>3. Grows(Event("try"))
    BY <1>0, <2>1, <2>2, GrowsIs
  <2>4. /\ client' \in Object /\ client'.timer = FALSE /\ Kept(client, client')
        /\ client'.socket = client.socket /\ client'.peer = client.peer
        /\ client'.written = client.written /\ client'.crossed = client.crossed
    BY <1>0, <2>1 DEF Object, Now, Kept
  <2>5. Sound(client)' /\ SwitchesOK'
    BY <1>0, <2>1, <2>4 DEF Sound, Fits, LogsInFirst, LogsInOnce, SwitchesOK, Kept
  <2>6. Timed' /\ Noticed'
    BY <2>1, <2>4 DEF NetInv, Timed, Noticed
  <2>7. Typed' /\ IsHandled'
    BY <1>0, <1>15, <2>1, <2>3, <2>5 DEF NetInv, Typed, IsHandled, Grows
  <2> QED BY <2>5, <2>6, <2>7 DEF NetInv
<1> QED BY <1>3, <1>4, <1>5, <1>6, <1>8, <1>9, <1>11, <1>12, <1>13, <1>14, <1>15
        DEF Next, TakeEvent, OnOwnSignal

-----------------------------------------------------------------------------
(* The properties.                                                          *)

LEMMA NetInvariant == TcpClientAssumption => (Spec => []NetInv)
<1> SUFFICES ASSUME TcpClientAssumption PROVE Spec => []NetInv
  OBVIOUS
<1>1. Init => NetInv
  <2> SUFFICES ASSUME Init PROVE NetInv
    OBVIOUS
  <2>1. /\ client = New /\ enabled = TRUE /\ events = << >>
        /\ calls = 0 /\ thread = "running" /\ quits = TRUE /\ made = FALSE
        /\ waiting = "nothing"
    BY DEF Init
  <2>2. Sound(client) /\ Timed /\ Noticed
    BY <2>1, NewIsSound DEF Sound, LogsInFirst, Timed, Noticed
  <2>3. 0 \in 0..MaxCalls
    BY DEF TcpClientAssumption
  <2>4. events \in Seq(NetEvent) /\ Len(events) = 0
    BY <2>1
  <2>5. Typed
    BY <2>1, <2>3, <2>4 DEF Typed, SwitchesOK
  <2>6. IsHandled
    BY <2>1, <2>4 DEF IsHandled, OnlyMakes
  <2> QED BY <2>2, <2>5, <2>6 DEF NetInv
<1>2. NetInv /\ [Next]_vars => NetInv'
  BY NetInvStep
<1> QED BY <1>1, <1>2, PTL DEF Spec

LEMMA QueueIsASet ==
    ASSUME events \in Seq(NetEvent)
    PROVE  ToSet(events) = {events[i] : i \in 1..Len(events)}
BY DEF ToSet

\* Every variable of a connection, its thread and those who wait keeps its type;
\* a thread that has ended has no connection, and no event of a connection that
\* is gone is left to be taken.
THEOREM NetTypeCorrect == TcpClientAssumption => (Spec => []TypeOK)
<1> SUFFICES ASSUME TcpClientAssumption PROVE Spec => []TypeOK
  OBVIOUS
<1>1. NetInv => TypeOK
  <2> SUFFICES ASSUME NetInv PROVE TypeOK
    OBVIOUS
  <2>1. ClientTypeOK
    BY DEF NetInv, Typed, SwitchesOK, Sound, Fits, Object, Known, Setters, NetEvent, ClientTypeOK
  <2>2. waiting \in {"nothing", "make", "delete"} \cup DOMAIN Signal
    BY DEF NetInv, Typed, Signal
  <2>3. ~made => ToSet(events) \subseteq {Event("make")}
    <3> SUFFICES ASSUME OnlyMakes PROVE ToSet(events) \subseteq {Event("make")}
      BY DEF NetInv, IsHandled
    <3>1. \A i \in 1..Len(events) : events[i] = Event("make")
      BY NetEventIs DEF NetInv, Typed, OnlyMakes
    <3> QED BY <3>1, QueueIsASet DEF NetInv, Typed
  <2> QED BY <2>1, <2>2, <2>3 DEF NetInv, Typed, IsHandled, TypeOK
<1> QED BY <1>1, NetInvariant, PTL

\* The reconnect timer never runs beside a connection, and only while
\* reconnecting is enabled or setEnableReconnect's own call is still queued,
\* whatever threads have enabled and disabled it meanwhile.
THEOREM TimerStaysInStep == TcpClientAssumption => (Spec => []TimerIsInStep)
<1> SUFFICES ASSUME TcpClientAssumption PROVE Spec => []TimerIsInStep
  OBVIOUS
<1>1. NetInv => TimerIsInStep
  <2> SUFFICES ASSUME NetInv, EnableQueued PROVE Event("enable") \in ToSet(events)
    BY DEF NetInv, Timed, TimerIsInStep
  <2>1. PICK i \in 1..Len(events) : events[i].op = "enable"
    BY DEF EnableQueued
  <2>2. events[i] = Event("enable")
    BY <2>1, NetEventIs DEF NetInv, Typed
  <2> QED BY <2>2, QueueIsASet DEF NetInv, Typed
<1> QED BY <1>1, NetInvariant, PTL

\* On an open connection with authorization the login is the first message, and
\* the only login unless a second attempt was on its way to it: tryConnectToHost
\* authorizes a socket that it finds connected once more.  What setters may do on
\* other threads is bounded by their test, but for one that was at work when the
\* connection was opened.
THEOREM LoginsComeFirst == TcpClientAssumption => (Spec => []LoginsInOrder)
<1> SUFFICES ASSUME TcpClientAssumption PROVE Spec => []LoginsInOrder
  OBVIOUS
<1>1. NetInv => LoginsInOrder
  BY DEF NetInv, Sound, LogsInFirst, LogsInOnce, LoginsInOrder
<1> QED BY <1>1, NetInvariant, PTL

\* The destination in the settings is the host the socket is connected to, as
\* long as the connection is open: readReceived tells it as the sender.  The test
\* of setConnectionSettings, made on another thread without a lock, is enough for
\* that but for a setter that was at work when openConnection took its settings.
THEOREM SettingsTellTheHost == TcpClientAssumption => (Spec => []OpenLeadsThere)
<1> SUFFICES ASSUME TcpClientAssumption PROVE Spec => []OpenLeadsThere
  OBVIOUS
<1>1. NetInv => OpenLeadsThere
  BY DEF NetInv, Sound, Fits, OpenLeadsThere
<1> QED BY <1>1, NetInvariant, PTL
=============================================================================
