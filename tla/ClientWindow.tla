---------------------------- MODULE ClientWindow ----------------------------
(***************************************************************************)
(* The client's window (src/src/Client/MainWindow.cpp) on the GUI thread.  *)
(* Its event queue brings the replies and the socket states that the       *)
(* thread of TcpClient posts, in the order they happened there; what the   *)
(* window sends is posted to that thread in turn.                          *)
(*                                                                         *)
(* m_isAwaitingTask has no part in this: nothing ever sets it to true, and *)
(* the send button alone keeps a second task from being requested.         *)
(***************************************************************************)
EXTENDS Sequences

CONSTANTS
    Work,       \* task requests, as the window can compose them
    NoWork,     \* the request of a message that carries none
    NoAddr      \* the local address of a socket that is not connected

VARIABLES
    sendEnabled,    \* pushButton_sendRequest
    awaitingCancel, \* m_isAwaitingCancel
    dialog,         \* m_progressDialog was told of progress since its reset()
    guiEvents,      \* posted events of the GUI thread
    posted,         \* messages posted to the thread of TcpClient
    link            \* local address of TcpClient's socket, read by the window

windowVars == <<sendEnabled, awaitingCancel, dialog>>

-----------------------------------------------------------------------------
Unconnected == [kind |-> "Unconnected"]

Request(k, w) == [kind |-> k, work |-> w]

WindowInit ==
    /\ sendEnabled = TRUE
    /\ awaitingCancel = FALSE
    /\ dialog = FALSE
    /\ guiEvents = << >>
    /\ posted = << >>

Take(kinds) ==
    /\ guiEvents # << >>
    /\ Head(guiEvents).kind \in kinds
    /\ guiEvents' = Tail(guiEvents)

(* X_<word> is a faulty variant of X; no action refers to it.               *)

\* Faulty: the dialog is left as it is.
ResetAwaitingState_Dialog ==
    /\ sendEnabled' = TRUE
    /\ awaitingCancel' = FALSE
    /\ UNCHANGED dialog

ResetAwaitingState ==
    /\ sendEnabled' = TRUE
    /\ awaitingCancel' = FALSE
    /\ dialog' = FALSE

\* Faulty: the button is left enabled.
OnSendRequest_Enabled ==
    /\ sendEnabled
    /\ link # NoAddr
    /\ ~awaitingCancel
    /\ \E w \in Work : posted' = Append(posted, Request("task", w))
    /\ UNCHANGED <<windowVars, guiEvents, link>>

\* (With no connection, or a cancel request to be answered, a message box.)
OnSendRequest ==
    /\ sendEnabled
    /\ link # NoAddr
    /\ ~awaitingCancel
    /\ \E w \in Work : posted' = Append(posted, Request("task", w))
    /\ sendEnabled' = FALSE
    /\ UNCHANGED <<awaitingCancel, dialog, guiEvents, link>>

\* The dialog's cancel button, from when the dialog may be on the screen.
OnSendCancel ==
    /\ dialog
    /\ link # NoAddr
    /\ ~awaitingCancel
    /\ awaitingCancel' = TRUE
    /\ posted' = Append(posted, Request("cancel", NoWork))
    /\ UNCHANGED <<sendEnabled, dialog, guiEvents, link>>

\* Faulty: only a result unblocks the window.
OnFinalReply_Result ==
    /\ Take({"result", "canceled", "CorruptedData", "InvalidRequestType"})
    /\ IF Head(guiEvents).kind = "result"
       THEN ResetAwaitingState
       ELSE UNCHANGED windowVars
    /\ UNCHANGED <<posted, link>>

\* A result, the answer to a cancel request or an error unblocks the window,
\* whichever request it answers.
OnFinalReply ==
    /\ Take({"result", "canceled", "CorruptedData", "InvalidRequestType"})
    /\ ResetAwaitingState
    /\ UNCHANGED <<posted, link>>

\* "Should be a better way to determine if reset should be called": none here,
\* the end of the task that is running already will do it.
OnRefused ==
    /\ Take({"AlreadyRunningTask"})
    /\ UNCHANGED <<windowVars, posted, link>>

OnProgress ==
    /\ Take({"range", "progress"})
    /\ dialog' = TRUE
    /\ UNCHANGED <<sendEnabled, awaitingCancel, posted, link>>

\* Faulty: a lost connection is shown and that is all.
OnSocketStateChanged_Show ==
    /\ Take({"Unconnected"})
    /\ UNCHANGED <<windowVars, posted, link>>

\* "Reset awating state in case connection was lost".
OnSocketStateChanged ==
    /\ Take({"Unconnected"})
    /\ ResetAwaitingState
    /\ UNCHANGED <<posted, link>>

HandleGuiEvent == OnFinalReply \/ OnRefused \/ OnProgress \/ OnSocketStateChanged

WindowType ==
    /\ sendEnabled \in BOOLEAN
    /\ awaitingCancel \in BOOLEAN
    /\ dialog \in BOOLEAN
=============================================================================
