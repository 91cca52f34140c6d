---------------------------- MODULE TaskContract ----------------------------
(***************************************************************************)
(* What the server promises its clients, with the threads, the event       *)
(* queues and the chunks left out: a peer has at most one job; the job is  *)
(* told to stop or not; and it ends with exactly one reply, a complete     *)
(* result if nothing told it to stop and "canceled" otherwise.  Only       *)
(* completed jobs are remembered, and every remembered result is complete. *)
(***************************************************************************)
EXTENDS Naturals, Sequences

CONSTANTS
    Addr,       \* peers
    Work,       \* task requests
    NoWork,     \* the request of a reply about none
    Size        \* Size[w]: the parts of a complete result of w

VARIABLES
    job,        \* peer -> [serial, work, stopping] for every peer with a job
    serial,     \* number of the next job
    known,      \* requests whose result is remembered
    mail        \* replies on their way to the clients

vars == <<job, serial, known, mail>>

Init ==
    /\ job = [a \in {} |-> 0]
    /\ serial = 1
    /\ known = {}
    /\ mail = << >>

Post(a, k, w, n, v) ==
    mail' = Append(mail, [to |-> a, kind |-> k, work |-> w, task |-> n, val |-> v])

HasJob(a) == a \in DOMAIN job

Accept(a) ==
    /\ ~HasJob(a)
    /\ \E w \in Work \ known :
          job' = [b \in DOMAIN job \cup {a} |->
                    IF b = a
                    THEN [serial |-> serial, work |-> w, stopping |-> FALSE]
                    ELSE job[b]]
    /\ serial' = serial + 1
    /\ UNCHANGED <<known, mail>>

\* A remembered result costs no job, and does not wait for the peer's own.
Recall(a) ==
    /\ \E w \in known : Post(a, "result", w, 0, Size[w])
    /\ UNCHANGED <<job, serial, known>>

Refuse(a) ==
    /\ \/ HasJob(a) /\ Post(a, "AlreadyRunningTask", NoWork, 0, 0)
       \/ Post(a, "CorruptedData", NoWork, 0, 0)
       \/ Post(a, "InvalidRequestType", NoWork, 0, 0)
       \/ ~HasJob(a) /\ Post(a, "canceled", NoWork, 0, 0)
    /\ UNCHANGED <<job, serial, known>>

\* The peer asked for it, or is gone.
Stop(a) ==
    /\ HasJob(a)
    /\ job' = [job EXCEPT ![a] =
                 [serial |-> job[a].serial, work |-> job[a].work, stopping |-> TRUE]]
    /\ UNCHANGED <<serial, known, mail>>

ReportProgress(a) ==
    /\ HasJob(a)
    /\ \/ Post(a, "range", NoWork, job[a].serial, Size[job[a].work])
       \/ /\ ~job[a].stopping
          /\ \E v \in 0..Size[job[a].work] :
                Post(a, "progress", NoWork, job[a].serial, v)
    /\ UNCHANGED <<job, serial, known>>

EndJob(a) ==
    /\ HasJob(a)
    /\ IF job[a].stopping
       THEN /\ Post(a, "canceled", NoWork, job[a].serial, 0)
            /\ UNCHANGED known
       ELSE /\ Post(a, "result", job[a].work, job[a].serial, Size[job[a].work])
            /\ known' \in SUBSET (known \cup {job[a].work})
    /\ job' = [b \in DOMAIN job \ {a} |-> job[b]]
    /\ UNCHANGED serial

Deliver ==
    /\ mail # << >>
    /\ mail' = Tail(mail)
    /\ UNCHANGED <<job, serial, known>>

Next ==
    \/ \E a \in Addr : \/ Accept(a) \/ Recall(a) \/ Refuse(a) \/ Stop(a)
                       \/ ReportProgress(a) \/ EndJob(a)
    \/ Deliver

\* Every job ends, and every reply leaves.
Fairness ==
    /\ \A a \in Addr : WF_vars(EndJob(a))
    /\ WF_vars(Deliver)

Spec == Init /\ [][Next]_vars

FairSpec == Spec /\ Fairness
=============================================================================
