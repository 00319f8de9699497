------------------------------ MODULE AsyncSaver ------------------------------
(***************************************************************************)
(* The background saver: the main thread queues save operations, flushes   *)
(* and stops; a worker thread waits on a condition variable and performs   *)
(* what it takes from the queue.  A step is one critical section, or the   *)
(* performing of one operation, which happens outside the lock: a take and *)
(* the performing of what was taken are two steps.                         *)
(***************************************************************************)
EXTENDS Integers, Sequences, SequencesExt

CONSTANTS
    Op,     \* the save operations; each is queued at most once (a bound)
    NoOp

ASSUME OpAssumption == NoOp \notin Op

VARIABLES
    m_saveQueue,
    m_running,
    m_stopRequested,
    main,       \* what the main thread is in: "idle", "flush", "stop"
    mainOp,     \* the operation flush has taken
    worker,     \* "none", "top", "waiting", "drain", "exited"
    workerOp,   \* the operation the worker has taken
    accepted,   \* the operations queued so far, in that order
    log         \* the operations performed, in the order they were

saverVars == <<m_saveQueue, m_running, m_stopRequested, main, mainOp, worker,
               workerOp, accepted, log>>

SaverTypeOK ==
    /\ m_saveQueue \in Seq(Op)
    /\ m_running \in BOOLEAN
    /\ m_stopRequested \in BOOLEAN
    /\ main \in {"idle", "flush", "stop"}
    /\ mainOp \in Op \cup {NoOp}
    /\ worker \in {"none", "top", "waiting", "drain", "exited"}
    /\ workerOp \in Op \cup {NoOp}
    /\ accepted \in Seq(Op)
    /\ log \in Seq(Op)

SaverInit ==
    /\ m_saveQueue = <<>>
    /\ m_running = FALSE
    /\ m_stopRequested = FALSE
    /\ main = "idle" /\ mainOp = NoOp
    /\ worker = "none" /\ workerOp = NoOp
    /\ accepted = <<>> /\ log = <<>>

-----------------------------------------------------------------------------
(* Helpers.                                                                *)

\* notify_one: the worker is the only one who ever waits.
Notified == IF worker = "waiting" THEN "top" ELSE worker

\* Faulty variant: queueing and stopping signal nobody.
FaultyNotify == UNCHANGED worker

Notify == worker' = Notified

\* Faulty variant: the taken operation stays in the queue.
FaultyRest(q) == q

Rest(q) == Tail(q)

\* Faulty variant: the newest operation is taken first.
FaultyQueued(q, op) == <<op>> \o q

Queued(q, op) == Append(q, op)

Perform(op) == log' = Append(log, op)

-----------------------------------------------------------------------------
(* The main thread.                                                        *)

Start ==
    /\ main = "idle" /\ ~ m_running
    /\ m_stopRequested' = FALSE
    /\ m_running' = TRUE
    /\ worker' = "top"
    /\ UNCHANGED <<m_saveQueue, main, mainOp, workerOp, accepted, log>>

\* queueSave does not ask whether the saver runs.
QueueSave(op) ==
    /\ main = "idle"
    /\ op \notin ToSet(accepted)
    /\ m_saveQueue' = Queued(m_saveQueue, op)
    /\ accepted' = Append(accepted, op)
    /\ Notify
    /\ UNCHANGED <<m_running, m_stopRequested, main, mainOp, workerOp, log>>

Flush ==
    /\ main = "idle"
    /\ main' = "flush"
    /\ UNCHANGED <<m_saveQueue, m_running, m_stopRequested, mainOp, worker,
                   workerOp, accepted, log>>

FlushTake ==
    /\ main = "flush" /\ mainOp = NoOp
    /\ m_saveQueue # <<>>
    /\ mainOp' = Head(m_saveQueue)
    /\ m_saveQueue' = Rest(m_saveQueue)
    /\ UNCHANGED <<m_running, m_stopRequested, main, worker, workerOp, accepted, log>>

FlushPerform ==
    /\ mainOp # NoOp
    /\ Perform(mainOp)
    /\ mainOp' = NoOp
    /\ UNCHANGED <<m_saveQueue, m_running, m_stopRequested, main, worker,
                   workerOp, accepted>>

FlushReturn ==
    /\ main = "flush" /\ mainOp = NoOp
    /\ m_saveQueue = <<>>
    /\ main' = "idle"
    /\ UNCHANGED <<m_saveQueue, m_running, m_stopRequested, mainOp, worker,
                   workerOp, accepted, log>>

Stop ==
    /\ main = "idle" /\ m_running
    /\ m_stopRequested' = TRUE
    /\ Notify
    /\ main' = "stop"
    /\ UNCHANGED <<m_saveQueue, m_running, mainOp, workerOp, accepted, log>>

\* Faulty variant: stop does not join the thread.
FaultyJoined == TRUE

Joined == worker = "exited"

StopReturn ==
    /\ main = "stop"
    /\ Joined
    /\ m_running' = FALSE
    /\ worker' = "none"
    /\ main' = "idle"
    /\ UNCHANGED <<m_saveQueue, m_stopRequested, mainOp, workerOp, accepted, log>>

-----------------------------------------------------------------------------
(* The worker thread.                                                      *)

WorkerWaits ==
    /\ worker = "top" /\ workerOp = NoOp
    /\ ~ m_stopRequested /\ m_saveQueue = <<>>
    /\ worker' = "waiting"
    /\ UNCHANGED <<m_saveQueue, m_running, m_stopRequested, main, mainOp,
                   workerOp, accepted, log>>

\* A condition variable may wake without being notified.
SpuriousWakeup ==
    /\ worker = "waiting"
    /\ worker' = "top"
    /\ UNCHANGED <<m_saveQueue, m_running, m_stopRequested, main, mainOp,
                   workerOp, accepted, log>>

\* In the loop, and again in the one that processes what remains.
WorkerTakes ==
    /\ worker \in {"top", "drain"} /\ workerOp = NoOp
    /\ m_saveQueue # <<>>
    /\ workerOp' = Head(m_saveQueue)
    /\ m_saveQueue' = Rest(m_saveQueue)
    /\ UNCHANGED <<m_running, m_stopRequested, main, mainOp, worker, accepted, log>>

WorkerPerforms ==
    /\ workerOp # NoOp
    /\ Perform(workerOp)
    /\ workerOp' = NoOp
    /\ UNCHANGED <<m_saveQueue, m_running, m_stopRequested, main, mainOp,
                   worker, accepted>>

WorkerBreaks ==
    /\ worker = "top" /\ workerOp = NoOp
    /\ m_stopRequested /\ m_saveQueue = <<>>
    /\ worker' = "drain"
    /\ UNCHANGED <<m_saveQueue, m_running, m_stopRequested, main, mainOp,
                   workerOp, accepted, log>>

WorkerExits ==
    /\ worker = "drain" /\ workerOp = NoOp
    /\ m_saveQueue = <<>>
    /\ worker' = "exited"
    /\ UNCHANGED <<m_saveQueue, m_running, m_stopRequested, main, mainOp,
                   workerOp, accepted, log>>

-----------------------------------------------------------------------------

\* The calls the main thread makes, and the steps by which they go on.
Call == Start \/ Flush \/ Stop \/ \E op \in Op : QueueSave(op)
MainProceeds == FlushTake \/ FlushPerform \/ FlushReturn \/ StopReturn
WorkerProceeds ==
    WorkerWaits \/ WorkerTakes \/ WorkerPerforms \/ WorkerBreaks \/ WorkerExits

SaverNext == Call \/ MainProceeds \/ WorkerProceeds \/ SpuriousWakeup

SaverSpec == SaverInit /\ [][SaverNext]_saverVars

\* Both threads are scheduled; nobody has to call anything, or to wake for
\* nothing.
FairSaverSpec == SaverSpec /\ WF_saverVars(MainProceeds) /\ WF_saverVars(WorkerProceeds)

-----------------------------------------------------------------------------

Promise == INSTANCE SaveLog

Taken == {mainOp, workerOp} \ {NoOp}

\* How many accepted saves have left the queue.
Ahead == Len(accepted) - Len(m_saveQueue)

\* What is queued is what was accepted last, in the order it was.
QueueInOrder ==
    /\ IsInjective(accepted)
    /\ Ahead >= 0
    /\ \A i \in 1 .. Len(m_saveQueue) : m_saveQueue[i] = accepted[Ahead + i]

\* Every accepted save is in one place only: queued, in its turn, or in the hands
\* of one thread, or performed.
SavesAccountedFor ==
    /\ SaverTypeOK
    /\ QueueInOrder
    /\ ToSet(accepted) = ToSet(m_saveQueue) \cup Taken \cup Promise!Performed
    /\ ToSet(m_saveQueue) \cap (Taken \cup Promise!Performed) = {}
    /\ Taken \cap Promise!Performed = {}
    /\ mainOp = workerOp => mainOp = NoOp
    /\ IsInjective(m_saveQueue)

\* Every queued save is performed at most once, by whichever thread takes it, and
\* overtakes at most one older save: the one in the hands of the other thread,
\* however long that thread is at it.
PerformedOnceInTurn == Promise!Spec

\* A save queued with a running saver is performed, without any further call.
QueuedIsPerformed ==
    \A op \in Op :
      op \in ToSet(m_saveQueue) /\ m_running ~> op \in Promise!Performed

\* When stop comes back nothing is left queued or half done, by either thread.
NothingLeftAtStop == [][StopReturn => Promise!Performed = ToSet(accepted)]_saverVars

\* stop "waits for queue to drain": it comes back, as the worker cannot sleep
\* through the request, and it has drained the queue.
StopDrains ==
    /\ NothingLeftAtStop
    /\ main = "stop" ~> main = "idle"
=============================================================================
