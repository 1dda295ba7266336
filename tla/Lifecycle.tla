----------------------------- MODULE Lifecycle ------------------------------
(***************************************************************************)
(* Who keeps a connection's tasks and its socket alive: the clones of the  *)
(* ConnectionHandle, the WorkerControl they share behind a mutex, the      *)
(* worker task that owns the actor and the write half, and the reader      *)
(* sub-task that owns the read half.  What the commands do is in module    *)
(* Connection; here a command only keeps the task busy.                    *)
(***************************************************************************)
EXTENDS Naturals, FiniteSets

CONSTANTS
    Handles,      \* the clones that may ever exist
    First,        \* the handle spawn_with_config returns
    MaxQueued     \* bound: commands waiting at the same time

ASSUME LifecycleAssumption ==
    /\ First \in Handles
    /\ {"shared", "gone"} \cap Handles = {}
    /\ MaxQueued \in Nat

VARIABLES
    handle,    \* handle[h]: does clone h exist, and is it in close()?
    control,   \* where the WorkerControl is: "shared", "gone" or with a close()
    signal,    \* has shutdown_tx been sent, or dropped?
    queued,    \* commands in the worker's channel
    task,      \* the worker task
    reader,    \* the reader sub-task
    result     \* result[h]: close() on clone h awaited the task ("joined", or "panic" if
               \* that failed), found nothing to await ("noop"), or was dropped

vars == <<handle, control, signal, queued, task, reader, result>>

TaskStates == {"loop", "busy", "stopping", "done", "panicked"}

\* The shape of the state.
TypeOK ==
    /\ handle \in [Handles -> {"unborn", "held", "joining", "gone"}]
    /\ control \in {"shared", "gone"} \cup Handles
    /\ signal \in BOOLEAN
    /\ queued \in 0..MaxQueued
    /\ task \in TaskStates
    /\ reader \in {"running", "aborted", "gone"}
    /\ result \in [Handles -> {"none", "joined", "noop", "panic", "dropped"}]

Init ==
    /\ handle = [h \in Handles |-> IF h = First THEN "held" ELSE "unborn"]
    /\ control = "shared"
    /\ signal = FALSE
    /\ queued = 0
    /\ task = "loop"
    /\ reader = "running"
    /\ result = [h \in Handles |-> "none"]

Live(h) == handle[h] \in {"held", "joining"}
TaskEnded == task \in {"done", "panicked"}

\* The socket closes when both halves are dropped: the actor owns the write
\* half, the reader sub-task the read half.
SocketOpen == ~TaskEnded \/ reader # "gone"

-----------------------------------------------------------------------------
(* The handles *)

Clone(g, h) ==
    /\ handle[g] = "held" /\ handle[h] = "unborn"
    /\ handle' = [handle EXCEPT ![h] = "held"]
    /\ UNCHANGED <<control, signal, queued, task, reader, result>>

\* Defect: dropping any clone, not only the last, drops the shared control.
ReleaseAny(h) ==
    /\ handle' = [handle EXCEPT ![h] = "gone"]
    /\ control' = IF control \in {"shared", h} THEN "gone" ELSE control
    /\ signal' = (signal \/ control = "shared")

\* Defect: the control outlives the last clone, and its sender keeps the
\* command channel open.
ReleaseLeaks(h) ==
    /\ handle' = [handle EXCEPT ![h] = "gone"]
    /\ control' = IF control = h THEN "gone" ELSE control
    /\ signal' = signal

\* Clone h is dropped, and with the last one the Arc around the control.
\* WorkerControl::drop sends the shutdown signal.
Release(h) ==
    LET last == \A g \in Handles \ {h} : ~Live(g)
        dropsControl == control = h \/ (control = "shared" /\ last)
    IN /\ handle' = [handle EXCEPT ![h] = "gone"]
       /\ control' = IF dropsControl THEN "gone" ELSE control
       /\ signal' = (signal \/ dropsControl)

\* A handle, or the future of a close() that waits for the task, is dropped.
DropHandle(h) ==
    /\ Live(h)
    /\ Release(h)
    /\ result' = IF handle[h] = "joining" THEN [result EXCEPT ![h] = "dropped"] ELSE result
    /\ UNCHANGED <<queued, task, reader>>

Send(h) ==
    /\ handle[h] = "held" /\ ~TaskEnded
    /\ queued < MaxQueued
    /\ queued' = queued + 1
    /\ UNCHANGED <<handle, control, signal, task, reader, result>>

\* close() takes the control out of the mutex and signals shutdown ...
CloseTakes(h) ==
    /\ handle[h] = "held" /\ control = "shared"
    /\ handle' = [handle EXCEPT ![h] = "joining"]
    /\ control' = h
    /\ signal' = TRUE
    /\ UNCHANGED <<queued, task, reader, result>>

\* ... or finds it taken and returns Ok at once ...
CloseFindsNone(h) ==
    /\ handle[h] = "held" /\ control # "shared"
    /\ result' = [result EXCEPT ![h] = "noop"]
    /\ Release(h)
    /\ UNCHANGED <<queued, task, reader>>

\* Defect: close() does not await the JoinHandle.
CloseReturnsEarly(h) ==
    /\ handle[h] = "joining"
    /\ result' = [result EXCEPT ![h] = IF task = "panicked" THEN "panic" ELSE "joined"]
    /\ Release(h)
    /\ UNCHANGED <<queued, task, reader>>

\* ... and returns when the task it joins has ended.
CloseReturns(h) ==
    /\ handle[h] = "joining" /\ TaskEnded
    /\ result' = [result EXCEPT ![h] = IF task = "panicked" THEN "panic" ELSE "joined"]
    /\ Release(h)
    /\ UNCHANGED <<queued, task, reader>>

-----------------------------------------------------------------------------
(* The worker task *)

\* All senders are gone: every clone's and the control's.
ChannelClosed == control = "gone" /\ \A h \in Handles : ~Live(h)

TakeCommand ==
    /\ task = "loop" /\ ~signal /\ queued > 0
    /\ task' = "busy"
    /\ queued' = queued - 1
    /\ UNCHANGED <<handle, control, signal, reader, result>>

\* handle() returns.  Nothing here makes it: without read_timeout a silent
\* server, and with or without it a cursor that is kept and not polled, holds
\* the command for ever.
CommandEnds ==
    /\ task = "busy"
    /\ task' = "loop"
    /\ UNCHANGED <<handle, control, signal, queued, reader, result>>

\* The biased select sees the signal first, then the closed channel.
Stop ==
    /\ task = "loop"
    /\ signal \/ (queued = 0 /\ ChannelClosed)
    /\ task' = "stopping"
    /\ UNCHANGED <<handle, control, signal, queued, reader, result>>

\* The actor is dropped, and its Drop aborts the reader sub-task.  The abort is
\* a request: the runtime drops the reader's future later.
DropActor ==
    /\ queued' = 0
    /\ reader' = IF reader = "running" THEN "aborted" ELSE reader
    /\ UNCHANGED <<handle, control, signal, result>>

\* on_shutdown has closed the write half or timed out.
Exit ==
    /\ task = "stopping"
    /\ task' = "done"
    /\ DropActor

\* A panic in handle or on_shutdown unwinds the task.
Panic ==
    /\ task \in {"busy", "stopping"}
    /\ task' = "panicked"
    /\ DropActor

\* The reader sub-task ends by itself (the socket failed) or by the abort.
ReaderEnds ==
    /\ reader = "running"
    /\ reader' = "gone"
    /\ UNCHANGED <<handle, control, signal, queued, task, result>>
ReaderAborted ==
    /\ reader = "aborted"
    /\ reader' = "gone"
    /\ UNCHANGED <<handle, control, signal, queued, task, result>>

-----------------------------------------------------------------------------

HandleStep == \E h \in Handles :
    \/ \E g \in Handles : Clone(g, h)
    \/ DropHandle(h) \/ Send(h)
    \/ CloseTakes(h) \/ CloseFindsNone(h) \/ CloseReturns(h)

TaskStep == TakeCommand \/ CommandEnds \/ Stop \/ Exit \/ Panic
ReaderStep == ReaderEnds \/ ReaderAborted

Next == HandleStep \/ TaskStep \/ ReaderStep

Spec == Init /\ [][Next]_vars

\* The runtime polls a task that can make progress and drops an aborted one, and
\* SHUTDOWN_TIMEOUT ends on_shutdown.  That a command ends is not assumed: under
\* which conditions it does is the business of module Connection.
Fairness ==
    /\ WF_vars(TakeCommand \/ Stop \/ Exit)
    /\ WF_vars(ReaderAborted)
    /\ \A h \in Handles : WF_vars(CloseReturns(h))

FairSpec == Spec /\ Fairness

-----------------------------------------------------------------------------
(* Properties *)

\* The task does not stop under a clone that can still send commands, unless
\* somebody called close(): only the last clone's drop signals shutdown.
LivesWithLastClone ==
    task \in {"stopping", "done"} =>
        \/ \E h \in Handles : handle[h] = "joining" \/ result[h] # "none"
        \/ \A h \in Handles : ~Live(h)

\* The close() that took the control returns only after the task has ended and
\* the abort of the reader was requested; a panic surfaces there.
FirstCloseWaits ==
    \A h \in Handles : result[h] \in {"joined", "panic"} =>
        /\ TaskEnded /\ reader # "running"
        /\ result[h] = "panic" <=> task = "panicked"

\* Neither a close() nor the drop of the last clone, in any order and even when
\* the closing future is itself dropped, leaks a task or the socket.  Only one
\* command in progress that never ends keeps them, since the shutdown signal is
\* not looked at before handle() returns.
Released ==
    \/ (control # "shared" \/ \A h \in Handles : ~Live(h)) ~> ~SocketOpen
    \/ <>[](task = "busy")

=============================================================================
