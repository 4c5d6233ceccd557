----------------------------- MODULE ThreadPool -----------------------------
(***************************************************************************)
(* CThreadPool and CJob (vstdlib/jobthread.cpp, public/vstdlib/jobthread.h)*)
(* : worker threads take jobs from a queue of their own and from a shared  *)
(* one, and the main thread adds jobs, waits for them and helps meanwhile, *)
(* executes, aborts and releases them, raises their priority, and suspends *)
(* the workers to empty the queues.  Only the main thread calls the pool,  *)
(* as the comment in YieldWait says of the program.                        *)
(* A step of a thread is one access to what other threads use.             *)
(***************************************************************************)
EXTENDS JobQueue

CONSTANTS
  NumWorkers,
  Shared, None,          \* the shared queue; no job, no thread
  Queued, Serial,        \* the jobs with JF_QUEUE or JF_IO, and with JF_SERIAL
  GivenPriorities,       \* the ways the program gives its jobs their priorities
  Program,               \* the order in which the program adds its jobs
  MaxCalls,              \* bound: calls of the main thread besides AddJob
  MaxJobCalls            \* bound: those of them that are about one job

Workers == 0..(NumWorkers - 1)

ASSUME ThreadPoolAssumption ==
  /\ NumWorkers \in Nat \ {0}
  /\ Main \notin Workers /\ Shared \notin Workers
  /\ Threads = Workers \cup {Main} /\ Queues = Workers \cup {Shared}
  /\ None \notin Jobs \cup Threads /\ Queued \subseteq Jobs /\ Serial \subseteq Jobs
  /\ GivenPriorities \subseteq [Jobs -> Priorities]
  /\ Program \in Seq(Jobs)
  /\ \A i, k \in DOMAIN Program : Program[i] = Program[k] => i = k

VARIABLES
  \* per job
  m_status, m_mutex, m_CompleteEvent, m_priority, refs,
  \* the pool, and the events of its workers
  m_nIdleThreads, m_nJobs, m_nSuspend, m_EventSend, m_NotSuspendedEvent,
  \* per thread: where it is, the job in its hands, and Run's bTookJob
  pc, job, bTookJob,
  \* the main thread: the function it is in, the job it waits for, a loop's
  \* index, and the jobs it has a reference to
  caller, awaited, index, owned,
  \* history: the jobs added, how often each was executed, the entries made
  \* by ChangePriority, the jobs the main thread took out of line, its calls
  added, runs, raised, outOfLine, nCalls, nJobCalls

jobVars == <<m_status, m_mutex, m_CompleteEvent, m_priority, refs>>
poolVars == <<m_nIdleThreads, m_nJobs, m_nSuspend, m_EventSend, m_NotSuspendedEvent>>
threadVars == <<pc, job, bTookJob>>
mainVars == <<caller, awaited, index, owned>>
history == <<added, runs, raised, outOfLine, nCalls, nJobCalls>>
vars == <<queueVars, jobVars, poolVars, threadVars, mainVars, history>>

Top == JP_NUM_PRIORITIES - 1
IsFinished(j) == m_status[j] \in {"ok", "aborted"}
CanExecute(j) == m_status[j] \in {"unserviced", "pending"}

\* Mutant: the flag that keeps serial jobs on one thread is not looked at.
QueueOfAny(j) == Shared
QueueOf(j) == IF j \in Serial THEN 0 ELSE Shared

Init ==
  /\ QueueInit
  /\ m_status = [j \in Jobs |-> "unserviced"]
  /\ m_mutex = [j \in Jobs |-> None]
  /\ m_CompleteEvent = [j \in Jobs |-> FALSE]
  /\ m_priority \in GivenPriorities   \* CJob( priority ), SetPriority
  /\ refs = [j \in Jobs |-> 1]
  /\ m_nIdleThreads = NumWorkers /\ m_nJobs = 0 /\ m_nSuspend = 0
  /\ m_EventSend = [w \in Workers |-> FALSE]
  /\ m_NotSuspendedEvent = [w \in Workers |-> TRUE]
  /\ pc = [t \in Threads |-> IF t = Main THEN "user" ELSE "wait"]
  /\ job = [t \in Threads |-> None]
  /\ bTookJob = [w \in Workers |-> FALSE]
  /\ caller = "user" /\ awaited = None /\ index = 0 /\ owned = Jobs
  /\ added = <<>> /\ runs = [j \in Jobs |-> 0]
  /\ raised = 0 /\ outOfLine = {} /\ nCalls = 0 /\ nJobCalls = 0

Go(t, place) == pc' = [pc EXCEPT ![t] = place]

-----------------------------------------------------------------------------
\* CJobThread::Run

(* A thread without a job turns idle again when it goes back to waiting. *)
BackToWait(w) ==
  /\ Go(w, "wait")
  /\ m_nIdleThreads' = m_nIdleThreads + (IF bTookJob[w] THEN 1 ELSE 0)
  /\ bTookJob' = [bTookJob EXCEPT ![w] = FALSE]

(* TPM_SUSPEND: Reply( true ) comes before Suspend(). *)
AnswerCall(w) ==
  /\ pc[w] = "wait" /\ m_EventSend[w]
  /\ m_EventSend' = [m_EventSend EXCEPT ![w] = FALSE]
  /\ Go(w, "suspend")
  /\ UNCHANGED <<queueVars, jobVars, m_nIdleThreads, m_nJobs, m_nSuspend, m_NotSuspendedEvent,
                 job, bTookJob, mainVars, history>>

Suspend(w) ==
  /\ pc[w] = "suspend"
  /\ m_NotSuspendedEvent' = [m_NotSuspendedEvent EXCEPT ![w] = FALSE]
  /\ Go(w, "suspended")
  /\ UNCHANGED <<queueVars, jobVars, m_nIdleThreads, m_nJobs, m_nSuspend, m_EventSend,
                 job, bTookJob, mainVars, history>>

Resumed(w) ==
  /\ pc[w] = "suspended" /\ m_NotSuspendedEvent[w]
  /\ Go(w, "wait")
  /\ UNCHANGED <<queueVars, jobVars, poolVars, job, bTookJob, mainVars, history>>

WakeForItem(w) ==
  /\ pc[w] = "wait" /\ ~m_EventSend[w]
  /\ m_JobAvailableEvent[w] \/ m_JobAvailableEvent[Shared]
  /\ Go(w, "popDirect")
  /\ UNCHANGED <<queueVars, jobVars, poolVars, job, bTookJob, mainVars, history>>

PopDirect(w) ==
  /\ pc[w] = "popDirect"
  /\ \/ Reserve(w, w) /\ Go(w, "scan")
     \/ m_nItems[w] = 0 /\ Go(w, "popShared") /\ UNCHANGED queueVars
  /\ UNCHANGED <<jobVars, poolVars, job, bTookJob, mainVars, history>>

PopShared(w) ==
  /\ pc[w] = "popShared"
  /\ \/ Reserve(w, Shared) /\ Go(w, "scan") /\ UNCHANGED <<m_nIdleThreads, bTookJob>>
     \/ m_nItems[Shared] = 0 /\ BackToWait(w) /\ UNCHANGED queueVars
  /\ UNCHANGED <<jobVars, m_nJobs, m_nSuspend, m_EventSend, m_NotSuspendedEvent, job,
                 mainVars, history>>

-----------------------------------------------------------------------------
\* The rest of a Pop, and ServiceJobAndRelease, of a worker and of YieldWait

Scan(t) ==
  /\ pc[t] = "scan"
  /\ ScanLower(t)
  /\ UNCHANGED <<jobVars, poolVars, threadVars, mainVars, history>>

Popped(t) ==
  /\ pc[t] = "scan"
  /\ TakeItem(t)
  /\ job' = [job EXCEPT ![t] = Head(Place(t))]
  /\ Go(t, IF t = Main /\ caller = "abortAll" THEN "abortPopped" ELSE "popped")
  /\ UNCHANGED <<jobVars, poolVars, bTookJob, mainVars, history>>

(* The first job makes the thread busy; IsFinished is asked without the lock. *)
CheckFinished(t) ==
  /\ pc[t] = "popped"
  /\ Go(t, IF IsFinished(job[t]) THEN "release" ELSE "tryLock")
  /\ IF t \in Workers
     THEN /\ m_nIdleThreads' = m_nIdleThreads - (IF bTookJob[t] THEN 0 ELSE 1)
          /\ bTookJob' = [bTookJob EXCEPT ![t] = TRUE]
     ELSE UNCHANGED <<m_nIdleThreads, bTookJob>>
  /\ UNCHANGED <<queueVars, jobVars, m_nJobs, m_nSuspend, m_EventSend, m_NotSuspendedEvent,
                 job, mainVars, history>>

TryLockFails(t) ==
  /\ pc[t] = "tryLock" /\ m_mutex[job[t]] # None
  /\ Go(t, "release")
  /\ UNCHANGED <<queueVars, jobVars, poolVars, job, bTookJob, mainVars, history>>

(* CJob::Execute under the lock: the status is asked again. *)
\* Mutant: Execute relies on the check that was made before the lock.
BeginUnchecked(t) ==
  /\ pc[t] \in {"tryLock", "lock"} /\ m_mutex[job[t]] = None
  /\ m_mutex' = [m_mutex EXCEPT ![job[t]] = t]
  /\ m_status' = [m_status EXCEPT ![job[t]] = "inprogress"]
  /\ refs' = [refs EXCEPT ![job[t]] = @ + 1]
  /\ runs' = [runs EXCEPT ![job[t]] = @ + 1]
  /\ Go(t, "running")
  /\ UNCHANGED <<queueVars, m_CompleteEvent, m_priority, poolVars, job, bTookJob, mainVars,
                 added, raised, outOfLine, nCalls, nJobCalls>>
Begin(t) ==
  /\ pc[t] \in {"tryLock", "lock"} /\ m_mutex[job[t]] = None
  /\ CanExecute(job[t])
  /\ m_mutex' = [m_mutex EXCEPT ![job[t]] = t]
  /\ m_status' = [m_status EXCEPT ![job[t]] = "inprogress"]
  /\ refs' = [refs EXCEPT ![job[t]] = @ + 1]
  /\ runs' = [runs EXCEPT ![job[t]] = @ + 1]
  /\ Go(t, "running")
  /\ UNCHANGED <<queueVars, m_CompleteEvent, m_priority, poolVars, job, bTookJob, mainVars,
                 added, raised, outOfLine, nCalls, nJobCalls>>

(* Where a thread goes after Execute: a job that was popped has a reference
   of the queue to drop, one the main thread executes does not. *)
AfterExecute(t) ==
  Go(t, IF t = Main /\ caller = "user" THEN "user" ELSE "release")

TooLate(t) ==
  /\ pc[t] \in {"tryLock", "lock"} /\ m_mutex[job[t]] = None
  /\ ~CanExecute(job[t])
  /\ AfterExecute(t)
  /\ job' = [job EXCEPT ![t] = IF t = Main /\ caller = "user" THEN None ELSE @]
  /\ UNCHANGED <<queueVars, jobVars, poolVars, bTookJob, mainVars, history>>

Finish(t) ==
  /\ pc[t] = "running"
  /\ m_status' = [m_status EXCEPT ![job[t]] = "ok"]
  /\ Go(t, "finished")
  /\ UNCHANGED <<queueVars, m_mutex, m_CompleteEvent, m_priority, refs, poolVars, job, bTookJob,
                 mainVars, history>>

(* DoCleanup, and m_CompleteEvent.Set(). *)
\* Mutant: whoever finds a job finished is expected to ask IsFinished, not to wait.
CompleteSilently(t) ==
  /\ pc[t] = "finished"
  /\ Go(t, "completed")
  /\ UNCHANGED <<queueVars, jobVars, poolVars, job, bTookJob, mainVars, history>>
Complete(t) ==
  /\ pc[t] = "finished"
  /\ m_CompleteEvent' = [m_CompleteEvent EXCEPT ![job[t]] = TRUE]
  /\ Go(t, "completed")
  /\ UNCHANGED <<queueVars, m_status, m_mutex, m_priority, refs, poolVars, job, bTookJob,
                 mainVars, history>>

LeaveExecute(t) ==
  /\ pc[t] = "completed"
  /\ refs' = [refs EXCEPT ![job[t]] = @ - 1]
  /\ m_mutex' = [m_mutex EXCEPT ![job[t]] = None]
  /\ AfterExecute(t)
  /\ job' = [job EXCEPT ![t] = IF t = Main /\ caller = "user" THEN None ELSE @]
  /\ UNCHANGED <<queueVars, m_status, m_CompleteEvent, m_priority, poolVars, bTookJob,
                 mainVars, history>>

(* pJob->Release() and m_nJobs--; a worker then looks for a call (PeekCall). *)
Release(t) ==
  /\ pc[t] = "release"
  /\ refs' = [refs EXCEPT ![job[t]] = @ - 1]
  /\ job' = [job EXCEPT ![t] = None]
  /\ m_nJobs' = m_nJobs - 1
  /\ \/ t = Main /\ Go(t, "yield") /\ UNCHANGED <<m_nIdleThreads, bTookJob>>
     \/ t # Main /\ ~m_EventSend[t] /\ Go(t, "popDirect") /\ UNCHANGED <<m_nIdleThreads, bTookJob>>
     \/ t # Main /\ m_EventSend[t] /\ BackToWait(t)
  /\ UNCHANGED <<queueVars, m_status, m_mutex, m_CompleteEvent, m_priority, m_nSuspend,
                 m_EventSend, m_NotSuspendedEvent, mainVars, history>>

-----------------------------------------------------------------------------
\* AddJob

IsAdded(j) == \E i \in DOMAIN added : added[i] = j
IsNext(j) == Len(added) < Len(Program) /\ j = Program[Len(added) + 1]

Call(j) == pc[Main] = "user" /\ j \in owned
NewCall == nCalls < MaxCalls /\ nCalls' = nCalls + 1
NewJobCall == NewCall /\ nJobCalls < MaxJobCalls /\ nJobCalls' = nJobCalls + 1

(* Work that need not be queued is done at once when no thread is idle. *)
InPlace(j) == j \notin Queued /\ m_nIdleThreads = 0

AddInPlace(j) ==
  /\ Call(j) /\ IsNext(j) /\ InPlace(j)
  /\ added' = Append(added, j)
  /\ job' = [job EXCEPT ![Main] = j]
  /\ Go(Main, "execute")
  /\ UNCHANGED <<queueVars, jobVars, poolVars, bTookJob, mainVars, runs, raised, outOfLine, nCalls, nJobCalls>>

PriorityOf(j) == IF j \in Queued THEN m_priority[j] ELSE Top

AddHandled(j) ==
  /\ Call(j) /\ IsNext(j) /\ ~InPlace(j) /\ ~CanExecute(j)
  /\ m_priority' = [m_priority EXCEPT ![j] = PriorityOf(j)]
  /\ added' = Append(added, j)
  /\ UNCHANGED <<queueVars, m_status, m_mutex, m_CompleteEvent, refs, poolVars, threadVars,
                 mainVars, runs, raised, outOfLine, nCalls, nJobCalls>>

(* InsertJobInQueue up to the point where the item can be seen. *)
\* Mutant: the queue has no reference of its own.
AddWithoutRef(j) ==
  /\ Call(j) /\ IsNext(j) /\ ~InPlace(j) /\ CanExecute(j)
  /\ m_priority' = [m_priority EXCEPT ![j] = PriorityOf(j)]
  /\ m_status' = [m_status EXCEPT ![j] = "pending"]
  /\ PushItem(Main, QueueOf(j), j, PriorityOf(j))
  /\ added' = Append(added, j)
  /\ Go(Main, "added")
  /\ UNCHANGED <<refs, m_mutex, m_CompleteEvent, poolVars, job, bTookJob, mainVars, runs, raised,
                 outOfLine, nCalls, nJobCalls>>
AddToQueue(j) ==
  /\ Call(j) /\ IsNext(j) /\ ~InPlace(j) /\ CanExecute(j)
  /\ m_priority' = [m_priority EXCEPT ![j] = PriorityOf(j)]
  /\ m_status' = [m_status EXCEPT ![j] = "pending"]
  /\ refs' = [refs EXCEPT ![j] = @ + 1]
  /\ PushItem(Main, QueueOf(j), j, PriorityOf(j))
  /\ added' = Append(added, j)
  /\ Go(Main, "added")
  /\ UNCHANGED <<m_mutex, m_CompleteEvent, poolVars, job, bTookJob, mainVars, runs, raised,
                 outOfLine, nCalls, nJobCalls>>

(* The rest of a Push; only AddJob goes on to ++m_nJobs. *)
CountAdded ==
  /\ pc[Main] \in {"added", "raised"}
  /\ CountItem(Main)
  /\ Go(Main, IF pc[Main] = "added" THEN "countJob" ELSE "user")
  /\ UNCHANGED <<jobVars, poolVars, job, bTookJob, mainVars, history>>

CountJob ==
  /\ pc[Main] = "countJob" /\ Go(Main, "user")
  /\ m_nJobs' = m_nJobs + 1
  /\ UNCHANGED <<queueVars, jobVars, m_nIdleThreads, m_nSuspend, m_EventSend,
                 m_NotSuspendedEvent, job, bTookJob, mainVars, history>>

-----------------------------------------------------------------------------
\* The other calls of the main thread

(* ChangePriority: the job gets a second entry, the first one stays. *)
ChangePriority(j, p) ==
  /\ Call(j) /\ IsAdded(j) /\ NewJobCall
  /\ m_priority[j] < p
  /\ m_priority' = [m_priority EXCEPT ![j] = p]
  /\ refs' = [refs EXCEPT ![j] = @ + 1]
  /\ PushItem(Main, Shared, j, p)
  /\ raised' = raised + 1
  /\ outOfLine' = outOfLine \cup {j}
  /\ Go(Main, "raised")
  /\ UNCHANGED <<m_status, m_mutex, m_CompleteEvent, poolVars, job, bTookJob, mainVars, added, runs>>

(* CJob::Execute and CJob::Abort: IsFinished is asked before the lock. *)
CallExecute(j) ==
  /\ Call(j) /\ NewJobCall
  /\ Go(Main, "execute")
  /\ job' = [job EXCEPT ![Main] = j]
  /\ outOfLine' = outOfLine \cup {j}
  /\ UNCHANGED <<queueVars, jobVars, poolVars, bTookJob, mainVars, added, runs, raised>>

Execute ==
  /\ pc[Main] = "execute"
  /\ IF IsFinished(job[Main])
     THEN Go(Main, "user") /\ job' = [job EXCEPT ![Main] = None]
     ELSE Go(Main, "lock") /\ UNCHANGED job
  /\ UNCHANGED <<queueVars, jobVars, poolVars, bTookJob, mainVars, history>>

CallAbort(j) ==
  /\ Call(j) /\ NewJobCall
  /\ ~IsFinished(j)
  /\ Go(Main, "abort")
  /\ job' = [job EXCEPT ![Main] = j]
  /\ outOfLine' = outOfLine \cup {j}
  /\ UNCHANGED <<queueVars, jobVars, poolVars, bTookJob, mainVars, added, runs, raised>>

AbortedIfWaiting(j) ==
  /\ m_status' = [m_status EXCEPT ![j] = IF CanExecute(j) THEN "aborted" ELSE @]
  /\ m_CompleteEvent' = [m_CompleteEvent EXCEPT ![j] = @ \/ CanExecute(j)]

Abort ==
  /\ pc[Main] = "abort" /\ m_mutex[job[Main]] = None
  /\ AbortedIfWaiting(job[Main])
  /\ Go(Main, "user")
  /\ job' = [job EXCEPT ![Main] = None]
  /\ UNCHANGED <<queueVars, m_mutex, m_priority, refs, poolVars, bTookJob, mainVars, history>>

ReleaseOwned(j) ==
  /\ Call(j) /\ IsAdded(j) /\ NewJobCall
  /\ refs' = [refs EXCEPT ![j] = @ - 1]
  /\ owned' = owned \ {j}
  /\ UNCHANGED <<queueVars, m_status, m_mutex, m_CompleteEvent, m_priority, poolVars, threadVars,
                 caller, awaited, index, added, runs, raised, outOfLine>>

(* WaitForFinish and YieldWait: help with the shared queue, and once it was
   empty only wait. *)
CallYieldWait(j) ==
  /\ Call(j) /\ IsAdded(j) /\ NewJobCall
  /\ ~IsFinished(j) /\ m_nSuspend = 0
  /\ Go(Main, "yield")
  /\ caller' = "yield" /\ awaited' = j
  /\ UNCHANGED <<queueVars, jobVars, poolVars, job, bTookJob, index, owned, added, runs, raised,
                 outOfLine>>

YieldHelp ==
  /\ pc[Main] = "yield" /\ ~m_CompleteEvent[awaited]
  /\ \/ Reserve(Main, Shared) /\ Go(Main, "scan")
     \/ m_nItems[Shared] = 0 /\ Go(Main, "waitForEver") /\ UNCHANGED queueVars
  /\ UNCHANGED <<jobVars, poolVars, job, bTookJob, mainVars, history>>

YieldDone ==
  /\ pc[Main] \in {"yield", "waitForEver"} /\ m_CompleteEvent[awaited]
  /\ Go(Main, "user")
  /\ caller' = "user" /\ awaited' = None
  /\ UNCHANGED <<queueVars, jobVars, poolVars, job, bTookJob, index, owned, history>>

-----------------------------------------------------------------------------
\* SuspendExecution, ResumeExecution, AbortAll

(* SuspendExecution, called by the program or by AbortAll. *)
CallSuspend(by) ==
  /\ pc[Main] = "user" /\ NewCall
  /\ by = "user" => m_nSuspend = 0
  /\ caller' = by /\ index' = 0
  /\ IF m_nSuspend = 0
     THEN Go(Main, "call") /\ UNCHANGED m_nSuspend
     ELSE Go(Main, "drain") /\ m_nSuspend' = m_nSuspend + 1
  /\ UNCHANGED <<queueVars, jobVars, m_nIdleThreads, m_nJobs, m_EventSend, m_NotSuspendedEvent,
                 job, bTookJob, awaited, owned, added, runs, raised, outOfLine, nJobCalls>>

CallWorker ==
  /\ pc[Main] = "call" /\ index < NumWorkers
  /\ m_EventSend' = [m_EventSend EXCEPT ![index] = TRUE]
  /\ index' = index + 1
  /\ UNCHANGED <<queueVars, jobVars, m_nIdleThreads, m_nJobs, m_nSuspend, m_NotSuspendedEvent,
                 threadVars, caller, awaited, owned, history>>

(* WaitForReply of each, then IsSuspended of each. *)
\* Mutant: the reply is taken for the suspension itself.
WaitForReplies ==
  /\ pc[Main] = "call" /\ index = NumWorkers
  /\ \A w \in Workers : ~m_EventSend[w]
  /\ m_nSuspend' = m_nSuspend + 1
  /\ Go(Main, IF caller = "abortAll" THEN "drain" ELSE "user")
  /\ index' = 0
  /\ UNCHANGED <<queueVars, jobVars, m_nIdleThreads, m_nJobs, m_EventSend, m_NotSuspendedEvent,
                 job, bTookJob, caller, awaited, owned, history>>
WaitForSuspension ==
  /\ pc[Main] = "call" /\ index = NumWorkers
  /\ \A w \in Workers : ~m_EventSend[w] /\ ~m_NotSuspendedEvent[w]
  /\ m_nSuspend' = m_nSuspend + 1
  /\ Go(Main, IF caller = "abortAll" THEN "drain" ELSE "user")
  /\ index' = 0
  /\ UNCHANGED <<queueVars, jobVars, m_nIdleThreads, m_nJobs, m_EventSend, m_NotSuspendedEvent,
                 job, bTookJob, caller, awaited, owned, history>>

(* AbortAll: the shared queue, then each worker's. *)
Drained == IF index = 0 THEN Shared ELSE index - 1

DrainPop ==
  /\ pc[Main] = "drain"
  /\ Reserve(Main, Drained) /\ Go(Main, "scan")
  /\ UNCHANGED <<jobVars, poolVars, job, bTookJob, mainVars, history>>

AbortPopped ==
  /\ pc[Main] = "abortPopped" /\ m_mutex[job[Main]] = None
  /\ AbortedIfWaiting(job[Main])
  /\ refs' = [refs EXCEPT ![job[Main]] = @ - 1]
  /\ job' = [job EXCEPT ![Main] = None]
  /\ Go(Main, "drain")
  /\ UNCHANGED <<queueVars, m_mutex, m_priority, poolVars, bTookJob, mainVars, history>>

DrainNext ==
  /\ pc[Main] = "drain" /\ m_nItems[Drained] = 0 /\ index < NumWorkers
  /\ index' = index + 1
  /\ UNCHANGED <<queueVars, jobVars, poolVars, threadVars, caller, awaited, owned, history>>

\* Mutant: the workers' own queues are forgotten.
DrainedShared ==
  /\ pc[Main] = "drain" /\ m_nItems[Drained] = 0
  /\ m_nJobs' = 0 /\ raised' = 0
  /\ Go(Main, "resume") /\ index' = 0
  /\ UNCHANGED <<queueVars, jobVars, m_nIdleThreads, m_nSuspend, m_EventSend, m_NotSuspendedEvent,
                 job, bTookJob, caller, awaited, owned, added, runs, outOfLine, nCalls, nJobCalls>>
DrainDone ==
  /\ pc[Main] = "drain" /\ m_nItems[Drained] = 0 /\ index = NumWorkers
  /\ m_nJobs' = 0 /\ raised' = 0
  /\ Go(Main, "resume") /\ index' = 0
  /\ UNCHANGED <<queueVars, jobVars, m_nIdleThreads, m_nSuspend, m_EventSend, m_NotSuspendedEvent,
                 job, bTookJob, caller, awaited, owned, added, runs, outOfLine, nCalls, nJobCalls>>

ResumeExecution ==
  /\ \/ pc[Main] = "resume"
     \/ pc[Main] = "user" /\ m_nSuspend > 0
  /\ m_nSuspend' = m_nSuspend - 1
  /\ m_NotSuspendedEvent' = [w \in Workers |-> m_NotSuspendedEvent[w] \/ m_nSuspend = 1]
  /\ Go(Main, "user") /\ caller' = "user"
  /\ UNCHANGED <<queueVars, jobVars, m_nIdleThreads, m_nJobs, m_EventSend, job, bTookJob,
                 awaited, index, owned, history>>

-----------------------------------------------------------------------------

Service(t) ==
  \/ Scan(t) \/ Popped(t) \/ CheckFinished(t) \/ TryLockFails(t) \/ Begin(t) \/ TooLate(t)
  \/ Finish(t) \/ Complete(t) \/ LeaveExecute(t) \/ Release(t)

Worker(w) ==
  \/ AnswerCall(w) \/ Suspend(w) \/ Resumed(w)
  \/ WakeForItem(w) \/ PopDirect(w) \/ PopShared(w) \/ Service(w)

(* What the main thread goes on with inside a call. *)
MainInside ==
  \/ Service(Main) \/ Execute \/ Abort \/ CountAdded \/ CountJob \/ YieldHelp \/ YieldDone
  \/ CallWorker \/ WaitForSuspension \/ DrainPop \/ AbortPopped \/ DrainNext \/ DrainDone
  \/ ResumeExecution

MainCalls ==
  \/ \E j \in Jobs :
       \/ AddInPlace(j) \/ AddHandled(j) \/ AddToQueue(j)
       \/ CallExecute(j) \/ CallAbort(j) \/ ReleaseOwned(j) \/ CallYieldWait(j)
       \/ \E p \in Priorities : ChangePriority(j, p)
  \/ \E by \in {"user", "abortAll"} : CallSuspend(by)

Next == (\E w \in Workers : Worker(w)) \/ MainInside \/ MainCalls

Spec == Init /\ [][Next]_vars

(* Each thread keeps being scheduled, and the program resumes what it suspended. *)
FairSpec ==
  /\ Spec
  /\ \A w \in Workers : WF_vars(Worker(w))
  /\ WF_vars(MainInside)

-----------------------------------------------------------------------------

Places ==
  UNION {UNION {{<<q, p, i>> : i \in DOMAIN m_queues[q][p]} : p \in Priorities} : q \in Queues}
Entries(j) == Cardinality({x \in Places : m_queues[x[1]][x[2]][x[3]] = j})

AllFinished == \A j \in Jobs : IsAdded(j) => IsFinished(j)

InExecute == {"running", "finished", "completed"}
Popping == {"popped", "tryLock", "running", "finished", "completed", "release", "abortPopped"}

(* The types of the state. *)
TypeOK ==
  /\ m_queues \in [Queues -> [Priorities -> Seq(Jobs)]]
  /\ m_nItems \in [Queues -> Int] /\ m_JobAvailableEvent \in [Queues -> BOOLEAN]
  /\ qStep \in [Threads -> {"none", "count", "scan"}] /\ qUsed \in [Threads -> Queues]
  /\ level \in [Threads -> -1..Top]
  /\ m_status \in [Jobs -> {"unserviced", "pending", "inprogress", "ok", "aborted"}]
  /\ m_mutex \in [Jobs -> Threads \cup {None}] /\ m_CompleteEvent \in [Jobs -> BOOLEAN]
  /\ m_priority \in [Jobs -> Priorities] /\ refs \in [Jobs -> Int]
  /\ m_nIdleThreads \in 0..NumWorkers /\ m_nJobs \in Int /\ m_nSuspend \in Nat
  /\ m_EventSend \in [Workers -> BOOLEAN] /\ m_NotSuspendedEvent \in [Workers -> BOOLEAN]
  /\ DOMAIN pc = Threads /\ job \in [Threads -> Jobs \cup {None}]
  /\ bTookJob \in [Workers -> BOOLEAN]
  /\ caller \in {"user", "yield", "abortAll"} /\ awaited \in Jobs \cup {None}
  /\ index \in 0..NumWorkers /\ owned \subseteq Jobs
  /\ runs \in [Jobs -> Nat] /\ raised \in Nat /\ outOfLine \subseteq Jobs

(* A job is executed once at most, whoever gets hold of it (a worker, a helping
   or impatient main thread, twice after its priority was raised), and never
   after it was aborted. *)
RunsOnce == \A j \in Jobs : runs[j] <= 1 /\ (m_status[j] = "aborted" => runs[j] = 0)

(* The references of a job are those of the main thread, of its entries in the
   queues, and of the threads that took it or are inside its Execute: nobody
   uses a job that is gone, and a job nobody uses is gone. *)
RefsAccounted ==
  \A j \in Jobs :
    refs[j] = (IF j \in owned THEN 1 ELSE 0) + Entries(j)
              + Cardinality({t \in Threads : job[t] = j /\ pc[t] \in Popping
                               /\ ~(t = Main /\ caller = "user")})
              + Cardinality({t \in Threads : job[t] = j /\ pc[t] \in InExecute})

(* A suspended pool is quiet: no worker has a job, or was promised one. *)
SuspendedMeansQuiet ==
  m_nSuspend > 0 => \A w \in Workers : pc[w] = "suspended" /\ job[w] = None /\ qStep[w] = "none"

(* AbortAll leaves no job behind in any queue, and none of those that were
   added waiting or half done. *)
AbortAllLeavesNothing ==
  pc[Main] = "resume" =>
    /\ Places = {} /\ \A q \in Queues : m_nItems[q] = 0
    /\ AllFinished

(* Jobs with JF_SERIAL that are always queued and were given the same priority
   are executed one after the other in the order in which they were added,
   unless the program takes one out of line itself.  (Between two priorities
   there is no order: Pop serves the higher one first, and one that went past
   the higher priority before the earlier job came takes the later job.) *)
SerialOrder ==
  \A i, k \in DOMAIN added :
    /\ i < k
    /\ {added[i], added[k]} \subseteq (Serial \cap Queued) \ outOfLine
    /\ m_priority[added[i]] = m_priority[added[k]]
    /\ runs[added[k]] > 0
    => IsFinished(added[i])

(* The comment at JF_SERIAL makes no difference between queued jobs and others,
   nor between priorities: "Job cannot be executed out of order relative to other "strict" jobs". *)
SerialInOrder ==
  \A i, k \in DOMAIN added :
    /\ i < k
    /\ {added[i], added[k]} \subseteq Serial \ outOfLine
    /\ runs[added[k]] > 0
    => IsFinished(added[i])

(* GetJobCount: between calls of the main thread it is the number of entries
   and of jobs being serviced, less those ChangePriority added. *)
JobsCounted ==
  pc[Main] = "user" =>
    m_nJobs + raised = Cardinality(Places) + Cardinality({w \in Workers : job[w] # None})

(* The jobs that are added get finished, all of them. *)
JobsFinish == ~AllFinished ~> AllFinished

(* Every call of the main thread returns: the wait for a job, which does not
   look at the queue again, and the wait for the workers to be suspended. *)
CallsReturn == (pc[Main] # "user") ~> (pc[Main] = "user")
=============================================================================
