------------------------------- MODULE RgaJob -------------------------------
(* The im2d job manager (im2d_job.cpp) and the four calls on it in          *)
(* im2d_impl.cpp: rga_job_create, rga_job_cancel, rga_job_submit,           *)
(* rga_job_config, and the job branch of rga_task_submit.  Every thread     *)
(* runs one call at a time; a call is a start, the wait for the manager's   *)
(* mutex, the critical section, and what follows the unlock (an ioctl, a    *)
(* free).  The driver's request table is external: only the four ioctls are *)
(* known from here.  job_count is left out: nothing reads it.               *)
EXTENDS Integers, Sequences, FiniteSets

CONSTANTS
  Threads,       \* threads of the process
  Handles,       \* im_job_handle_t values the driver may return
  Addrs,         \* addresses malloc may return for an im_rga_job_t
  Tasks,         \* contents of one struct rga_req
  TaskNumMax,    \* RGA_TASK_NUM_MAX
  NULL,          \* no address, no thread
  Shared,        \* threads other than its creator use a handle
  UseConfig,     \* clients call improcess_ctx (rga_job_config)
  CancelFailed,  \* clients cancel a job whose submit failed (immakeBorder)
  MallocFails,   \* malloc of an im_rga_job_t may return NULL
  KernelKeeps    \* the driver keeps a request whose submit failed

ASSUME JobAssumption ==
  /\ NULL \notin Addrs \cup Threads \cup Handles
  /\ TaskNumMax \in Nat
  /\ {Shared, UseConfig, CancelFailed, MallocFails, KernelKeeps} \subseteq BOOLEAN

VARIABLES
  mutex,       \* g_im2d_job_manager.mutex: its owner, or NULL
  job_map,     \* g_im2d_job_manager.job_map: the object of a handle, or NULL
  heap,        \* at each address the im_rga_job_t that lives there, or Free
  owner,       \* the client that got the handle from rga_job_create, or NULL
  failed,      \* the handles a client still has to cancel
  request,     \* the driver's request table (external)
  call         \* the call a thread is in: its name, how far it has come, the
               \* handle it was given, and the locals it uses after the unlock

manager == <<mutex, job_map, heap, owner>>
vars    == <<manager, failed, request, call>>

Free == [id |-> NULL, tasks |-> <<>>]

Job == [id : Handles, tasks : Seq(Tasks)]

NoRequest   == [stage |-> "none", tasks |-> <<>>]
OpenRequest == [stage |-> "open", tasks |-> <<>>]

Request == [stage : {"none", "open", "running"}, tasks : Seq(Tasks)]

Idle == [op |-> "none", at |-> "idle", handle |-> NULL, job |-> NULL, num |-> 0]

(* The shapes a call takes, from its entry to what follows the unlock. *)
AtMutex == [op : {"create", "task", "cancel", "submit", "config"},
            at : {"lock", "critical"},
            handle : Handles, job : {NULL}, num : {0}]
AtCancel == [op : {"cancel"}, at : {"ioctl"},
             handle : Handles, job : {NULL}, num : {0}]
AtSubmit == [op : {"submit"}, at : {"ioctl", "wait", "free"},
             handle : Handles, job : Addrs, num : {0}]
AtConfig == [op : {"config"}, at : {"ioctl"},
             handle : Handles, job : Addrs, num : 0..TaskNumMax]

Call == {Idle} \cup AtMutex \cup AtCancel \cup AtSubmit \cup AtConfig

(* The types of the variables; the tasks of a job stay inside               *)
(* im_rga_job_t.req[RGA_TASK_NUM_MAX].                                      *)
TypeOK ==
  /\ mutex \in Threads \cup {NULL}
  /\ job_map \in [Handles -> Addrs \cup {NULL}]
  /\ heap \in [Addrs -> Job \cup {Free}]
  /\ \A a \in Addrs : Len(heap[a].tasks) <= TaskNumMax
  /\ owner \in [Handles -> Threads \cup {NULL}]
  /\ failed \in [Threads -> SUBSET Handles]
  /\ request \in [Handles -> Request]
  /\ call \in [Threads -> Call]

Init ==
  /\ mutex = NULL
  /\ job_map = [h \in Handles |-> NULL]
  /\ heap = [a \in Addrs |-> Free]
  /\ owner = [h \in Handles |-> NULL]
  /\ failed = [t \in Threads |-> {}]
  /\ request = [h \in Handles |-> NoRequest]
  /\ call = [t \in Threads |-> Idle]

MayUse(t, h) == owner[h] = t \/ (Shared /\ owner[h] # NULL)

Goto(t, label) == call' = [call EXCEPT ![t].at = label]

Return(t) == call' = [call EXCEPT ![t] = Idle]

(* A thread enters a call on handle h and is about to take the mutex. *)
Enter(t, op, h) ==
  /\ call[t] = Idle
  /\ call' = [call EXCEPT ![t] = [op |-> op, at |-> "lock", handle |-> h,
                                  job |-> NULL, num |-> 0]]
  /\ UNCHANGED manager

(* A thread has reached the given point of the given call. *)
In(t, op, label) == call[t].op = op /\ call[t].at = label

Lock(t) ==
  /\ call[t].at = "lock"
  /\ mutex = NULL
  /\ mutex' = t
  /\ Goto(t, "critical")
  /\ UNCHANGED <<job_map, heap, owner, failed, request>>
-----------------------------------------------------------------------------
(* rga_job_create: the driver picks the handle before the mutex is taken.   *)
(* When the ioctl fails the call returns 0 and changes nothing.             *)
RequestCreate(t, h) ==
  /\ request[h] = NoRequest
  /\ request' = [request EXCEPT ![h] = OpenRequest]
  /\ Enter(t, "create", h)
  /\ UNCHANGED failed

CreateJob(t, a) ==
  LET h == call[t].handle IN
  /\ In(t, "create", "critical")
  /\ job_map[h] = NULL
  /\ heap[a] = Free
  /\ heap' = [heap EXCEPT ![a] = [id |-> h, tasks |-> <<>>]]
  /\ job_map' = [job_map EXCEPT ![h] = a]
  /\ owner' = [owner EXCEPT ![h] = t]
  /\ mutex' = NULL
  /\ Return(t)
  /\ UNCHANGED <<failed, request>>

(* "handle already exists", or no memory. *)
CannotCreate(t) ==
  /\ In(t, "create", "critical")
  /\ \/ job_map[call[t].handle] # NULL
     \/ MallocFails
  /\ UNCHANGED <<job_map, heap, owner, failed, request>>

ToCancel(t) == call' = [call EXCEPT ![t].op = "cancel", ![t].at = "lock"]

CreateFails_Locked(t) == CannotCreate(t) /\ ToCancel(t) /\ UNCHANGED mutex

CreateFails_NoCancel(t) == CannotCreate(t) /\ mutex' = NULL /\ Return(t)

(* error_cancel_job: unlock, then the whole of rga_job_cancel. *)
CreateFails(t) == CannotCreate(t) /\ mutex' = NULL /\ ToCancel(t)
-----------------------------------------------------------------------------
(* The job branch of rga_task_submit; the task is the generated request.    *)
TaskEnter(t, h) ==
  /\ MayUse(t, h)
  /\ Enter(t, "task", h)
  /\ UNCHANGED <<failed, request>>

StoreTask(t, task, max) ==
  LET a == job_map[call[t].handle] IN
  /\ In(t, "task", "critical")
  /\ a # NULL
  /\ Len(heap[a].tasks) < max
  /\ heap' = [heap EXCEPT ![a] = [id |-> @.id, tasks |-> Append(@.tasks, task)]]
  /\ mutex' = NULL
  /\ Return(t)
  /\ UNCHANGED <<job_map, owner, failed, request>>

AddTask_OneTooMany(t, task) == StoreTask(t, task, TaskNumMax + 1)

AddTask(t, task) == StoreTask(t, task, TaskNumMax)

TaskRefused(t) ==
  LET a == job_map[call[t].handle] IN
  /\ In(t, "task", "critical")
  /\ a # NULL => Len(heap[a].tasks) >= TaskNumMax
  /\ mutex' = NULL
  /\ Return(t)
  /\ UNCHANGED <<job_map, heap, owner, failed, request>>
-----------------------------------------------------------------------------
(* rga_job_cancel, of a job that need not be in the map any more.           *)
MayCancel(t, h) == MayUse(t, h) \/ h \in failed[t]

CancelEnter_IoctlFirst(t, h) ==
  /\ MayCancel(t, h)
  /\ failed' = [failed EXCEPT ![t] = @ \ {h}]
  /\ request' = [request EXCEPT ![h] = NoRequest]
  /\ Enter(t, "cancel", h)

CancelEnter(t, h) ==
  /\ MayCancel(t, h)
  /\ failed' = [failed EXCEPT ![t] = @ \ {h}]
  /\ Enter(t, "cancel", h)
  /\ UNCHANGED request

Erase(h) ==
  /\ job_map' = [job_map EXCEPT ![h] = NULL]
  /\ owner' = [owner EXCEPT ![h] = NULL]

CancelJob_KeepsEntry(t) ==
  /\ In(t, "cancel", "critical")
  /\ heap' = [a \in Addrs |-> IF a = job_map[call[t].handle] THEN Free ELSE heap[a]]
  /\ mutex' = NULL
  /\ Goto(t, "ioctl")
  /\ UNCHANGED <<job_map, owner, failed, request>>

CancelJob(t) ==
  /\ In(t, "cancel", "critical")
  /\ heap' = [a \in Addrs |-> IF a = job_map[call[t].handle] THEN Free ELSE heap[a]]
  /\ Erase(call[t].handle)
  /\ mutex' = NULL
  /\ Goto(t, "ioctl")
  /\ UNCHANGED <<failed, request>>

(* Threads blocked in a synchronous submit of h come out of their ioctl. *)
Woken(h) == [t \in Threads |->
               IF call[t].at = "wait" /\ call[t].handle = h
               THEN [call[t] EXCEPT !.at = "free"] ELSE call[t]]

(* The driver may abort a request that already runs, or refuse to.        *)
RequestCancel(t) ==
  LET h == call[t].handle IN
  /\ In(t, "cancel", "ioctl")
  /\ \/ /\ request' = [request EXCEPT ![h] = NoRequest]
        /\ call' = [Woken(h) EXCEPT ![t] = Idle]
     \/ /\ request[h].stage = "running"
        /\ Return(t)
        /\ UNCHANGED request
  /\ UNCHANGED <<manager, failed>>
-----------------------------------------------------------------------------
(* rga_job_submit: the job leaves the map under the mutex, the ioctl reads  *)
(* it after the unlock, and it is freed last.  An illegal sync mode returns *)
(* before any of this and changes nothing.                                  *)
SubmitEnter(t, h) ==
  /\ MayUse(t, h)
  /\ Enter(t, "submit", h)
  /\ UNCHANGED <<failed, request>>

FoundToSubmit(t) ==
  /\ In(t, "submit", "critical")
  /\ job_map[call[t].handle] # NULL
  /\ call' = [call EXCEPT ![t] = [op |-> "submit", at |-> "ioctl", handle |-> @.handle,
                                  job |-> job_map[@.handle], num |-> 0]]
  /\ mutex' = NULL
  /\ UNCHANGED <<heap, failed, request>>

TakeJob_KeepsEntry(t) ==
  FoundToSubmit(t) /\ UNCHANGED <<job_map, owner>>

TakeJob(t) ==
  FoundToSubmit(t) /\ Erase(call[t].handle)

NotFound(t) ==
  /\ In(t, "submit", "critical") \/ In(t, "config", "critical")
  /\ job_map[call[t].handle] = NULL
  /\ mutex' = NULL
  /\ Return(t)
  /\ UNCHANGED <<job_map, heap, owner, failed, request>>

(* The driver copies the tasks; an IM_SYNC call stays in the ioctl. *)
Accepted(t, sync, tasks) ==
  LET id == heap[call[t].job].id IN
  /\ In(t, "submit", "ioctl")
  /\ request[id].stage = "open"
  /\ request' = [request EXCEPT ![id] = [stage |-> "running", tasks |-> tasks]]
  /\ Goto(t, IF sync THEN "wait" ELSE "free")
  /\ UNCHANGED <<manager, failed>>

RequestSubmit_LosesLast(t, sync) ==
  LET tasks == heap[call[t].job].tasks IN
  Accepted(t, sync, SubSeq(tasks, 1, Len(tasks) - 1))

RequestSubmit(t, sync) == Accepted(t, sync, heap[call[t].job].tasks)

(* The ioctl returns an error; the job is freed all the same. *)
SubmitError(t) ==
  /\ failed' = IF CancelFailed
               THEN [failed EXCEPT ![t] = @ \cup {call[t].handle}] ELSE failed
  /\ Goto(t, "free")
  /\ UNCHANGED manager

Refuses(t) == In(t, "submit", "ioctl") /\ request[call[t].handle].stage # "open"

SubmitRefused_Retries(t) ==
  Refuses(t) /\ Goto(t, "ioctl") /\ UNCHANGED <<manager, failed, request>>

(* The driver has no open request of that id: another thread has cancelled  *)
(* or submitted it since the job was found.                                 *)
SubmitRefused(t) == Refuses(t) /\ SubmitError(t) /\ UNCHANGED request

FaultySubmit(t) ==
  \/ In(t, "submit", "ioctl") /\ request[call[t].handle].stage = "open"
  \/ In(t, "submit", "wait")

SubmitFails_NoFree(t) ==
  FaultySubmit(t) /\ Return(t) /\ UNCHANGED <<manager, failed, request>>

(* A fault: an open request fails, at once or after an IM_SYNC job has      *)
(* started.                                                                 *)
SubmitFails(t) ==
  /\ FaultySubmit(t)
  /\ SubmitError(t)
  /\ request' = [request EXCEPT ![call[t].handle] =
                                   IF KernelKeeps THEN OpenRequest ELSE NoRequest]

FreeJob(t) ==
  /\ call[t].at = "free"
  /\ heap' = [heap EXCEPT ![call[t].job] = Free]
  /\ Return(t)
  /\ UNCHANGED <<mutex, job_map, owner, failed, request>>
-----------------------------------------------------------------------------
(* rga_job_config: the pointer found under the mutex is used after it.      *)
ConfigEnter(t, h) ==
  /\ UseConfig
  /\ MayUse(t, h)
  /\ Enter(t, "config", h)
  /\ UNCHANGED <<failed, request>>

ReadJob(t) ==
  LET a == job_map[call[t].handle] IN
  /\ In(t, "config", "critical")
  /\ a # NULL
  /\ call' = [call EXCEPT ![t].at = "ioctl", ![t].job = a,
                          ![t].num = Len(heap[a].tasks)]
  /\ mutex' = NULL
  /\ UNCHANGED <<job_map, heap, owner, failed, request>>

(* What the driver reads through the pointer: the tasks, or, if the object  *)
(* was freed or reused meanwhile, whatever the memory holds.                *)
Reads(a, n) ==
  IF Len(heap[a].tasks) >= n THEN {SubSeq(heap[a].tasks, 1, n)} ELSE [1..n -> Tasks]

RequestConfig(t) ==
  LET h == call[t].handle IN
  /\ In(t, "config", "ioctl")
  /\ \/ /\ request[h].stage = "open"
        /\ \E read \in Reads(call[t].job, call[t].num) :
              request' = [request EXCEPT ![h].tasks = read]
     \/ UNCHANGED request
  /\ Return(t)
  /\ UNCHANGED <<manager, failed>>
-----------------------------------------------------------------------------
(* The hardware finishes a request: external. *)
RequestDone(h) ==
  /\ request[h].stage = "running"
  /\ request' = [request EXCEPT ![h] = NoRequest]
  /\ call' = Woken(h)
  /\ UNCHANGED <<manager, failed>>

Start(t) ==
  \E h \in Handles :
     \/ RequestCreate(t, h)
     \/ TaskEnter(t, h)
     \/ CancelEnter(t, h)
     \/ SubmitEnter(t, h)
     \/ ConfigEnter(t, h)

(* The steps of a call once it has the mutex, but for the fault. *)
Step(t) ==
  \/ \E a \in Addrs : CreateJob(t, a)
  \/ CreateFails(t)
  \/ \E task \in Tasks : AddTask(t, task)
  \/ TaskRefused(t)
  \/ CancelJob(t)
  \/ RequestCancel(t)
  \/ TakeJob(t)
  \/ NotFound(t)
  \/ \E sync \in BOOLEAN : RequestSubmit(t, sync)
  \/ SubmitRefused(t)
  \/ FreeJob(t)
  \/ ReadJob(t)
  \/ RequestConfig(t)

Next ==
  \/ \E t \in Threads : Start(t) \/ Lock(t) \/ Step(t) \/ SubmitFails(t)
  \/ \E h \in Handles : RequestDone(h)

Spec == Init /\ [][Next]_vars

(* A thread that is past the lock goes on, and the hardware finishes what   *)
(* runs.  No fairness is assumed of a thread waiting for the mutex, nor of  *)
(* the fault SubmitFails: a blocked ioctl need never fail.                  *)
FairSpec ==
  /\ Spec
  /\ \A t \in Threads : WF_vars(Step(t))
  /\ \A h \in Handles : WF_vars(RequestDone(h))
-----------------------------------------------------------------------------
(* The non-recursive mutex is held exactly by the thread in the critical    *)
(* section: nobody waits for a lock it holds, as the error path of          *)
(* rga_job_create would if it called rga_job_cancel before the unlock.      *)
LockDiscipline == \A t \in Threads : mutex = t <=> call[t].at = "critical"

(* No dangling entry: what the map holds under a handle is a live object    *)
(* created for that handle, whatever other threads cancel, submit or free.  *)
MapBacked ==
  \A h \in Handles :
     /\ job_map[h] # NULL => heap[job_map[h]].id = h
     /\ (job_map[h] # NULL) <=> (owner[h] # NULL)

Submitting(t) == call[t].op = "submit" /\ call[t].at \in {"ioctl", "wait", "free"}

(* rga_job_submit works on its job after the unlock: the object is still    *)
(* the one of its handle, no longer in the map, and in no other submit, so  *)
(* it is neither freed under the ioctl nor freed twice.                     *)
SubmitExclusive ==
  \A t \in Threads :
     Submitting(t) =>
       /\ heap[call[t].job].id = call[t].handle
       /\ \A h \in Handles : job_map[h] # call[t].job
       /\ \A u \in Threads \ {t} : Submitting(u) => call[u].job # call[t].job

(* Every live im_rga_job_t can still be reached: it is in the map or a      *)
(* rga_job_submit is about to free it.                                      *)
NoLeak ==
  \A a \in Addrs :
     heap[a] # Free =>
       \/ \E h \in Handles : job_map[h] = a
       \/ \E t \in Threads : Submitting(t) /\ call[t].job = a

(* The library and the driver agree on the open jobs: an entry of the map   *)
(* has its request in the driver, and a handle the driver has just given    *)
(* out is not in the map ("handle already exists" cannot happen).           *)
KernelAgrees ==
  /\ \A h \in Handles : job_map[h] # NULL => request[h].stage = "open"
  /\ \A t \in Threads :
        call[t].op = "create" => job_map[call[t].handle] = NULL

(* A request left open in the driver is reachable: by its job, by a call    *)
(* that will submit or cancel it, or by a client that has still to cancel   *)
(* it after a failed submit.                                                *)
RequestsReclaimed ==
  \A h \in Handles :
     request[h].stage = "open" =>
       \/ job_map[h] # NULL
       \/ \E t \in Threads : h \in failed[t]
       \/ \E t \in Threads :
            /\ call[t].handle = h
            /\ call[t].op \in {"create", "cancel", "submit"}
            /\ call[t].at \in {"lock", "critical", "ioctl"}

(* improcess_ctx: the pointer rga_job_config hands to the driver after the  *)
(* unlock still points at the job of its handle, with the tasks it counted. *)
ConfigReadsLiveJob ==
  \A t \in Threads :
     In(t, "config", "ioctl") =>
       /\ heap[call[t].job].id = call[t].handle
       /\ Len(heap[call[t].job].tasks) >= call[t].num

(* rga_job_submit comes back to its caller once it is past the mutex: a     *)
(* synchronous one is woken when the hardware is done, or when another      *)
(* thread cancels the request it waits for, and a job whose request another *)
(* thread has cancelled or submitted meanwhile is refused and freed.        *)
EndReturns == \A t \in Threads : Submitting(t) ~> call[t] = Idle

(* The batches of JobBatch: a handle is open while it is in the map, sealed *)
(* from the unlock of rga_job_submit to its ioctl, running in the driver.   *)
Senders(h) == {t \in Threads : In(t, "submit", "ioctl") /\ call[t].handle = h}

BatchOf(h) ==
  IF job_map[h] # NULL
  THEN [stage |-> "open", tasks |-> heap[job_map[h]].tasks]
  ELSE IF request[h].stage = "running" THEN request[h]
  ELSE IF Senders(h) # {}
  THEN [stage |-> "sealed",
        tasks |-> heap[call[CHOOSE t \in Senders(h) : TRUE].job].tasks]
  ELSE [stage |-> "closed", tasks |-> <<>>]

Batch == INSTANCE JobBatch WITH batch <- [h \in Handles |-> BatchOf(h)]

(* Threads, mutex, heap and ioctls together implement the batches: tasks    *)
(* of one job stay in order and apart from those of others, and the driver  *)
(* runs exactly the tasks that were accepted.                               *)
ImplementsBatch == Batch!Spec
=============================================================================
