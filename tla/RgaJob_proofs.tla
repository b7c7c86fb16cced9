---------------------------- MODULE RgaJob_proofs ----------------------------
(* Proofs about the job manager for any number of threads, handles and      *)
(* addresses.  HeapInv: heap safety, whatever the clients do with handles   *)
(* (Shared, CancelFailed) and however the driver fails (KernelKeeps,        *)
(* MallocFails).  OwnInv: who holds a handle, for clients that keep theirs  *)
(* to themselves; from it the agreement with the driver and the refinement  *)
(* of JobBatch.                                                             *)
EXTENDS RgaJob, SequenceTheorems, TLAPS

(* The inductive invariant: no part is inductive without the others.        *)
HeapInv ==
  /\ TypeOK
  /\ LockDiscipline
  /\ MapBacked
  /\ SubmitExclusive
  /\ NoLeak

USE JobAssumption

LEMMA CallFacts ==
  ASSUME TypeOK, NEW t \in Threads
  PROVE  /\ call[t].op \in {"none", "create", "task", "cancel", "submit", "config"}
         /\ call[t].op = "none" <=> call[t] = Idle
         /\ call[t].at = "idle" <=> call[t] = Idle
         /\ call[t].at \in {"lock", "critical"} => call[t] \in AtMutex
         /\ In(t, "cancel", "ioctl") => call[t] \in AtCancel
         /\ Submitting(t) => call[t] \in AtSubmit
         /\ In(t, "config", "ioctl") => call[t] \in AtConfig
         /\ call[t].at \in {"free", "wait"} => Submitting(t)
  BY DEF TypeOK, Call, Idle, AtMutex, AtCancel, AtSubmit, AtConfig, In, Submitting

LEMMA TasksType ==
  ASSUME TypeOK, NEW a \in Addrs
  PROVE  heap[a].tasks \in Seq(Tasks)
  <1>1. CASE heap[a] = Free
    BY <1>1 DEF Free
  <1>2. CASE heap[a] \in Job
    BY <1>2 DEF Job
  <1> QED
    BY <1>1, <1>2 DEF TypeOK

LEMMA RequestTypes == NoRequest \in Request /\ OpenRequest \in Request
  BY DEF NoRequest, OpenRequest, Request

LEMMA InitHeapInv == Init => HeapInv
  BY DEF Init, HeapInv, TypeOK, LockDiscipline, MapBacked, SubmitExclusive, NoLeak,
         Submitting, Idle, Free, NoRequest, Request, Call, Job

(* A step that leaves map and heap alone, and every submitting thread with  *)
(* its job, keeps the three parts about objects.                            *)
LEMMA SameObjects ==
  ASSUME MapBacked, SubmitExclusive, NoLeak,
         UNCHANGED <<job_map, heap, owner>>,
         \A u \in Threads : Submitting(u)' <=> Submitting(u),
         \A u \in Threads : Submitting(u) => /\ call'[u].job = call[u].job
                                           /\ call'[u].handle = call[u].handle
  PROVE  MapBacked' /\ SubmitExclusive' /\ NoLeak'
  BY DEF MapBacked, SubmitExclusive, NoLeak

(* What a step of t alone has to show of its call, by SameObjects.          *)
LEMMA OneCall ==
  ASSUME HeapInv, NEW t \in Threads, NEW c \in Call,
         call' = [call EXCEPT ![t] = c],
         UNCHANGED <<job_map, heap, owner>>,
         (c.op = "submit" /\ c.at \in {"ioctl", "wait", "free"}) <=> Submitting(t),
         Submitting(t) => c.job = call[t].job /\ c.handle = call[t].handle
  PROVE  MapBacked' /\ SubmitExclusive' /\ NoLeak' /\ call' \in [Threads -> Call]
  <1>1. call \in [Threads -> Call]
    BY DEF HeapInv, TypeOK
  <1>2. call'[t] = c /\ \A u \in Threads \ {t} : call'[u] = call[u]
    BY <1>1
  <1>3. \A u \in Threads : Submitting(u)' <=> Submitting(u)
    BY <1>2 DEF Submitting
  <1>4. \A u \in Threads : Submitting(u) => /\ call'[u].job = call[u].job
                                          /\ call'[u].handle = call[u].handle
    BY <1>2
  <1>5. MapBacked' /\ SubmitExclusive' /\ NoLeak'
    BY <1>3, <1>4, SameObjects DEF HeapInv
  <1> QED
    BY <1>1, <1>5

LEMMA StepLock ==
  ASSUME HeapInv, NEW t \in Threads, Lock(t)
  PROVE  HeapInv'
  <1> DEFINE c == [call[t] EXCEPT !.at = "critical"]
  <1>1. call[t] \in AtMutex
    BY CallFacts DEF Lock, HeapInv
  <1>2. c \in AtMutex /\ c.at = "critical" /\ ~Submitting(t)
    BY <1>1 DEF AtMutex, Submitting
  <1>3. call' = [call EXCEPT ![t] = c]
    BY DEF Lock, Goto
  <1>4. MapBacked' /\ SubmitExclusive' /\ NoLeak' /\ call' \in [Threads -> Call]
    BY <1>2, <1>3, OneCall DEF Lock, Call
  <1>5. TypeOK'
    BY <1>4 DEF Lock, HeapInv, TypeOK
  <1>6. LockDiscipline'
    BY <1>2, <1>3 DEF Lock, HeapInv, LockDiscipline, TypeOK
  <1> QED
    BY <1>4, <1>5, <1>6 DEF HeapInv

LEMMA StepEnter ==
  ASSUME HeapInv, NEW t \in Threads, NEW h \in Handles,
         NEW op \in {"create", "task", "cancel", "submit", "config"},
         Enter(t, op, h),
         failed' \in [Threads -> SUBSET Handles],
         request' \in [Handles -> Request]
  PROVE  HeapInv'
  <1> DEFINE c == [op |-> op, at |-> "lock", handle |-> h, job |-> NULL, num |-> 0]
  <1>1. c \in AtMutex /\ c.at = "lock" /\ ~Submitting(t)
    BY DEF AtMutex, Idle, Submitting, Enter
  <1>2. call' = [call EXCEPT ![t] = c]
    BY DEF Enter
  <1>3. MapBacked' /\ SubmitExclusive' /\ NoLeak' /\ call' \in [Threads -> Call]
    BY <1>1, <1>2, OneCall DEF Enter, manager, Call
  <1>4. TypeOK'
    BY <1>3 DEF Enter, manager, HeapInv, TypeOK
  <1>5. call[t].at = "idle"
    BY DEF Enter, Idle
  <1>6. LockDiscipline'
    BY <1>1, <1>2, <1>5 DEF Enter, manager, HeapInv, LockDiscipline, TypeOK
  <1> QED
    BY <1>3, <1>4, <1>6 DEF HeapInv

LEMMA StepStart ==
  ASSUME HeapInv, NEW t \in Threads, Start(t)
  PROVE  HeapInv'
  <1> PICK h \in Handles : \/ RequestCreate(t, h)
                           \/ TaskEnter(t, h)
                           \/ CancelEnter(t, h)
                           \/ SubmitEnter(t, h)
                           \/ ConfigEnter(t, h)
    BY DEF Start
  <1>1. failed' \in [Threads -> SUBSET Handles]
    BY DEF HeapInv, TypeOK, RequestCreate, TaskEnter, CancelEnter, SubmitEnter, ConfigEnter
  <1>2. request' \in [Handles -> Request]
    <2>1. request \in [Handles -> Request]
      BY DEF HeapInv, TypeOK
    <2>2. CASE RequestCreate(t, h)
      BY <2>1, <2>2, RequestTypes DEF RequestCreate
    <2>3. CASE ~RequestCreate(t, h)
      BY <2>1, <2>3 DEF TaskEnter, CancelEnter, SubmitEnter, ConfigEnter
    <2> QED
      BY <2>2, <2>3
  <1>3. \E op \in {"create", "task", "cancel", "submit", "config"} : Enter(t, op, h)
    BY DEF RequestCreate, TaskEnter, CancelEnter, SubmitEnter, ConfigEnter
  <1> QED
    BY <1>1, <1>2, <1>3, StepEnter
(* Nobody refers to a free address.                                         *)
LEMMA FreeUnused ==
  ASSUME HeapInv, NEW a \in Addrs, heap[a] = Free
  PROVE  /\ \A h \in Handles : job_map[h] # a
         /\ \A u \in Threads : Submitting(u) => call[u].job # a
  <1>1. Free.id = NULL /\ NULL \notin Handles /\ a # NULL
    BY DEF Free
  <1>2. \A h \in Handles : job_map[h] # a
    BY <1>1 DEF HeapInv, MapBacked
  <1>3. \A u \in Threads : Submitting(u) => call[u].handle \in Handles
    BY CallFacts DEF HeapInv, AtSubmit
  <1>4. \A u \in Threads : Submitting(u) => call[u].job # a
    BY <1>1, <1>3 DEF HeapInv, SubmitExclusive
  <1> QED
    BY <1>2, <1>4

(* A thread that held the mutex and gives it up.                            *)
LEMMA Unlocks ==
  ASSUME HeapInv, NEW t \in Threads, NEW c \in Call,
         call[t].at = "critical", mutex' = NULL,
         call' = [call EXCEPT ![t] = c], c.at # "critical"
  PROVE  LockDiscipline'
  BY DEF HeapInv, TypeOK, LockDiscipline

LEMMA StepCreateJob ==
  ASSUME HeapInv, NEW t \in Threads, NEW a \in Addrs, CreateJob(t, a)
  PROVE  HeapInv'
  <1> DEFINE h == call[t].handle
  <1> USE DEF CreateJob
  <1>1. call[t] \in AtMutex /\ h \in Handles /\ ~Submitting(t)
    BY CallFacts DEF HeapInv, In, AtMutex, Submitting
  <1>2. Idle \in Call /\ Idle.at # "critical" /\ Idle.op # "submit"
    BY DEF Call, Idle
  <1>3. call' = [call EXCEPT ![t] = Idle] /\ call[t].at = "critical"
    BY DEF Return, In
  <1>4. LockDiscipline'
    BY <1>2, <1>3, Unlocks
  <1>5. \A u \in Threads : /\ Submitting(u)' <=> Submitting(u)
                           /\ Submitting(u) => call'[u] = call[u]
    BY <1>1, <1>2, <1>3 DEF HeapInv, TypeOK, Submitting
  <1>6. [id |-> h, tasks |-> <<>>] \in Job /\ Len(<<>>) <= TaskNumMax
    BY <1>1 DEF Job
  <1>7. TypeOK'
    BY <1>1, <1>2, <1>3, <1>6 DEF HeapInv, TypeOK
  <1>8. a # NULL /\ t # NULL /\ h \in Handles /\ job_map[h] = NULL
    BY <1>1
  <1>9. \A x \in Handles : job_map[x] # a
    BY FreeUnused
  <1>10. MapBacked'
    BY <1>8, <1>9 DEF HeapInv, TypeOK, MapBacked
  <1>11. \A u \in Threads : Submitting(u) => call[u].job \in Addrs /\ call[u].job # a
    BY FreeUnused, CallFacts DEF HeapInv, AtSubmit
  <1>12. SubmitExclusive'
    BY <1>5, <1>8, <1>11 DEF HeapInv, TypeOK, SubmitExclusive
  <1>13. \A x \in Handles : job_map[x] # NULL => job_map'[x] = job_map[x]
    BY <1>8 DEF HeapInv, TypeOK
  <1>14. \A b \in Addrs : heap'[b] # Free => b = a \/ heap[b] # Free
    BY DEF HeapInv, TypeOK
  <1>15. job_map'[h] = a
    BY <1>8 DEF HeapInv, TypeOK
  <1>16. ASSUME NEW b \in Addrs, heap'[b] # Free
         PROVE  \/ \E x \in Handles : job_map'[x] = b
                \/ \E u \in Threads : Submitting(u)' /\ call'[u].job = b
    <2>1. CASE b = a
      BY <2>1, <1>8, <1>15
    <2>2. CASE heap[b] # Free
      <3>1. \/ \E x \in Handles : job_map[x] = b
            \/ \E u \in Threads : Submitting(u) /\ call[u].job = b
        BY <2>2 DEF HeapInv, NoLeak
      <3>2. b # NULL
        OBVIOUS
      <3> QED
        BY <3>1, <3>2, <1>5, <1>13
    <2> QED
      BY <2>1, <2>2, <1>14, <1>16
  <1>17. NoLeak'
    BY <1>16 DEF NoLeak
  <1> QED
    BY <1>4, <1>7, <1>10, <1>12, <1>17 DEF HeapInv

(* The steps out of the critical section that change no object: error path  *)
(* of create, refused tasks, unknown handles, the read of rga_job_config.   *)
LEMMA StepLeave ==
  ASSUME HeapInv, NEW t \in Threads, NEW c \in Call,
         call[t].at = "critical", mutex' = NULL,
         call' = [call EXCEPT ![t] = c], c.at # "critical",
         c.op # "submit",
         UNCHANGED <<job_map, heap, owner, failed, request>>
  PROVE  HeapInv'
  <1>1. ~Submitting(t)
    BY DEF Submitting
  <1>2. MapBacked' /\ SubmitExclusive' /\ NoLeak' /\ call' \in [Threads -> Call]
    BY <1>1, OneCall
  <1>3. LockDiscipline'
    BY Unlocks
  <1>4. TypeOK'
    BY <1>2 DEF HeapInv, TypeOK
  <1> QED
    BY <1>2, <1>3, <1>4 DEF HeapInv

LEMMA StepCritical ==
  ASSUME HeapInv, NEW t \in Threads,
         CreateFails(t) \/ TaskRefused(t) \/ NotFound(t) \/ ReadJob(t)
  PROVE  HeapInv'
  <1>1. call[t].at = "critical"
    BY DEF CreateFails, CannotCreate, TaskRefused, NotFound, ReadJob, In
  <1>2. call[t] \in AtMutex
    BY <1>1, CallFacts DEF HeapInv
  <1>3. CASE CreateFails(t)
    <2> DEFINE c == [[call[t] EXCEPT !.op = "cancel"] EXCEPT !.at = "lock"]
    <2>1. c \in AtMutex /\ c.at = "lock" /\ c.op = "cancel"
      BY <1>2 DEF AtMutex
    <2>2. call' = [call EXCEPT ![t] = c]
      BY <1>3 DEF CreateFails, ToCancel
    <2> QED
      BY <1>1, <1>3, <2>1, <2>2, StepLeave DEF CreateFails, CannotCreate, Call
  <1>4. CASE TaskRefused(t) \/ NotFound(t)
    <2>1. Idle \in Call /\ Idle.at # "critical" /\ Idle.op # "submit"
      BY DEF Call, Idle
    <2> QED
      BY <1>1, <1>4, <2>1, StepLeave DEF TaskRefused, NotFound, Return
  <1>5. CASE ReadJob(t)
    <2> DEFINE a == job_map[call[t].handle]
               c == [[[call[t] EXCEPT !.at = "ioctl"] EXCEPT !.job = a]
                       EXCEPT !.num = Len(heap[a].tasks)]
    <2>1. a \in Addrs
      BY <1>2, <1>5 DEF ReadJob, HeapInv, TypeOK, AtMutex
    <2>2. heap[a].tasks \in Seq(Tasks)
      BY <2>1, TasksType DEF HeapInv
    <2>3. Len(heap[a].tasks) \in 0..TaskNumMax
      BY <2>1, <2>2 DEF HeapInv, TypeOK
    <2>4. c \in AtConfig /\ c.at = "ioctl" /\ c.op = "config"
      BY <1>2, <1>5, <2>1, <2>3 DEF ReadJob, In, AtMutex, AtConfig
    <2>5. call' = [call EXCEPT ![t] = c]
      BY <1>5 DEF ReadJob
    <2> QED
      BY <1>1, <1>5, <2>4, <2>5, StepLeave DEF ReadJob, Call
  <1> QED
    BY <1>3, <1>4, <1>5
LEMMA StepAddTask ==
  ASSUME HeapInv, NEW t \in Threads, NEW task \in Tasks, AddTask(t, task)
  PROVE  HeapInv'
  <1> DEFINE h == call[t].handle
             a == job_map[h]
             more == Append(heap[a].tasks, task)
  <1> USE DEF AddTask, StoreTask
  <1>1. call[t] \in AtMutex /\ h \in Handles /\ ~Submitting(t)
    BY CallFacts DEF HeapInv, In, AtMutex, Submitting
  <1>2. a \in Addrs /\ heap[a].id = h /\ heap[a] # Free
    BY <1>1 DEF HeapInv, TypeOK, MapBacked, Free
  <1>3. heap[a].tasks \in Seq(Tasks)
    BY <1>2, TasksType DEF HeapInv
  <1>4. more \in Seq(Tasks) /\ Len(more) = Len(heap[a].tasks) + 1
    BY <1>3
  <1>7. heap' = [heap EXCEPT ![a] = [id |-> h, tasks |-> more]]
    BY <1>2
  <1>8. Idle \in Call /\ Idle.at # "critical" /\ Idle.op # "submit"
    BY DEF Call, Idle
  <1>9. call' = [call EXCEPT ![t] = Idle] /\ call[t].at = "critical"
    BY DEF Return, In
  <1>10. LockDiscipline'
    BY <1>8, <1>9, Unlocks
  <1>11. \A u \in Threads : /\ Submitting(u)' <=> Submitting(u)
                            /\ Submitting(u) => call'[u] = call[u]
    BY <1>1, <1>8, <1>9 DEF HeapInv, TypeOK, Submitting
  <1>12. [id |-> h, tasks |-> more] \in Job /\ Len(more) <= TaskNumMax
    <2>1. Len(heap[a].tasks) \in Nat /\ Len(heap[a].tasks) < TaskNumMax
      BY <1>3
    <2> QED
      BY <1>1, <1>4, <2>1 DEF Job
  <1>13. \A x \in Addrs : heap'[x].id = heap[x].id /\ (heap'[x] # Free => heap[x] # Free)
    BY <1>2, <1>7 DEF HeapInv, TypeOK, Free
  <1>14. TypeOK'
    <2>1. heap' \in [Addrs -> Job \cup {Free}]
      BY <1>7, <1>12 DEF HeapInv, TypeOK
    <2>2. \A x \in Addrs : Len(heap'[x].tasks) <= TaskNumMax
      BY <1>2, <1>7, <1>12 DEF HeapInv, TypeOK
    <2>3. call' \in [Threads -> Call]
      BY <1>8, <1>9 DEF HeapInv, TypeOK
    <2> QED
      BY <2>1, <2>2, <2>3 DEF HeapInv, TypeOK
  <1>15. MapBacked'
    BY <1>13 DEF HeapInv, TypeOK, MapBacked
  <1>16. \A u \in Threads : Submitting(u) => call[u].job \in Addrs
    BY CallFacts DEF HeapInv, AtSubmit
  <1>17. SubmitExclusive'
    BY <1>11, <1>13, <1>16 DEF HeapInv, SubmitExclusive
  <1>18. NoLeak'
    <2> SUFFICES ASSUME NEW x \in Addrs, heap'[x] # Free
                 PROVE  \/ \E y \in Handles : job_map'[y] = x
                        \/ \E u \in Threads : Submitting(u)' /\ call'[u].job = x
      BY DEF NoLeak
    <2>1. \/ \E y \in Handles : job_map[y] = x
          \/ \E u \in Threads : Submitting(u) /\ call[u].job = x
      BY <1>13 DEF HeapInv, NoLeak
    <2> QED
      BY <1>11, <2>1
  <1> QED
    BY <1>10, <1>14, <1>15, <1>17, <1>18 DEF HeapInv

LEMMA StepCancelJob ==
  ASSUME HeapInv, NEW t \in Threads, CancelJob(t)
  PROVE  HeapInv'
  <1> DEFINE h == call[t].handle
             c == [call[t] EXCEPT !.at = "ioctl"]
  <1> USE DEF CancelJob, Erase
  <1>1. call[t] \in AtMutex /\ h \in Handles /\ ~Submitting(t) /\ call[t].op = "cancel"
    BY CallFacts DEF HeapInv, In, AtMutex, Submitting
  <1>2. c \in AtCancel /\ c.at = "ioctl" /\ c.op = "cancel"
    BY <1>1 DEF AtMutex, AtCancel
  <1>3. call' = [call EXCEPT ![t] = c] /\ call[t].at = "critical"
    BY DEF Goto, In
  <1>4. LockDiscipline'
    BY <1>2, <1>3, Unlocks DEF Call
  <1>5. \A u \in Threads : /\ Submitting(u)' <=> Submitting(u)
                           /\ Submitting(u) => call'[u] = call[u]
    BY <1>1, <1>2, <1>3 DEF HeapInv, TypeOK, Submitting
  <1>6. \A a \in Addrs : heap'[a] = IF a = job_map[h] THEN Free ELSE heap[a]
    OBVIOUS
  <1>7. TypeOK'
    <2>1. heap' \in [Addrs -> Job \cup {Free}]
      BY DEF HeapInv, TypeOK
    <2>2. \A a \in Addrs : Len(heap'[a].tasks) <= TaskNumMax
      BY <1>6 DEF HeapInv, TypeOK, Free
    <2>3. call' \in [Threads -> Call]
      BY <1>2, <1>3 DEF HeapInv, TypeOK, Call
    <2> QED
      BY <1>1, <2>1, <2>2, <2>3 DEF HeapInv, TypeOK
  <1>8. \A x \in Handles \ {h} : job_map[x] # NULL => job_map[x] # job_map[h]
    BY <1>1 DEF HeapInv, MapBacked
  <1>9. MapBacked'
    BY <1>1, <1>6, <1>8 DEF HeapInv, TypeOK, MapBacked
  <1>10. \A u \in Threads : Submitting(u) => call[u].job \in Addrs /\ call[u].job # job_map[h]
    BY <1>1, CallFacts DEF HeapInv, AtSubmit, SubmitExclusive
  <1>11. SubmitExclusive'
    <2>1. \A x \in Handles : job_map'[x] = IF x = h THEN NULL ELSE job_map[x]
      BY DEF HeapInv, TypeOK
    <2>2. NULL \notin Addrs
      OBVIOUS
    <2> QED
      BY <1>5, <1>6, <1>10, <2>1, <2>2 DEF HeapInv, SubmitExclusive
  <1>12. NoLeak'
    BY <1>1, <1>5, <1>6 DEF HeapInv, TypeOK, NoLeak
  <1> QED
    BY <1>4, <1>7, <1>9, <1>11, <1>12 DEF HeapInv

LEMMA StepTakeJob ==
  ASSUME HeapInv, NEW t \in Threads, TakeJob(t)
  PROVE  HeapInv'
  <1> DEFINE h == call[t].handle
             a == job_map[h]
             c == [op |-> "submit", at |-> "ioctl", handle |-> h, job |-> a, num |-> 0]
  <1> USE DEF TakeJob, FoundToSubmit, Erase
  <1>1. call[t] \in AtMutex /\ h \in Handles /\ ~Submitting(t) /\ call[t].op = "submit"
    BY CallFacts DEF HeapInv, In, AtMutex, Submitting
  <1>2. a \in Addrs /\ heap[a].id = h
    BY <1>1 DEF HeapInv, TypeOK, MapBacked
  <1>4. call' = [call EXCEPT ![t] = c] /\ call[t].at = "critical" /\ mutex' = NULL
    BY DEF In
  <1>5. c \in Call
    BY <1>1, <1>2 DEF AtSubmit, Call
  <1>6. LockDiscipline'
    BY <1>4, <1>5, Unlocks
  <1>7. /\ Submitting(t)' /\ call'[t].job = a /\ call'[t].handle = h
        /\ \A u \in Threads \ {t} : /\ Submitting(u)' <=> Submitting(u)
                                    /\ call'[u] = call[u]
    BY <1>4 DEF HeapInv, TypeOK, Submitting
  <1>8. \A x \in Handles : /\ job_map'[x] = IF x = h THEN NULL ELSE job_map[x]
                           /\ owner'[x] = IF x = h THEN NULL ELSE owner[x]
    BY DEF HeapInv, TypeOK
  <1>9. TypeOK'
    BY <1>1, <1>4, <1>5 DEF HeapInv, TypeOK
  <1>10. MapBacked'
    BY <1>8 DEF HeapInv, MapBacked
  <1>11. \A x \in Handles : job_map'[x] # a
    BY <1>1, <1>2, <1>8 DEF HeapInv, MapBacked
  <1>12. \A u \in Threads : Submitting(u) => call[u].job \in Addrs /\ call[u].job # a
    BY <1>1, CallFacts DEF HeapInv, AtSubmit, SubmitExclusive
  <1>13. SubmitExclusive'
    <2>1. \A u \in Threads : Submitting(u)' =>
            heap'[call'[u].job].id = call'[u].handle
      BY <1>2, <1>7 DEF HeapInv, SubmitExclusive
    <2>2. \A u \in Threads : Submitting(u)' =>
            call'[u].job # NULL /\ \A x \in Handles : job_map'[x] # call'[u].job
      BY <1>2, <1>7, <1>8, <1>11, <1>12 DEF HeapInv, SubmitExclusive
    <2>3. \A u \in Threads, v \in Threads :
            u # v /\ Submitting(u)' /\ Submitting(v)' => call'[u].job # call'[v].job
      BY <1>7, <1>12 DEF HeapInv, SubmitExclusive
    <2> QED
      BY <2>1, <2>2, <2>3 DEF SubmitExclusive
  <1>14. NoLeak'
    <2> SUFFICES ASSUME NEW x \in Addrs, heap'[x] # Free
                 PROVE  \/ \E y \in Handles : job_map'[y] = x
                        \/ \E u \in Threads : Submitting(u)' /\ call'[u].job = x
      BY DEF NoLeak
    <2>1. \/ \E y \in Handles : job_map[y] = x
          \/ \E u \in Threads : Submitting(u) /\ call[u].job = x
      BY DEF HeapInv, NoLeak
    <2>2. CASE \E y \in Handles : job_map[y] = x
      BY <1>7, <1>8, <2>2
    <2>3. CASE \E u \in Threads : Submitting(u) /\ call[u].job = x
      BY <1>1, <1>7, <2>3
    <2> QED
      BY <2>1, <2>2, <2>3
  <1> QED
    BY <1>6, <1>9, <1>10, <1>13, <1>14 DEF HeapInv

LEMMA WokenFacts ==
  ASSUME TypeOK, NEW h \in Handles
  PROVE  /\ Woken(h) \in [Threads -> Call]
         /\ \A u \in Threads :
              \/ Woken(h)[u] = call[u]
              \/ /\ call[u] \in AtSubmit /\ call[u].at = "wait"
                 /\ Woken(h)[u] \in AtSubmit /\ Woken(h)[u].at = "free"
                 /\ Woken(h)[u].job = call[u].job
                 /\ Woken(h)[u].handle = call[u].handle
  <1> SUFFICES ASSUME NEW u \in Threads, call[u].at = "wait"
               PROVE  /\ call[u] \in AtSubmit
                      /\ [call[u] EXCEPT !.at = "free"] \in AtSubmit
                      /\ [call[u] EXCEPT !.at = "free"].at = "free"
                      /\ [call[u] EXCEPT !.at = "free"].job = call[u].job
                      /\ [call[u] EXCEPT !.at = "free"].handle = call[u].handle
    BY DEF Woken, TypeOK, Call
  <1>1. call[u] \in AtSubmit
    BY CallFacts
  <1> QED
    BY <1>1 DEF AtSubmit

(* Steps that change neither the objects nor the mutex, only how far the    *)
(* threads have come after their unlock.                                    *)
LEMMA StepOutside ==
  ASSUME HeapInv,
         UNCHANGED manager,
         failed' \in [Threads -> SUBSET Handles],
         request' \in [Handles -> Request],
         call' \in [Threads -> Call],
         \A u \in Threads : /\ Submitting(u)' <=> Submitting(u)
                            /\ call'[u].at = "critical" <=> call[u].at = "critical",
         \A u \in Threads : Submitting(u) => /\ call'[u].job = call[u].job
                                           /\ call'[u].handle = call[u].handle
  PROVE  HeapInv'
  <1>1. MapBacked' /\ SubmitExclusive' /\ NoLeak'
    BY SameObjects DEF HeapInv, manager
  <1>2. TypeOK'
    BY DEF HeapInv, TypeOK, manager
  <1>3. LockDiscipline'
    BY DEF HeapInv, LockDiscipline, manager
  <1> QED
    BY <1>1, <1>2, <1>3 DEF HeapInv

LEMMA StepRequestDone ==
  ASSUME HeapInv, NEW h \in Handles, RequestDone(h)
  PROVE  HeapInv'
  <1> USE DEF RequestDone
  <1>1. call' \in [Threads -> Call]
    BY WokenFacts DEF HeapInv
  <1>2. \A u \in Threads : \/ call'[u] = call[u]
                          \/ /\ call[u] \in AtSubmit /\ call[u].at = "wait"
                             /\ call'[u] \in AtSubmit /\ call'[u].at = "free"
                             /\ call'[u].job = call[u].job
                             /\ call'[u].handle = call[u].handle
    BY WokenFacts DEF HeapInv
  <1>3. \A u \in Threads : /\ Submitting(u)' <=> Submitting(u)
                           /\ call'[u].at = "critical" <=> call[u].at = "critical"
                           /\ Submitting(u) => /\ call'[u].job = call[u].job
                                               /\ call'[u].handle = call[u].handle
    BY <1>2 DEF Submitting, AtSubmit
  <1>4. request' \in [Handles -> Request] /\ failed' \in [Threads -> SUBSET Handles]
    BY RequestTypes DEF HeapInv, TypeOK
  <1> QED
    BY <1>1, <1>3, <1>4, StepOutside

LEMMA StepRequestCancel ==
  ASSUME HeapInv, NEW t \in Threads, RequestCancel(t)
  PROVE  HeapInv'
  <1> DEFINE h == call[t].handle
  <1> USE DEF RequestCancel
  <1>1. /\ call[t] \in AtCancel /\ h \in Handles
        /\ ~Submitting(t) /\ call[t].at = "ioctl"
    BY CallFacts DEF HeapInv, In, AtCancel, Submitting
  <1>2. Idle \in Call /\ Idle.at = "idle" /\ Idle.op = "none"
    BY DEF Call, Idle
  <1>3. call \in [Threads -> Call] /\ Woken(h) \in [Threads -> Call]
    BY <1>1, WokenFacts DEF HeapInv, TypeOK
  <1>4. /\ call' \in [Threads -> Call]
        /\ call'[t] = Idle
        /\ \A u \in Threads \ {t} : call'[u] = call[u] \/ call'[u] = Woken(h)[u]
    BY <1>2, <1>3 DEF Return
  <1>5. \A u \in Threads \ {t} :
          \/ call'[u] = call[u]
          \/ /\ call[u] \in AtSubmit /\ call[u].at = "wait"
             /\ call'[u] \in AtSubmit /\ call'[u].at = "free"
             /\ call'[u].job = call[u].job
             /\ call'[u].handle = call[u].handle
    BY <1>1, <1>4, WokenFacts DEF HeapInv
  <1>6. \A u \in Threads : /\ Submitting(u)' <=> Submitting(u)
                           /\ call'[u].at = "critical" <=> call[u].at = "critical"
                           /\ Submitting(u) => /\ call'[u].job = call[u].job
                                               /\ call'[u].handle = call[u].handle
    BY <1>1, <1>2, <1>4, <1>5 DEF Submitting, AtSubmit
  <1>7. request' \in [Handles -> Request] /\ failed' \in [Threads -> SUBSET Handles]
    BY RequestTypes DEF HeapInv, TypeOK
  <1> QED
    BY <1>4, <1>6, <1>7, StepOutside

LEMMA StepSubmitIoctl ==
  ASSUME HeapInv, NEW t \in Threads,
         \/ \E sync \in BOOLEAN : RequestSubmit(t, sync)
         \/ SubmitRefused(t) \/ SubmitFails(t)
  PROVE  HeapInv'
  <1> DEFINE h == call[t].handle
             a == call[t].job
  <1>1. Submitting(t)
    BY DEF RequestSubmit, Accepted, SubmitRefused, Refuses, SubmitFails, FaultySubmit, In,
           Submitting
  <1>2. call[t] \in AtSubmit /\ h \in Handles /\ a \in Addrs /\ heap[a].id = h
    BY <1>1, CallFacts DEF HeapInv, AtSubmit, SubmitExclusive
  <1>3. PICK label \in {"wait", "free"} : Goto(t, label)
    BY DEF RequestSubmit, Accepted, SubmitRefused, SubmitFails, SubmitError
  <1> DEFINE c == [call[t] EXCEPT !.at = label]
  <1>4. /\ c \in AtSubmit /\ c.op = "submit" /\ c.at = label
        /\ c.job = a /\ c.handle = h
    BY <1>2 DEF AtSubmit
  <1>5. call' = [call EXCEPT ![t] = c]
    BY <1>3 DEF Goto
  <1>6. call' \in [Threads -> Call]
    BY <1>4, <1>5 DEF HeapInv, TypeOK, Call
  <1>7. \A u \in Threads : /\ Submitting(u)' <=> Submitting(u)
                           /\ call'[u].at = "critical" <=> call[u].at = "critical"
                           /\ Submitting(u) => /\ call'[u].job = call[u].job
                                               /\ call'[u].handle = call[u].handle
    BY <1>1, <1>4, <1>5 DEF Submitting, HeapInv, TypeOK
  <1>8. request' \in [Handles -> Request]
    <2>1. request \in [Handles -> Request]
      BY DEF HeapInv, TypeOK
    <2>2. CASE \E sync \in BOOLEAN : RequestSubmit(t, sync)
      <3>1. heap[a].tasks \in Seq(Tasks)
        BY <1>2, TasksType DEF HeapInv
      <3>2. [stage |-> "running", tasks |-> heap[a].tasks] \in Request
        BY <3>1 DEF Request
      <3>3. request' = [request EXCEPT ![h] = [stage |-> "running", tasks |-> heap[a].tasks]]
        BY <1>2, <2>2 DEF RequestSubmit, Accepted
      <3> QED
        BY <2>1, <3>2, <3>3
    <2>3. CASE SubmitFails(t)
      BY <1>2, <2>1, <2>3, RequestTypes DEF SubmitFails
    <2>4. CASE SubmitRefused(t)
      BY <2>1, <2>4 DEF SubmitRefused
    <2> QED
      BY <2>2, <2>3, <2>4
  <1>9. failed' \in [Threads -> SUBSET Handles] /\ UNCHANGED manager
    BY <1>2 DEF HeapInv, TypeOK, RequestSubmit, Accepted, SubmitRefused, SubmitFails, SubmitError
  <1> QED
    BY <1>6, <1>7, <1>8, <1>9, StepOutside

LEMMA StepRequestConfig ==
  ASSUME HeapInv, NEW t \in Threads, RequestConfig(t)
  PROVE  HeapInv'
  <1> DEFINE h == call[t].handle
             a == call[t].job
             n == call[t].num
  <1> USE DEF RequestConfig
  <1>1. /\ call[t] \in AtConfig /\ h \in Handles /\ a \in Addrs /\ n \in Nat
        /\ ~Submitting(t) /\ call[t].at = "ioctl"
    BY CallFacts DEF HeapInv, In, AtConfig, Submitting
  <1>2. Idle \in Call /\ Idle.at = "idle" /\ Idle.op = "none"
    BY DEF Call, Idle
  <1>3. call' = [call EXCEPT ![t] = Idle]
    BY DEF Return
  <1>4. call' \in [Threads -> Call]
    BY <1>2, <1>3 DEF HeapInv, TypeOK
  <1>5. \A u \in Threads : /\ Submitting(u)' <=> Submitting(u)
                           /\ call'[u].at = "critical" <=> call[u].at = "critical"
                           /\ Submitting(u) => /\ call'[u].job = call[u].job
                                               /\ call'[u].handle = call[u].handle
    BY <1>1, <1>2, <1>3 DEF Submitting, HeapInv, TypeOK
  <1>6. \A read \in Reads(a, n) : read \in Seq(Tasks)
    <2>1. heap[a].tasks \in Seq(Tasks)
      BY <1>1, TasksType DEF HeapInv
    <2>2. CASE Len(heap[a].tasks) >= n
      <3>1. SubSeq(heap[a].tasks, 1, n) \in Seq(Tasks)
        BY <1>1, <2>1, <2>2, SubSeqProperties
      <3> QED
        BY <2>2, <3>1 DEF Reads
    <2>3. CASE ~(Len(heap[a].tasks) >= n)
      BY <1>1, <2>3, SeqDef DEF Reads
    <2> QED
      BY <2>2, <2>3
  <1>7. request' \in [Handles -> Request]
    <2>1. request \in [Handles -> Request]
      BY DEF HeapInv, TypeOK
    <2>2. CASE UNCHANGED request
      BY <2>1, <2>2
    <2>3. CASE request[h].stage = "open" /\ ~UNCHANGED request
      <3>1. PICK read \in Reads(a, n) : request' = [request EXCEPT ![h].tasks = read]
        BY <2>3
      <3>2. request[h] \in Request /\ read \in Seq(Tasks)
        BY <1>1, <1>6, <2>1
      <3>3. [request[h] EXCEPT !.tasks = read] \in Request
        BY <3>2 DEF Request
      <3> QED
        BY <2>1, <3>1, <3>3
    <2> QED
      BY <2>2, <2>3
  <1> QED
    BY <1>4, <1>5, <1>7, StepOutside DEF HeapInv, TypeOK

LEMMA StepFreeJob ==
  ASSUME HeapInv, NEW t \in Threads, FreeJob(t)
  PROVE  HeapInv'
  <1> DEFINE a == call[t].job
  <1> USE DEF FreeJob
  <1>1. Submitting(t) /\ call[t] \in AtSubmit /\ a \in Addrs
    BY CallFacts DEF HeapInv, AtSubmit
  <1>2. Idle \in Call /\ Idle.at = "idle" /\ Idle.op = "none"
    BY DEF Call, Idle
  <1>3. call' = [call EXCEPT ![t] = Idle]
    BY DEF Return
  <1>4. ~Submitting(t)' /\ \A u \in Threads \ {t} : /\ call'[u] = call[u]
                                                   /\ Submitting(u)' <=> Submitting(u)
    BY <1>2, <1>3 DEF HeapInv, TypeOK, Submitting
  <1>5. \A x \in Addrs : heap'[x] = IF x = a THEN Free ELSE heap[x]
    BY DEF HeapInv, TypeOK
  <1>6. TypeOK'
    <2>1. heap' \in [Addrs -> Job \cup {Free}] /\ call' \in [Threads -> Call]
      BY <1>2, <1>3 DEF HeapInv, TypeOK
    <2>2. \A x \in Addrs : Len(heap'[x].tasks) <= TaskNumMax
      BY <1>5 DEF HeapInv, TypeOK, Free
    <2> QED
      BY <2>1, <2>2 DEF HeapInv, TypeOK
  <1>7. LockDiscipline'
    BY <1>2, <1>3 DEF HeapInv, TypeOK, LockDiscipline
  <1>8. \A h \in Handles : job_map[h] # a
    BY <1>1 DEF HeapInv, SubmitExclusive
  <1>9. \A h \in Handles : job_map[h] # NULL => job_map[h] \in Addrs
    BY DEF HeapInv, TypeOK
  <1>10. MapBacked'
    BY <1>5, <1>8, <1>9 DEF HeapInv, MapBacked
  <1>11. \A u \in Threads \ {t} : Submitting(u) => call[u].job \in Addrs /\ call[u].job # a
    BY <1>1, CallFacts DEF HeapInv, AtSubmit, SubmitExclusive
  <1>12. SubmitExclusive'
    <2>1. \A u \in Threads : Submitting(u)' =>
            u # t /\ Submitting(u) /\ call'[u] = call[u]
      BY <1>2, <1>3 DEF Submitting, HeapInv, TypeOK
    <2>2. \A u \in Threads : Submitting(u)' =>
            heap'[call'[u].job].id = call'[u].handle
      BY <1>5, <1>11, <2>1 DEF HeapInv, SubmitExclusive
    <2>3. \A u \in Threads : Submitting(u)' =>
            \A h \in Handles : job_map'[h] # call'[u].job
      BY <2>1 DEF HeapInv, SubmitExclusive
    <2>4. \A u \in Threads, v \in Threads :
            u # v /\ Submitting(u)' /\ Submitting(v)' => call'[u].job # call'[v].job
      BY <2>1 DEF HeapInv, SubmitExclusive
    <2> QED
      BY <2>2, <2>3, <2>4 DEF SubmitExclusive
  <1>13. NoLeak'
    BY <1>4, <1>5 DEF HeapInv, NoLeak
  <1> QED
    BY <1>6, <1>7, <1>10, <1>12, <1>13 DEF HeapInv
-----------------------------------------------------------------------------
LEMMA NextHeapInv == HeapInv /\ [Next]_vars => HeapInv'
  <1> SUFFICES ASSUME HeapInv, [Next]_vars
               PROVE  HeapInv'
    OBVIOUS
  <1>1. ASSUME NEW t \in Threads, Start(t)
        PROVE  HeapInv'
    BY <1>1, StepStart
  <1>2. ASSUME NEW t \in Threads, Lock(t)
        PROVE  HeapInv'
    BY <1>2, StepLock
  <1>3. ASSUME NEW t \in Threads, Step(t) \/ SubmitFails(t)
        PROVE  HeapInv'
    <2>1. CASE \E a \in Addrs : CreateJob(t, a)
      BY <2>1, StepCreateJob
    <2>2. CASE CreateFails(t) \/ TaskRefused(t) \/ NotFound(t) \/ ReadJob(t)
      BY <2>2, StepCritical
    <2>3. CASE \E task \in Tasks : AddTask(t, task)
      BY <2>3, StepAddTask
    <2>4. CASE CancelJob(t)
      BY <2>4, StepCancelJob
    <2>5. CASE RequestCancel(t)
      BY <2>5, StepRequestCancel
    <2>6. CASE TakeJob(t)
      BY <2>6, StepTakeJob
    <2>7. CASE \/ \E sync \in BOOLEAN : RequestSubmit(t, sync)
               \/ SubmitRefused(t) \/ SubmitFails(t)
      BY <2>7, StepSubmitIoctl
    <2>8. CASE FreeJob(t)
      BY <2>8, StepFreeJob
    <2>9. CASE RequestConfig(t)
      BY <2>9, StepRequestConfig
    <2> QED
      BY <1>3, <2>1, <2>2, <2>3, <2>4, <2>5, <2>6, <2>7, <2>8, <2>9 DEF Step
  <1>4. ASSUME NEW h \in Handles, RequestDone(h)
        PROVE  HeapInv'
    BY <1>4, StepRequestDone
  <1>5. CASE UNCHANGED vars
    BY <1>5 DEF vars, manager, HeapInv, TypeOK, LockDiscipline, MapBacked,
                SubmitExclusive, NoLeak, Submitting
  <1> QED
    BY <1>1, <1>2, <1>3, <1>4, <1>5 DEF Next

LEMMA HeapInvariant == Spec => []HeapInv
  BY InitHeapInv, NextHeapInv, PTL DEF Spec

(* The variables keep their types; no job ever holds more than              *)
(* RGA_TASK_NUM_MAX tasks.                                                  *)
THEOREM JobTypeCorrect == Spec => []TypeOK
  BY HeapInvariant, PTL DEF HeapInv

(* No thread waits for a mutex it holds, on any path of the job calls.      *)
THEOREM JobMutexDiscipline == Spec => []LockDiscipline
  BY HeapInvariant, PTL DEF HeapInv

(* The job map never holds a dangling or misfiled pointer, however the      *)
(* threads share, cancel and submit handles and however the driver fails.   *)
THEOREM JobMapBacked == Spec => []MapBacked
  BY HeapInvariant, PTL DEF HeapInv

(* rga_job_submit has its job to itself from the unlock to the free: no use *)
(* after free and no double free.                                           *)
THEOREM JobSubmitExclusive == Spec => []SubmitExclusive
  BY HeapInvariant, PTL DEF HeapInv

(* No im_rga_job_t is lost on any error path.                               *)
THEOREM JobNoLeak == Spec => []NoLeak
  BY HeapInvariant, PTL DEF HeapInv
-----------------------------------------------------------------------------
(* Clients that keep a handle to themselves, and a driver that keeps the    *)
(* request when it refuses a submit, if the clients then cancel it: without *)
(* the second part a client cancels a handle the driver may have given to   *)
(* another thread meanwhile.                                                *)
OwnHandles == ~Shared /\ (CancelFailed => KernelKeeps)

(* A thread holds a handle from its creation to the end of its request: as  *)
(* its owner, as the client that has still to cancel it, or in a call on it *)
(* (up to the free of a submitted job, when the driver may give it out      *)
(* again).                                                                  *)
OnCall(t, h) == call[t].handle = h /\ call[t].at # "free"

Holds(t, h) == owner[h] = t \/ h \in failed[t] \/ OnCall(t, h)

OneHolder ==
  \A h \in Handles, t, u \in Threads : Holds(t, h) /\ Holds(u, h) => t = u

(* The request of a handle that is held is open, and runs while its holder  *)
(* waits for it.                                                            *)
StageOf(c, h) == IF c.handle = h /\ c.at = "wait" THEN "running" ELSE "open"

StageOfHeld ==
  \A h \in Handles, t \in Threads :
     Holds(t, h) => request[h].stage = StageOf(call[t], h)

(* The calls that rely on the entry of their handle, and those that run     *)
(* before it is made or after it is erased.                                 *)
NeedsEntry(c) ==
  \/ c.op \in {"task", "config"}
  \/ c.op = "submit" /\ c.at \in {"lock", "critical"}

NeedsNoEntry(c) ==
  \/ c.op = "create"
  \/ c.op \in {"cancel", "submit"} /\ c.at \in {"ioctl", "wait"}

CallOwner ==
  \A t \in Threads :
     /\ NeedsEntry(call[t]) => owner[call[t].handle] = t
     /\ NeedsNoEntry(call[t]) => owner[call[t].handle] = NULL

(* A handle still to be cancelled is out of the map and in no call.         *)
FailedDropped ==
  \A t \in Threads, h \in Handles :
     h \in failed[t] => CancelFailed /\ owner[h] = NULL /\ ~OnCall(t, h)

ConfigOwn ==
  \A t \in Threads :
     In(t, "config", "ioctl") =>
       /\ call[t].job = job_map[call[t].handle]
       /\ call[t].num = Len(heap[call[t].job].tasks)

OwnInv ==
  /\ OneHolder
  /\ StageOfHeld
  /\ CallOwner
  /\ FailedDropped
  /\ ConfigOwn

LEMMA InitOwnInv == Init => OwnInv
  BY DEF Init, OwnInv, OneHolder, StageOfHeld, CallOwner, FailedDropped, ConfigOwn,
         Holds, OnCall, NeedsEntry, NeedsNoEntry, In, Idle

(* A step of t that concerns only handle h, which no other thread holds:    *)
(* what is left to show is about t and h.                                   *)
LEMMA OneThread ==
  ASSUME TypeOK, OwnInv, NEW t \in Threads, NEW h \in Handles,
         \A u \in Threads \ {t} : ~Holds(u, h),
         \A u \in Threads \ {t} : call'[u] = call[u] /\ failed'[u] = failed[u],
         \A x \in Handles \ {h} :
            /\ owner'[x] = owner[x] /\ request'[x] = request[x]
            /\ job_map'[x] = job_map[x]
            /\ job_map[x] # NULL => heap'[job_map[x]].tasks = heap[job_map[x]].tasks
            /\ x \in failed'[t] <=> x \in failed[t],
         owner'[h] \in {t, NULL},
         call[t].handle \in {h, NULL}, call'[t].handle \in {h, NULL},
         Holds(t, h)' => request'[h].stage = StageOf(call'[t], h),
         NeedsEntry(call'[t]) => call'[t].handle = h /\ owner'[h] = t,
         NeedsNoEntry(call'[t]) => call'[t].handle = h /\ owner'[h] = NULL,
         h \in failed'[t] => CancelFailed /\ owner'[h] = NULL /\ ~OnCall(t, h)',
         In(t, "config", "ioctl")' =>
            /\ call'[t].job = job_map'[h]
            /\ call'[t].num = Len(heap'[call'[t].job].tasks)
  PROVE  OwnInv'
  <1>1. \A u \in Threads \ {t} : ~Holds(u, h)'
    BY DEF Holds, OnCall
  <1>2. \A u \in Threads, x \in Handles \ {h} : Holds(u, x)' <=> Holds(u, x)
    BY DEF Holds, OnCall
  <1>3. OneHolder'
    <2> SUFFICES ASSUME NEW x \in Handles, NEW u \in Threads, NEW v \in Threads,
                        Holds(u, x)', Holds(v, x)'
                 PROVE  u = v
      BY DEF OneHolder
    <2>1. CASE x = h
      BY <1>1, <2>1
    <2>2. CASE x # h
      BY <1>2, <2>2 DEF OwnInv, OneHolder
    <2> QED
      BY <2>1, <2>2
  <1>4. StageOfHeld'
    <2> SUFFICES ASSUME NEW x \in Handles, NEW u \in Threads, Holds(u, x)'
                 PROVE  request'[x].stage = StageOf(call'[u], x)
      BY DEF StageOfHeld, StageOf
    <2>1. CASE x = h
      BY <1>1, <2>1
    <2>2. CASE x # h
      <3>1. request[x].stage = StageOf(call[u], x) /\ request'[x] = request[x]
        BY <1>2, <2>2 DEF OwnInv, StageOfHeld
      <3>2. StageOf(call'[u], x) = StageOf(call[u], x)
        BY <2>2 DEF StageOf
      <3> QED
        BY <3>1, <3>2
    <2> QED
      BY <2>1, <2>2
  <1>5. \A u \in Threads \ {t} :
          /\ NeedsEntry(call[u]) \/ NeedsNoEntry(call[u]) =>
               call[u].handle \in Handles \ {h}
    <2> SUFFICES ASSUME NEW u \in Threads \ {t},
                        NeedsEntry(call[u]) \/ NeedsNoEntry(call[u])
                 PROVE  OnCall(u, call[u].handle) /\ call[u].handle \in Handles
      BY DEF Holds
    <2>1. call[u] \in Call
      BY DEF TypeOK
    <2> QED
      BY <2>1 DEF NeedsEntry, NeedsNoEntry, OnCall, Call, Idle, AtMutex, AtCancel,
                  AtSubmit, AtConfig
  <1>6. CallOwner'
    <2> SUFFICES ASSUME NEW u \in Threads
                 PROVE  /\ NeedsEntry(call'[u]) => owner'[call'[u].handle] = u
                        /\ NeedsNoEntry(call'[u]) => owner'[call'[u].handle] = NULL
      BY DEF CallOwner, NeedsEntry, NeedsNoEntry
    <2>1. CASE u = t
      BY <2>1
    <2>2. CASE u # t
      BY <1>5, <2>2 DEF OwnInv, CallOwner
    <2> QED
      BY <2>1, <2>2
  <1>7. FailedDropped'
    <2> SUFFICES ASSUME NEW u \in Threads, NEW x \in Handles, x \in failed'[u]
                 PROVE  CancelFailed /\ owner'[x] = NULL /\ ~OnCall(u, x)'
      BY DEF FailedDropped, OnCall
    <2>1. CASE x = h
      BY <1>1, <2>1 DEF Holds
    <2>2. CASE x # h
      <3>1. CancelFailed /\ owner[x] = NULL /\ ~OnCall(u, x)
        BY <2>2 DEF OwnInv, FailedDropped
      <3> QED
        BY <2>2, <3>1 DEF OnCall
    <2> QED
      BY <2>1, <2>2
  <1>8. ConfigOwn'
    <2> SUFFICES ASSUME NEW u \in Threads, In(u, "config", "ioctl")'
                 PROVE  /\ call'[u].job = job_map'[call'[u].handle]
                        /\ call'[u].num = Len(heap'[call'[u].job].tasks)
      BY DEF ConfigOwn
    <2>1. CASE u = t
      BY <2>1 DEF In, NeedsEntry
    <2>2. CASE u # t
      <3>1. In(u, "config", "ioctl") /\ NeedsEntry(call[u])
        BY <2>2 DEF In, NeedsEntry
      <3>2. /\ call[u].job = job_map[call[u].handle]
            /\ call[u].num = Len(heap[call[u].job].tasks)
            /\ call[u].handle \in Handles \ {h}
        BY <1>5, <2>2, <3>1 DEF OwnInv, ConfigOwn
      <3>3. call[u].job \in Addrs /\ call[u].job # NULL
        BY <3>1, CallFacts DEF AtConfig
      <3> DEFINE x == call[u].handle
      <3>4. x \in Handles \ {h} /\ job_map[x] # NULL
        BY <3>2, <3>3
      <3>5. /\ job_map'[x] = job_map[x]
            /\ heap'[job_map[x]].tasks = heap[job_map[x]].tasks
        BY <3>4
      <3>6. call'[u] = call[u]
        BY <2>2
      <3> QED
        BY <3>2, <3>5, <3>6
    <2> QED
      BY <2>1, <2>2
  <1> QED
    BY <1>3, <1>4, <1>6, <1>7, <1>8 DEF OwnInv

(* A call in progress, up to the free of a submitted job, is on a handle.   *)
LEMMA CallHandle ==
  ASSUME TypeOK, NEW t \in Threads, call[t] # Idle
  PROVE  call[t].handle \in Handles
  BY DEF TypeOK, Call, AtMutex, AtCancel, AtSubmit, AtConfig

(* The premise of OneThread about the other threads.                        *)
LEMMA OnlyHolder ==
  ASSUME OwnInv, NEW t \in Threads, NEW h \in Handles, Holds(t, h)
  PROVE  \A u \in Threads \ {t} : ~Holds(u, h)
  BY DEF OwnInv, OneHolder

(* Every step of t in a call but the free: t holds the handle of its call.  *)
LEMMA CallHolds ==
  ASSUME TypeOK, OwnInv, NEW t \in Threads, call[t] # Idle, call[t].at # "free"
  PROVE  LET h == call[t].handle IN
         /\ h \in Handles /\ Holds(t, h) /\ OnCall(t, h)
         /\ \A u \in Threads \ {t} : ~Holds(u, h)
         /\ request[h].stage = StageOf(call[t], h)
         /\ owner[h] \in {t, NULL}
         /\ h \notin failed[t]
  <1> DEFINE h == call[t].handle
  <1>1. h \in Handles
    BY CallHandle
  <1>2. Holds(t, h) /\ OnCall(t, h)
    BY DEF Holds, OnCall
  <1>3. \A u \in Threads \ {t} : ~Holds(u, h)
    BY <1>1, <1>2, OnlyHolder
  <1>4. owner[h] \in {t, NULL}
    BY <1>1, <1>3 DEF Holds, TypeOK
  <1> QED
    BY <1>1, <1>2, <1>3, <1>4 DEF OwnInv, StageOfHeld, FailedDropped

LEMMA OwnStart ==
  ASSUME HeapInv, OwnInv, OwnHandles, NEW t \in Threads, Start(t)
  PROVE  OwnInv'
  <1> PICK h \in Handles : \/ RequestCreate(t, h)
                           \/ TaskEnter(t, h)
                           \/ CancelEnter(t, h)
                           \/ SubmitEnter(t, h)
                           \/ ConfigEnter(t, h)
    BY DEF Start
  <1> USE DEF HeapInv
  <1>1. call[t] = Idle /\ UNCHANGED manager /\ ~OnCall(t, h)
    BY DEF RequestCreate, TaskEnter, CancelEnter, SubmitEnter, ConfigEnter, Enter,
           OnCall, Idle
  <1>2. /\ \A u \in Threads \ {t} : call'[u] = call[u]
        /\ call'[t].handle = h /\ call'[t].at = "lock"
        /\ call'[t].op \in {"create", "task", "cancel", "submit", "config"}
    BY DEF RequestCreate, TaskEnter, CancelEnter, SubmitEnter, ConfigEnter, Enter, TypeOK
  <1>3. CASE RequestCreate(t, h)
    <2>1. \A u \in Threads : ~Holds(u, h)
      BY <1>3 DEF RequestCreate, NoRequest, OwnInv, StageOfHeld, StageOf
    <2>2. owner[h] = NULL /\ \A u \in Threads : h \notin failed[u]
      BY <2>1 DEF Holds, TypeOK
    <2>3. call'[t].op = "create"
      BY <1>3 DEF RequestCreate, Enter, TypeOK
    <2>4. request' = [request EXCEPT ![h] = OpenRequest] /\ UNCHANGED failed
      BY <1>3 DEF RequestCreate
    <2>5. request'[h].stage = StageOf(call'[t], h)
      BY <1>2, <2>4 DEF StageOf, OpenRequest, TypeOK
    <2> QED
      BY <1>1, <1>2, <2>1, <2>2, <2>3, <2>4, <2>5, OneThread
         DEF manager, NeedsEntry, NeedsNoEntry, In, Idle, TypeOK
  <1>4. CASE ~RequestCreate(t, h)
    <2>1. Holds(t, h) /\ (~MayUse(t, h) => CancelEnter(t, h))
      BY <1>4 DEF TaskEnter, CancelEnter, SubmitEnter, ConfigEnter, MayUse, MayCancel,
                  Holds, OwnHandles
    <2>2. /\ \A u \in Threads \ {t} : ~Holds(u, h)
          /\ request[h].stage = "open"
          /\ owner[h] \in {t, NULL}
      BY <1>1, <2>1, OnlyHolder DEF OwnInv, StageOfHeld, StageOf, Idle, Holds, TypeOK
    <2>3. /\ UNCHANGED request
          /\ \A u \in Threads \ {t} : failed'[u] = failed[u]
          /\ \A x \in Handles \ {h} : x \in failed'[t] <=> x \in failed[t]
      BY <1>4 DEF TaskEnter, CancelEnter, SubmitEnter, ConfigEnter, TypeOK
    <2>4. h \notin failed'[t]
      <3>1. CASE CancelEnter(t, h)
        BY <3>1 DEF CancelEnter, TypeOK
      <3>2. CASE ~CancelEnter(t, h)
        <4>1. owner[h] = t /\ UNCHANGED failed
          BY <1>4, <2>1, <3>2 DEF MayUse, OwnHandles, TaskEnter, SubmitEnter, ConfigEnter
        <4> QED
          BY <4>1 DEF OwnInv, FailedDropped
      <3> QED
        BY <3>1, <3>2
    <2>5. request'[h].stage = StageOf(call'[t], h)
      BY <1>2, <2>2, <2>3 DEF StageOf
    <2>6. NeedsEntry(call'[t]) => owner'[h] = t
      <3>1. CASE CancelEnter(t, h)
        BY <3>1 DEF CancelEnter, Enter, TypeOK, NeedsEntry
      <3>2. CASE ~CancelEnter(t, h)
        BY <1>1, <2>1, <3>2 DEF MayUse, OwnHandles, manager
      <3> QED
        BY <3>1, <3>2
    <2>7. ~NeedsNoEntry(call'[t])
      <3>1. call'[t].op # "create"
        BY <1>4 DEF TaskEnter, CancelEnter, SubmitEnter, ConfigEnter, Enter, TypeOK
      <3> QED
        BY <1>2, <3>1 DEF NeedsNoEntry
    <2> QED
      BY <1>1, <1>2, <2>2, <2>3, <2>4, <2>5, <2>6, <2>7, OneThread
         DEF manager, In, Idle
  <1> QED
    BY <1>3, <1>4

LEMMA OwnLock ==
  ASSUME HeapInv, OwnInv, NEW t \in Threads, Lock(t)
  PROVE  OwnInv'
  <1> DEFINE h == call[t].handle
  <1> USE DEF HeapInv
  <1>1. call[t] # Idle /\ call[t].at = "lock" /\ call[t] \in AtMutex
    BY CallFacts DEF Lock, Idle
  <1>2. /\ h \in Handles /\ \A u \in Threads \ {t} : ~Holds(u, h)
        /\ request[h].stage = StageOf(call[t], h)
        /\ owner[h] \in {t, NULL}
        /\ h \notin failed[t]
    BY <1>1, CallHolds
  <1>3. /\ \A u \in Threads \ {t} : call'[u] = call[u]
        /\ call'[t].op = call[t].op /\ call'[t].handle = h /\ call'[t].at = "critical"
    BY <1>1 DEF Lock, Goto, TypeOK, AtMutex
  <1>4. /\ NeedsEntry(call'[t]) => owner[h] = t
        /\ NeedsNoEntry(call'[t]) => owner[h] = NULL
    BY <1>1, <1>3 DEF OwnInv, CallOwner, NeedsEntry, NeedsNoEntry
  <1>5. StageOf(call'[t], h) = StageOf(call[t], h)
    BY <1>1, <1>3 DEF StageOf
  <1> QED
    BY <1>2, <1>3, <1>4, <1>5, OneThread DEF Lock, In

(* The facts about the handle of a call that is in its critical section.    *)
LEMMA Critical ==
  ASSUME HeapInv, OwnInv, NEW t \in Threads, call[t].at = "critical"
  PROVE  LET h == call[t].handle IN
         /\ call[t] \in AtMutex
         /\ h \in Handles /\ Holds(t, h)
         /\ \A u \in Threads \ {t} : ~Holds(u, h)
         /\ request[h].stage = "open"
         /\ owner[h] \in {t, NULL}
         /\ h \notin failed[t]
         /\ job_map[h] # NULL <=> owner[h] # NULL
         /\ \A x \in Handles \ {h} :
              job_map[x] # NULL => job_map[x] \in Addrs /\ job_map[x] # job_map[h]
  <1> DEFINE h == call[t].handle
  <1> USE DEF HeapInv
  <1>1. call[t] # Idle /\ call[t].at # "free" /\ call[t] \in AtMutex
    BY CallFacts DEF Idle
  <1>2. /\ h \in Handles /\ Holds(t, h) /\ \A u \in Threads \ {t} : ~Holds(u, h)
        /\ request[h].stage = StageOf(call[t], h)
        /\ owner[h] \in {t, NULL}
        /\ h \notin failed[t]
    BY <1>1, CallHolds
  <1>3. StageOf(call[t], h) = "open"
    BY DEF StageOf
  <1>4. \A x \in Handles \ {h} :
          job_map[x] # NULL => job_map[x] \in Addrs /\ job_map[x] # job_map[h]
    BY <1>2 DEF MapBacked, TypeOK
  <1> QED
    BY <1>1, <1>2, <1>3, <1>4 DEF MapBacked

LEMMA IdleNeeds ==
  /\ Idle.handle = NULL /\ Idle.op = "none" /\ Idle.at = "idle"
  /\ ~NeedsEntry(Idle) /\ ~NeedsNoEntry(Idle)
  BY DEF Idle, NeedsEntry, NeedsNoEntry

(* The critical sections that end the call.                                 *)
LEMMA OwnCreateAddRefuse ==
  ASSUME HeapInv, OwnInv, NEW t \in Threads,
         \/ \E a \in Addrs : CreateJob(t, a)
         \/ \E task \in Tasks : AddTask(t, task)
         \/ TaskRefused(t)
         \/ NotFound(t)
  PROVE  OwnInv'
  <1> DEFINE h == call[t].handle
  <1> USE DEF HeapInv
  <1>1. call[t].at = "critical"
    BY DEF CreateJob, AddTask, StoreTask, TaskRefused, NotFound, In
  <1>2. /\ h \in Handles
        /\ \A u \in Threads \ {t} : ~Holds(u, h)
        /\ request[h].stage = "open"
        /\ owner[h] \in {t, NULL}
        /\ h \notin failed[t]
        /\ \A x \in Handles \ {h} :
             job_map[x] # NULL => job_map[x] \in Addrs /\ job_map[x] # job_map[h]
    BY <1>1, Critical
  <1>3. Return(t) /\ UNCHANGED <<failed, request>>
    BY DEF CreateJob, AddTask, StoreTask, TaskRefused, NotFound
  <1>4. call'[t] = Idle /\ \A u \in Threads \ {t} : call'[u] = call[u]
    BY <1>3 DEF Return, TypeOK
  <1>5. /\ owner'[h] \in {t, NULL}
        /\ \A x \in Handles \ {h} : owner'[x] = owner[x] /\ job_map'[x] = job_map[x]
    BY <1>2, ZenonT(60) DEF CreateJob, AddTask, StoreTask, TaskRefused, NotFound, TypeOK
  <1>6. \A x \in Handles \ {h} :
          job_map[x] # NULL => heap'[job_map[x]].tasks = heap[job_map[x]].tasks
    <2>1. CASE \E a \in Addrs : CreateJob(t, a)
      <3>1. PICK a \in Addrs : CreateJob(t, a)
        BY <2>1
      <3>2. \A x \in Handles : job_map[x] # a
        BY <3>1, FreeUnused DEF CreateJob
      <3> QED
        BY <1>2, <3>1, <3>2 DEF CreateJob, TypeOK
    <2>2. CASE ~\E a \in Addrs : CreateJob(t, a)
      <3>1. \A b \in Addrs : b # job_map[h] => heap'[b] = heap[b]
        BY <2>2 DEF AddTask, StoreTask, TaskRefused, NotFound, TypeOK
      <3> QED
        BY <1>2, <3>1
    <2> QED
      BY <2>1, <2>2
  <1>7. StageOf(Idle, h) = "open"
    BY IdleNeeds DEF StageOf
  <1> QED
    BY <1>2, <1>3, <1>4, <1>5, <1>6, <1>7, IdleNeeds, OneThread DEF In

LEMMA OwnCreateFails ==
  ASSUME HeapInv, OwnInv, NEW t \in Threads, CreateFails(t)
  PROVE  OwnInv'
  <1> DEFINE h == call[t].handle
  <1> USE DEF HeapInv, CreateFails, CannotCreate
  <1>1. call[t].at = "critical" /\ call[t].op = "create"
    BY DEF In
  <1>2. /\ call[t] \in AtMutex /\ h \in Handles
        /\ \A u \in Threads \ {t} : ~Holds(u, h)
        /\ request[h].stage = "open"
        /\ owner[h] \in {t, NULL}
        /\ h \notin failed[t]
    BY <1>1, Critical
  <1>3. /\ \A u \in Threads \ {t} : call'[u] = call[u]
        /\ call'[t].op = "cancel" /\ call'[t].at = "lock" /\ call'[t].handle = h
    BY <1>2 DEF ToCancel, TypeOK, AtMutex
  <1>4. ~NeedsEntry(call'[t]) /\ ~NeedsNoEntry(call'[t])
    BY <1>3 DEF NeedsEntry, NeedsNoEntry
  <1>5. StageOf(call'[t], h) = "open"
    BY <1>3 DEF StageOf
  <1> QED
    BY <1>2, <1>3, <1>4, <1>5, OneThread DEF In

LEMMA OwnCancelJob ==
  ASSUME HeapInv, OwnInv, NEW t \in Threads, CancelJob(t)
  PROVE  OwnInv'
  <1> DEFINE h == call[t].handle
  <1> USE DEF HeapInv, CancelJob, Erase
  <1>1. call[t].at = "critical" /\ call[t].op = "cancel"
    BY DEF In
  <1>2. /\ call[t] \in AtMutex /\ h \in Handles
        /\ \A u \in Threads \ {t} : ~Holds(u, h)
        /\ request[h].stage = "open"
        /\ h \notin failed[t]
        /\ \A x \in Handles \ {h} :
             job_map[x] # NULL => job_map[x] \in Addrs /\ job_map[x] # job_map[h]
    BY <1>1, Critical
  <1>3. /\ \A u \in Threads \ {t} : call'[u] = call[u]
        /\ call'[t].op = "cancel" /\ call'[t].at = "ioctl" /\ call'[t].handle = h
    BY <1>1, <1>2 DEF Goto, TypeOK, AtMutex
  <1>4. /\ owner'[h] = NULL
        /\ \A x \in Handles \ {h} : owner'[x] = owner[x] /\ job_map'[x] = job_map[x]
    BY <1>2 DEF TypeOK
  <1>5. \A x \in Handles \ {h} :
          job_map[x] # NULL => heap'[job_map[x]].tasks = heap[job_map[x]].tasks
    BY <1>2
  <1>6. ~NeedsEntry(call'[t]) /\ StageOf(call'[t], h) = "open"
    BY <1>3 DEF NeedsEntry, StageOf
  <1> QED
    BY <1>2, <1>3, <1>4, <1>5, <1>6, OneThread DEF In

LEMMA OwnTakeJob ==
  ASSUME HeapInv, OwnInv, NEW t \in Threads, TakeJob(t)
  PROVE  OwnInv'
  <1> DEFINE h == call[t].handle
  <1> USE DEF HeapInv, TakeJob, FoundToSubmit, Erase
  <1>1. call[t].at = "critical" /\ call[t].op = "submit"
    BY DEF In
  <1>2. /\ call[t] \in AtMutex /\ h \in Handles
        /\ \A u \in Threads \ {t} : ~Holds(u, h)
        /\ request[h].stage = "open"
        /\ h \notin failed[t]
    BY <1>1, Critical
  <1>3. /\ \A u \in Threads \ {t} : call'[u] = call[u]
        /\ call'[t].op = "submit" /\ call'[t].at = "ioctl" /\ call'[t].handle = h
    BY DEF TypeOK
  <1>4. /\ owner'[h] = NULL
        /\ \A x \in Handles \ {h} : owner'[x] = owner[x] /\ job_map'[x] = job_map[x]
    BY <1>2 DEF TypeOK
  <1>5. ~NeedsEntry(call'[t]) /\ StageOf(call'[t], h) = "open"
    BY <1>3 DEF NeedsEntry, StageOf
  <1> QED
    BY <1>2, <1>3, <1>4, <1>5, OneThread DEF In

LEMMA OwnReadJob ==
  ASSUME HeapInv, OwnInv, NEW t \in Threads, ReadJob(t)
  PROVE  OwnInv'
  <1> DEFINE h == call[t].handle
  <1> USE DEF HeapInv, ReadJob
  <1>1. call[t].at = "critical" /\ call[t].op = "config"
    BY DEF In
  <1>2. /\ call[t] \in AtMutex /\ h \in Handles
        /\ \A u \in Threads \ {t} : ~Holds(u, h)
        /\ request[h].stage = "open"
        /\ h \notin failed[t]
    BY <1>1, Critical
  <1>3. /\ \A u \in Threads \ {t} : call'[u] = call[u]
        /\ call'[t].op = "config" /\ call'[t].at = "ioctl" /\ call'[t].handle = h
        /\ call'[t].job = job_map[h] /\ call'[t].num = Len(heap[job_map[h]].tasks)
    BY <1>1, <1>2 DEF TypeOK, AtMutex
  <1>4. owner[h] = t
    BY <1>1 DEF OwnInv, CallOwner, NeedsEntry
  <1>5. ~NeedsNoEntry(call'[t]) /\ StageOf(call'[t], h) = "open"
    BY <1>3 DEF NeedsNoEntry, StageOf
  <1> QED
    BY <1>2, <1>3, <1>4, <1>5, OneThread DEF In

(* In the SUBMIT ioctl: the request is still open until it is accepted, and *)
(* then runs while the thread waits.                                        *)
LEMMA InIoctl ==
  ASSUME HeapInv, OwnInv, NEW t \in Threads,
         call[t].at \in {"ioctl", "wait"}
  PROVE  LET h == call[t].handle IN
         /\ h \in Handles /\ call[t] # Idle
         /\ \A u \in Threads \ {t} : ~Holds(u, h)
         /\ request[h].stage = IF call[t].at = "wait" THEN "running" ELSE "open"
         /\ h \notin failed[t]
         /\ owner[h] \in {t, NULL}
         /\ call[t].op \in {"cancel", "submit"} => owner[h] = NULL /\ job_map[h] = NULL
  <1> DEFINE h == call[t].handle
  <1> USE DEF HeapInv
  <1>1. call[t] # Idle /\ call[t].at # "free"
    BY DEF Idle
  <1>2. /\ h \in Handles /\ \A u \in Threads \ {t} : ~Holds(u, h)
        /\ request[h].stage = StageOf(call[t], h)
        /\ owner[h] \in {t, NULL}
        /\ h \notin failed[t]
    BY <1>1, CallHolds
  <1>3. call[t].op \in {"cancel", "submit"} => owner[h] = NULL
    BY DEF OwnInv, CallOwner, NeedsNoEntry
  <1> QED
    BY <1>1, <1>2, <1>3 DEF StageOf, MapBacked

LEMMA OwnRequestSubmit ==
  ASSUME HeapInv, OwnInv, NEW t \in Threads, NEW sync \in BOOLEAN, RequestSubmit(t, sync)
  PROVE  OwnInv'
  <1> DEFINE label == IF sync THEN "wait" ELSE "free"
  <1> USE DEF HeapInv, RequestSubmit, Accepted
  <1>1. call[t].at = "ioctl" /\ call[t].op = "submit" /\ Submitting(t)
    BY DEF In, Submitting
  <1> PICK h \in Handles : h = call[t].handle
    BY <1>1, InIoctl
  <1>2. /\ \A u \in Threads \ {t} : ~Holds(u, h)
        /\ h \notin failed[t] /\ owner[h] = NULL
    BY <1>1, InIoctl
  <1>3. call[t] \in AtSubmit /\ heap[call[t].job].id = h
    BY <1>1, CallFacts DEF SubmitExclusive
  <1>4. /\ \A u \in Threads \ {t} : call'[u] = call[u]
        /\ call'[t].op = "submit" /\ call'[t].at = label /\ call'[t].handle = h
    BY <1>3 DEF Goto, TypeOK, AtSubmit
  <1>5. /\ request'[h].stage = "running"
        /\ \A x \in Handles \ {h} : request'[x] = request[x]
    BY <1>2, <1>3 DEF TypeOK
  <1>6. ~NeedsEntry(call'[t])
    BY <1>4 DEF NeedsEntry
  <1>7. Holds(t, h)' => request'[h].stage = StageOf(call'[t], h)
    BY <1>2, <1>4, <1>5 DEF Holds, OnCall, StageOf, manager
  <1> QED
    BY <1>2, <1>4, <1>5, <1>6, <1>7, OneThread DEF In, manager

(* The request of a job that its owner submits is open.                     *)
LEMMA NeverRefused ==
  ASSUME HeapInv, OwnInv, NEW t \in Threads, SubmitRefused(t)
  PROVE  FALSE
  <1>1. call[t].at = "ioctl" /\ call[t].op = "submit" /\ request[call[t].handle].stage # "open"
    BY DEF SubmitRefused, Refuses, In
  <1> QED
    BY <1>1, InIoctl

LEMMA OwnSubmitFails ==
  ASSUME HeapInv, OwnInv, OwnHandles, NEW t \in Threads, SubmitFails(t)
  PROVE  OwnInv'
  <1> USE DEF HeapInv, SubmitFails, SubmitError, FaultySubmit, In
  <1>1. call[t].at \in {"ioctl", "wait"} /\ call[t].op = "submit" /\ Submitting(t)
    BY DEF Submitting
  <1> PICK h \in Handles : h = call[t].handle
    BY <1>1, InIoctl
  <1>2. /\ \A u \in Threads \ {t} : ~Holds(u, h)
        /\ request[h].stage = IF call[t].at = "wait" THEN "running" ELSE "open"
        /\ h \notin failed[t] /\ owner[h] = NULL
    BY <1>1, InIoctl
  <1>3. call[t] \in AtSubmit
    BY <1>1, CallFacts
  <1>4. /\ \A u \in Threads \ {t} : call'[u] = call[u]
        /\ call'[t].op = "submit" /\ call'[t].at = "free" /\ call'[t].handle = h
    BY <1>3 DEF Goto, TypeOK, AtSubmit
  <1>5. request' = [request EXCEPT ![h] = IF KernelKeeps THEN OpenRequest ELSE NoRequest]
    BY <1>2
  <1>6. /\ \A u \in Threads \ {t} : failed'[u] = failed[u]
        /\ \A x \in Handles \ {h} : x \in failed'[t] <=> x \in failed[t]
        /\ h \in failed'[t] => CancelFailed
    BY <1>2 DEF TypeOK
  <1>7. ~NeedsEntry(call'[t]) /\ ~NeedsNoEntry(call'[t]) /\ ~OnCall(t, h)'
    BY <1>4 DEF NeedsEntry, NeedsNoEntry, OnCall
  <1>8. Holds(t, h)' => request'[h].stage = StageOf(call'[t], h)
    <2> SUFFICES ASSUME Holds(t, h)'
                 PROVE  request'[h].stage = StageOf(call'[t], h)
      OBVIOUS
    <2>1. h \in failed'[t]
      BY <1>2, <1>7 DEF Holds, manager
    <2>2. KernelKeeps
      BY <1>6, <2>1 DEF OwnHandles
    <2> QED
      BY <1>2, <1>4, <1>5, <2>2 DEF StageOf, OpenRequest, TypeOK
  <1> QED
    BY <1>2, <1>4, <1>5, <1>6, <1>7, <1>8, OneThread DEF In, manager, TypeOK

LEMMA OwnRequestConfig ==
  ASSUME HeapInv, OwnInv, NEW t \in Threads, RequestConfig(t)
  PROVE  OwnInv'
  <1> DEFINE h == call[t].handle
  <1> USE DEF HeapInv, RequestConfig
  <1>1. call[t].at = "ioctl"
    BY DEF In
  <1>2. /\ h \in Handles /\ \A u \in Threads \ {t} : ~Holds(u, h)
        /\ request[h].stage = "open"
        /\ h \notin failed[t]
        /\ owner[h] \in {t, NULL}
    BY <1>1, InIoctl
  <1>3. call'[t] = Idle /\ \A u \in Threads \ {t} : call'[u] = call[u]
    BY DEF Return, TypeOK
  <1>4. /\ request'[h].stage = "open"
        /\ \A x \in Handles \ {h} : request'[x] = request[x]
    <2>1. request[h] \in Request
      BY <1>2 DEF TypeOK
    <2>2. CASE UNCHANGED request
      BY <1>2, <2>2
    <2>3. CASE \E read \in Reads(call[t].job, call[t].num) :
                 request' = [request EXCEPT ![h].tasks = read]
      BY <1>2, <2>1, <2>3 DEF Request, TypeOK
    <2> QED
      BY <2>2, <2>3
  <1>5. StageOf(Idle, h) = "open"
    BY IdleNeeds DEF StageOf
  <1> QED
    BY <1>2, <1>3, <1>4, <1>5, IdleNeeds, OneThread DEF In, manager

(* Nobody waits for a request that is cancelled: whoever holds the handle   *)
(* is in rga_job_cancel.                                                    *)
LEMMA CancelsOpen ==
  ASSUME HeapInv, OwnInv, NEW t \in Threads, RequestCancel(t)
  PROVE  /\ request' = [request EXCEPT ![call[t].handle] = NoRequest]
         /\ call' = [call EXCEPT ![t] = Idle]
  <1> DEFINE h == call[t].handle
  <1> USE DEF HeapInv, RequestCancel
  <1>1. call[t].at = "ioctl" /\ call[t].op = "cancel"
    BY DEF In
  <1>2. /\ \A u \in Threads \ {t} : ~Holds(u, h)
        /\ request[h].stage = "open"
    BY <1>1, InIoctl
  <1>3. Woken(h) = call
    <2>1. \A u \in Threads : ~(call[u].at = "wait" /\ call[u].handle = h)
      BY <1>1, <1>2 DEF Holds, OnCall
    <2>2. call = [u \in Threads |-> call[u]]
      BY DEF TypeOK
    <2> QED
      BY <2>1, <2>2 DEF Woken
  <1> QED
    BY <1>2, <1>3

LEMMA OwnRequestCancel ==
  ASSUME HeapInv, OwnInv, NEW t \in Threads, RequestCancel(t)
  PROVE  OwnInv'
  <1> USE DEF HeapInv
  <1>1. call[t].at = "ioctl" /\ call[t].op = "cancel"
    BY DEF RequestCancel, In
  <1> PICK h \in Handles : h = call[t].handle
    BY <1>1, InIoctl
  <1>2. /\ \A u \in Threads \ {t} : ~Holds(u, h)
        /\ h \notin failed[t] /\ owner[h] = NULL
    BY <1>1, InIoctl
  <1>3. /\ request' = [request EXCEPT ![h] = NoRequest]
        /\ call'[t] = Idle /\ \A u \in Threads \ {t} : call'[u] = call[u]
    BY CancelsOpen DEF TypeOK
  <1>4. UNCHANGED <<manager, failed>>
    BY DEF RequestCancel
  <1>5. ~Holds(t, h)'
    BY <1>2, <1>3, <1>4, IdleNeeds DEF Holds, OnCall, manager
  <1> QED
    BY <1>2, <1>3, <1>4, <1>5, IdleNeeds, OneThread DEF In, manager, TypeOK

(* Steps after which every handle is held as before, or not any more.       *)
LEMMA FewerHolders ==
  ASSUME TypeOK, OwnInv,
         UNCHANGED <<job_map, owner, failed>>,
         \A u \in Threads : \/ call'[u] = call[u]
                            \/ call'[u] = Idle
                            \/ call'[u].at = "free" /\ call'[u].op = "submit",
         \A u \in Threads, h \in Handles :
           Holds(u, h)' => request'[h].stage = request[h].stage,
         \A h \in Handles : job_map[h] # NULL => heap'[job_map[h]] = heap[job_map[h]]
  PROVE  OwnInv'
  <1>1. \A u \in Threads, h \in Handles : OnCall(u, h)' => OnCall(u, h) /\ call'[u] = call[u]
    BY IdleNeeds DEF OnCall
  <1>2. \A u \in Threads, h \in Handles : Holds(u, h)' => Holds(u, h)
    BY <1>1 DEF Holds
  <1>3. OneHolder'
    BY <1>2 DEF OwnInv, OneHolder
  <1>4. \A u \in Threads : NeedsEntry(call'[u]) \/ NeedsNoEntry(call'[u]) => call'[u] = call[u]
    BY IdleNeeds DEF NeedsEntry, NeedsNoEntry
  <1>5. CallOwner'
    <2> SUFFICES ASSUME NEW u \in Threads
                 PROVE  /\ NeedsEntry(call'[u]) => owner'[call'[u].handle] = u
                        /\ NeedsNoEntry(call'[u]) => owner'[call'[u].handle] = NULL
      BY DEF CallOwner, NeedsEntry, NeedsNoEntry
    <2> QED
      BY <1>4 DEF OwnInv, CallOwner
  <1>6. FailedDropped'
    BY <1>1 DEF OwnInv, FailedDropped
  <1>7. StageOfHeld'
    <2> SUFFICES ASSUME NEW h \in Handles, NEW u \in Threads, Holds(u, h)'
                 PROVE  request'[h].stage = StageOf(call'[u], h)
      BY DEF StageOfHeld, StageOf
    <2>1. request[h].stage = StageOf(call[u], h)
      BY <1>2 DEF OwnInv, StageOfHeld
    <2>2. CASE OnCall(u, h)'
      BY <1>1, <2>1, <2>2
    <2>3. CASE ~OnCall(u, h)'
      <3>1. owner[h] = u \/ (h \in failed[u] /\ ~OnCall(u, h))
        BY <2>3 DEF OwnInv, FailedDropped, Holds
      <3>2. call[u].at = "wait" => NeedsNoEntry(call[u])
        BY CallFacts DEF Submitting, NeedsNoEntry
      <3>3. ~(call[u].at = "wait" /\ call[u].handle = h)
        BY <3>1, <3>2 DEF OwnInv, CallOwner, OnCall
      <3> QED
        BY <2>1, <2>3, <3>3 DEF OnCall, StageOf
    <2> QED
      BY <2>2, <2>3
  <1>8. ConfigOwn'
    BY CallFacts, IdleNeeds DEF OwnInv, ConfigOwn, In, AtConfig
  <1> QED
    BY <1>3, <1>5, <1>6, <1>7, <1>8 DEF OwnInv

LEMMA OwnFreeJob ==
  ASSUME HeapInv, OwnInv, NEW t \in Threads, FreeJob(t)
  PROVE  OwnInv'
  <1> USE DEF HeapInv, FreeJob
  <1>1. \A u \in Threads : call'[u] = call[u] \/ call'[u] = Idle
    BY DEF Return, TypeOK
  <1>2. Submitting(t)
    BY CallFacts
  <1>3. \A h \in Handles : job_map[h] # NULL =>
          job_map[h] \in Addrs /\ job_map[h] # call[t].job
    BY <1>2 DEF SubmitExclusive, TypeOK
  <1>4. \A h \in Handles : job_map[h] # NULL => heap'[job_map[h]] = heap[job_map[h]]
    BY <1>3 DEF TypeOK
  <1> QED
    BY <1>1, <1>4, FewerHolders

LEMMA OwnRequestDone ==
  ASSUME HeapInv, OwnInv, NEW h \in Handles, RequestDone(h)
  PROVE  OwnInv'
  <1> USE DEF HeapInv, RequestDone
  <1>1. \A u \in Threads :
          \/ call'[u] = call[u] /\ ~(call[u].at = "wait" /\ call[u].handle = h)
          \/ call'[u].at = "free" /\ call'[u].op = "submit"
    BY CallFacts DEF Woken, AtSubmit, Submitting
  <1>2. ASSUME NEW u \in Threads, Holds(u, h)' PROVE FALSE
    <2>1. CASE ~OnCall(u, h)'
      <3>1. owner[h] = u \/ h \in failed[u]
        BY <1>2, <2>1 DEF Holds, manager
      <3>2. call[u].at = "wait" /\ call[u].handle = h
        BY <3>1 DEF Holds, OwnInv, StageOfHeld, StageOf
      <3>3. owner[h] = NULL /\ h \notin failed[u]
        BY <3>2, CallFacts DEF OwnInv, CallOwner, FailedDropped, NeedsNoEntry, OnCall, Submitting
      <3> QED
        BY <3>1, <3>3
    <2>2. CASE OnCall(u, h)'
      BY <1>1, <2>2 DEF Holds, OnCall, OwnInv, StageOfHeld, StageOf
    <2> QED
      BY <2>1, <2>2
  <1>3. \A u \in Threads, x \in Handles : Holds(u, x)' => request'[x].stage = request[x].stage
    BY <1>2 DEF TypeOK
  <1> QED
    BY <1>1, <1>3, FewerHolders DEF manager

LEMMA NextOwnInv ==
  ASSUME OwnHandles, HeapInv, OwnInv, [Next]_vars
  PROVE  OwnInv'
  <1>1. ASSUME NEW t \in Threads, Start(t) \/ Lock(t)
        PROVE  OwnInv'
    BY <1>1, OwnStart, OwnLock
  <1>2. ASSUME NEW t \in Threads, Step(t) \/ SubmitFails(t)
        PROVE  OwnInv'
    <2>1. CASE \/ \E a \in Addrs : CreateJob(t, a)
               \/ \E task \in Tasks : AddTask(t, task)
               \/ TaskRefused(t)
               \/ NotFound(t)
      BY <2>1, OwnCreateAddRefuse
    <2>2. CASE CreateFails(t) \/ CancelJob(t) \/ TakeJob(t) \/ ReadJob(t)
      BY <2>2, OwnCreateFails, OwnCancelJob, OwnTakeJob, OwnReadJob
    <2>3. CASE \E sync \in BOOLEAN : RequestSubmit(t, sync)
      BY <2>3, OwnRequestSubmit
    <2>4. CASE SubmitFails(t) \/ RequestConfig(t) \/ RequestCancel(t) \/ FreeJob(t)
      BY <2>4, OwnSubmitFails, OwnRequestConfig, OwnRequestCancel, OwnFreeJob
    <2> QED
      BY <1>2, <2>1, <2>2, <2>3, <2>4, NeverRefused DEF Step
  <1>3. ASSUME NEW h \in Handles, RequestDone(h)
        PROVE  OwnInv'
    BY <1>3, OwnRequestDone
  <1>4. CASE UNCHANGED vars
    BY <1>4 DEF vars, manager, OwnInv, OneHolder, StageOfHeld, CallOwner, FailedDropped,
                ConfigOwn, Holds, OnCall, In
  <1> QED
    BY <1>1, <1>2, <1>3, <1>4 DEF Next

LEMMA OwnInvariant ==
  ASSUME OwnHandles
  PROVE  Spec => [](HeapInv /\ OwnInv)
  <1>1. HeapInv /\ OwnInv /\ [Next]_vars => (HeapInv /\ OwnInv)'
    BY NextHeapInv, NextOwnInv
  <1> QED
    BY <1>1, InitHeapInv, InitOwnInv, PTL DEF Spec

(* What every state of such clients satisfies.                              *)
LEMMA OwnMeansAgrees ==
  ASSUME HeapInv, OwnInv
  PROVE  KernelAgrees /\ ConfigReadsLiveJob
  <1> USE DEF HeapInv
  <1>1. ASSUME NEW h \in Handles, job_map[h] # NULL
        PROVE  request[h].stage = "open"
    <2>1. PICK t \in Threads : owner[h] = t
      BY <1>1 DEF MapBacked, TypeOK
    <2>2. ~(call[t].handle = h /\ call[t].at = "wait")
      BY <2>1, CallFacts DEF OwnInv, CallOwner, NeedsNoEntry, Submitting
    <2> QED
      BY <2>1, <2>2 DEF OwnInv, StageOfHeld, StageOf, Holds
  <1>2. ASSUME NEW t \in Threads, call[t].op = "create"
        PROVE  job_map[call[t].handle] = NULL
    <2>1. call[t].handle \in Handles
      BY <1>2, CallHandle DEF Idle
    <2>2. owner[call[t].handle] = NULL
      BY <1>2 DEF OwnInv, CallOwner, NeedsNoEntry
    <2> QED
      BY <2>1, <2>2 DEF MapBacked
  <1>3. ASSUME NEW t \in Threads, In(t, "config", "ioctl")
        PROVE  /\ heap[call[t].job].id = call[t].handle
               /\ Len(heap[call[t].job].tasks) >= call[t].num
    <2> DEFINE h == call[t].handle
    <2>1. call[t] \in AtConfig /\ h \in Handles /\ call[t].num \in Nat
      BY <1>3, CallFacts DEF AtConfig
    <2>2. owner[h] = t
      BY <1>3 DEF OwnInv, CallOwner, NeedsEntry, In
    <2>3. call[t].job = job_map[h] /\ call[t].num = Len(heap[call[t].job].tasks)
      BY <1>3 DEF OwnInv, ConfigOwn
    <2> QED
      BY <2>1, <2>2, <2>3 DEF MapBacked
  <1> QED
    BY <1>1, <1>2, <1>3 DEF KernelAgrees, ConfigReadsLiveJob

(* The library and the driver agree on the open jobs for any number of      *)
(* threads, as long as each keeps its handles to itself: no entry without   *)
(* an open request, and a new handle is never in the map already.           *)
THEOREM JobKernelAgrees ==
  ASSUME OwnHandles
  PROVE  Spec => []KernelAgrees
  BY OwnInvariant, OwnMeansAgrees, PTL

(* Under the same discipline the pointer that rga_job_config uses after the *)
(* unlock is alive and has the tasks it counted.                            *)
THEOREM JobConfigReadsLive ==
  ASSUME OwnHandles
  PROVE  Spec => []ConfigReadsLiveJob
  BY OwnInvariant, OwnMeansAgrees, PTL

(* The call that will submit or cancel a request left open.                 *)
Pursues(t, h) ==
  /\ call[t].handle = h
  /\ call[t].op \in {"create", "cancel", "submit"}
  /\ call[t].at \in {"lock", "critical", "ioctl"}

Kept(h) == \/ job_map[h] # NULL
           \/ \E t \in Threads : h \in failed[t] \/ Pursues(t, h)

LEMMA ReclaimedMeansKept ==
  RequestsReclaimed <=> \A h \in Handles : request[h].stage = "open" => Kept(h)
  BY DEF RequestsReclaimed, Kept, Pursues

(* A step of a call on h keeps the other open requests within reach; what   *)
(* is left to show is about h.                                              *)
LEMMA OneRequest ==
  ASSUME TypeOK, RequestsReclaimed, NEW t \in Threads, NEW h \in Handles,
         \A u \in Threads \ {t} : call'[u] = call[u] /\ failed'[u] = failed[u],
         call[t].handle \in {h, NULL},
         \A x \in Handles \ {h} :
            /\ request'[x] = request[x]
            /\ job_map'[x] = job_map[x]
            /\ x \in failed'[t] <=> x \in failed[t],
         request'[h].stage = "open" => Kept(h)'
  PROVE  RequestsReclaimed'
  <1>1. ASSUME NEW x \in Handles \ {h}, request'[x].stage = "open" PROVE Kept(x)'
    <2>1. Kept(x)
      BY <1>1, ReclaimedMeansKept
    <2>2. \A u \in Threads : Pursues(u, x) => Pursues(u, x)'
      BY DEF Pursues
    <2> QED
      BY <2>1, <2>2 DEF Kept
  <1>2. \A x \in Handles : request'[x].stage = "open" => Kept(x)'
    BY <1>1
  <1> QED
    BY <1>2 DEF RequestsReclaimed, Kept, Pursues

(* Steps that open no request and lose no way to reach one.                 *)
LEMMA NothingLost ==
  ASSUME RequestsReclaimed,
         UNCHANGED failed,
         \A h \in Handles :
            /\ request'[h].stage = "open" => request[h].stage = "open"
            /\ job_map[h] # NULL => job_map'[h] # NULL,
         \A u \in Threads, h \in Handles :
            request'[h].stage = "open" /\ Pursues(u, h) => Pursues(u, h)'
  PROVE  RequestsReclaimed'
  <1>1. \A h \in Handles : request'[h].stage = "open" => Kept(h)'
    BY ReclaimedMeansKept DEF Kept
  <1> QED
    BY <1>1 DEF RequestsReclaimed, Kept, Pursues

LEMMA ReclaimStart ==
  ASSUME HeapInv, RequestsReclaimed, OwnHandles, NEW t \in Threads, Start(t)
  PROVE  RequestsReclaimed'
  <1> USE DEF HeapInv
  <1> PICK h \in Handles : \/ RequestCreate(t, h)
                           \/ TaskEnter(t, h)
                           \/ CancelEnter(t, h)
                           \/ SubmitEnter(t, h)
                           \/ ConfigEnter(t, h)
    BY DEF Start
  <1>1. call[t] = Idle /\ UNCHANGED manager
    BY DEF RequestCreate, TaskEnter, CancelEnter, SubmitEnter, ConfigEnter, Enter
  <1>2. /\ \A u \in Threads \ {t} : call'[u] = call[u] /\ failed'[u] = failed[u]
        /\ call'[t].handle = h /\ call'[t].at = "lock"
        /\ \A x \in Handles \ {h} : /\ request'[x] = request[x]
                                    /\ x \in failed'[t] <=> x \in failed[t]
    BY DEF RequestCreate, TaskEnter, CancelEnter, SubmitEnter, ConfigEnter, Enter, TypeOK
  <1>3. Kept(h)'
    <2>1. CASE RequestCreate(t, h) \/ CancelEnter(t, h)
      <3>1. call'[t].op \in {"create", "cancel"}
        BY <2>1 DEF RequestCreate, CancelEnter, Enter, TypeOK
      <3> QED
        BY <1>2, <3>1 DEF Kept, Pursues
    <2>2. CASE TaskEnter(t, h) \/ SubmitEnter(t, h) \/ ConfigEnter(t, h)
      <3>1. owner[h] = t
        BY <2>2 DEF TaskEnter, SubmitEnter, ConfigEnter, MayUse, OwnHandles
      <3> QED
        BY <1>1, <3>1 DEF MapBacked, manager, Kept
    <2> QED
      BY <2>1, <2>2
  <1> QED
    BY <1>1, <1>2, <1>3, OneRequest DEF manager, Idle

LEMMA ReclaimCritical ==
  ASSUME HeapInv, OwnInv, RequestsReclaimed, NEW t \in Threads,
         \/ Lock(t)
         \/ \E a \in Addrs : CreateJob(t, a)
         \/ CreateFails(t)
         \/ \E task \in Tasks : AddTask(t, task)
         \/ TaskRefused(t)
         \/ CancelJob(t) \/ TakeJob(t) \/ NotFound(t) \/ ReadJob(t)
  PROVE  RequestsReclaimed'
  <1> USE DEF HeapInv
  <1>1. call[t].at \in {"lock", "critical"}
    BY DEF Lock, CreateJob, CreateFails, CannotCreate, AddTask, StoreTask, TaskRefused,
           CancelJob, TakeJob, FoundToSubmit, NotFound, ReadJob, In
  <1>2. call[t] \in AtMutex
    BY <1>1, CallFacts
  <1> PICK h \in Handles : h = call[t].handle
    BY <1>2 DEF AtMutex
  <1>3. UNCHANGED <<failed, request>>
    BY DEF Lock, CreateJob, CreateFails, CannotCreate, AddTask, StoreTask, TaskRefused,
           CancelJob, TakeJob, FoundToSubmit, NotFound, ReadJob
  <1>4. /\ \A u \in Threads \ {t} : call'[u] = call[u]
        /\ \A x \in Handles \ {h} : job_map'[x] = job_map[x]
    BY DEF Lock, CreateJob, CreateFails, CannotCreate, AddTask, StoreTask, TaskRefused,
           CancelJob, TakeJob, FoundToSubmit, NotFound, ReadJob, Goto, Return, ToCancel,
           Erase, TypeOK
  <1>5. CASE \/ \E task \in Tasks : AddTask(t, task)
             \/ TaskRefused(t)
             \/ NotFound(t)
             \/ ReadJob(t)
    <2>1. NeedsEntry(call[t])
      BY <1>5 DEF AddTask, StoreTask, TaskRefused, NotFound, ReadJob, In, NeedsEntry
    <2>2. job_map[h] # NULL /\ UNCHANGED job_map
      BY <1>5, <2>1 DEF OwnInv, CallOwner, MapBacked, AddTask, StoreTask, TaskRefused,
                        NotFound, ReadJob
    <2> QED
      BY <1>3, <1>4, <2>2, OneRequest DEF Kept
  <1>6. CASE \E a \in Addrs : CreateJob(t, a)
    <2>1. job_map'[h] # NULL
      BY <1>6 DEF CreateJob, TypeOK
    <2> QED
      BY <1>3, <1>4, <2>1, OneRequest DEF Kept
  <1>7. CASE CreateFails(t) \/ CancelJob(t) \/ TakeJob(t)
    <2>1. Pursues(t, h)'
      <3>1. CASE CreateFails(t)
        BY <1>2, <3>1 DEF CreateFails, ToCancel, TypeOK, Pursues, AtMutex
      <3>2. CASE CancelJob(t)
        BY <1>2, <3>2 DEF CancelJob, Goto, TypeOK, Pursues, AtMutex, In
      <3>3. CASE TakeJob(t)
        BY <1>2, <3>3 DEF TakeJob, FoundToSubmit, TypeOK, Pursues, AtMutex
      <3> QED
        BY <1>7, <3>1, <3>2, <3>3
    <2> QED
      BY <1>3, <1>4, <2>1, OneRequest DEF Kept
  <1>8. CASE Lock(t)
    <2>1. \A x \in Handles : Pursues(t, x) => Pursues(t, x)'
      BY <1>2, <1>8 DEF Lock, Goto, TypeOK, Pursues, AtMutex
    <2>2. \A u \in Threads, x \in Handles : Pursues(u, x) => Pursues(u, x)'
      BY <1>4, <2>1 DEF Pursues
    <2> QED
      BY <1>3, <1>8, <2>2, NothingLost DEF Lock
  <1> QED
    BY <1>5, <1>6, <1>7, <1>8

LEMMA ReclaimIoctl ==
  ASSUME HeapInv, OwnInv, RequestsReclaimed, KernelKeeps => CancelFailed,
         NEW t \in Threads,
         \/ RequestCancel(t)
         \/ \E sync \in BOOLEAN : RequestSubmit(t, sync)
         \/ SubmitFails(t)
         \/ RequestConfig(t)
  PROVE  RequestsReclaimed'
  <1> USE DEF HeapInv
  <1>1. call[t].at \in {"ioctl", "wait"}
    BY DEF RequestCancel, RequestSubmit, Accepted, SubmitFails, FaultySubmit,
           RequestConfig, In
  <1> PICK h \in Handles : h = call[t].handle
    BY <1>1, InIoctl
  <1>2. UNCHANGED manager
    BY DEF RequestCancel, RequestSubmit, Accepted, SubmitFails, SubmitError, RequestConfig
  <1>3. CASE RequestCancel(t)
    <2>1. /\ request' = [request EXCEPT ![h] = NoRequest]
          /\ call' = [call EXCEPT ![t] = Idle] /\ UNCHANGED failed
      BY <1>3, CancelsOpen DEF RequestCancel
    <2>2. request'[h].stage # "open"
      BY <2>1 DEF NoRequest, TypeOK
    <2> QED
      BY <1>2, <2>1, <2>2, OneRequest DEF manager, TypeOK
  <1>4. CASE \E sync \in BOOLEAN : RequestSubmit(t, sync)
    <2>1. Submitting(t) /\ heap[call[t].job].id = h
      BY <1>4 DEF RequestSubmit, Accepted, In, Submitting, SubmitExclusive
    <2>2. /\ request'[h].stage # "open" /\ UNCHANGED failed
          /\ \A x \in Handles \ {h} : request'[x] = request[x]
          /\ \A u \in Threads \ {t} : call'[u] = call[u]
      BY <1>4, <2>1 DEF RequestSubmit, Accepted, Goto, TypeOK
    <2> QED
      BY <1>2, <2>2, OneRequest DEF manager
  <1>5. CASE SubmitFails(t)
    <2>1. request' = [request EXCEPT ![h] = IF KernelKeeps THEN OpenRequest ELSE NoRequest]
      BY <1>5 DEF SubmitFails
    <2>2. request'[h].stage = "open" => h \in failed'[t]
      <3>1. CASE KernelKeeps
        BY <1>5, <3>1 DEF SubmitFails, SubmitError, TypeOK
      <3>2. CASE ~KernelKeeps
        BY <2>1, <3>2 DEF NoRequest, TypeOK
      <3> QED
        BY <3>1, <3>2
    <2>3. /\ \A x \in Handles \ {h} : /\ request'[x] = request[x]
                                      /\ x \in failed'[t] <=> x \in failed[t]
          /\ \A u \in Threads \ {t} : call'[u] = call[u] /\ failed'[u] = failed[u]
      BY <1>5, <2>1 DEF SubmitFails, SubmitError, Goto, TypeOK
    <2> QED
      BY <1>2, <2>2, <2>3, OneRequest DEF manager, Kept
  <1>6. CASE RequestConfig(t)
    <2>1. call[t].op = "config" /\ UNCHANGED failed /\ UNCHANGED job_map
      BY <1>2, <1>6 DEF RequestConfig, In, manager
    <2>2. \A x \in Handles : request'[x].stage = request[x].stage
      <3>1. \A x \in Handles : request[x] \in Request
        BY DEF TypeOK
      <3>2. CASE UNCHANGED request
        BY <3>2
      <3>3. CASE \E read \in Reads(call[t].job, call[t].num) :
                   request' = [request EXCEPT ![h].tasks = read]
        BY <3>1, <3>3 DEF Request, TypeOK
      <3> QED
        BY <1>6, <3>2, <3>3 DEF RequestConfig
    <2>3. \A u \in Threads, x \in Handles : Pursues(u, x) => Pursues(u, x)'
      BY <1>6, <2>1 DEF RequestConfig, Return, Pursues, TypeOK
    <2> QED
      BY <2>1, <2>2, <2>3, NothingLost
  <1> QED
    BY <1>3, <1>4, <1>5, <1>6

LEMMA NextReclaimed ==
  ASSUME OwnHandles, KernelKeeps => CancelFailed,
         HeapInv, OwnInv, RequestsReclaimed, [Next]_vars
  PROVE  RequestsReclaimed'
  <1> USE DEF HeapInv
  <1>1. ASSUME NEW t \in Threads, Start(t)
        PROVE  RequestsReclaimed'
    BY <1>1, ReclaimStart
  <1>2. ASSUME NEW t \in Threads, Lock(t) \/ Step(t) \/ SubmitFails(t), ~FreeJob(t)
        PROVE  RequestsReclaimed'
    BY <1>2, ReclaimCritical, ReclaimIoctl, NeverRefused DEF Step
  <1>3. ASSUME NEW t \in Threads, FreeJob(t)
        PROVE  RequestsReclaimed'
    <2>1. \A u \in Threads, x \in Handles : Pursues(u, x) => Pursues(u, x)'
      BY <1>3 DEF FreeJob, Return, Pursues, TypeOK
    <2> QED
      BY <1>3, <2>1, NothingLost DEF FreeJob
  <1>4. ASSUME NEW h \in Handles, RequestDone(h)
        PROVE  RequestsReclaimed'
    <2>1. \A u \in Threads, x \in Handles : Pursues(u, x) => Pursues(u, x)'
      BY <1>4 DEF RequestDone, Woken, Pursues
    <2>2. \A x \in Handles : request'[x].stage = "open" => request[x].stage = "open"
      BY <1>4 DEF RequestDone, NoRequest, TypeOK
    <2> QED
      BY <1>4, <2>1, <2>2, NothingLost DEF RequestDone, manager
  <1>5. CASE UNCHANGED vars
    BY <1>5 DEF vars, manager, RequestsReclaimed
  <1> QED
    BY <1>1, <1>2, <1>3, <1>4, <1>5 DEF Next

(* No request of the driver is forgotten, on any path of create, cancel and *)
(* submit: clients cancel after a failed submit exactly when the driver     *)
(* keeps the request then.                                                  *)
THEOREM JobRequestsReclaimed ==
  ASSUME ~Shared, CancelFailed <=> KernelKeeps
  PROVE  Spec => []RequestsReclaimed
  <1> OwnHandles
    BY DEF OwnHandles
  <1>1. Init => RequestsReclaimed
    BY DEF Init, RequestsReclaimed, NoRequest
  <1>2. HeapInv /\ OwnInv /\ RequestsReclaimed /\ [Next]_vars => RequestsReclaimed'
    BY NextReclaimed
  <1> QED
    BY <1>1, <1>2, OwnInvariant, PTL DEF Spec

-----------------------------------------------------------------------------
(* The refinement: the barred variable, and what one step may do to it.     *)
Batches == [h \in Handles |-> BatchOf(h)]

Open(tasks)   == [stage |-> "open", tasks |-> tasks]
Sealed(tasks) == [stage |-> "sealed", tasks |-> tasks]
Closed        == [stage |-> "closed", tasks |-> <<>>]

LEMMA OnlyOne ==
  ASSUME NEW S, NEW x, S = {x}
  PROVE  (CHOOSE y \in S : TRUE) = x
  OBVIOUS

LEMMA RequestRecord ==
  ASSUME TypeOK, NEW h \in Handles
  PROVE  request[h] = [stage |-> request[h].stage, tasks |-> request[h].tasks]
  BY DEF TypeOK, Request

LEMMA NewTasks ==
  ASSUME NEW r, NEW old, NEW new, r = [stage |-> "open", tasks |-> old]
  PROVE  [r EXCEPT !.tasks = new] = [stage |-> "open", tasks |-> new]
  OBVIOUS

(* A change of one batch that is a step of JobBatch.                        *)
BatchStep(h) ==
  \/ BatchOf(h) = Closed /\ BatchOf(h)' = Open(<<>>)
  \/ \E tasks \in Seq(Tasks), task \in Tasks :
       /\ Len(tasks) < TaskNumMax
       /\ BatchOf(h) = Open(tasks) /\ BatchOf(h)' = Open(Append(tasks, task))
  \/ \E tasks \in Seq(Tasks) :
       \/ BatchOf(h) = Open(tasks) /\ BatchOf(h)' = Sealed(tasks)
       \/ /\ BatchOf(h) = Sealed(tasks)
          /\ BatchOf(h)' = [stage |-> "running", tasks |-> tasks]
  \/ BatchOf(h).stage \in {"open", "sealed", "running"} /\ BatchOf(h)' = Closed

LEMMA OneBatch ==
  ASSUME NEW h \in Handles, BatchStep(h),
         \A x \in Handles \ {h} : BatchOf(x)' = BatchOf(x)
  PROVE  Batch!Next
  <1> DEFINE B == [x \in Handles |-> BatchOf(x)]
  <1> HIDE DEF B
  <1>1. B' = [B EXCEPT ![h] = BatchOf(h)'] /\ B[h] = BatchOf(h)
    BY DEF B
  <1>2. CASE BatchOf(h) = Closed /\ BatchOf(h)' = Open(<<>>)
    <2>1. BatchOf(h)' = [B[h] EXCEPT !.stage = "open"] /\ B[h] = Closed
      BY <1>1, <1>2 DEF Closed, Open
    <2>2. B' = [B EXCEPT ![h].stage = "open"]
      BY <1>1, <2>1
    <2>3. Batch!Begin(h)
      BY <2>1, <2>2 DEF B, Batch!Begin, Batch!Become, Batch!Closed, Closed
    <2> QED
      BY <2>3 DEF Batch!Next
  <1>3. CASE \E tasks \in Seq(Tasks), task \in Tasks :
               /\ Len(tasks) < TaskNumMax
               /\ BatchOf(h) = Open(tasks) /\ BatchOf(h)' = Open(Append(tasks, task))
    <2>1. PICK tasks \in Seq(Tasks), task \in Tasks :
               /\ Len(tasks) < TaskNumMax
               /\ BatchOf(h) = Open(tasks) /\ BatchOf(h)' = Open(Append(tasks, task))
      BY <1>3
    <2> DEFINE more == Append(tasks, task)
    <2> HIDE DEF more
    <2>2. /\ BatchOf(h)' = [B[h] EXCEPT !.tasks = more]
          /\ B[h].stage = "open" /\ B[h].tasks = tasks
      <3>1. /\ B[h] = [stage |-> "open", tasks |-> tasks]
            /\ BatchOf(h)' = [stage |-> "open", tasks |-> more]
        BY <1>1, <2>1 DEF Open, more
      <3>2. [B[h] EXCEPT !.tasks = more] = [stage |-> "open", tasks |-> more]
        BY <3>1, NewTasks
      <3> QED
        BY <3>1, <3>2
    <2>3. B' = [B EXCEPT ![h].tasks = Append(@, task)]
      BY <1>1, <2>2 DEF more
    <2>4. Batch!Add(h, task)
      BY <2>1, <2>2, <2>3 DEF B, Batch!Add
    <2> QED
      BY <2>4 DEF Batch!Next
  <1>4. CASE \E tasks \in Seq(Tasks) :
               BatchOf(h) = Open(tasks) /\ BatchOf(h)' = Sealed(tasks)
    <2>1. BatchOf(h)' = [B[h] EXCEPT !.stage = "sealed"] /\ B[h].stage = "open"
      BY <1>1, <1>4 DEF Open, Sealed
    <2>2. B' = [B EXCEPT ![h].stage = "sealed"]
      BY <1>1, <2>1
    <2>3. Batch!Seal(h)
      BY <2>1, <2>2 DEF B, Batch!Seal, Batch!Become
    <2> QED
      BY <2>3 DEF Batch!Next
  <1>5. CASE \E tasks \in Seq(Tasks) :
               /\ BatchOf(h) = Sealed(tasks)
               /\ BatchOf(h)' = [stage |-> "running", tasks |-> tasks]
    <2>1. BatchOf(h)' = [B[h] EXCEPT !.stage = "running"] /\ B[h].stage = "sealed"
      BY <1>1, <1>5 DEF Sealed
    <2>2. B' = [B EXCEPT ![h].stage = "running"]
      BY <1>1, <2>1
    <2>3. Batch!Run(h)
      BY <2>1, <2>2 DEF B, Batch!Run, Batch!Become
    <2> QED
      BY <2>3 DEF Batch!Next
  <1>6. CASE BatchOf(h).stage \in {"open", "sealed"} /\ BatchOf(h)' = Closed
    <2>1. Batch!Drop(h)
      BY <1>1, <1>6 DEF B, Batch!Drop, Batch!Closed, Closed
    <2> QED
      BY <2>1 DEF Batch!Next
  <1>7. CASE BatchOf(h).stage = "running" /\ BatchOf(h)' = Closed
    <2>1. Batch!Finish(h)
      BY <1>1, <1>7 DEF B, Batch!Finish, Batch!Closed, Closed
    <2> QED
      BY <2>1 DEF Batch!Next
  <1> QED
    BY <1>2, <1>3, <1>4, <1>5, <1>6, <1>7 DEF BatchStep

(* A batch is left alone when its entry, its running request, the thread    *)
(* that sends it and their tasks are.                                       *)
LEMMA SameBatch ==
  ASSUME NEW x \in Handles,
         job_map'[x] = job_map[x],
         job_map[x] # NULL => heap'[job_map[x]].tasks = heap[job_map[x]].tasks,
         request'[x].stage = "running" <=> request[x].stage = "running",
         request[x].stage = "running" => request'[x] = request[x],
         Senders(x)' = Senders(x),
         \A u \in Senders(x) : /\ call'[u].job = call[u].job
                               /\ heap'[call[u].job].tasks = heap[call[u].job].tasks
  PROVE  BatchOf(x)' = BatchOf(x)
  <1> DEFINE u == CHOOSE t \in Senders(x) : TRUE
  <1>1. CASE Senders(x) # {}
    <2>1. u \in Senders(x)
      BY <1>1
    <2>2. (CHOOSE t \in Senders(x)' : TRUE) = u
      OBVIOUS
    <2> HIDE DEF u
    <2>3. heap'[call'[u].job].tasks = heap[call[u].job].tasks
      BY <2>1
    <2> QED
      BY <2>2, <2>3 DEF BatchOf, u
  <1>2. CASE Senders(x) = {}
    BY <1>2 DEF BatchOf
  <1> QED
    BY <1>1, <1>2

(* A step of t on handle h leaves the batches of the other handles alone.   *)
LEMMA OthersSame ==
  ASSUME NEW t \in Threads, NEW h \in Handles,
         \A u \in Threads \ {t} : call'[u] = call[u],
         call[t].handle \in {h, NULL}, call'[t].handle \in {h, NULL},
         \A x \in Handles \ {h} :
            /\ job_map'[x] = job_map[x] /\ request'[x] = request[x]
            /\ job_map[x] # NULL => heap'[job_map[x]].tasks = heap[job_map[x]].tasks,
         \A u \in Threads \ {t} :
            In(u, "submit", "ioctl") => heap'[call[u].job].tasks = heap[call[u].job].tasks
  PROVE  \A x \in Handles \ {h} : BatchOf(x)' = BatchOf(x)
  <1> SUFFICES ASSUME NEW x \in Handles \ {h}
               PROVE  BatchOf(x)' = BatchOf(x)
    OBVIOUS
  <1>1. t \notin Senders(x) /\ t \notin Senders(x)'
    BY DEF Senders
  <1>2. Senders(x)' = Senders(x)
    BY <1>1 DEF Senders, In
  <1>3. \A u \in Senders(x) : /\ call'[u].job = call[u].job
                              /\ heap'[call[u].job].tasks = heap[call[u].job].tasks
    BY <1>1 DEF Senders
  <1> QED
    BY <1>2, <1>3, SameBatch

(* The thread that sends a batch is alone, and the batch is then neither in *)
(* the map nor in the driver.                                               *)
LEMMA SenderAlone ==
  ASSUME HeapInv, OwnInv, NEW t \in Threads, In(t, "submit", "ioctl")
  PROVE  LET h == call[t].handle IN
         /\ h \in Handles /\ Senders(h) = {t}
         /\ job_map[h] = NULL /\ request[h].stage = "open"
         /\ BatchOf(h) = Sealed(heap[call[t].job].tasks)
  <1> DEFINE h == call[t].handle
  <1>1. call[t].at = "ioctl" /\ call[t].op = "submit"
    BY DEF In
  <1>2. /\ h \in Handles /\ \A u \in Threads \ {t} : ~Holds(u, h)
        /\ request[h].stage = "open" /\ job_map[h] = NULL
    BY <1>1, InIoctl
  <1>3. Senders(h) = {t}
    <2>1. \A u \in Threads \ {t} : u \notin Senders(h)
      BY <1>2 DEF Senders, In, Holds, OnCall
    <2> QED
      BY <2>1 DEF Senders
  <1>4. (CHOOSE u \in Senders(h) : TRUE) = t
    BY <1>3, OnlyOne
  <1> QED
    BY <1>2, <1>3, <1>4 DEF BatchOf, Sealed

(* Nobody sends a batch that another thread, or this one elsewhere, holds.  *)
LEMMA NoSender ==
  ASSUME HeapInv, OwnInv, NEW t \in Threads, NEW h \in Handles,
         Holds(t, h), ~(In(t, "submit", "ioctl") /\ call[t].handle = h)
  PROVE  Senders(h) = {}
  <1>1. \A u \in Threads \ {t} : ~Holds(u, h)
    BY OnlyHolder
  <1> QED
    BY <1>1 DEF Senders, In, Holds, OnCall

(* What SenderAlone and NoSender say of the batches in critical sections.   *)
LEMMA BatchOfCall ==
  ASSUME HeapInv, OwnInv, NEW t \in Threads, call[t].at = "critical"
  PROVE  LET h == call[t].handle IN
         /\ h \in Handles /\ Senders(h) = {}
         /\ request[h].stage = "open"
         /\ job_map[h] = NULL => BatchOf(h) = Closed
         /\ job_map[h] # NULL =>
              /\ BatchOf(h) = Open(heap[job_map[h]].tasks)
              /\ job_map[h] \in Addrs /\ heap[job_map[h]].tasks \in Seq(Tasks)
         /\ \A x \in Handles \ {h} :
              job_map[x] # NULL => job_map[x] \in Addrs /\ job_map[x] # job_map[h]
         /\ \A u \in Threads :
              In(u, "submit", "ioctl") => call[u].job \in Addrs /\ call[u].job # job_map[h]
  <1> DEFINE h == call[t].handle
  <1>1. /\ h \in Handles /\ Holds(t, h) /\ request[h].stage = "open"
        /\ \A x \in Handles \ {h} :
             job_map[x] # NULL => job_map[x] \in Addrs /\ job_map[x] # job_map[h]
    BY Critical
  <1>2. Senders(h) = {}
    BY <1>1, NoSender DEF In
  <1>3. job_map[h] = NULL => BatchOf(h) = Closed
    BY <1>1, <1>2 DEF BatchOf, Closed
  <1>4. job_map[h] # NULL => /\ BatchOf(h) = Open(heap[job_map[h]].tasks)
                             /\ job_map[h] \in Addrs
                             /\ heap[job_map[h]].tasks \in Seq(Tasks)
    BY <1>1, TasksType DEF BatchOf, Open, HeapInv, TypeOK
  <1>5. \A u \in Threads :
          In(u, "submit", "ioctl") => call[u].job \in Addrs /\ call[u].job # job_map[h]
    <2>1. \A u \in Threads : In(u, "submit", "ioctl") => Submitting(u)
      BY DEF In, Submitting
    <2> QED
      BY <1>1, <2>1, CallFacts DEF HeapInv, AtSubmit, SubmitExclusive
  <1> QED
    BY <1>1, <1>2, <1>3, <1>4, <1>5

LEMMA RefineCreateJob ==
  ASSUME HeapInv, OwnInv, NEW t \in Threads, NEW a \in Addrs, CreateJob(t, a)
  PROVE  Batch!Next
  <1> USE DEF CreateJob, HeapInv
  <1>1. call[t].at = "critical"
    BY DEF In
  <1> PICK h \in Handles : h = call[t].handle
    BY <1>1, BatchOfCall
  <1>2. job_map'[h] = a /\ a # NULL /\ heap'[a].tasks = <<>>
    BY DEF TypeOK
  <1>3. BatchOf(h) = Closed
    BY <1>1, BatchOfCall
  <1>4. BatchOf(h)' = Open(<<>>)
    BY <1>2 DEF BatchOf, Open
  <1>5. \A x \in Handles \ {h} : BatchOf(x)' = BatchOf(x)
    <2>1. \A b \in Addrs \ {a} : heap'[b] = heap[b]
      BY DEF TypeOK
    <2>2. /\ \A x \in Handles : job_map[x] # NULL => job_map[x] \in Addrs \ {a}
          /\ \A u \in Threads : In(u, "submit", "ioctl") => call[u].job \in Addrs \ {a}
      BY FreeUnused, CallFacts DEF TypeOK, In, Submitting, AtSubmit
    <2>3. /\ \A u \in Threads \ {t} : call'[u] = call[u]
          /\ call'[t].handle = NULL
          /\ \A x \in Handles \ {h} : job_map'[x] = job_map[x] /\ request'[x] = request[x]
      BY IdleNeeds DEF Return, TypeOK
    <2> QED
      BY <2>1, <2>2, <2>3, OthersSame
  <1> QED
    BY <1>3, <1>4, <1>5, OneBatch DEF BatchStep

LEMMA RefineAddTask ==
  ASSUME HeapInv, OwnInv, NEW t \in Threads, NEW task \in Tasks, AddTask(t, task)
  PROVE  Batch!Next
  <1> USE DEF AddTask, StoreTask, HeapInv
  <1>1. call[t].at = "critical"
    BY DEF In
  <1> PICK h \in Handles : h = call[t].handle
    BY <1>1, BatchOfCall
  <1> DEFINE a == job_map[h]
             tasks == heap[a].tasks
  <1>2. a # NULL /\ a \in Addrs /\ tasks \in Seq(Tasks) /\ BatchOf(h) = Open(tasks)
    BY <1>1, BatchOfCall
  <1>3. job_map'[h] = a /\ heap'[a].tasks = Append(tasks, task)
    BY <1>2 DEF TypeOK
  <1>4. BatchOf(h)' = Open(Append(tasks, task))
    BY <1>2, <1>3 DEF BatchOf, Open
  <1>5. \A x \in Handles \ {h} : BatchOf(x)' = BatchOf(x)
    <2>1. \A b \in Addrs \ {a} : heap'[b] = heap[b]
      BY DEF TypeOK
    <2>2. /\ \A x \in Handles \ {h} : job_map[x] # NULL => job_map[x] \in Addrs \ {a}
          /\ \A u \in Threads : In(u, "submit", "ioctl") => call[u].job \in Addrs \ {a}
      BY <1>1, BatchOfCall
    <2>3. /\ \A u \in Threads \ {t} : call'[u] = call[u]
          /\ call'[t].handle = NULL
      BY IdleNeeds DEF Return, TypeOK
    <2>4. /\ UNCHANGED <<job_map, request>>
          /\ \A x \in Handles \ {h} :
               job_map[x] # NULL => heap'[job_map[x]].tasks = heap[job_map[x]].tasks
      BY <2>1, <2>2
    <2>5. \A u \in Threads \ {t} :
            In(u, "submit", "ioctl") => heap'[call[u].job].tasks = heap[call[u].job].tasks
      BY <2>1, <2>2
    <2> HIDE DEF a, tasks
    <2> QED
      BY <2>3, <2>4, <2>5, OthersSame
  <1>6. Len(tasks) < TaskNumMax
    OBVIOUS
  <1> QED
    BY <1>2, <1>4, <1>5, <1>6, OneBatch DEF BatchStep

LEMMA RefineCancelJob ==
  ASSUME HeapInv, OwnInv, NEW t \in Threads, CancelJob(t)
  PROVE  Batch!Next \/ UNCHANGED Batches
  <1> USE DEF CancelJob, Erase, HeapInv
  <1>1. call[t].at = "critical" /\ call[t].op = "cancel"
    BY DEF In
  <1> PICK h \in Handles : h = call[t].handle
    BY <1>1, BatchOfCall
  <1>2. call[t] \in AtMutex
    BY <1>1, CallFacts
  <1>3. /\ \A u \in Threads \ {t} : call'[u] = call[u]
        /\ call'[t].handle = h /\ call'[t].op = "cancel"
    BY <1>1, <1>2 DEF Goto, TypeOK, AtMutex
  <1>4. /\ job_map'[h] = NULL /\ UNCHANGED request
        /\ \A x \in Handles \ {h} : job_map'[x] = job_map[x]
        /\ \A b \in Addrs : b # job_map[h] => heap'[b] = heap[b]
    BY DEF TypeOK
  <1>5. Senders(h) = {} /\ request[h].stage = "open"
    BY <1>1, BatchOfCall
  <1>6. Senders(h)' = {}
    BY <1>3, <1>5 DEF Senders, In
  <1>7. BatchOf(h)' = Closed
    BY <1>4, <1>5, <1>6 DEF BatchOf, Closed
  <1>8. \A x \in Handles \ {h} : BatchOf(x)' = BatchOf(x)
    BY <1>1, <1>3, <1>4, BatchOfCall, OthersSame
  <1>9. CASE job_map[h] = NULL
    <2>1. BatchOf(h)' = BatchOf(h)
      BY <1>1, <1>7, <1>9, BatchOfCall
    <2> QED
      BY <1>8, <2>1 DEF Batches
  <1>10. CASE job_map[h] # NULL
    <2>1. BatchOf(h) = Open(heap[job_map[h]].tasks)
      BY <1>1, <1>10, BatchOfCall
    <2>2. BatchOf(h).stage = "open"
      BY <2>1 DEF Open
    <2> QED
      BY <1>7, <1>8, <2>2, OneBatch DEF BatchStep
  <1> QED
    BY <1>9, <1>10

LEMMA RefineTakeJob ==
  ASSUME HeapInv, OwnInv, NEW t \in Threads, TakeJob(t)
  PROVE  Batch!Next
  <1> USE DEF TakeJob, FoundToSubmit, Erase, HeapInv
  <1>1. call[t].at = "critical" /\ call[t].op = "submit"
    BY DEF In
  <1> PICK h \in Handles : h = call[t].handle
    BY <1>1, BatchOfCall
  <1> DEFINE a == job_map[h]
             tasks == heap[a].tasks
  <1>2. a # NULL /\ a \in Addrs /\ tasks \in Seq(Tasks) /\ BatchOf(h) = Open(tasks)
    BY <1>1, BatchOfCall
  <1>3. /\ \A u \in Threads \ {t} : call'[u] = call[u]
        /\ In(t, "submit", "ioctl")' /\ call'[t].handle = h /\ call'[t].job = a
    BY DEF TypeOK, In
  <1>4. /\ job_map'[h] = NULL /\ UNCHANGED <<heap, request>>
        /\ \A x \in Handles \ {h} : job_map'[x] = job_map[x]
    BY DEF TypeOK
  <1>5. Senders(h) = {} /\ request[h].stage = "open"
    BY <1>1, BatchOfCall
  <1>6. Senders(h)' = {t}
    BY <1>3, <1>5 DEF Senders, In
  <1>7. BatchOf(h)' = Sealed(tasks)
    <2>1. (CHOOSE u \in Senders(h)' : TRUE) = t
      BY <1>6, OnlyOne
    <2> QED
      BY <1>3, <1>4, <1>5, <1>6, <2>1 DEF BatchOf, Sealed
  <1>8. \A x \in Handles \ {h} : BatchOf(x)' = BatchOf(x)
    BY <1>3, <1>4, OthersSame
  <1> QED
    BY <1>2, <1>7, <1>8, OneBatch DEF BatchStep

LEMMA RefineRequestSubmit ==
  ASSUME HeapInv, OwnInv, NEW t \in Threads, NEW sync \in BOOLEAN,
         RequestSubmit(t, sync)
  PROVE  Batch!Next
  <1> USE DEF RequestSubmit, Accepted, HeapInv
  <1> DEFINE tasks == heap[call[t].job].tasks
  <1>1. In(t, "submit", "ioctl") /\ Submitting(t) /\ UNCHANGED manager
    BY DEF In, Submitting
  <1> PICK h \in Handles : h = call[t].handle
    BY <1>1, SenderAlone
  <1>2. /\ Senders(h) = {t} /\ job_map[h] = NULL
        /\ BatchOf(h) = Sealed(tasks)
    BY <1>1, SenderAlone
  <1>3. call[t] \in AtSubmit /\ heap[call[t].job].id = h
    BY <1>1, CallFacts DEF SubmitExclusive
  <1>4. tasks \in Seq(Tasks)
    BY <1>3, TasksType DEF AtSubmit
  <1>5. /\ \A u \in Threads \ {t} : call'[u] = call[u]
        /\ call'[t].handle = h
    BY <1>3 DEF Goto, TypeOK, AtSubmit
  <1>6. /\ request'[h] = [stage |-> "running", tasks |-> tasks]
        /\ \A x \in Handles \ {h} : request'[x] = request[x]
    BY <1>3 DEF TypeOK
  <1>7. BatchOf(h)' = [stage |-> "running", tasks |-> tasks]
    BY <1>1, <1>2, <1>6 DEF BatchOf, manager
  <1>8. \A x \in Handles \ {h} : BatchOf(x)' = BatchOf(x)
    BY <1>1, <1>5, <1>6, OthersSame DEF manager
  <1> QED
    BY <1>2, <1>4, <1>7, <1>8, OneBatch DEF BatchStep

LEMMA RefineSubmitFails ==
  ASSUME HeapInv, OwnInv, NEW t \in Threads, SubmitFails(t)
  PROVE  Batch!Next
  <1> USE DEF SubmitFails, SubmitError, FaultySubmit, In, HeapInv
  <1>1. call[t].at \in {"ioctl", "wait"} /\ call[t].op = "submit" /\ UNCHANGED manager
    OBVIOUS
  <1> PICK h \in Handles : h = call[t].handle
    BY <1>1, InIoctl
  <1>2. /\ job_map[h] = NULL
        /\ request[h].stage = IF call[t].at = "wait" THEN "running" ELSE "open"
        /\ \A u \in Threads \ {t} : ~Holds(u, h)
    BY <1>1, InIoctl
  <1>3. call[t] \in AtSubmit
    BY <1>1, CallFacts DEF Submitting
  <1>4. /\ \A u \in Threads \ {t} : call'[u] = call[u]
        /\ call'[t].handle = h /\ call'[t].at = "free"
    BY <1>3 DEF Goto, TypeOK, AtSubmit
  <1>5. request' = [request EXCEPT ![h] = IF KernelKeeps THEN OpenRequest ELSE NoRequest]
    BY <1>2
  <1>6. request'[h].stage # "running" /\ \A x \in Handles \ {h} : request'[x] = request[x]
    BY <1>5 DEF OpenRequest, NoRequest, TypeOK
  <1>7. Senders(h)' = {}
    BY <1>2, <1>4 DEF Senders, In, Holds, OnCall
  <1>8. BatchOf(h)' = Closed
    BY <1>1, <1>2, <1>6, <1>7 DEF BatchOf, Closed, manager
  <1>9. BatchOf(h).stage \in {"sealed", "running"}
    <2>1. CASE call[t].at = "ioctl"
      <3>1. In(t, "submit", "ioctl")
        BY <1>1, <2>1 DEF In
      <3>2. BatchOf(h) = Sealed(heap[call[t].job].tasks)
        BY <3>1, SenderAlone
      <3> QED
        BY <3>2 DEF Sealed
    <2>2. CASE call[t].at = "wait"
      BY <1>2, <2>2 DEF BatchOf
    <2> QED
      BY <1>1, <2>1, <2>2
  <1>10. \A x \in Handles \ {h} : BatchOf(x)' = BatchOf(x)
    BY <1>1, <1>4, <1>6, OthersSame DEF manager
  <1> QED
    BY <1>8, <1>9, <1>10, OneBatch DEF BatchStep

LEMMA RefineRequestDone ==
  ASSUME HeapInv, OwnInv, NEW h \in Handles, RequestDone(h)
  PROVE  Batch!Next
  <1> USE DEF RequestDone, HeapInv
  <1>1. UNCHANGED manager
    OBVIOUS
  <1>2. \A u \in Threads :
          \/ call'[u] = call[u]
          \/ /\ call'[u].job = call[u].job /\ call'[u].handle = call[u].handle
             /\ call[u].at = "wait" /\ call'[u].at = "free"
    BY WokenFacts
  <1>3. \A x \in Handles : Senders(x)' = Senders(x)
    BY <1>2 DEF Senders, In
  <1>4. Senders(h) = {}
    BY SenderAlone DEF Senders
  <1>5. job_map[h] = NULL
    BY OwnMeansAgrees DEF KernelAgrees
  <1>6. request'[h].stage = "none" /\ \A x \in Handles \ {h} : request'[x] = request[x]
    BY DEF NoRequest, TypeOK
  <1>7. BatchOf(h)' = Closed
    BY <1>1, <1>3, <1>4, <1>5, <1>6 DEF BatchOf, Closed, manager
  <1>8. BatchOf(h).stage = "running"
    BY <1>5 DEF BatchOf
  <1>9. \A x \in Handles \ {h} : BatchOf(x)' = BatchOf(x)
    <2>1. \A x \in Handles : \A u \in Senders(x) : call'[u].job = call[u].job
      BY <1>2 DEF Senders
    <2> QED
      BY <1>1, <1>3, <1>6, <2>1, SameBatch DEF manager
  <1> QED
    BY <1>7, <1>8, <1>9, OneBatch DEF BatchStep

(* The other steps of a thread are not seen by the batches.                 *)
LEMMA Stutters ==
  ASSUME TypeOK, NEW t \in Threads,
         \A u \in Threads \ {t} : call'[u] = call[u],
         ~In(t, "submit", "ioctl"), ~In(t, "submit", "ioctl")',
         UNCHANGED job_map,
         \A x \in Handles :
            /\ request'[x].stage = "running" <=> request[x].stage = "running"
            /\ request[x].stage = "running" => request'[x] = request[x]
            /\ job_map[x] # NULL => heap'[job_map[x]].tasks = heap[job_map[x]].tasks,
         \A u \in Threads \ {t} :
            In(u, "submit", "ioctl") => heap'[call[u].job].tasks = heap[call[u].job].tasks
  PROVE  UNCHANGED Batches
  <1> SUFFICES ASSUME NEW x \in Handles
               PROVE  BatchOf(x)' = BatchOf(x)
    BY DEF Batches
  <1>1. t \notin Senders(x) /\ t \notin Senders(x)'
    BY DEF Senders
  <1>2. Senders(x)' = Senders(x)
    BY <1>1 DEF Senders, In
  <1>3. \A u \in Senders(x) : /\ call'[u].job = call[u].job
                              /\ heap'[call[u].job].tasks = heap[call[u].job].tasks
    BY <1>1 DEF Senders
  <1> QED
    BY <1>2, <1>3, SameBatch

LEMMA RefineStart ==
  ASSUME HeapInv, NEW t \in Threads, Start(t)
  PROVE  UNCHANGED Batches
  <1> USE DEF HeapInv
  <1> PICK h \in Handles : \/ RequestCreate(t, h)
                           \/ TaskEnter(t, h)
                           \/ CancelEnter(t, h)
                           \/ SubmitEnter(t, h)
                           \/ ConfigEnter(t, h)
    BY DEF Start
  <1>1. /\ call[t] = Idle /\ UNCHANGED manager
        /\ \A u \in Threads \ {t} : call'[u] = call[u]
        /\ call'[t].at = "lock"
    BY DEF RequestCreate, TaskEnter, CancelEnter, SubmitEnter, ConfigEnter, Enter, TypeOK
  <1>2. \A x \in Handles : /\ request'[x].stage = "running" <=> request[x].stage = "running"
                           /\ request[x].stage = "running" => request'[x] = request[x]
    <2>1. CASE RequestCreate(t, h)
      BY <2>1 DEF RequestCreate, NoRequest, OpenRequest, TypeOK
    <2>2. CASE ~RequestCreate(t, h)
      BY <2>2 DEF TaskEnter, CancelEnter, SubmitEnter, ConfigEnter
    <2> QED
      BY <2>1, <2>2
  <1> QED
    BY <1>1, <1>2, Stutters DEF manager, In, Idle

LEMMA RefineQuiet ==
  ASSUME HeapInv, NEW t \in Threads,
         \/ Lock(t) \/ CreateFails(t) \/ TaskRefused(t) \/ NotFound(t) \/ ReadJob(t)
  PROVE  UNCHANGED Batches
  <1> USE DEF HeapInv
  <1>1. /\ UNCHANGED <<job_map, heap, request>>
        /\ call[t].at \in {"lock", "critical"}
        /\ \A u \in Threads \ {t} : call'[u] = call[u]
    BY DEF Lock, CreateFails, CannotCreate, TaskRefused, NotFound, ReadJob, In, Goto,
           Return, ToCancel, TypeOK
  <1>2. call[t] \in AtMutex
    BY <1>1, CallFacts
  <1>3. ~In(t, "submit", "ioctl")'
    <2>1. CASE Lock(t)
      BY <1>2, <2>1 DEF Lock, Goto, TypeOK, AtMutex, In
    <2>2. CASE CreateFails(t)
      BY <1>2, <2>2 DEF CreateFails, ToCancel, TypeOK, AtMutex, In
    <2>3. CASE TaskRefused(t) \/ NotFound(t)
      BY <2>3, IdleNeeds DEF TaskRefused, NotFound, Return, TypeOK, In
    <2>4. CASE ReadJob(t)
      BY <1>2, <2>4 DEF ReadJob, TypeOK, AtMutex, In
    <2> QED
      BY <2>1, <2>2, <2>3, <2>4
  <1> QED
    BY <1>1, <1>3, Stutters DEF In

LEMMA RefineRequestConfig ==
  ASSUME HeapInv, OwnInv, NEW t \in Threads, RequestConfig(t)
  PROVE  UNCHANGED Batches
  <1> USE DEF HeapInv, RequestConfig
  <1>1. call[t].at = "ioctl" /\ call[t].op = "config" /\ UNCHANGED manager
    BY DEF In
  <1> PICK h \in Handles : h = call[t].handle
    BY <1>1, InIoctl
  <1>2. call'[t] = Idle /\ \A u \in Threads \ {t} : call'[u] = call[u]
    BY DEF Return, TypeOK
  <1>3. request[h].stage = "open" /\ request'[h].stage = "open"
    <2>1. request[h] \in Request /\ request[h].stage = "open"
      BY <1>1, InIoctl DEF TypeOK
    <2>2. CASE UNCHANGED request
      BY <2>1, <2>2
    <2>3. CASE \E read \in Reads(call[t].job, call[t].num) :
                 request' = [request EXCEPT ![h].tasks = read]
      BY <2>1, <2>3 DEF Request, TypeOK
    <2> QED
      BY <2>1, <2>2, <2>3
  <1>4. \A x \in Handles \ {h} : request'[x] = request[x]
    BY DEF TypeOK
  <1> QED
    BY <1>1, <1>2, <1>3, <1>4, IdleNeeds, Stutters DEF manager, In

LEMMA RefineRequestCancel ==
  ASSUME HeapInv, OwnInv, NEW t \in Threads, RequestCancel(t)
  PROVE  UNCHANGED Batches
  <1> USE DEF HeapInv
  <1>1. call[t].at = "ioctl" /\ call[t].op = "cancel" /\ UNCHANGED manager
    BY DEF RequestCancel, In
  <1> PICK h \in Handles : h = call[t].handle
    BY <1>1, InIoctl
  <1>2. request[h].stage = "open"
    BY <1>1, InIoctl
  <1>3. /\ request' = [request EXCEPT ![h] = NoRequest]
        /\ call'[t] = Idle /\ \A u \in Threads \ {t} : call'[u] = call[u]
    BY CancelsOpen DEF TypeOK
  <1>4. \A x \in Handles : /\ request'[x].stage = "running" <=> request[x].stage = "running"
                           /\ request[x].stage = "running" => request'[x] = request[x]
    BY <1>2, <1>3 DEF NoRequest, TypeOK
  <1> QED
    BY <1>1, <1>3, <1>4, IdleNeeds, Stutters DEF manager, In

LEMMA RefineFreeJob ==
  ASSUME HeapInv, NEW t \in Threads, FreeJob(t)
  PROVE  UNCHANGED Batches
  <1> USE DEF HeapInv, FreeJob
  <1> DEFINE a == call[t].job
  <1>1. Submitting(t)
    BY CallFacts
  <1>2. \A b \in Addrs \ {a} : heap'[b] = heap[b]
    BY DEF TypeOK
  <1>3. /\ \A x \in Handles : job_map[x] # NULL => job_map[x] \in Addrs \ {a}
        /\ \A u \in Threads \ {t} :
             In(u, "submit", "ioctl") => call[u].job \in Addrs \ {a}
    BY <1>1, CallFacts DEF SubmitExclusive, TypeOK, In, Submitting, AtSubmit
  <1>4. call'[t] = Idle /\ \A u \in Threads \ {t} : call'[u] = call[u]
    BY DEF Return, TypeOK
  <1>5. /\ \A x \in Handles :
             job_map[x] # NULL => heap'[job_map[x]].tasks = heap[job_map[x]].tasks
        /\ \A u \in Threads \ {t} :
             In(u, "submit", "ioctl") => heap'[call[u].job].tasks = heap[call[u].job].tasks
    BY <1>2, <1>3
  <1> HIDE DEF a
  <1> QED
    BY <1>4, <1>5, IdleNeeds, Stutters DEF In

LEMMA NextRefines ==
  ASSUME HeapInv, OwnInv, [Next]_vars
  PROVE  Batch!Next \/ UNCHANGED Batches
  <1>1. ASSUME NEW t \in Threads, Start(t) \/ Lock(t)
        PROVE  UNCHANGED Batches
    BY <1>1, RefineStart, RefineQuiet
  <1>2. ASSUME NEW t \in Threads, Step(t) \/ SubmitFails(t)
        PROVE  Batch!Next \/ UNCHANGED Batches
    <2>1. CASE CreateFails(t) \/ TaskRefused(t) \/ NotFound(t) \/ ReadJob(t)
      BY <2>1, RefineQuiet
    <2>2. CASE RequestConfig(t) \/ RequestCancel(t) \/ FreeJob(t)
      BY <2>2, RefineRequestConfig, RefineRequestCancel, RefineFreeJob
    <2>3. CASE \/ \E a \in Addrs : CreateJob(t, a)
               \/ \E task \in Tasks : AddTask(t, task)
      BY <2>3, RefineCreateJob, RefineAddTask
    <2>4. CASE CancelJob(t) \/ TakeJob(t)
      BY <2>4, RefineCancelJob, RefineTakeJob
    <2>5. CASE (\E sync \in BOOLEAN : RequestSubmit(t, sync)) \/ SubmitFails(t)
      BY <2>5, RefineRequestSubmit, RefineSubmitFails
    <2> QED
      BY <1>2, <2>1, <2>2, <2>3, <2>4, <2>5, NeverRefused DEF Step
  <1>3. ASSUME NEW h \in Handles, RequestDone(h)
        PROVE  Batch!Next
    BY <1>3, RefineRequestDone
  <1>4. CASE UNCHANGED vars
    BY <1>4 DEF vars, manager, Batches, BatchOf, Senders, In
  <1> QED
    BY <1>1, <1>2, <1>3, <1>4 DEF Next

(* Threads, mutex, heap and ioctls together implement the batches of        *)
(* JobBatch for clients that keep a handle to themselves: the tasks of a    *)
(* job keep their order, apart from those of other jobs, and the driver     *)
(* runs exactly the tasks that were accepted.                               *)
THEOREM JobImplementsBatch ==
  ASSUME OwnHandles
  PROVE  Spec => ImplementsBatch
  <1>1. Init => Batch!Init
    <2> SUFFICES ASSUME Init, NEW h \in Handles
                 PROVE  BatchOf(h) = Batch!Closed
      BY DEF Batch!Init
    <2>1. Senders(h) = {}
      BY DEF Init, Senders, In, Idle
    <2> QED
      BY <2>1 DEF Init, BatchOf, NoRequest, Batch!Closed
  <1>2. HeapInv /\ OwnInv /\ [Next]_vars => [Batch!Next]_Batches
    BY NextRefines
  <1> QED
    BY <1>1, <1>2, OwnInvariant, PTL DEF Spec, ImplementsBatch, Batch!Spec, Batches
=============================================================================
