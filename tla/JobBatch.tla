------------------------------ MODULE JobBatch ------------------------------
(* What the job interface of im2d (imbeginJob, im*Task, imendJob,          *)
(* imcancelJob) promises, with no threads, lock, heap or ioctl: a handle   *)
(* names a batch that collects tasks in order, is sealed once, and then    *)
(* runs exactly what it collected, or is dropped and never runs.           *)
EXTENDS Naturals, Sequences

CONSTANTS Handles, Tasks, TaskNumMax

VARIABLE batch

Stage == {"closed", "open", "sealed", "running"}

Closed == [stage |-> "closed", tasks |-> <<>>]

Init == batch = [h \in Handles |-> Closed]

Become(h, stage) == batch' = [batch EXCEPT ![h].stage = stage]

Begin(h) ==
  /\ batch[h] = Closed
  /\ Become(h, "open")

Add(h, task) ==
  /\ batch[h].stage = "open"
  /\ Len(batch[h].tasks) < TaskNumMax
  /\ batch' = [batch EXCEPT ![h].tasks = Append(@, task)]

Seal(h) ==
  /\ batch[h].stage = "open"
  /\ Become(h, "sealed")

Run(h) ==
  /\ batch[h].stage = "sealed"
  /\ Become(h, "running")

(* Cancelled while open, or refused by the driver once sealed. *)
Drop(h) ==
  /\ batch[h].stage \in {"open", "sealed"}
  /\ batch' = [batch EXCEPT ![h] = Closed]

Finish(h) ==
  /\ batch[h].stage = "running"
  /\ batch' = [batch EXCEPT ![h] = Closed]

Next ==
  \E h \in Handles :
     \/ Begin(h)
     \/ \E task \in Tasks : Add(h, task)
     \/ Seal(h)
     \/ Run(h)
     \/ Drop(h)
     \/ Finish(h)

Spec == Init /\ [][Next]_batch
=============================================================================
