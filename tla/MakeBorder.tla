----------------------------- MODULE MakeBorder -----------------------------
(* immakeBorder (im2d.cpp): one call that chains up to three submissions, a *)
(* copy of the source and one or two jobs of border tasks, by passing the   *)
(* release fence of each as the acquire fence of the next.  The hardware    *)
(* (external) runs the tasks of what was submitted in any order the fences  *)
(* allow, while another thread of the process opens and closes descriptors  *)
(* of its own.                                                              *)
EXTENDS Integers, Sequences, FiniteSets

CONSTANTS
  W, H,      \* size of the source image
  Calls,     \* the argument lists a call may have
  Faults,    \* the calls inside immakeBorder that may fail
  MaxFd      \* bound on the descriptors of the process

ASSUME BorderAssumption ==
  /\ W \in Nat \ {0} /\ H \in Nat \ {0} /\ MaxFd \in Nat \ {0}
  /\ Faults \subseteq {"copy", "begin", "task", "end", "sync"}
  /\ \A c \in Calls :
        /\ {c.top, c.bottom, c.left, c.right} \subseteq Nat
        /\ c.type \in {"CONSTANT", "REFLECT", "WRAP", "unknown"}
        /\ {c.sync, c.acquire, c.refused, c.user_close} \subseteq BOOLEAN

VARIABLES
  args,       \* the arguments of the call; user_close: the driver leaves the
              \* acquire fence of a submission to be closed by the library
  at,         \* how far the call has come
  plan,       \* the border tasks that are still to be added to the open job
  job,        \* the tasks of the job that is open
  job_open,   \* a job handle is open
  passes,     \* how many jobs of border tasks have been begun
  fence,      \* copy_fence_fd
  release,    \* *release_fence_fd
  ret,        \* what the call returned
  queue,      \* the driver: per submission the tasks to run and the fence awaited
  fdtab,      \* the descriptors of the process
  produced,   \* the producer behind the caller's acquire fence is done
  dst         \* the pixels of the target image

library == <<args, at, plan, job, job_open, passes, fence, release, ret>>
vars    == <<library, queue, fdtab, produced, dst>>

Fds == 1..MaxFd
NoFd == -1

FreeFd      == [kind |-> "free",  job |-> 0]
OtherFd     == [kind |-> "other", job |-> 0]
FenceOf(j)  == [kind |-> "fence", job |-> j]

(* The fence a caller passes in stands for submission 0. *)
NoWait == -1

Rect(x, y, w, h) == [x |-> x, y |-> y, w |-> w, h |-> h]

Width  == W + args.left + args.right
Height == H + args.top + args.bottom

Pixels == (0..Width - 1) \X (0..Height - 1)

(* Pixel values: a pixel of the source, the fill colour, or what was there. *)
Source(x, y) == 1 + x + W * y
Fill == 1 + W * H
Old  == 0
-----------------------------------------------------------------------------
(* A task fills a rectangle of dst or copies one of an image into it.       *)
FillTask(to) == [from |-> "fill", src |-> to, to |-> to, flip |-> "none"]

CopyTask(from, src, to, flip) == [from |-> from, src |-> src, to |-> to, flip |-> flip]

(* rga_check_info: a rectangle of the hardware has at least two pixels each *)
(* way and lies in its image (whose lines have no padding here).  One       *)
(* without width and height would mean the whole image: no border rectangle *)
(* is that.                                                                 *)
Fits(r, w, h) ==
  r.w >= 2 /\ r.h >= 2 /\ r.x >= 0 /\ r.y >= 0 /\ r.x + r.w <= w /\ r.y + r.h <= h

Legal(task) ==
  /\ Fits(task.to, Width, Height)
  /\ IF task.from = "src" THEN Fits(task.src, W, H) ELSE Fits(task.src, Width, Height)

Inside(x, y, r) == x \in r.x..r.x + r.w - 1 /\ y \in r.y..r.y + r.h - 1

(* The pixel a task writes at x, y of its target rectangle. *)
Value(task, x, y) ==
  LET dx == x - task.to.x
      dy == y - task.to.y
      sx == task.src.x + (IF task.flip = "H" THEN task.src.w - 1 - dx ELSE dx)
      sy == task.src.y + (IF task.flip = "V" THEN task.src.h - 1 - dy ELSE dy)
  IN CASE task.from = "fill" -> Fill
       [] task.from = "src"  -> Source(sx, sy)
       [] task.from = "dst"  -> dst[sx, sy]

Apply(task) ==
  [p \in Pixels |-> IF Inside(p[1], p[2], task.to) THEN Value(task, p[1], p[2]) ELSE dst[p]]

(* border_rect and border_src_rect. *)
TopRect    == Rect(args.left, 0, W, args.top)
BottomRect == Rect(args.left, H + args.top, W, args.bottom)
LeftRect   == Rect(0, 0, args.left, Height)
RightRect  == Rect(W + args.left, 0, args.right, Height)

When(cond, task) == IF cond THEN <<task>> ELSE <<>>

FillTasks ==
  When(args.top > 0, FillTask(TopRect)) \o When(args.bottom > 0, FillTask(BottomRect))
    \o When(args.left > 0, FillTask(LeftRect)) \o When(args.right > 0, FillTask(RightRect))

Reflect == args.type = "REFLECT"

TopBottomTasks ==
  LET flip == IF Reflect THEN "V" ELSE "none"
      top    == IF Reflect THEN Rect(0, 0, W, args.top) ELSE Rect(0, H - args.top, W, args.top)
      bottom == IF Reflect THEN Rect(0, H - args.bottom, W, args.bottom)
                ELSE Rect(0, 0, W, args.bottom)
  IN When(args.top > 0, CopyTask("src", top, TopRect, flip))
       \o When(args.bottom > 0, CopyTask("src", bottom, BottomRect, flip))

(* Both sides are submitted as soon as one of them is wanted. *)
LeftRightTasks ==
  LET flip == IF Reflect THEN "H" ELSE "none"
      left  == IF Reflect THEN Rect(args.left, 0, args.left, Height)
               ELSE Rect(RightRect.x - args.left, 0, args.left, Height)
      right == IF Reflect THEN Rect(RightRect.x - args.right, 0, args.right, Height)
               ELSE Rect(args.left, 0, args.right, Height)
  IN IF args.left > 0 \/ args.right > 0
     THEN <<CopyTask("dst", left, LeftRect, flip), CopyTask("dst", right, RightRect, flip)>>
     ELSE <<>>

TwoPasses == args.type # "CONSTANT" /\ (args.top > 0 \/ args.bottom > 0)

(* The tasks of the job that is about to be filled. *)
Plan ==
  IF args.type = "CONSTANT" THEN FillTasks
  ELSE IF TwoPasses /\ passes = 0 THEN TopBottomTasks
  ELSE LeftRightTasks

NoBorder == args.top = 0 /\ args.bottom = 0 /\ args.left = 0 /\ args.right = 0
-----------------------------------------------------------------------------
Init ==
  /\ args \in Calls
  /\ at = "copy"
  /\ plan = <<>> /\ job = <<>> /\ job_open = FALSE /\ passes = 0
  /\ fence = NoFd /\ release = NoFd
  /\ ret = "none"
  /\ queue = <<>>
  /\ fdtab = [f \in Fds |-> IF f = 1 /\ args.acquire THEN FenceOf(0) ELSE FreeFd]
  /\ produced = FALSE
  /\ dst = [p \in Pixels |-> Old]

(* The kernel hands out the lowest free descriptor. *)
NextFd(f) == fdtab[f] = FreeFd /\ \A g \in Fds : g < f => fdtab[g] # FreeFd

(* A fence signals when its submission has run, one without tasks as soon   *)
(* as what it waits for has.                                                *)
Done(j) ==
  LET done[i \in NoWait..Len(queue)] ==
        IF i = NoWait THEN TRUE
        ELSE IF i = 0 THEN produced
        ELSE queue[i].todo = {} /\ done[queue[i].wait]
  IN done[j]

(* The submission of tasks behind acquire fence a, answered with descriptor *)
(* f.  An old driver closes a; for a newer one only rga_task_submit does.   *)
Submit(tasks, a, f, closes) ==
  /\ a \in {NoFd} \cup {g \in Fds : fdtab[g].kind = "fence"}
  /\ NextFd(f)
  /\ queue' = Append(queue, [todo |-> {tasks[i] : i \in DOMAIN tasks},
                             wait |-> IF a = NoFd THEN NoWait ELSE fdtab[a].job])
  /\ fdtab' = [g \in Fds |-> IF g = f THEN FenceOf(Len(queue) + 1)
                             ELSE IF g = a /\ closes THEN FreeFd ELSE fdtab[g]]

Returns(r) == at' = "returned" /\ ret' = r

Refuse ==
  /\ at = "copy" /\ args.refused
  /\ Returns("error")
  /\ UNCHANGED <<args, plan, job, job_open, passes, fence, release, queue, fdtab, produced, dst>>

CopyOf == CopyTask("src", Rect(0, 0, W, H), Rect(args.left, args.top, W, H), "none")

Acquire == IF args.acquire THEN 1 ELSE NoFd

(* improcess(..., IM_ASYNC), then what an empty border decides. *)
Copy(f) ==
  /\ at = "copy" /\ ~args.refused
  /\ Submit(<<CopyOf>>, Acquire, f, TRUE)
  /\ fence' = f
  /\ IF NoBorder /\ ~args.sync THEN release' = f /\ Returns("success")
     ELSE /\ at' = IF NoBorder THEN "copy_sync" ELSE "begin"
          /\ UNCHANGED <<release, ret>>
  /\ UNCHANGED <<args, plan, job, job_open, passes, produced, dst>>

(* Mutant: an error return that does not cancel. *)
GivesUp_Leaves ==
  /\ Returns("error")
  /\ UNCHANGED <<args, plan, job, job_open, passes, fence, release, queue, fdtab, produced, dst>>

(* The error path: nothing is closed, the open job is cancelled. *)
GivesUp ==
  /\ job' = <<>> /\ job_open' = FALSE
  /\ Returns("error")
  /\ UNCHANGED <<args, plan, passes, fence, release, queue, fdtab, produced, dst>>

(* What must fail: a task the hardware cannot do, and a poll of a           *)
(* descriptor that is closed.                                               *)
Impossible ==
  \/ at = "tasks" /\ plan # <<>> /\ ~Legal(Head(plan))
  \/ at \in {"copy_sync", "last_sync"} /\ fdtab[fence] = FreeFd

(* Mutant: what was refused is tried again. *)
Refused_Retries == Impossible /\ UNCHANGED vars

Refused == Impossible /\ GivesUp

(* Fault at the call that is next, on top of that. *)
Fails ==
  /\ \/ at = "copy" /\ ~args.refused /\ "copy" \in Faults
     \/ at = "begin" /\ "begin" \in Faults
     \/ at = "tasks" /\ plan # <<>> /\ "task" \in Faults
     \/ at = "tasks" /\ plan = <<>> /\ "end" \in Faults
     \/ at \in {"copy_sync", "last_sync"} /\ "sync" \in Faults
     \/ at = "end_sync" /\ "end" \in Faults
  /\ GivesUp

(* imsync: a descriptor that is not a fence of ours may be ready, too. *)
Waited ==
  /\ fdtab[fence].kind = "fence" => Done(fdtab[fence].job)
  /\ fdtab[fence].kind # "free"
  /\ fdtab' = [fdtab EXCEPT ![fence] = FreeFd]

CopySync ==
  /\ at = "copy_sync"
  /\ Waited
  /\ at' = "begin"
  /\ UNCHANGED <<args, plan, job, job_open, passes, fence, release, ret, queue, produced, dst>>

(* imbeginJob; an unknown type ends in imcancelJob, whose success is what   *)
(* the call returns.                                                        *)
Begin ==
  /\ at = "begin"
  /\ IF args.type = "unknown"
     THEN Returns("success") /\ UNCHANGED <<plan, job_open, passes>>
     ELSE /\ plan' = Plan
          /\ job_open' = TRUE
          /\ passes' = passes + 1
          /\ at' = "tasks"
          /\ UNCHANGED ret
  /\ UNCHANGED <<args, job, fence, release, queue, fdtab, produced, dst>>

AddBorder ==
  /\ at = "tasks" /\ plan # <<>>
  /\ Legal(Head(plan))
  /\ job' = Append(job, Head(plan))
  /\ plan' = Tail(plan)
  /\ UNCHANGED <<args, at, job_open, passes, fence, release, ret, queue, fdtab, produced, dst>>

FirstPass == TwoPasses /\ passes = 1

(* Mutant: copy_fence_fd still names the copy's fence. *)
EndFirst_Stale(f) ==
  /\ at = "tasks" /\ plan = <<>> /\ FirstPass
  /\ Submit(job, fence, f, ~args.user_close)
  /\ job' = <<>> /\ job_open' = FALSE
  /\ at' = "begin"
  /\ UNCHANGED <<args, plan, passes, fence, release, ret, produced, dst>>

(* The job of top and bottom, behind the copy; its fence takes the place of *)
(* the copy's.                                                              *)
EndFirst(f) ==
  /\ at = "tasks" /\ plan = <<>> /\ FirstPass
  /\ Submit(job, fence, f, ~args.user_close)
  /\ fence' = f
  /\ job' = <<>> /\ job_open' = FALSE
  /\ at' = "begin"
  /\ UNCHANGED <<args, plan, passes, release, ret, produced, dst>>

(* sync = 0: the last job goes out behind the fence of what it depends on.  *)
EndAsync(f) ==
  /\ at = "tasks" /\ plan = <<>> /\ ~FirstPass /\ ~args.sync
  /\ Submit(job, fence, f, ~args.user_close)
  /\ release' = f
  /\ job' = <<>> /\ job_open' = FALSE
  /\ Returns("success")
  /\ UNCHANGED <<args, plan, passes, fence, produced, dst>>

(* sync = 1: wait for it first. *)
LastSync ==
  /\ at = "tasks" /\ plan = <<>> /\ ~FirstPass /\ args.sync
  /\ at' = "last_sync"
  /\ UNCHANGED <<args, plan, job, job_open, passes, fence, release, ret, queue, fdtab, produced, dst>>

EndSync ==
  /\ at = "last_sync"
  /\ Waited
  /\ queue' = Append(queue, [todo |-> {job[i] : i \in DOMAIN job}, wait |-> NoWait])
  /\ at' = "end_sync"
  /\ UNCHANGED <<args, plan, job, job_open, passes, fence, release, ret, produced, dst>>

(* RGA_BLIT_SYNC: the ioctl comes back when the job is done. *)
EndReturns ==
  /\ at = "end_sync"
  /\ Done(Len(queue))
  /\ job' = <<>> /\ job_open' = FALSE
  /\ Returns("success")
  /\ UNCHANGED <<args, plan, passes, fence, release, queue, fdtab, produced, dst>>
-----------------------------------------------------------------------------
(* External: the hardware, the producer, and another thread. *)
RunTask(j) ==
  /\ Done(queue[j].wait)
  /\ \E task \in queue[j].todo :
        /\ dst' = Apply(task)
        /\ queue' = [queue EXCEPT ![j].todo = @ \ {task}]
  /\ UNCHANGED <<library, fdtab, produced>>

Produce ==
  /\ args.acquire /\ ~produced
  /\ produced' = TRUE
  /\ UNCHANGED <<library, queue, fdtab, dst>>

OtherThread(f) ==
  /\ at # "returned"
  /\ \/ NextFd(f) /\ (\A g \in Fds : fdtab[g] # OtherFd) /\ fdtab' = [fdtab EXCEPT ![f] = OtherFd]
     \/ fdtab[f] = OtherFd /\ fdtab' = [fdtab EXCEPT ![f] = FreeFd]
  /\ UNCHANGED <<library, queue, produced, dst>>

Library ==
  \/ Refuse \/ Refused
  \/ \E f \in Fds : Copy(f) \/ EndFirst(f) \/ EndAsync(f)
  \/ CopySync \/ Begin \/ AddBorder \/ LastSync \/ EndSync \/ EndReturns

Hardware == \E j \in DOMAIN queue : RunTask(j)

Next == Library \/ Fails \/ Hardware \/ Produce \/ \E f \in Fds : OtherThread(f)

Spec == Init /\ [][Next]_vars

(* imsync has come upon a descriptor of another thread. *)
PollsOther == at \in {"copy_sync", "last_sync"} /\ fdtab[fence] = OtherFd

(* The call runs, the hardware runs what it may, producers finish; but no   *)
(* fault need happen, and another thread's descriptor need never be ready.  *)
FairSpec ==
  Spec /\ WF_vars(Library /\ ~PollsOther) /\ WF_vars(Hardware) /\ WF_vars(Produce)
-----------------------------------------------------------------------------
(* The picture the documentation draws: constant  iiiiii abcdefgh iiiiiii,  *)
(* reflect  fedcba abcdefgh hgfedcb,  wrap  cdefgh abcdefgh abcdefg.        *)
Fold(i, n) ==
  IF i \in 0..n - 1 THEN i
  ELSE IF args.type = "WRAP" THEN i % n
  ELSE IF i < 0 THEN -1 - i ELSE 2 * n - 1 - i

Wanted(x, y) ==
  LET sx == x - args.left
      sy == y - args.top
  IN IF args.type = "CONSTANT" /\ ~(sx \in 0..W - 1 /\ sy \in 0..H - 1) THEN Fill
     ELSE Source(Fold(sx, W), Fold(sy, H))

(* The result can be used: the call is back, and its release fence, if it   *)
(* has one, has signalled.                                                  *)
Ready == ret = "success" /\ (release # NoFd => Done(fdtab[release].job))

(* immakeBorder draws the border it is asked for, whatever the order in     *)
(* which the hardware runs the tasks: no task reads pixels that another     *)
(* one has still to write, and none is overtaken.                           *)
BorderDrawn ==
  Ready /\ args.type # "unknown" =>
    \A p \in Pixels : dst[p] = Wanted(p[1], p[2])

(* imsync waits for, and closes, a fence of this call: never a descriptor   *)
(* it has closed before, which another thread may have got since.  A call   *)
(* without any border waits twice and is an exception (see LegalSucceeds).  *)
OwnFenceOnly ==
  at \in {"copy_sync", "last_sync"} /\ ~NoBorder => fdtab[fence].kind = "fence"

(* By whatever way the call returns, no job stays open; and with a driver   *)
(* that closes acquire fences a successful call leaves no fence behind but  *)
(* the one it hands out, the caller's included.                             *)
NothingLeft ==
  /\ at = "returned" => ~job_open
  /\ ret = "success" /\ ~args.user_close /\ args.type # "unknown" =>
       \A f \in Fds : fdtab[f].kind = "fence" => f = release

(* The call returns, even if nothing ever fails: no submission waits for    *)
(* itself, no imsync for a fence that is closed or never signals.  The call *)
(* without any border is an exception again: its second imsync polls a      *)
(* number that another thread may have got meanwhile, for ever.             *)
CallReturns == ~(NoBorder /\ args.sync) => <>(at = "returned")

(* Without faults, a border the documentation allows is drawn. *)
LegalSucceeds == at = "returned" => ret = "success"
=============================================================================
