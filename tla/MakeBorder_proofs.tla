--------------------------- MODULE MakeBorder_proofs ---------------------------
(* Proofs about MakeBorder: for any image, borders, faults and number of    *)
(* descriptors, what becomes of the fences that chain the submissions, with *)
(* another thread opening and closing descriptors in between; and what is   *)
(* in dst when the call is done, in whatever order the hardware ran the     *)
(* tasks.                                                                   *)
EXTENDS MakeBorder, TLAPS

Stages == {"copy", "copy_sync", "begin", "tasks", "last_sync", "end_sync", "returned"}

FenceTypes ==
  /\ args \in Calls
  /\ at \in Stages
  /\ DOMAIN fdtab = Fds
  /\ job_open \in BOOLEAN
  /\ ret \in {"none", "error", "success"}

IsFence(f) == fdtab[f].kind = "fence"

(* From the copy to the last submission copy_fence_fd is an open fence; a   *)
(* call without a border, which waits for it at once, keeps the number of a *)
(* descriptor it has closed.                                                *)
FenceHeld ==
  /\ at \in {"copy_sync", "begin", "tasks", "last_sync"} => fence \in Fds
  /\ at = "copy_sync" => NoBorder
  /\ at \in {"begin", "tasks", "last_sync"} /\ ~NoBorder => IsFence(fence)

JobOpen == job_open => at \in {"tasks", "last_sync", "end_sync"}

(* The descriptors that are fences: the caller's, then the one that is      *)
(* passed on, then the one that is handed out.                              *)
Closes == ~args.user_close /\ args.type # "unknown"

Expected(f) ==
  \/ at = "copy" /\ f = Acquire
  \/ at \in {"copy_sync", "begin", "tasks", "last_sync"} /\ f = fence
  \/ at = "returned" /\ (ret = "success" => f = release)

OneFence ==
  /\ ret = "none" <=> at # "returned"
  /\ Closes => \A f \in Fds : IsFence(f) => Expected(f)

Inv == FenceTypes /\ FenceHeld /\ JobOpen /\ OneFence
-----------------------------------------------------------------------------
LEMMA DescriptorFacts ==
  /\ \A j : FenceOf(j).kind = "fence"
  /\ FreeFd.kind = "free" /\ OtherFd.kind = "other"
  /\ NoFd \notin Fds
  BY BorderAssumption DEF FreeFd, OtherFd, FenceOf, NoFd, Fds

LEMMA InitInv == Init => Inv
  <1> SUFFICES ASSUME Init PROVE Inv
    OBVIOUS
  <1>1. FenceTypes /\ FenceHeld /\ JobOpen
    BY DEF Init, FenceTypes, FenceHeld, JobOpen, Stages
  <1>2. \A f \in Fds : IsFence(f) => f = Acquire
    BY DescriptorFacts DEF Init, IsFence, Acquire
  <1>3. at = "copy" /\ ret = "none"
    BY DEF Init
  <1> QED
    BY <1>1, <1>2, <1>3 DEF Inv, OneFence, Expected

(* What a submission makes of the descriptors.                              *)
LEMMA SubmitFacts ==
  ASSUME FenceTypes, NEW tasks, NEW a, NEW f \in Fds, NEW closes,
         Submit(tasks, a, f, closes)
  PROVE  /\ DOMAIN fdtab' = Fds
         /\ IsFence(f)' /\ ~IsFence(f)
         /\ \A g \in Fds : IsFence(g)' => g = f \/ (IsFence(g) /\ ~(g = a /\ closes))
         /\ a = NoFd \/ IsFence(a)
  BY DescriptorFacts DEF Submit, FenceTypes, NextFd, IsFence

(* What waiting for copy_fence_fd makes of them.                            *)
LEMMA WaitedFacts ==
  ASSUME FenceTypes, fence \in Fds, Waited
  PROVE  /\ DOMAIN fdtab' = Fds
         /\ \A g \in Fds : IsFence(g)' <=> IsFence(g) /\ g # fence
  BY DescriptorFacts DEF Waited, FenceTypes, IsFence

(* A submission that passes copy_fence_fd on.                               *)
LEMMA PassedOn ==
  ASSUME Inv, at \in {"begin", "tasks", "last_sync"}, NEW tasks, NEW f \in Fds,
         Submit(tasks, fence, f, ~args.user_close), Closes
  PROVE  \A g \in Fds : IsFence(g)' => g = f
  <1>1. \A g \in Fds : IsFence(g) => g = fence
    BY DEF Inv, OneFence, Expected
  <1>2. FenceTypes
    BY DEF Inv
  <1>3. \A g \in Fds : IsFence(g)' => g = f \/ (IsFence(g) /\ ~(g = fence /\ ~args.user_close))
    BY <1>2, SubmitFacts
  <1> QED
    BY <1>1, <1>3 DEF Closes

LEMMA NextInv == Inv /\ [Next]_vars => Inv'
  <1> SUFFICES ASSUME Inv, [Next]_vars PROVE Inv'
    OBVIOUS
  <1>0. FenceTypes /\ FenceHeld /\ JobOpen /\ OneFence
    BY DEF Inv
  <1> USE DEF Stages
  <1>1. CASE Refuse
    BY <1>0, <1>1 DEF Refuse, Returns, Inv, FenceTypes, FenceHeld, JobOpen, OneFence, Expected, IsFence,
       Closes, NoBorder, Acquire
  <1>2. CASE Refused \/ Fails
    BY <1>0, <1>2 DEF Refused, Fails, GivesUp, Returns, Inv, FenceTypes, FenceHeld, JobOpen, OneFence, Expected, IsFence,
       Closes, NoBorder, Acquire
  <1>3. ASSUME NEW f \in Fds, Copy(f) PROVE Inv'
    <2>1. /\ at = "copy" /\ fence' = f /\ args' = args /\ job_open' = job_open
          /\ Submit(<<CopyOf>>, Acquire, f, TRUE)
          /\ \/ NoBorder /\ ~args.sync /\ release' = f /\ at' = "returned" /\ ret' = "success"
             \/ NoBorder /\ at' = "copy_sync" /\ ret' = ret
             \/ ~NoBorder /\ at' = "begin" /\ ret' = ret
      BY <1>3 DEF Copy, Returns
    <2> DEFINE a == Acquire
    <2>2. /\ DOMAIN fdtab' = Fds /\ IsFence(f)'
          /\ \A g \in Fds : IsFence(g)' => g = f \/ (IsFence(g) /\ g # Acquire)
      <3>1. Submit(<<CopyOf>>, a, f, TRUE)
        BY <2>1
      <3> HIDE DEF a
      <3>2. /\ DOMAIN fdtab' = Fds /\ IsFence(f)'
            /\ \A g \in Fds : IsFence(g)' => g = f \/ (IsFence(g) /\ ~(g = a /\ TRUE))
        BY <1>0, <3>1, SubmitFacts
      <3> QED
        BY <3>2 DEF a
    <2>3. Closes => \A g \in Fds : IsFence(g)' => g = f
      BY <1>0, <2>1, <2>2 DEF OneFence, Expected
    <2>4. NoBorder' = NoBorder /\ Closes' = Closes
      BY <2>1 DEF NoBorder, Closes
    <2> QED
      BY <1>0, <2>1, <2>2, <2>3, <2>4
      DEF Inv, FenceTypes, FenceHeld, JobOpen, OneFence, Expected, IsFence
  <1>4. ASSUME NEW f \in Fds, EndFirst(f) PROVE Inv'
    <2>1. /\ at = "tasks" /\ fence' = f /\ args' = args /\ job_open' = FALSE /\ at' = "begin"
          /\ ret' = ret /\ Submit(job, fence, f, ~args.user_close)
      BY <1>4 DEF EndFirst
    <2>2. DOMAIN fdtab' = Fds /\ IsFence(f)'
      BY <1>0, <2>1, SubmitFacts
    <2>3. Closes => \A g \in Fds : IsFence(g)' => g = f
      BY <2>1, PassedOn
    <2>4. Closes' = Closes
      BY <2>1 DEF Closes
    <2> QED
      BY <1>0, <2>1, <2>2, <2>3, <2>4
      DEF Inv, FenceTypes, FenceHeld, JobOpen, OneFence, Expected, IsFence
  <1>5. ASSUME NEW f \in Fds, EndAsync(f) PROVE Inv'
    <2>1. /\ at = "tasks" /\ args' = args /\ job_open' = FALSE /\ at' = "returned"
          /\ ret' = "success" /\ release' = f /\ Submit(job, fence, f, ~args.user_close)
      BY <1>5 DEF EndAsync, Returns
    <2>2. DOMAIN fdtab' = Fds
      BY <1>0, <2>1, SubmitFacts
    <2>3. Closes => \A g \in Fds : IsFence(g)' => g = f
      BY <2>1, PassedOn
    <2>4. Closes' = Closes
      BY <2>1 DEF Closes
    <2> QED
      BY <1>0, <2>1, <2>2, <2>3, <2>4
      DEF Inv, FenceTypes, FenceHeld, JobOpen, OneFence, Expected, IsFence
  <1>6. CASE CopySync
    <2>1. /\ at = "copy_sync" /\ at' = "begin" /\ Waited /\ fence' = fence /\ args' = args
          /\ job_open' = job_open /\ ret' = ret /\ fence \in Fds /\ NoBorder
      BY <1>0, <1>6 DEF CopySync, FenceHeld
    <2>2. DOMAIN fdtab' = Fds /\ \A g \in Fds : IsFence(g)' => IsFence(g)
      BY <1>0, <2>1, WaitedFacts
    <2>3. NoBorder' /\ Closes' = Closes
      BY <2>1 DEF NoBorder, Closes
    <2> QED
      BY <1>0, <2>1, <2>2, <2>3
      DEF Inv, FenceTypes, FenceHeld, JobOpen, OneFence, Expected, IsFence
  <1>7. CASE EndSync
    <2>1. /\ at = "last_sync" /\ at' = "end_sync" /\ Waited /\ fence' = fence /\ args' = args
          /\ job_open' = job_open /\ ret' = ret /\ fence \in Fds
      BY <1>0, <1>7 DEF EndSync, FenceHeld
    <2>2. DOMAIN fdtab' = Fds /\ \A g \in Fds : IsFence(g)' => IsFence(g) /\ g # fence
      BY <1>0, <2>1, WaitedFacts
    <2>3. Closes' = Closes
      BY <2>1 DEF Closes
    <2>4. Closes => \A g \in Fds : ~IsFence(g)'
      BY <1>0, <2>1, <2>2 DEF OneFence, Expected
    <2> QED
      BY <1>0, <2>1, <2>2, <2>3, <2>4
      DEF Inv, FenceTypes, FenceHeld, JobOpen, OneFence, Expected, IsFence
  <1>8. CASE Begin
    <2>1. /\ at = "begin" /\ args' = args /\ fdtab' = fdtab /\ fence' = fence /\ release' = release
          /\ \/ args.type = "unknown" /\ at' = "returned" /\ ret' = "success" /\ job_open' = job_open
             \/ at' = "tasks" /\ job_open' = TRUE /\ ret' = ret
      BY <1>8 DEF Begin, Returns
    <2>2. NoBorder' = NoBorder /\ Closes' = Closes
      BY <2>1 DEF NoBorder, Closes
    <2>3. CASE at' = "returned"
      <3>1. ~job_open' /\ ~Closes'
        BY <1>0, <2>1, <2>2, <2>3 DEF JobOpen, FenceTypes, Closes
      <3> QED
        BY <1>0, <2>1, <2>3, <3>1 DEF Inv, FenceTypes, FenceHeld, JobOpen, OneFence
    <2>4. CASE at' = "tasks"
      BY <1>0, <2>1, <2>2, <2>4
      DEF Inv, FenceTypes, FenceHeld, JobOpen, OneFence, Expected, IsFence
    <2> QED
      BY <2>1, <2>3, <2>4
  <1>9. CASE AddBorder \/ LastSync
    BY <1>0, <1>9 DEF AddBorder, LastSync, Inv, FenceTypes, FenceHeld, JobOpen, OneFence, Expected, IsFence,
       Closes, NoBorder, Acquire
  <1>10. CASE EndReturns
    BY <1>0, <1>10 DEF EndReturns, Returns, Inv, FenceTypes, FenceHeld, JobOpen, OneFence, Expected, IsFence,
       Closes, NoBorder, Acquire
  <1>11. ASSUME UNCHANGED library, UNCHANGED fdtab PROVE Inv'
    BY <1>0, <1>11 DEF library, Inv, FenceTypes, FenceHeld, JobOpen, OneFence, Expected, IsFence,
       Closes, NoBorder, Acquire
  <1>12. ASSUME NEW f \in Fds, OtherThread(f) PROVE Inv'
    <2>1. /\ UNCHANGED library /\ DOMAIN fdtab' = Fds
          /\ \A g \in Fds : IsFence(g)' <=> IsFence(g)
      BY <1>0, <1>12, DescriptorFacts DEF OtherThread, NextFd, FenceTypes, IsFence
    <2> QED
      BY <1>0, <2>1 DEF library, Inv, FenceTypes, FenceHeld, JobOpen, OneFence, Expected, IsFence,
       Closes, NoBorder, Acquire
  <1>13. Hardware \/ Produce => UNCHANGED library /\ UNCHANGED fdtab
    BY DEF Hardware, RunTask, Produce
  <1>14. UNCHANGED vars => UNCHANGED library /\ UNCHANGED fdtab
    BY DEF vars
  <1> QED
    BY <1>1, <1>2, <1>3, <1>4, <1>5, <1>6, <1>7, <1>8, <1>9, <1>10, <1>11, <1>12, <1>13, <1>14
    DEF Next, Library

LEMMA BorderInv == Spec => []Inv
  BY InitInv, NextInv, PTL DEF Spec

(* Whatever fails and whatever the other threads of the process open and    *)
(* close: imsync is called on a fence of this call.                         *)
THEOREM BorderOwnFenceOnly == Spec => []OwnFenceOnly
  <1>1. Inv => OwnFenceOnly
    BY DEF Inv, FenceHeld, IsFence, OwnFenceOnly
  <1> QED
    BY <1>1, BorderInv, PTL

(* By whatever way the call returns no job stays open, and with a driver    *)
(* that closes acquire fences a call that succeeds leaves no fence but the  *)
(* one it hands out.                                                        *)
THEOREM BorderNothingLeft == Spec => []NothingLeft
  <1>1. Inv => NothingLeft
    BY DEF Inv, FenceTypes, JobOpen, OneFence, Expected, Closes, IsFence, NothingLeft
  <1> QED
    BY <1>1, BorderInv, PTL
-----------------------------------------------------------------------------
(* The picture.  Of the limits the documentation sets for a border that is  *)
(* made of pixels of the source, the two that immakeBorder leaves to the    *)
(* caller; those above and below are rga_check_info's.                      *)
SidesWithin ==
  \A c \in Calls : c.type \in {"REFLECT", "WRAP"} => c.left <= W /\ c.right <= W

(* What the call submits, first to last.                                    *)
LastTasks == IF args.type = "CONSTANT" THEN FillTasks ELSE LeftRightTasks

Submission(j) ==
  IF j = 1 THEN <<CopyOf>> ELSE IF j = 2 /\ TwoPasses THEN TopBottomTasks ELSE LastTasks

Submissions == IF TwoPasses THEN 3 ELSE 2

Tasks(s) == {s[i] : i \in DOMAIN s}

AllTasks == UNION {Tasks(Submission(j)) : j \in 1..3}

Fine == ret # "error" /\ args.type # "unknown"

(* How many submissions there are at each point of the call.                *)
Counted ==
  /\ at \in {"copy", "copy_sync", "begin"} => passes = Len(queue) - (IF at = "copy" THEN 0 ELSE 1)
  /\ at = "copy" => queue = <<>>
  /\ at = "copy_sync" => Len(queue) = 1
  /\ at = "begin" => Len(queue) \in 1..Submissions - 1
  /\ at \in {"tasks", "last_sync"} => passes = Len(queue) /\ Len(queue) \in 1..Submissions - 1
  /\ at = "last_sync" => Len(queue) = Submissions - 1
  /\ at = "end_sync" => Len(queue) = Submissions
  /\ at = "returned" => Len(queue) = Submissions \/ (NoBorder /\ Len(queue) = 1)

(* The open job and what is still to be added to it.                        *)
Filling ==
  /\ job \in Seq(AllTasks) /\ plan \in Seq(AllTasks)
  /\ at \in {"copy", "copy_sync", "begin"} => job = <<>>
  /\ at = "tasks" => job \o plan = Submission(Len(queue) + 1)
  /\ at = "last_sync" => job = Submission(Len(queue) + 1)
  /\ \A t \in Tasks(job) : Legal(t)

(* The submissions, of which each waits for the one before, or for nothing  *)
(* because all before it have run.                                          *)
Ran(j) == \A i \in 1..j : queue[i].todo = {}

Chained ==
  /\ queue \in Seq([todo : SUBSET AllTasks, wait : Int])
  /\ \A j \in DOMAIN queue : queue[j].todo \subseteq {t \in Tasks(Submission(j)) : j # 1 => Legal(t)}
  /\ queue # <<>> => queue[1].wait \in {NoWait, 0}
  /\ \A j \in 2..Len(queue) : queue[j].wait = j - 1 \/ (queue[j].wait = NoWait /\ Ran(j - 1))

(* What is passed on is the fence of the last submission.                   *)
PassesOn ==
  /\ at = "copy" /\ args.acquire => fdtab[1] = FenceOf(0)
  /\ at = "copy_sync" => args.sync /\ fdtab[fence] = FenceOf(1)
  /\ at \in {"begin", "tasks", "last_sync"} =>
       IF NoBorder THEN args.sync /\ Ran(1) ELSE fdtab[fence] = FenceOf(Len(queue))
  /\ at = "end_sync" => queue[Len(queue)].wait = NoWait
  /\ at # "returned" => release = NoFd
  /\ at = "returned" =>
       IF release = NoFd THEN Ran(Len(queue))
       ELSE release \in Fds /\ fdtab[release] = FenceOf(Len(queue))

(* Where a task has run, the picture is right.                              *)
Right(r) == \A p \in Pixels : Inside(p[1], p[2], r) => dst[p] = Wanted(p[1], p[2])

Painted ==
  /\ DOMAIN dst = Pixels
  /\ \A j \in DOMAIN queue : \A t \in Tasks(Submission(j)) \ queue[j].todo : Right(t.to)

Picture == Fine => Counted /\ Filling /\ Chained /\ PassesOn /\ Painted
-----------------------------------------------------------------------------
LEMMA ArgTypes ==
  ASSUME args \in Calls
  PROVE  /\ args.top \in Nat /\ args.bottom \in Nat /\ args.left \in Nat /\ args.right \in Nat
         /\ args.type \in {"CONSTANT", "REFLECT", "WRAP", "unknown"}
         /\ W \in Nat /\ W >= 1 /\ H \in Nat /\ H >= 1
         /\ Width \in Nat /\ Height \in Nat
  BY BorderAssumption DEF Width, Height

(* The function a fence is done by, unfolded.                               *)
QueueShape ==
  /\ Len(queue) \in 0..3
  /\ DOMAIN queue = 1..Len(queue)
  /\ queue # <<>> => queue[1].wait \in {NoWait, 0}
  /\ \A j \in 2..Len(queue) : queue[j].wait \in {NoWait, j - 1}

Signals(d) ==
  [i \in NoWait..Len(queue) |->
     IF i = NoWait THEN TRUE
     ELSE IF i = 0 THEN produced
     ELSE queue[i].todo = {} /\ d[queue[i].wait]]

LEMMA DoneUnfolded ==
  ASSUME QueueShape
  PROVE  \A j \in 1..Len(queue) : Done(j) => queue[j].todo = {} /\ Done(queue[j].wait)
  <1> DEFINE w(i) == queue[i].wait
             t(i) == queue[i].todo = {}
             f1 == t(1) /\ (w(1) = NoWait \/ produced)
             f2 == t(2) /\ (w(2) = NoWait \/ f1)
             f3 == t(3) /\ (w(3) = NoWait \/ f2)
             d0 == [i \in NoWait..Len(queue) |->
                      CASE i = NoWait -> TRUE [] i = 0 -> produced
                        [] i = 1 -> f1 [] i = 2 -> f2 [] i = 3 -> f3]
             d == CHOOSE f : f = Signals(f)
             IsTrue(x) == IF x THEN TRUE ELSE FALSE
  <1>1. \E f : f = Signals(f)
    <2>1. d0 = Signals(d0)
      <3> SUFFICES ASSUME NEW i \in NoWait..Len(queue)
                   PROVE  d0[i] = Signals(d0)[i]
        BY DEF Signals
      <3>1. CASE i = NoWait
        BY <3>1 DEF Signals, NoWait
      <3>2. CASE i = 0
        BY <3>2 DEF Signals, NoWait
      <3>3. CASE i = 1
        BY <3>3 DEF Signals, NoWait, QueueShape
      <3>4. CASE i = 2
        <4>1. 2 \in 2..Len(queue) /\ 1 \in NoWait..Len(queue) /\ NoWait \in NoWait..Len(queue)
          BY <3>4 DEF NoWait, QueueShape
        <4>2. w(2) \in {NoWait, 1}
          BY <4>1 DEF QueueShape
        <4> HIDE DEF f1, f2, f3
        <4>3. d0[1] = f1 /\ d0[NoWait] = TRUE /\ d0[2] = f2
          BY <4>1, <3>4 DEF NoWait
        <4> HIDE DEF d0
        <4>4. Signals(d0)[2] = (queue[2].todo = {} /\ d0[queue[2].wait])
          BY <3>4 DEF Signals, NoWait
        <4>7. f2 = (t(2) /\ (w(2) = NoWait \/ f1))
          BY DEF f2
        <4>5. CASE w(2) = NoWait
          BY <3>4, <4>3, <4>4, <4>5, <4>7
        <4>6. CASE w(2) = 1
          BY <3>4, <4>3, <4>4, <4>6, <4>7 DEF NoWait
        <4> QED
          BY <4>2, <4>5, <4>6
      <3>5. CASE i = 3
        <4>1. 3 \in 2..Len(queue) /\ 2 \in NoWait..Len(queue) /\ NoWait \in NoWait..Len(queue)
          BY <3>5 DEF NoWait, QueueShape
        <4>2. w(3) \in {NoWait, 2}
          BY <4>1 DEF QueueShape
        <4> HIDE DEF f1, f2, f3
        <4>3. d0[2] = f2 /\ d0[NoWait] = TRUE /\ d0[3] = f3
          BY <4>1, <3>5 DEF NoWait
        <4> HIDE DEF d0
        <4>4. Signals(d0)[3] = (queue[3].todo = {} /\ d0[queue[3].wait])
          BY <3>5 DEF Signals, NoWait
        <4>7. f3 = (t(3) /\ (w(3) = NoWait \/ f2))
          BY DEF f3
        <4>5. CASE w(3) = NoWait
          BY <3>5, <4>3, <4>4, <4>5, <4>7
        <4>6. CASE w(3) = 2
          BY <3>5, <4>3, <4>4, <4>6, <4>7 DEF NoWait
        <4> QED
          BY <4>2, <4>5, <4>6
      <3> QED
        BY <3>1, <3>2, <3>3, <3>4, <3>5 DEF QueueShape, NoWait
    <2> QED
      BY <2>1
  <1>2. d = Signals(d)
    BY <1>1
  <1>3. \A j : Done(j) <=> d[j]
    BY DEF Done, Signals
  <1> HIDE DEF d
  <1>4. \A j \in 1..Len(queue) : j \in NoWait..Len(queue) /\ j # NoWait /\ j # 0
    BY DEF QueueShape, NoWait
  <1> QED
    BY <1>2, <1>3, <1>4 DEF Signals

LEMMA TasksConcat ==
  ASSUME NEW S, NEW a \in Seq(S), NEW b \in Seq(S)
  PROVE  a \o b \in Seq(S) /\ Tasks(a \o b) = Tasks(a) \cup Tasks(b)
  <1>1. a \o b \in Seq(S) /\ Len(a \o b) = Len(a) + Len(b)
    OBVIOUS
  <1>2. Tasks(a \o b) \subseteq Tasks(a) \cup Tasks(b)
    BY <1>1 DEF Tasks
  <1>3. Tasks(a) \subseteq Tasks(a \o b)
    BY <1>1 DEF Tasks
  <1>4. ASSUME NEW i \in DOMAIN b PROVE b[i] \in Tasks(a \o b)
    <2>1. Len(a) + i \in DOMAIN (a \o b) /\ (a \o b)[Len(a) + i] = b[i]
      BY <1>1
    <2> QED
      BY <2>1 DEF Tasks
  <1> QED
    BY <1>1, <1>2, <1>3, <1>4 DEF Tasks

LEMMA TasksWhen ==
  ASSUME NEW S, NEW c \in BOOLEAN, NEW t \in S
  PROVE  /\ When(c, t) \in Seq(S)
         /\ \A u : u \in Tasks(When(c, t)) <=> c /\ u = t
  <1>1. CASE c
    <2>1. When(c, t) = <<t>> /\ <<t>> \in Seq(S)
      BY <1>1 DEF When
    <2>2. DOMAIN <<t>> = {1} /\ <<t>>[1] = t
      OBVIOUS
    <2> QED
      BY <1>1, <2>1, <2>2 DEF Tasks
  <1>2. CASE ~c
    <2>1. When(c, t) = <<>> /\ <<>> \in Seq(S) /\ DOMAIN <<>> = {}
      BY <1>2 DEF When
    <2> QED
      BY <1>2, <2>1 DEF Tasks
  <1> QED
    BY <1>1, <1>2

(* The border tasks by name.                                                *)
Sideways == IF Reflect THEN "H" ELSE "none"
Upright  == IF Reflect THEN "V" ELSE "none"

TopTask ==
  CopyTask("src", IF Reflect THEN Rect(0, 0, W, args.top) ELSE Rect(0, H - args.top, W, args.top),
           TopRect, Upright)
BottomTask ==
  CopyTask("src", IF Reflect THEN Rect(0, H - args.bottom, W, args.bottom)
                  ELSE Rect(0, 0, W, args.bottom), BottomRect, Upright)
LeftTask ==
  CopyTask("dst", IF Reflect THEN Rect(args.left, 0, args.left, Height)
                  ELSE Rect(RightRect.x - args.left, 0, args.left, Height), LeftRect, Sideways)
RightTask ==
  CopyTask("dst", IF Reflect THEN Rect(RightRect.x - args.right, 0, args.right, Height)
                  ELSE Rect(args.left, 0, args.right, Height), RightRect, Sideways)

LEMMA TopBottomSet ==
  /\ TopBottomTasks \in Seq({TopTask, BottomTask})
  /\ \A t : t \in Tasks(TopBottomTasks) <=>
       (args.top > 0 /\ t = TopTask) \/ (args.bottom > 0 /\ t = BottomTask)
  <1> DEFINE S == {TopTask, BottomTask}
             a == When(args.top > 0, TopTask)
             b == When(args.bottom > 0, BottomTask)
  <1>1. TopTask \in S /\ BottomTask \in S
    OBVIOUS
  <1> HIDE DEF S
  <1>2. a \in Seq(S) /\ \A u : u \in Tasks(a) <=> args.top > 0 /\ u = TopTask
    <2>1. (args.top > 0) \in BOOLEAN
      OBVIOUS
    <2> QED
      BY <1>1, <2>1, TasksWhen
  <1>3. b \in Seq(S) /\ \A u : u \in Tasks(b) <=> args.bottom > 0 /\ u = BottomTask
    <2>1. (args.bottom > 0) \in BOOLEAN
      OBVIOUS
    <2> QED
      BY <1>1, <2>1, TasksWhen
  <1>4. TopBottomTasks = a \o b
    BY DEF TopBottomTasks, TopTask, BottomTask, Upright
  <1> HIDE DEF a, b
  <1>5. a \o b \in Seq(S) /\ Tasks(a \o b) = Tasks(a) \cup Tasks(b)
    BY <1>2, <1>3, TasksConcat
  <1> QED
    BY <1>2, <1>3, <1>4, <1>5 DEF S

LEMMA LeftRightSet ==
  /\ LeftRightTasks \in Seq({LeftTask, RightTask})
  /\ \A t : t \in Tasks(LeftRightTasks) <=>
       (args.left > 0 \/ args.right > 0) /\ t \in {LeftTask, RightTask}
  <1>1. LeftRightTasks = IF args.left > 0 \/ args.right > 0 THEN <<LeftTask, RightTask>> ELSE <<>>
    BY DEF LeftRightTasks, LeftTask, RightTask, Sideways
  <1>2. CASE args.left > 0 \/ args.right > 0
    <2> DEFINE s == <<LeftTask, RightTask>>
    <2>1. LeftRightTasks = s
      BY <1>1, <1>2
    <2>2. s \in Seq({LeftTask, RightTask}) /\ DOMAIN s = 1..2 /\ s[1] = LeftTask /\ s[2] = RightTask
      OBVIOUS
    <2> HIDE DEF s
    <2> QED
      BY <1>2, <2>1, <2>2 DEF Tasks
  <1>3. CASE ~(args.left > 0 \/ args.right > 0)
    <2>1. LeftRightTasks = <<>>
      BY <1>1, <1>3
    <2> QED
      BY <1>3, <2>1 DEF Tasks
  <1> QED
    BY <1>2, <1>3

FourFills == {FillTask(TopRect), FillTask(BottomRect), FillTask(LeftRect), FillTask(RightRect)}

LEMMA FillSet ==
  /\ FillTasks \in Seq(FourFills)
  /\ \A t : t \in Tasks(FillTasks) <=>
       \/ args.top > 0 /\ t = FillTask(TopRect)
       \/ args.bottom > 0 /\ t = FillTask(BottomRect)
       \/ args.left > 0 /\ t = FillTask(LeftRect)
       \/ args.right > 0 /\ t = FillTask(RightRect)
  <1> DEFINE S == FourFills
             a == When(args.top > 0, FillTask(TopRect))
             b == When(args.bottom > 0, FillTask(BottomRect))
             c == When(args.left > 0, FillTask(LeftRect))
             d == When(args.right > 0, FillTask(RightRect))
  <1>1. FillTasks = ((a \o b) \o c) \o d
    <2>1. FillTasks = a \o b \o c \o d
      BY DEF FillTasks
    <2> QED
      BY <2>1
  <1>2. /\ FillTask(TopRect) \in S /\ FillTask(BottomRect) \in S
        /\ FillTask(LeftRect) \in S /\ FillTask(RightRect) \in S
    BY DEF FourFills
  <1> HIDE DEF S
  <1>3. a \in Seq(S) /\ \A u : u \in Tasks(a) <=> args.top > 0 /\ u = FillTask(TopRect)
    <2>1. (args.top > 0) \in BOOLEAN
      OBVIOUS
    <2> QED
      BY <1>2, <2>1, TasksWhen
  <1>4. b \in Seq(S) /\ \A u : u \in Tasks(b) <=> args.bottom > 0 /\ u = FillTask(BottomRect)
    <2>1. (args.bottom > 0) \in BOOLEAN
      OBVIOUS
    <2> QED
      BY <1>2, <2>1, TasksWhen
  <1>5. c \in Seq(S) /\ \A u : u \in Tasks(c) <=> args.left > 0 /\ u = FillTask(LeftRect)
    <2>1. (args.left > 0) \in BOOLEAN
      OBVIOUS
    <2> QED
      BY <1>2, <2>1, TasksWhen
  <1>6. d \in Seq(S) /\ \A u : u \in Tasks(d) <=> args.right > 0 /\ u = FillTask(RightRect)
    <2>1. (args.right > 0) \in BOOLEAN
      OBVIOUS
    <2> QED
      BY <1>2, <2>1, TasksWhen
  <1> HIDE DEF a, b, c, d
  <1>7. a \o b \in Seq(S) /\ Tasks(a \o b) = Tasks(a) \cup Tasks(b)
    BY <1>3, <1>4, TasksConcat
  <1> DEFINE ab == a \o b
  <1>8. ab \in Seq(S) /\ Tasks(ab) = Tasks(a) \cup Tasks(b)
    BY <1>7
  <1> HIDE DEF ab
  <1>9. ab \o c \in Seq(S) /\ Tasks(ab \o c) = Tasks(ab) \cup Tasks(c)
    BY <1>5, <1>8, TasksConcat
  <1> DEFINE abc == ab \o c
  <1>10. abc \in Seq(S) /\ Tasks(abc) = Tasks(ab) \cup Tasks(c)
    BY <1>9
  <1> HIDE DEF abc
  <1>11. abc \o d \in Seq(S) /\ Tasks(abc \o d) = Tasks(abc) \cup Tasks(d)
    BY <1>6, <1>10, TasksConcat
  <1>12. FillTasks = abc \o d
    BY <1>1 DEF abc, ab
  <1> QED
    BY <1>3, <1>4, <1>5, <1>6, <1>8, <1>10, <1>11, <1>12 DEF S

(* What is wanted where: in the middle the source, above, below and beside  *)
(* it the line or the column of the source that the type asks for.          *)
LEMMA ModFacts ==
  ASSUME NEW n \in Nat, n >= 1, NEW i \in Int
  PROVE  /\ i \in 0..n - 1 => i % n = i
         /\ i \in -n..-1 => i % n = i + n
         /\ i \in n..2 * n - 1 => i % n = i - n
  OBVIOUS

Bordered == args.type \in {"REFLECT", "WRAP"}

Within == Bordered => args.left <= W /\ args.right <= W

LEMMA FoldFacts ==
  ASSUME args \in Calls, Bordered, NEW n \in Nat, n >= 1, NEW i \in Int
  PROVE  /\ i \in 0..n - 1 => Fold(i, n) = i
         /\ i \in -n..-1 => Fold(i, n) = IF Reflect THEN -1 - i ELSE i + n
         /\ i \in n..2 * n - 1 => Fold(i, n) = IF Reflect THEN 2 * n - 1 - i ELSE i - n
  <1>1. n \in Int /\ -1 \in Int
    OBVIOUS
  <1>2. ASSUME i \in 0..n - 1 PROVE Fold(i, n) = i
    BY <1>2 DEF Fold
  <1>3. ASSUME i \in -n..-1 PROVE Fold(i, n) = IF Reflect THEN -1 - i ELSE i + n
    <2>1. i \notin 0..n - 1 /\ i < 0 /\ i % n = i + n
      <3>1. i \notin 0..n - 1 /\ i < 0
        BY <1>3
      <3>2. i % n = i + n
        BY <1>3, ModFacts
      <3> QED
        BY <3>1, <3>2
    <2> QED
      BY <2>1 DEF Fold, Reflect, Bordered
  <1>4. ASSUME i \in n..2 * n - 1 PROVE Fold(i, n) = IF Reflect THEN 2 * n - 1 - i ELSE i - n
    <2>1. i \notin 0..n - 1 /\ ~(i < 0) /\ i % n = i - n
      BY <1>4, ModFacts
    <2> QED
      BY <2>1 DEF Fold, Reflect, Bordered
  <1> QED
    BY <1>2, <1>3, <1>4

Paints(t) == \A x \in 0..Width - 1, y \in 0..Height - 1 :
               Inside(x, y, t.to) => Value(t, x, y) = Wanted(x, y)

RectFields(r, x, y, w, h) == r.x = x /\ r.y = y /\ r.w = w /\ r.h = h

LEMMA CopyPaints ==
  ASSUME args \in Calls, args.type # "unknown"
  PROVE  Paints(CopyOf)
  <1> SUFFICES ASSUME NEW x \in 0..Width - 1, NEW y \in 0..Height - 1, Inside(x, y, CopyOf.to)
               PROVE  Value(CopyOf, x, y) = Wanted(x, y)
    BY DEF Paints
  <1>1. /\ CopyOf.to = Rect(args.left, args.top, W, H) /\ CopyOf.src = Rect(0, 0, W, H)
        /\ CopyOf.from = "src" /\ CopyOf.flip = "none"
    BY DEF CopyOf, CopyTask
  <1>2. x - args.left \in 0..W - 1 /\ y - args.top \in 0..H - 1
    BY <1>1, ArgTypes DEF Inside, Rect, Width, Height
  <1>3. Value(CopyOf, x, y) = Source(x - args.left, y - args.top)
    BY <1>1, <1>2, ArgTypes DEF Value, Rect, Width, Height
  <1>4. Wanted(x, y) = Source(x - args.left, y - args.top)
    BY <1>2 DEF Wanted, Fold
  <1> QED
    BY <1>3, <1>4

LEMMA FillPaints ==
  ASSUME args \in Calls, args.type = "CONSTANT", NEW t \in Tasks(FillTasks)
  PROVE  Paints(t)
  <1> SUFFICES ASSUME NEW x \in 0..Width - 1, NEW y \in 0..Height - 1, Inside(x, y, t.to)
               PROVE  Value(t, x, y) = Wanted(x, y)
    BY DEF Paints
  <1>1. t.from = "fill" /\ t.to \in {TopRect, BottomRect, LeftRect, RightRect}
    BY FillSet DEF FillTask
  <1>2. Value(t, x, y) = Fill
    BY <1>1 DEF Value
  <1>3. ~(x - args.left \in 0..W - 1 /\ y - args.top \in 0..H - 1)
    BY <1>1, ArgTypes DEF Inside, TopRect, BottomRect, LeftRect, RightRect, Rect, Width, Height
  <1> QED
    BY <1>2, <1>3 DEF Wanted

LEMMA TopPaints ==
  ASSUME args \in Calls, Bordered, args.top > 0, Legal(TopTask)
  PROVE  Paints(TopTask)
  <1> SUFFICES ASSUME NEW x \in 0..Width - 1, NEW y \in 0..Height - 1, Inside(x, y, TopTask.to)
               PROVE  Value(TopTask, x, y) = Wanted(x, y)
    BY DEF Paints
  <1> DEFINE sx == x - args.left
             sy == y - args.top
  <1>1. /\ TopTask.to = TopRect /\ TopTask.from = "src"
        /\ TopTask.src = IF Reflect THEN Rect(0, 0, W, args.top) ELSE Rect(0, H - args.top, W, args.top)
        /\ TopTask.flip = IF Reflect THEN "V" ELSE "none"
    BY DEF TopTask, CopyTask, Upright
  <1>2. sx \in 0..W - 1 /\ sy \in -args.top..-1 /\ sy \in -H..-1
    <2>1. args.top <= H
      BY <1>1, ArgTypes DEF Legal, Fits, Rect
    <2> QED
      BY <1>1, <2>1, ArgTypes DEF Inside, TopRect, Rect, Width, Height
  <1>3. Value(TopTask, x, y) = Source(sx, IF Reflect THEN -1 - sy ELSE sy + H)
    BY <1>1, <1>2, ArgTypes DEF Value, TopRect, Rect, Width, Height
  <1>4. Fold(sx, W) = sx /\ Fold(sy, H) = IF Reflect THEN -1 - sy ELSE sy + H
    BY <1>2, ArgTypes, FoldFacts
  <1>5. Wanted(x, y) = Source(Fold(sx, W), Fold(sy, H))
    BY DEF Wanted, Bordered
  <1> QED
    BY <1>3, <1>4, <1>5

LEMMA BottomPaints ==
  ASSUME args \in Calls, Bordered, args.bottom > 0, Legal(BottomTask)
  PROVE  Paints(BottomTask)
  <1> SUFFICES ASSUME NEW x \in 0..Width - 1, NEW y \in 0..Height - 1, Inside(x, y, BottomTask.to)
               PROVE  Value(BottomTask, x, y) = Wanted(x, y)
    BY DEF Paints
  <1> DEFINE sx == x - args.left
             sy == y - args.top
  <1>1. /\ BottomTask.to = BottomRect /\ BottomTask.from = "src"
        /\ BottomTask.src = IF Reflect THEN Rect(0, H - args.bottom, W, args.bottom)
                            ELSE Rect(0, 0, W, args.bottom)
        /\ BottomTask.flip = IF Reflect THEN "V" ELSE "none"
    BY DEF BottomTask, CopyTask, Upright
  <1>2. sx \in 0..W - 1 /\ sy \in H..H + args.bottom - 1 /\ sy \in H..2 * H - 1
    <2>1. args.bottom <= H
      BY <1>1, ArgTypes DEF Legal, Fits, Rect
    <2> QED
      BY <1>1, <2>1, ArgTypes DEF Inside, BottomRect, Rect, Width, Height
  <1>3. Value(BottomTask, x, y) = Source(sx, IF Reflect THEN 2 * H - 1 - sy ELSE sy - H)
    BY <1>1, <1>2, ArgTypes DEF Value, BottomRect, Rect, Width, Height
  <1>4. Fold(sx, W) = sx /\ Fold(sy, H) = IF Reflect THEN 2 * H - 1 - sy ELSE sy - H
    BY <1>2, ArgTypes, FoldFacts
  <1>5. Wanted(x, y) = Source(Fold(sx, W), Fold(sy, H))
    BY DEF Wanted, Bordered
  <1> QED
    BY <1>3, <1>4, <1>5

(* The columns of the source in dst, which the side borders are made of.    *)
MiddleDrawn ==
  \A x \in args.left..args.left + W - 1, y \in 0..Height - 1 : dst[<<x, y>>] = Wanted(x, y)

LEMMA LeftPaints ==
  ASSUME args \in Calls, Bordered, Within, MiddleDrawn
  PROVE  Paints(LeftTask)
  <1> SUFFICES ASSUME NEW x \in 0..Width - 1, NEW y \in 0..Height - 1, Inside(x, y, LeftTask.to)
               PROVE  Value(LeftTask, x, y) = Wanted(x, y)
    BY DEF Paints
  <1> DEFINE sx == x - args.left
             sy == y - args.top
             from == IF Reflect THEN 2 * args.left - 1 - x ELSE W + x
  <1>1. /\ LeftTask.to = LeftRect /\ LeftTask.from = "dst"
        /\ LeftTask.src = IF Reflect THEN Rect(args.left, 0, args.left, Height)
                          ELSE Rect(RightRect.x - args.left, 0, args.left, Height)
        /\ LeftTask.flip = IF Reflect THEN "H" ELSE "none"
    BY DEF LeftTask, CopyTask, Sideways
  <1>2. /\ x \in 0..args.left - 1 /\ sx \in -W..-1 /\ sy \in Int
        /\ from \in args.left..args.left + W - 1
        /\ from - args.left = (IF Reflect THEN -1 - sx ELSE sx + W)
    BY <1>1, ArgTypes DEF Inside, LeftRect, Rect, Width, Height, Within
  <1>3. Value(LeftTask, x, y) = dst[<<from, y>>]
    <2> DEFINE to == LeftTask.to
               src == LeftTask.src
               dx == x - to.x
               col == src.x + (IF LeftTask.flip = "H" THEN src.w - 1 - dx ELSE dx)
               row == src.y + (IF LeftTask.flip = "V" THEN src.h - 1 - (y - to.y) ELSE y - to.y)
    <2>1. Value(LeftTask, x, y) = dst[<<col, row>>]
      BY <1>1 DEF Value
    <2>2. col = from
      BY <1>1, <1>2, ArgTypes DEF LeftRect, RightRect, Rect
    <2>3. row = y
      BY <1>1, <1>2, ArgTypes DEF LeftRect, RightRect, Rect
    <2> QED
      BY <2>1, <2>2, <2>3
  <1>4. from - args.left \in 0..W - 1
    BY <1>2, ArgTypes
  <1> HIDE DEF from
  <1>5. Fold(sx, W) = from - args.left /\ Fold(from - args.left, W) = from - args.left
    BY <1>2, <1>4, ArgTypes, FoldFacts
  <1>6. /\ Wanted(x, y) = Source(Fold(sx, W), Fold(sy, H))
        /\ Wanted(from, y) = Source(Fold(from - args.left, W), Fold(sy, H))
    BY DEF Wanted, Bordered
  <1>7. dst[<<from, y>>] = Wanted(from, y)
    BY <1>2 DEF MiddleDrawn
  <1> QED
    BY <1>3, <1>5, <1>6, <1>7

LEMMA RightPaints ==
  ASSUME args \in Calls, Bordered, Within, MiddleDrawn
  PROVE  Paints(RightTask)
  <1> SUFFICES ASSUME NEW x \in 0..Width - 1, NEW y \in 0..Height - 1, Inside(x, y, RightTask.to)
               PROVE  Value(RightTask, x, y) = Wanted(x, y)
    BY DEF Paints
  <1> DEFINE sx == x - args.left
             sy == y - args.top
             from == IF Reflect THEN 2 * (W + args.left) - 1 - x ELSE x - W
  <1>1. /\ RightTask.to = RightRect /\ RightTask.from = "dst"
        /\ RightTask.src = IF Reflect THEN Rect(RightRect.x - args.right, 0, args.right, Height)
                           ELSE Rect(args.left, 0, args.right, Height)
        /\ RightTask.flip = IF Reflect THEN "H" ELSE "none"
    BY DEF RightTask, CopyTask, Sideways
  <1>2. /\ x \in W + args.left..W + args.left + args.right - 1 /\ sx \in W..2 * W - 1 /\ sy \in Int
        /\ from \in args.left..args.left + W - 1
        /\ from - args.left = (IF Reflect THEN 2 * W - 1 - sx ELSE sx - W)
    BY <1>1, ArgTypes DEF Inside, RightRect, Rect, Width, Height, Within
  <1>3. Value(RightTask, x, y) = dst[<<from, y>>]
    <2> DEFINE to == RightTask.to
               src == RightTask.src
               dx == x - to.x
               col == src.x + (IF RightTask.flip = "H" THEN src.w - 1 - dx ELSE dx)
               row == src.y + (IF RightTask.flip = "V" THEN src.h - 1 - (y - to.y) ELSE y - to.y)
    <2>1. Value(RightTask, x, y) = dst[<<col, row>>]
      BY <1>1 DEF Value
    <2>2. col = from
      <3>1. to.x = W + args.left /\ RightRect.x = W + args.left
        BY <1>1 DEF RightRect, Rect
      <3>2. CASE Reflect
        <4>1. /\ src.x = W + args.left - args.right /\ src.w = args.right /\ RightTask.flip = "H"
              /\ from = 2 * (W + args.left) - 1 - x
          <5>1. RightTask.flip = "H" /\ from = 2 * (W + args.left) - 1 - x
            BY <1>1, <3>2
          <5>2. src = Rect(RightRect.x - args.right, 0, args.right, Height)
            BY <1>1, <3>2
          <5>3. src.x = RightRect.x - args.right /\ src.w = args.right
            BY <5>2 DEF Rect
          <5> QED
            BY <5>1, <5>3, <3>1, ArgTypes
        <4> HIDE DEF to, src, from
        <4> QED
          BY <1>2, <3>1, <4>1, ArgTypes
      <3>3. CASE ~Reflect
        <4>1. src.x = args.left /\ RightTask.flip = "none" /\ from = x - W
          BY <1>1, <3>3 DEF Rect
        <4> HIDE DEF to, src, from
        <4> QED
          BY <1>2, <3>1, <4>1, ArgTypes
      <3> QED
        BY <3>2, <3>3
    <2>3. row = y
      BY <1>1, <1>2, ArgTypes DEF RightRect, Rect
    <2> QED
      BY <2>1, <2>2, <2>3
  <1>4. from - args.left \in 0..W - 1
    BY <1>2, ArgTypes
  <1> HIDE DEF from
  <1>5. Fold(sx, W) = from - args.left /\ Fold(from - args.left, W) = from - args.left
    BY <1>2, <1>4, ArgTypes, FoldFacts
  <1>6. /\ Wanted(x, y) = Source(Fold(sx, W), Fold(sy, H))
        /\ Wanted(from, y) = Source(Fold(from - args.left, W), Fold(sy, H))
    BY DEF Wanted, Bordered
  <1>7. dst[<<from, y>>] = Wanted(from, y)
    BY <1>2 DEF MiddleDrawn
  <1> QED
    BY <1>3, <1>5, <1>6, <1>7

LEMMA SubmissionPaints ==
  ASSUME args \in Calls, args.type # "unknown", Within, NEW j \in 1..Submissions,
         NEW t \in Tasks(Submission(j)), j # 1 => Legal(t),
         Bordered /\ j = Submissions => MiddleDrawn
  PROVE  Paints(t)
  <1>1. CASE j = 1
    <2>1. t = CopyOf
      BY <1>1 DEF Submission, Tasks
    <2> QED
      BY <2>1, CopyPaints
  <1>2. CASE j # 1 /\ args.type = "CONSTANT"
    <2>1. t \in Tasks(FillTasks)
      BY <1>2 DEF Submission, LastTasks, TwoPasses
    <2> QED
      BY <1>2, <2>1, FillPaints
  <1>3. CASE j # 1 /\ Bordered
    <2>1. CASE j = 2 /\ TwoPasses
      <3>1. t \in Tasks(TopBottomTasks)
        BY <2>1 DEF Submission
      <3> QED
        BY <1>3, <3>1, TopBottomSet, TopPaints, BottomPaints
    <2>2. CASE ~(j = 2 /\ TwoPasses)
      <3>1. t \in Tasks(LeftRightTasks)
        BY <1>3, <2>2 DEF Submission, LastTasks, Bordered
      <3>2. j = Submissions
        BY <1>3, <2>2 DEF Submissions
      <3> QED
        BY <1>3, <3>1, <3>2, LeftRightSet, LeftPaints, RightPaints
    <2> QED
      BY <2>1, <2>2
  <1> QED
    BY <1>1, <1>2, <1>3, ArgTypes DEF Bordered

LEMMA TaskRects ==
  /\ CopyOf.to = Rect(args.left, args.top, W, H)
  /\ TopTask.to = TopRect /\ BottomTask.to = BottomRect
  /\ LeftTask.to = LeftRect /\ RightTask.to = RightRect
  /\ FillTask(TopRect).to = TopRect /\ FillTask(BottomRect).to = BottomRect
  /\ FillTask(LeftRect).to = LeftRect /\ FillTask(RightRect).to = RightRect
  BY DEF CopyOf, TopTask, BottomTask, LeftTask, RightTask, CopyTask, FillTask

(* Every pixel is in the target of a task, and the middle columns in one    *)
(* of a submission before the last.                                         *)
LEMMA Covered ==
  ASSUME args \in Calls, args.type # "unknown", NEW x \in 0..Width - 1, NEW y \in 0..Height - 1
  PROVE  \E j \in 1..Submissions : \E t \in Tasks(Submission(j)) :
           /\ Inside(x, y, t.to)
           /\ NoBorder => j = 1
           /\ Bordered /\ x \in args.left..args.left + W - 1 => j < Submissions
  <1> DEFINE Goal(j, t) == /\ j \in 1..Submissions /\ t \in Tasks(Submission(j))
                           /\ Inside(x, y, t.to)
                           /\ NoBorder => j = 1
                           /\ Bordered /\ x \in args.left..args.left + W - 1 => j < Submissions
  <1> SUFFICES \E j, t : Goal(j, t)
    OBVIOUS
  <1>0. Submissions \in 2..3 /\ (Submissions = 3 <=> TwoPasses)
    BY DEF Submissions
  <1>1. CASE x \in args.left..args.left + W - 1 /\ y \in args.top..args.top + H - 1
    <2>1. CopyOf \in Tasks(Submission(1))
      BY DEF Submission, Tasks
    <2>2. Inside(x, y, CopyOf.to)
      BY <1>1, TaskRects, ArgTypes DEF Inside, Rect
    <2>3. Goal(1, CopyOf)
      BY <1>0, <2>1, <2>2
    <2> QED
      BY <2>3
  <1>2. CASE x \in args.left..args.left + W - 1 /\ y \in 0..args.top - 1
    <2>1. args.top > 0 /\ Inside(x, y, TopRect)
      BY <1>2, ArgTypes DEF Inside, TopRect, Rect
    <2>2. CASE args.type = "CONSTANT"
      <3>1. FillTask(TopRect) \in Tasks(Submission(2))
        BY <2>1, <2>2, FillSet DEF Submission, LastTasks, TwoPasses
      <3>2. Goal(2, FillTask(TopRect))
        BY <1>0, <2>1, <2>2, <3>1, TaskRects, ArgTypes DEF NoBorder, Bordered
      <3> QED
        BY <3>2
    <2>3. CASE args.type # "CONSTANT"
      <3>1. TwoPasses /\ TopTask \in Tasks(Submission(2))
        BY <2>1, <2>3, TopBottomSet DEF Submission, TwoPasses
      <3>2. Goal(2, TopTask)
        BY <1>0, <2>1, <3>1, TaskRects, ArgTypes DEF NoBorder
      <3> QED
        BY <3>2
    <2> QED
      BY <2>2, <2>3
  <1>3. CASE x \in args.left..args.left + W - 1 /\ y \in args.top + H..Height - 1
    <2>1. args.bottom > 0 /\ Inside(x, y, BottomRect)
      BY <1>3, ArgTypes DEF Inside, BottomRect, Rect, Height
    <2>2. CASE args.type = "CONSTANT"
      <3>1. FillTask(BottomRect) \in Tasks(Submission(2))
        BY <2>1, <2>2, FillSet DEF Submission, LastTasks, TwoPasses
      <3>2. Goal(2, FillTask(BottomRect))
        BY <1>0, <2>1, <2>2, <3>1, TaskRects, ArgTypes DEF NoBorder, Bordered
      <3> QED
        BY <3>2
    <2>3. CASE args.type # "CONSTANT"
      <3>1. TwoPasses /\ BottomTask \in Tasks(Submission(2))
        BY <2>1, <2>3, TopBottomSet DEF Submission, TwoPasses
      <3>2. Goal(2, BottomTask)
        BY <1>0, <2>1, <3>1, TaskRects, ArgTypes DEF NoBorder
      <3> QED
        BY <3>2
    <2> QED
      BY <2>2, <2>3
  <1>4. CASE x \in 0..args.left - 1
    <2>1. args.left > 0 /\ Inside(x, y, LeftRect) /\ x \notin args.left..args.left + W - 1
      BY <1>4, ArgTypes DEF Inside, LeftRect, Rect, Height
    <2>2. CASE args.type = "CONSTANT"
      <3>1. FillTask(LeftRect) \in Tasks(Submission(2))
        BY <2>1, <2>2, FillSet DEF Submission, LastTasks, TwoPasses
      <3>2. Goal(2, FillTask(LeftRect))
        BY <1>0, <2>1, <3>1, TaskRects, ArgTypes DEF NoBorder
      <3> QED
        BY <3>2
    <2>3. CASE args.type # "CONSTANT"
      <3>1. LeftTask \in Tasks(Submission(Submissions))
        BY <2>1, <2>3, LeftRightSet DEF Submission, Submissions, LastTasks
      <3>2. Goal(Submissions, LeftTask)
        BY <1>0, <2>1, <3>1, TaskRects, ArgTypes DEF NoBorder
      <3> QED
        BY <3>2
    <2> QED
      BY <2>2, <2>3
  <1>5. CASE x \in args.left + W..Width - 1
    <2>1. args.right > 0 /\ Inside(x, y, RightRect) /\ x \notin args.left..args.left + W - 1
      BY <1>5, ArgTypes DEF Inside, RightRect, Rect, Height, Width
    <2>2. CASE args.type = "CONSTANT"
      <3>1. FillTask(RightRect) \in Tasks(Submission(2))
        BY <2>1, <2>2, FillSet DEF Submission, LastTasks, TwoPasses
      <3>2. Goal(2, FillTask(RightRect))
        BY <1>0, <2>1, <3>1, TaskRects, ArgTypes DEF NoBorder
      <3> QED
        BY <3>2
    <2>3. CASE args.type # "CONSTANT"
      <3>1. RightTask \in Tasks(Submission(Submissions))
        BY <2>1, <2>3, LeftRightSet DEF Submission, Submissions, LastTasks
      <3>2. Goal(Submissions, RightTask)
        BY <1>0, <2>1, <3>1, TaskRects, ArgTypes DEF NoBorder
      <3> QED
        BY <3>2
    <2> QED
      BY <2>2, <2>3
  <1> QED
    BY <1>1, <1>2, <1>3, <1>4, <1>5, ArgTypes DEF Width, Height
-----------------------------------------------------------------------------
(* Sequences of tasks.                                                      *)
LEMMA SubmissionSeq ==
  ASSUME NEW j \in 1..3
  PROVE  Submission(j) \in Seq(AllTasks)
  <1>1. \A S, s : s \in Seq(S) => s \in Seq(Tasks(s))
    BY DEF Tasks
  <1>2. Submission(j) \in Seq(Tasks(Submission(j)))
    <2>1. <<CopyOf>> \in Seq({CopyOf})
      OBVIOUS
    <2> QED
      BY <1>1, <2>1, TopBottomSet, LeftRightSet, FillSet DEF Submission, LastTasks
  <1>3. Tasks(Submission(j)) \subseteq AllTasks
    BY DEF AllTasks
  <1> DEFINE s == Submission(j)
  <1>4. s \in Seq(Tasks(s)) /\ Tasks(s) \subseteq AllTasks
    BY <1>2, <1>3
  <1> HIDE DEF s
  <1>5. s \in Seq(AllTasks)
    BY <1>4
  <1> QED
    BY <1>5 DEF s

LEMMA Concatenated ==
  ASSUME NEW S, NEW s \in Seq(S), NEW t \in Seq(S)
  PROVE  /\ s \o t \in Seq(S) /\ Len(s) \in Nat /\ Len(t) \in Nat
         /\ Len(s \o t) = Len(s) + Len(t)
         /\ \A i \in 1..Len(s) : (s \o t)[i] = s[i]
         /\ \A i \in Len(s) + 1..Len(s) + Len(t) : (s \o t)[i] = t[i - Len(s)]
  OBVIOUS

LEMMA SameSequence ==
  ASSUME NEW S, NEW s \in Seq(S), NEW t \in Seq(S), Len(s) = Len(t),
         \A i \in 1..Len(s) : s[i] = t[i]
  PROVE  s = t
  OBVIOUS

LEMMA MoveOne ==
  ASSUME NEW S, NEW a \in Seq(S), NEW b \in Seq(S), b # <<>>
  PROVE  Append(a, Head(b)) \o Tail(b) = a \o b
  <1> DEFINE l == Append(a, Head(b))
             r == Tail(b)
             x == l \o r
             y == a \o b
  <1>1. /\ l \in Seq(S) /\ Len(l) = Len(a) + 1
        /\ r \in Seq(S) /\ Len(r) = Len(b) - 1 /\ Len(b) >= 1
        /\ Len(a) \in Nat /\ Len(b) \in Nat
    OBVIOUS
  <1>2. \A i \in 1..Len(a) : l[i] = a[i]
    OBVIOUS
  <1>3. l[Len(a) + 1] = b[1]
    OBVIOUS
  <1>4. \A i \in 1..Len(b) - 1 : r[i] = b[i + 1]
    OBVIOUS
  <1> HIDE DEF l, r
  <1>5. /\ x \in Seq(S) /\ Len(x) = Len(l) + Len(r)
        /\ \A i \in 1..Len(l) : x[i] = l[i]
        /\ \A i \in Len(l) + 1..Len(l) + Len(r) : x[i] = r[i - Len(l)]
    BY <1>1, Concatenated
  <1>6. /\ y \in Seq(S) /\ Len(y) = Len(a) + Len(b)
        /\ \A i \in 1..Len(a) : y[i] = a[i]
        /\ \A i \in Len(a) + 1..Len(a) + Len(b) : y[i] = b[i - Len(a)]
    BY Concatenated
  <1> HIDE DEF x, y
  <1>7. Len(x) = Len(y)
    BY <1>1, <1>5, <1>6
  <1>8. ASSUME NEW i \in 1..Len(x) PROVE x[i] = y[i]
    <2>1. CASE i <= Len(a)
      BY <1>1, <1>2, <1>5, <1>6, <2>1
    <2>2. CASE i = Len(a) + 1
      <3>1. x[i] = b[1]
        BY <1>1, <1>3, <1>5, <2>2
      <3>2. i \in Len(a) + 1..Len(a) + Len(b) /\ i - Len(a) = 1
        BY <1>1, <2>2
      <3>3. y[i] = b[i - Len(a)]
        BY <1>6, <3>2
      <3> QED
        BY <3>1, <3>2, <3>3
    <2>3. CASE i > Len(a) + 1
      <3>1. /\ x[i] = r[i - Len(a) - 1] /\ y[i] = b[i - Len(a)]
            /\ i - Len(a) - 1 \in 1..Len(b) - 1
        BY <1>1, <1>5, <1>6, <2>3
      <3>2. r[i - Len(a) - 1] = b[(i - Len(a) - 1) + 1]
        BY <1>4, <3>1
      <3>3. (i - Len(a) - 1) + 1 = i - Len(a)
        BY <1>1, <3>1
      <3> QED
        BY <3>1, <3>2, <3>3
    <2> QED
      BY <1>1, <1>5, <2>1, <2>2, <2>3
  <1>9. x = y
    BY <1>5, <1>6, <1>7, <1>8, SameSequence
  <1> QED
    BY <1>9 DEF x, y, l, r

LEMMA NothingLeftOfPlan ==
  ASSUME NEW S, NEW a \in Seq(S), NEW b, b = <<>>
  PROVE  a \o b = a
  OBVIOUS

LEMMA NothingAddedYet ==
  ASSUME NEW S, NEW b \in Seq(S)
  PROVE  <<>> \o b = b
  OBVIOUS

LEMMA AppendFacts ==
  ASSUME NEW S, NEW q \in Seq(S), NEW e \in S
  PROVE  /\ Append(q, e) \in Seq(S) /\ Append(q, e) # <<>>
         /\ Len(Append(q, e)) = Len(q) + 1 /\ Len(q) \in Nat
         /\ DOMAIN Append(q, e) = 1..Len(q) + 1 /\ DOMAIN q = 1..Len(q)
         /\ \A i \in 1..Len(q) : Append(q, e)[i] = q[i]
         /\ Append(q, e)[Len(q) + 1] = e
         /\ Len(q) = 0 <=> q = <<>>
  OBVIOUS
-----------------------------------------------------------------------------
(* The arguments stay what they are, and with them all that is made of them. *)
LEMMA ArgsStay ==
  ASSUME args' = args
  PROVE  /\ \A j : Submission(j)' = Submission(j)
         /\ Submissions' = Submissions /\ AllTasks' = AllTasks
         /\ NoBorder' = NoBorder /\ TwoPasses' = TwoPasses /\ Bordered' = Bordered
         /\ Width' = Width /\ Height' = Height /\ Pixels' = Pixels
         /\ \A t : Legal(t)' = Legal(t)
         /\ \A x, y : Wanted(x, y)' = Wanted(x, y)
  <1>1. /\ NoBorder' = NoBorder /\ TwoPasses' = TwoPasses /\ Bordered' = Bordered
        /\ Width' = Width /\ Height' = Height /\ Reflect' = Reflect
    BY DEF NoBorder, TwoPasses, Bordered, Width, Height, Reflect
  <1>2. Pixels' = Pixels /\ Submissions' = Submissions
    BY <1>1 DEF Pixels, Submissions
  <1>3. /\ CopyOf' = CopyOf /\ TopRect' = TopRect /\ BottomRect' = BottomRect
        /\ LeftRect' = LeftRect /\ RightRect' = RightRect
    BY <1>1 DEF CopyOf, TopRect, BottomRect, LeftRect, RightRect
  <1>4. FillTasks' = FillTasks
    BY <1>3 DEF FillTasks
  <1>5. TopBottomTasks' = TopBottomTasks
    BY <1>1, <1>3 DEF TopBottomTasks
  <1>6. LeftRightTasks' = LeftRightTasks
    BY <1>1, <1>3 DEF LeftRightTasks
  <1>7. LastTasks' = LastTasks
    BY <1>4, <1>6 DEF LastTasks
  <1>8. \A j : Submission(j)' = Submission(j)
    BY <1>1, <1>3, <1>5, <1>7 DEF Submission
  <1>9. AllTasks' = AllTasks
    BY <1>8 DEF AllTasks, Tasks
  <1>10. \A x, y : Wanted(x, y)' = Wanted(x, y)
    BY DEF Wanted, Fold
  <1>11. \A t : Legal(t)' = Legal(t)
    BY <1>1 DEF Legal
  <1> QED
    BY <1>1, <1>2, <1>8, <1>9, <1>10, <1>11

LEMMA TasksStay ==
  ASSUME args' = args
  PROVE  \A j : Tasks(Submission(j))' = Tasks(Submission(j))
  BY ArgsStay DEF Tasks

Entry == [todo : SUBSET AllTasks, wait : Int]

LEMMA QueueFacts ==
  ASSUME Chained, Len(queue) \in 0..3
  PROVE  /\ QueueShape
         /\ queue \in Seq(Entry)
         /\ \A j \in DOMAIN queue : queue[j] \in Entry /\ j \in 1..Len(queue)
  <1>1. queue \in Seq(Entry)
    BY DEF Chained, Entry
  <1>2. DOMAIN queue = 1..Len(queue)
    BY <1>1
  <1> QED
    BY <1>1, <1>2 DEF QueueShape, Chained

LEMMA UpToThree ==
  ASSUME NEW n \in 0..3
  PROVE  /\ n \in Nat
         /\ n \in 0..2 => n + 1 \in 1..3
         /\ \A j \in 1..n : j = 1 \/ j = 2 \/ j = 3
         /\ \A j \in 1..n + 1 : j \in 1..n \/ j = n + 1
         /\ \A j \in 2..n + 1 : j \in 2..n \/ j = n + 1
         /\ \A j \in 2..n : j \in 1..n /\ j - 1 \in 1..n
  OBVIOUS

(* A fence that has signalled: its submission has run, and all before it.   *)
LEMMA DoneRan ==
  ASSUME Chained, Len(queue) \in 0..3, NEW j \in 1..Len(queue), Done(j)
  PROVE  Ran(j)
  <1>1. QueueShape
    BY QueueFacts
  <1>2. \A k \in 1..Len(queue) : Done(k) => queue[k].todo = {} /\ Done(queue[k].wait)
    BY <1>1, DoneUnfolded
  <1>3. 1 \in 1..Len(queue) /\ Done(1) => Ran(1)
    BY <1>2 DEF Ran
  <1>4. 2 \in 1..Len(queue) /\ Done(2) => Ran(2)
    <2> SUFFICES ASSUME 2 \in 1..Len(queue), Done(2) PROVE Ran(2)
      OBVIOUS
    <2>1. queue[2].todo = {} /\ (queue[2].wait = 1 => Done(1))
      BY <1>2
    <2>2. Ran(1)
      BY <1>3, <2>1 DEF Chained
    <2> QED
      BY <2>1, <2>2 DEF Ran
  <1>5. 3 \in 1..Len(queue) /\ Done(3) => Ran(3)
    <2> SUFFICES ASSUME 3 \in 1..Len(queue), Done(3) PROVE Ran(3)
      OBVIOUS
    <2>1. queue[3].todo = {} /\ (queue[3].wait = 2 => Done(2))
      BY <1>2
    <2>2. Ran(2)
      BY <1>4, <2>1 DEF Chained
    <2> QED
      BY <2>1, <2>2 DEF Ran
  <1>6. j = 1 \/ j = 2 \/ j = 3
    BY UpToThree
  <1> QED
    BY <1>3, <1>4, <1>5, <1>6

(* What a submission waits for: all before it.                              *)
LEMMA WaitRan ==
  ASSUME Chained, Len(queue) \in 0..3, NEW j \in 1..Len(queue), Done(queue[j].wait)
  PROVE  Ran(j - 1)
  <1>1. CASE j = 1
    BY <1>1 DEF Ran
  <1>2. CASE j # 1
    <2>1. j - 1 \in 1..Len(queue) /\ j \in 2..Len(queue) /\ j - 1 # NoWait
      BY <1>2 DEF NoWait
    <2>2. CASE queue[j].wait = j - 1
      BY <2>1, <2>2, DoneRan
    <2>3. CASE queue[j].wait # j - 1
      BY <2>1, <2>3 DEF Chained
    <2> QED
      BY <2>2, <2>3
  <1> QED
    BY <1>1, <1>2

(* A further submission.                                                    *)
LEMMA Submitted ==
  ASSUME Chained, Painted, args' = args, dst' = dst, Len(queue) \in 0..2,
         NEW w \in Int,
         queue' = Append(queue, [todo |-> Tasks(Submission(Len(queue) + 1)), wait |-> w]),
         IF queue = <<>> THEN w \in {NoWait, 0} ELSE w = Len(queue) \/ (w = NoWait /\ Ran(Len(queue))),
         queue = <<>> \/ \A t \in Tasks(Submission(Len(queue) + 1)) : Legal(t)
  PROVE  /\ Chained' /\ Painted'
         /\ Len(queue') = Len(queue) + 1 /\ queue'[Len(queue')].wait = w
         /\ \A i \in 1..Len(queue) : queue'[i] = queue[i]
         /\ queue' # <<>>
  <1> DEFINE n == Len(queue)
             T == Tasks(Submission(n + 1))
             e == [todo |-> T, wait |-> w]
  <1>0. n \in 0..2 /\ n \in 0..3
    OBVIOUS
  <1>1. n + 1 \in 1..3
    BY <1>0, UpToThree
  <1>2. e \in Entry
    <2>1. T \subseteq AllTasks
      BY <1>1 DEF AllTasks
    <2> HIDE DEF T
    <2> QED
      BY <2>1 DEF Entry
  <1>3. e.todo = T /\ e.wait = w
    OBVIOUS
  <1>4. queue \in Seq(Entry)
    BY DEF Chained, Entry
  <1>5. queue' = Append(queue, e)
    OBVIOUS
  <1>14. n = Len(queue)
    OBVIOUS
  <1> HIDE DEF e, T, n
  <1>6. /\ queue' \in Seq(Entry) /\ queue' # <<>> /\ Len(queue') = n + 1
        /\ DOMAIN queue' = 1..n + 1 /\ DOMAIN queue = 1..n
        /\ \A i \in 1..n : queue'[i] = queue[i]
        /\ queue'[n + 1] = e
        /\ n = 0 <=> queue = <<>>
    BY <1>2, <1>4, <1>5, <1>14, AppendFacts
  <1>7. Entry' = Entry
    BY ArgsStay DEF Entry
  <1>8. ASSUME NEW j \in DOMAIN queue', NEW t \in queue'[j].todo
        PROVE  t \in Tasks(Submission(j))' /\ (j # 1 => Legal(t)')
    <2>1. CASE j \in 1..n
      <3>1. t \in Tasks(Submission(j)) /\ (j # 1 => Legal(t))
        BY <1>6, <2>1 DEF Chained
      <3> QED
        BY <3>1, TasksStay, ArgsStay
    <2>2. CASE j = n + 1
      <3>1. t \in Tasks(Submission(j)) /\ (queue # <<>> => Legal(t))
        BY <1>3, <1>6, <1>14, <2>2 DEF T
      <3>2. j # 1 => queue # <<>>
        BY <1>0, <1>6, <2>2
      <3> QED
        BY <3>1, <3>2, TasksStay, ArgsStay
    <2> QED
      BY <1>0, <1>6, <2>1, <2>2
  <1>9. queue'[1].wait \in {NoWait, 0}
    <2>1. CASE n = 0
      BY <1>3, <1>6, <2>1
    <2>2. CASE n # 0
      <3>1. 1 \in 1..n
        BY <1>0, <2>2
      <3> QED
        BY <1>6, <3>1, <2>2 DEF Chained
    <2> QED
      BY <2>1, <2>2
  <1>10. ASSUME NEW k \in 0..n, Ran(k) PROVE Ran(k)'
    BY <1>6, <1>10 DEF Ran
  <1>11. ASSUME NEW j \in 2..n + 1
         PROVE  queue'[j].wait = j - 1 \/ (queue'[j].wait = NoWait /\ Ran(j - 1)')
    <2>1. CASE j \in 2..n
      <3>1. queue'[j] = queue[j] /\ j - 1 \in 0..n
        BY <1>0, <1>6, <2>1
      <3>2. queue[j].wait = j - 1 \/ (queue[j].wait = NoWait /\ Ran(j - 1))
        BY <1>14, <2>1 DEF Chained
      <3> QED
        BY <1>10, <3>1, <3>2
    <2>2. CASE j = n + 1
      <3>1. queue'[j].wait = w /\ j - 1 = n /\ n \in 0..n /\ queue # <<>>
        BY <1>0, <1>3, <1>6, <2>2
      <3> QED
        BY <1>10, <1>14, <3>1
    <2> QED
      BY <1>0, <2>1, <2>2, UpToThree
  <1>12. Chained'
    <2>1. (\A j \in DOMAIN queue :
             queue[j].todo \subseteq {t \in Tasks(Submission(j)) : j # 1 => Legal(t)})'
      BY <1>8
    <2>2. \A j \in 2..Len(queue') : queue'[j].wait = j - 1 \/ (queue'[j].wait = NoWait /\ Ran(j - 1)')
      BY <1>6, <1>11
    <2>3. (queue \in Seq([todo : SUBSET AllTasks, wait : Int]))'
      BY <1>6, <1>7 DEF Entry
    <2> QED
      BY <1>9, <2>1, <2>2, <2>3 DEF Chained
  <1>13. Painted'
    <2>1. ASSUME NEW r, Right(r) PROVE Right(r)'
      BY <2>1, ArgsStay DEF Right
    <2>2. ASSUME NEW j \in DOMAIN queue', NEW t \in Tasks(Submission(j))' \ queue'[j].todo
          PROVE  Right(t.to)'
      <3>1. t \in Tasks(Submission(j)) /\ t \notin queue'[j].todo
        BY <2>2, TasksStay
      <3>2. j \in 1..n
        <4>1. CASE j = n + 1
          BY <1>3, <1>6, <1>14, <3>1, <4>1 DEF T
        <4> QED
          BY <1>0, <1>6, <4>1, UpToThree
      <3>3. j \in DOMAIN queue /\ t \in Tasks(Submission(j)) \ queue[j].todo
        BY <1>6, <3>1, <3>2
      <3>4. Right(t.to)
        BY <3>3 DEF Painted
      <3> QED
        BY <2>1, <3>4
    <2>3. (DOMAIN dst = Pixels)'
      BY ArgsStay DEF Painted
    <2> QED
      BY <2>2, <2>3 DEF Painted
  <1> QED
    BY <1>3, <1>6, <1>12, <1>13, <1>14

LEMMA PixelFacts ==
  ASSUME args \in Calls
  PROVE  /\ \A x \in 0..Width - 1, y \in 0..Height - 1 :
               <<x, y>> \in Pixels /\ <<x, y>>[1] = x /\ <<x, y>>[2] = y
         /\ \A p \in Pixels : p[1] \in 0..Width - 1 /\ p[2] \in 0..Height - 1 /\ p = <<p[1], p[2]>>
         /\ \A x \in args.left..args.left + W - 1 : x \in 0..Width - 1
  BY ArgTypes DEF Pixels, Width

(* All that the last submission reads is there when the ones before have run. *)
LEMMA MiddleReady ==
  ASSUME args \in Calls, args.type # "unknown", Bordered, Chained, Painted,
         Len(queue) = Submissions, Ran(Submissions - 1)
  PROVE  MiddleDrawn
  <1> SUFFICES ASSUME NEW x \in args.left..args.left + W - 1, NEW y \in 0..Height - 1
               PROVE  dst[<<x, y>>] = Wanted(x, y)
    BY DEF MiddleDrawn
  <1>0. Submissions \in 2..3
    BY DEF Submissions
  <1>1. x \in 0..Width - 1 /\ <<x, y>> \in Pixels /\ <<x, y>>[1] = x /\ <<x, y>>[2] = y
    BY PixelFacts
  <1>2. PICK k \in 1..Submissions : \E t \in Tasks(Submission(k)) :
           Inside(x, y, t.to) /\ k < Submissions
    BY <1>1, Covered
  <1>3. PICK t \in Tasks(Submission(k)) : Inside(x, y, t.to) /\ k < Submissions
    BY <1>2
  <1>4. k \in 1..Submissions - 1 /\ k \in 1..Len(queue)
    BY <1>0, <1>3
  <1>5. queue[k].todo = {} /\ k \in DOMAIN queue
    <2>1. Len(queue) \in 0..3
      BY <1>0
    <2> QED
      BY <1>4, <2>1, QueueFacts DEF Ran, QueueShape
  <1>6. Right(t.to)
    BY <1>3, <1>5 DEF Painted
  <1> QED
    BY <1>1, <1>3, <1>6 DEF Right

LEMMA RunStep ==
  ASSUME args \in Calls, args.type # "unknown", Within, Chained, Painted, args' = args,
         Len(queue) \in 0..3, Len(queue) <= Submissions,
         NEW j \in DOMAIN queue, RunTask(j)
  PROVE  /\ Chained' /\ Painted' /\ Len(queue') = Len(queue)
         /\ \A i \in DOMAIN queue : queue'[i].wait = queue[i].wait
         /\ \A k \in 0..Len(queue) : Ran(k) => Ran(k)'
         /\ queue' = <<>> <=> queue = <<>>
  <1>0. Submissions \in 2..3
    BY DEF Submissions
  <1>1. PICK task \in queue[j].todo :
           /\ dst' = Apply(task)
           /\ queue' = [queue EXCEPT ![j].todo = @ \ {task}]
    BY DEF RunTask
  <1>2. /\ DOMAIN queue = 1..Len(queue) /\ queue \in Seq(Entry)
        /\ \A i \in DOMAIN queue : queue[i] \in Entry
        /\ j \in 1..Len(queue)
    BY QueueFacts DEF QueueShape
  <1>3. /\ DOMAIN queue' = DOMAIN queue /\ Len(queue') = Len(queue)
        /\ \A i \in DOMAIN queue : i # j => queue'[i] = queue[i]
        /\ queue'[j].todo = queue[j].todo \ {task} /\ queue'[j].wait = queue[j].wait
        /\ queue'[j] = [queue[j] EXCEPT !.todo = @ \ {task}]
    BY <1>1, <1>2 DEF Entry
  <1>4. queue' \in Seq(Entry)
    <2>1. queue'[j] \in Entry
      BY <1>2, <1>3 DEF Entry
    <2>2. \A i \in 1..Len(queue) : queue'[i] \in Entry
      BY <1>2, <1>3, <2>1
    <2>3. queue' = [i \in 1..Len(queue) |-> queue'[i]]
      BY <1>1, <1>2, <1>3
    <2>4. Len(queue) \in Nat
      OBVIOUS
    <2> QED
      BY <2>2, <2>3, <2>4
  <1>5. /\ \A i \in DOMAIN queue : queue'[i].wait = queue[i].wait
        /\ \A i \in DOMAIN queue : queue'[i].todo \subseteq queue[i].todo
    BY <1>3
  <1>6. \A k \in 0..Len(queue) : Ran(k) => Ran(k)'
    BY <1>2, <1>5 DEF Ran
  <1>7. queue' = <<>> <=> queue = <<>>
    BY <1>2, <1>3, <1>4
  <1>8. Chained'
    <2>1. (queue \in Seq([todo : SUBSET AllTasks, wait : Int]))'
      BY <1>4, ArgsStay DEF Entry
    <2>2. (\A i \in DOMAIN queue :
             queue[i].todo \subseteq {t \in Tasks(Submission(i)) : i # 1 => Legal(t)})'
      <3>1. ASSUME NEW i \in DOMAIN queue, NEW t \in queue'[i].todo
            PROVE  t \in Tasks(Submission(i))' /\ (i # 1 => Legal(t)')
        <4>1. t \in Tasks(Submission(i)) /\ (i # 1 => Legal(t))
          BY <1>5 DEF Chained
        <4> QED
          BY <4>1, TasksStay, ArgsStay
      <3> QED
        BY <1>3, <3>1
    <2>3. (queue # <<>> => queue[1].wait \in {NoWait, 0})'
      <3>1. queue # <<>> => 1 \in DOMAIN queue
        BY <1>2
      <3> QED
        BY <1>5, <1>7, <3>1 DEF Chained
    <2>4. ASSUME NEW i \in 2..Len(queue)
          PROVE  queue'[i].wait = i - 1 \/ (queue'[i].wait = NoWait /\ Ran(i - 1)')
      <3>1. i \in DOMAIN queue /\ i - 1 \in 0..Len(queue)
        BY <1>2
      <3>2. queue[i].wait = i - 1 \/ (queue[i].wait = NoWait /\ Ran(i - 1))
        BY DEF Chained
      <3> QED
        BY <1>5, <1>6, <3>1, <3>2
    <2> QED
      BY <1>3, <2>1, <2>2, <2>3, <2>4 DEF Chained
  <1>9. Paints(task)
    <2>1. task \in Tasks(Submission(j)) /\ j \in 1..Submissions /\ (j # 1 => Legal(task))
      BY <1>0, <1>2 DEF Chained
    <2>2. ASSUME Bordered, j = Submissions PROVE MiddleDrawn
      <3>1. Done(queue[j].wait) /\ Len(queue) = Submissions
        BY <1>0, <1>2, <2>2 DEF RunTask
      <3>2. Ran(Submissions - 1)
        BY <1>2, <2>2, <3>1, WaitRan
      <3> QED
        BY <2>2, <3>1, <3>2, MiddleReady
    <2> QED
      BY <2>1, <2>2, SubmissionPaints
  <1>10. DOMAIN dst' = Pixels
    BY <1>1 DEF Apply
  <1>11. \A p \in Pixels : dst'[p] = IF Inside(p[1], p[2], task.to) THEN Value(task, p[1], p[2]) ELSE dst[p]
    BY <1>1 DEF Apply
  <1>12. \A p \in Pixels : Inside(p[1], p[2], task.to) => dst'[p] = Wanted(p[1], p[2])
    BY <1>9, <1>11, PixelFacts DEF Paints
  <1>13. Right(task.to)'
    BY <1>12, ArgsStay DEF Right
  <1>14. ASSUME NEW r, Right(r) PROVE Right(r)'
    <2>1. \A p \in Pixels : Inside(p[1], p[2], r) => dst'[p] = Wanted(p[1], p[2])
      BY <1>11, <1>12, <1>14 DEF Right
    <2> QED
      BY <2>1, ArgsStay DEF Right
  <1>15. Painted'
    <2>1. ASSUME NEW i \in DOMAIN queue', NEW t \in Tasks(Submission(i))' \ queue'[i].todo
          PROVE  Right(t.to)'
      <3>1. t \in Tasks(Submission(i)) /\ t \notin queue'[i].todo /\ i \in DOMAIN queue
        BY <1>3, TasksStay
      <3>2. CASE t \in queue[i].todo
        <4>1. i = j /\ t = task
          BY <1>3, <3>1, <3>2
        <4> QED
          BY <1>13, <4>1
      <3>3. CASE t \notin queue[i].todo
        BY <1>14, <3>1, <3>3 DEF Painted
      <3> QED
        BY <3>2, <3>3
    <2>2. (DOMAIN dst = Pixels)'
      BY <1>10, ArgsStay
    <2> QED
      BY <2>1, <2>2 DEF Painted
  <1> QED
    BY <1>3, <1>5, <1>6, <1>7, <1>8, <1>15
-----------------------------------------------------------------------------
LEMMA Starts == Init => Picture
  <1> SUFFICES ASSUME Init, Fine PROVE Counted /\ Filling /\ Chained /\ PassesOn /\ Painted
    BY DEF Picture
  <1>1. /\ args \in Calls /\ at = "copy" /\ queue = <<>> /\ job = <<>> /\ plan = <<>>
        /\ passes = 0 /\ release = NoFd /\ DOMAIN dst = Pixels
        /\ fdtab = [f \in Fds |-> IF f = 1 /\ args.acquire THEN FenceOf(0) ELSE FreeFd]
    BY DEF Init
  <1>2. Len(queue) = 0 /\ DOMAIN queue = {}
    BY <1>1
  <1>3. Counted
    BY <1>1, <1>2 DEF Counted
  <1>4. Filling
    <2>1. Tasks(job) = {}
      BY <1>1 DEF Tasks
    <2> QED
      BY <1>1, <2>1 DEF Filling
  <1>5. Chained
    BY <1>1, <1>2 DEF Chained
  <1>6. 1 \in Fds
    BY BorderAssumption DEF Fds
  <1>7. PassesOn
    BY <1>1, <1>6 DEF PassesOn
  <1>8. Painted
    BY <1>1, <1>2 DEF Painted
  <1> QED
    BY <1>3, <1>4, <1>5, <1>7, <1>8

LEMMA EmptyJob ==
  ASSUME job' = <<>>
  PROVE  (\A t \in Tasks(job) : Legal(t))'
  <1>1. Tasks(job)' = {}
    BY DEF Tasks
  <1> QED
    BY <1>1

LEMMA SubmissionsFacts ==
  /\ Submissions \in 2..3 /\ (Submissions = 3 <=> TwoPasses)
  /\ NoBorder => Submissions = 2
  <1>1. NoBorder => ~TwoPasses
    BY DEF NoBorder, TwoPasses
  <1> QED
    BY <1>1 DEF Submissions

LEMMA CountFacts ==
  ASSUME Counted, at \in Stages
  PROVE  Len(queue) \in 0..3 /\ Len(queue) <= Submissions
  <1>1. queue = <<>> => Len(queue) = 0
    OBVIOUS
  <1>2. \/ queue = <<>> \/ Len(queue) = 1 \/ Len(queue) = Submissions
        \/ Len(queue) \in 1..Submissions - 1
    BY DEF Counted, Stages
  <1> DEFINE n == Len(queue)
  <1>3. n = 0 \/ n = 1 \/ n = Submissions \/ n \in 1..Submissions - 1
    BY <1>1, <1>2
  <1> HIDE DEF n
  <1>4. n \in 0..3 /\ n <= Submissions
    BY <1>3, SubmissionsFacts
  <1> QED
    BY <1>4 DEF n

(* What a call that has not returned has in common.                         *)
Underway ==
  /\ Inv /\ Fine /\ Counted /\ Filling /\ Chained /\ PassesOn /\ Painted
  /\ args \in Calls /\ args' = args

LEMMA StepsUnderway ==
  ASSUME Inv, Picture, [Next]_vars, Fine', at # "returned" \/ ret' = ret
  PROVE  Underway
  <1>1. args' = args
    BY DEF Next, Library, Hardware, vars, library, Refuse, Refused, Fails, GivesUp, Copy, CopySync, Begin, AddBorder,
       LastSync, EndSync, EndReturns, EndFirst, EndAsync, RunTask, Produce, OtherThread
  <1>2. Fine
    BY <1>1 DEF Fine, Inv, OneFence
  <1> QED
    BY <1>1, <1>2 DEF Underway, Picture, Inv, FenceTypes

Parts == Counted /\ Filling /\ Chained /\ PassesOn /\ Painted

(* A submission from the point of view of the call.                         *)
LEMMA SubmitStep ==
  ASSUME Underway, dst' = dst, Len(queue) < Submissions, NEW s, s = Submission(Len(queue) + 1),
         NEW a, NEW f \in Fds, NEW closes, Submit(s, a, f, closes),
         a # NoFd => fdtab[a] = FenceOf(Len(queue)),
         a = NoFd => queue = <<>>,
         queue = <<>> \/ \A t \in Tasks(s) : Legal(t)
  PROVE  /\ Chained' /\ Painted' /\ Len(queue') = Len(queue) + 1
         /\ fdtab'[f] = FenceOf(Len(queue')) /\ queue' # <<>>
  <1> DEFINE w == IF a = NoFd THEN NoWait ELSE fdtab[a].job
  <1>0. Len(queue) \in 0..3 /\ Len(queue) \in 0..2
    <2>1. Len(queue) \in 0..3
      BY CountFacts DEF Underway, Inv, FenceTypes
    <2> QED
      BY <2>1, SubmissionsFacts
  <1>1. w \in Int /\ IF queue = <<>> THEN w \in {NoWait, 0} ELSE w = Len(queue)
    <2>1. FenceOf(Len(queue)).job = Len(queue)
      BY DEF FenceOf
    <2>2. queue = <<>> => Len(queue) = 0
      OBVIOUS
    <2> QED
      BY <1>0, <2>1, <2>2 DEF NoWait
  <1>2. queue' = Append(queue, [todo |-> Tasks(Submission(Len(queue) + 1)), wait |-> w])
    BY DEF Submit, Tasks
  <1>3. fdtab' = [g \in Fds |-> IF g = f THEN FenceOf(Len(queue) + 1)
                                ELSE IF g = a /\ closes THEN FreeFd ELSE fdtab[g]]
    BY DEF Submit, Inv, FenceTypes
  <1> HIDE DEF w
  <1>4. Chained' /\ Painted' /\ Len(queue') = Len(queue) + 1 /\ queue' # <<>>
    BY <1>0, <1>1, <1>2, Submitted DEF Underway
  <1> QED
    BY <1>3, <1>4

LEMMA JobLegal ==
  ASSUME Underway, job' = job
  PROVE  (\A t \in Tasks(job) : Legal(t))'
  <1>1. Tasks(job)' = Tasks(job)
    BY DEF Tasks
  <1> QED
    BY <1>1, ArgsStay DEF Underway, Filling

LEMMA CopyStep ==
  ASSUME Underway, NEW f \in Fds, Copy(f)
  PROVE  Parts'
  <1>1. /\ at = "copy" /\ fence' = f /\ dst' = dst /\ plan' = plan /\ job' = job /\ passes' = passes
        /\ Submit(<<CopyOf>>, Acquire, f, TRUE)
        /\ \/ NoBorder /\ ~args.sync /\ release' = f /\ at' = "returned"
           \/ NoBorder /\ args.sync /\ release' = release /\ at' = "copy_sync"
           \/ ~NoBorder /\ release' = release /\ at' = "begin"
    BY DEF Copy, Returns
  <1>2. queue = <<>> /\ Len(queue) = 0 /\ passes = 0 /\ job = <<>> /\ release = NoFd /\ f # NoFd
    <2>1. queue = <<>> /\ job = <<>> /\ release = NoFd
      BY <1>1 DEF Underway, Counted, Filling, PassesOn
    <2> QED
      BY <1>1, <2>1, DescriptorFacts DEF Underway, Counted
  <1>3. /\ Chained' /\ Painted' /\ Len(queue') = 1
        /\ fdtab'[f] = FenceOf(1) /\ queue' # <<>>
    <2>1. <<CopyOf>> = Submission(Len(queue) + 1)
      BY <1>2 DEF Submission
    <2>2. Acquire # NoFd => fdtab[Acquire] = FenceOf(Len(queue))
      BY <1>1, <1>2 DEF Acquire, Underway, PassesOn
    <2>3. Len(queue) < Submissions
      BY <1>2, SubmissionsFacts
    <2> DEFINE s == <<CopyOf>>
               a == Acquire
               c == TRUE
    <2>4. s = Submission(Len(queue) + 1)
      BY <2>1
    <2>5. Submit(s, a, f, c) /\ dst' = dst
      BY <1>1
    <2>6. a # NoFd => fdtab[a] = FenceOf(Len(queue))
      BY <2>2
    <2> HIDE DEF s, a, c
    <2>7. (a = NoFd => queue = <<>>) /\ (queue = <<>> \/ \A t \in Tasks(s) : Legal(t))
      BY <1>2
    <2>8. /\ Chained' /\ Painted' /\ Len(queue') = Len(queue) + 1
          /\ fdtab'[f] = FenceOf(Len(queue')) /\ queue' # <<>>
      BY <2>3, <2>4, <2>5, <2>6, <2>7, SubmitStep
    <2>9. Len(queue') = 1
      BY <1>2, <2>8
    <2> QED
      BY <2>8, <2>9
  <1>4. Counted'
    BY <1>1, <1>2, <1>3, ArgsStay, SubmissionsFacts DEF Counted, Underway
  <1>5. Filling'
    BY <1>1, <1>2, ArgsStay DEF Filling, Underway
  <1>6. PassesOn'
    BY <1>1, <1>2, <1>3, ArgsStay DEF PassesOn, Underway
  <1> QED
    BY <1>3, <1>4, <1>5, <1>6 DEF Parts

LEMMA EndFirstStep ==
  ASSUME Underway, NEW f \in Fds, EndFirst(f)
  PROVE  Parts'
  <1>1. /\ at = "tasks" /\ plan = <<>> /\ fence' = f /\ dst' = dst /\ plan' = plan /\ job' = <<>>
        /\ passes' = passes /\ release' = release /\ at' = "begin"
        /\ Submit(job, fence, f, ~args.user_close) /\ TwoPasses /\ passes = 1
    BY DEF EndFirst, FirstPass
  <1>2. Len(queue) = 1 /\ queue # <<>> /\ release = NoFd /\ ~NoBorder /\ fdtab[fence] = FenceOf(1)
    <2>1. Len(queue) = 1 /\ release = NoFd /\ ~NoBorder
      BY <1>1 DEF Underway, Counted, PassesOn, NoBorder, TwoPasses
    <2>2. fdtab[fence] = FenceOf(Len(queue))
      BY <1>1, <2>1 DEF Underway, PassesOn
    <2>3. queue # <<>>
      BY <2>1
    <2> QED
      BY <2>1, <2>2, <2>3
  <1>3. job = Submission(2)
    BY <1>1, <1>2, NothingLeftOfPlan DEF Underway, Filling
  <1>4. /\ Chained' /\ Painted' /\ Len(queue') = 2
        /\ fdtab'[f] = FenceOf(2) /\ queue' # <<>>
    <2>1. Len(queue) < Submissions /\ Len(queue) + 1 = 2
      BY <1>2, SubmissionsFacts
    <2> DEFINE c == ~args.user_close
    <2>2. Submit(job, fence, f, c) /\ dst' = dst
      BY <1>1
    <2> HIDE DEF c
    <2>3. job = Submission(Len(queue) + 1)
      BY <1>3, <2>1
    <2>4. fence # NoFd => fdtab[fence] = FenceOf(Len(queue))
      BY <1>2
    <2>5. fence = NoFd => queue = <<>>
      BY <1>1, DescriptorFacts DEF Underway, Inv, FenceHeld
    <2>8. queue = <<>> \/ \A t \in Tasks(job) : Legal(t)
      BY DEF Underway, Filling
    <2>6. /\ Chained' /\ Painted' /\ Len(queue') = Len(queue) + 1
          /\ fdtab'[f] = FenceOf(Len(queue')) /\ queue' # <<>>
      BY <2>1, <2>2, <2>3, <2>4, <2>5, <2>8, SubmitStep
    <2>7. Len(queue') = 2
      BY <1>2, <2>6
    <2> QED
      BY <2>6, <2>7
  <1>5. Counted'
    BY <1>1, <1>2, <1>4, ArgsStay, SubmissionsFacts DEF Counted, Underway
  <1>6. Filling'
    BY <1>1, JobLegal, ArgsStay, EmptyJob DEF Filling, Underway
  <1>7. PassesOn'
    BY <1>1, <1>2, <1>4, ArgsStay DEF PassesOn, Underway
  <1> QED
    BY <1>4, <1>5, <1>6, <1>7 DEF Parts

(* The last job is the last submission.                                     *)
LEMMA LastIsNext ==
  ASSUME Underway, at = "tasks", plan = <<>>, ~FirstPass
  PROVE  Len(queue) = Submissions - 1 /\ job = Submission(Len(queue) + 1)
  <1>1. Len(queue) = Submissions - 1
    BY SubmissionsFacts DEF Underway, Counted, FirstPass
  <1>2. job = Submission(Len(queue) + 1)
    BY NothingLeftOfPlan DEF Underway, Filling
  <1> QED
    BY <1>1, <1>2

LEMMA EndAsyncStep ==
  ASSUME Underway, NEW f \in Fds, EndAsync(f)
  PROVE  Parts'
  <1>1. /\ at = "tasks" /\ plan = <<>> /\ ~FirstPass /\ ~args.sync /\ dst' = dst /\ plan' = plan
        /\ job' = <<>> /\ passes' = passes /\ release' = f /\ at' = "returned"
        /\ Submit(job, fence, f, ~args.user_close)
    BY DEF EndAsync, Returns
  <1>2. /\ Len(queue) = Submissions - 1 /\ job = Submission(Len(queue) + 1) /\ queue # <<>>
        /\ ~NoBorder /\ fdtab[fence] = FenceOf(Len(queue)) /\ f # NoFd
    <2>1. Len(queue) = Submissions - 1 /\ job = Submission(Len(queue) + 1)
      BY <1>1, LastIsNext
    <2>2. queue # <<>>
      BY <2>1, SubmissionsFacts
    <2>3. ~NoBorder /\ fdtab[fence] = FenceOf(Len(queue))
      BY <1>1 DEF Underway, PassesOn
    <2> QED
      BY <2>1, <2>2, <2>3, DescriptorFacts
  <1>3. Len(queue) < Submissions /\ Len(queue) + 1 = Submissions
    BY <1>2, SubmissionsFacts
  <1>4. /\ Chained' /\ Painted' /\ Len(queue') = Submissions
        /\ fdtab'[f] = FenceOf(Len(queue')) /\ queue' # <<>>
    <2> DEFINE c == ~args.user_close
    <2>1. Submit(job, fence, f, c) /\ dst' = dst
      BY <1>1
    <2> HIDE DEF c
    <2>2. job = Submission(Len(queue) + 1) /\ Len(queue) < Submissions
      BY <1>2, <1>3
    <2>3. fence # NoFd => fdtab[fence] = FenceOf(Len(queue))
      BY <1>2
    <2>4. fence = NoFd => queue = <<>>
      BY <1>1, DescriptorFacts DEF Underway, Inv, FenceHeld
    <2>6. queue = <<>> \/ \A t \in Tasks(job) : Legal(t)
      BY DEF Underway, Filling
    <2>5. /\ Chained' /\ Painted' /\ Len(queue') = Len(queue) + 1
          /\ fdtab'[f] = FenceOf(Len(queue')) /\ queue' # <<>>
      BY <2>1, <2>2, <2>3, <2>4, <2>6, SubmitStep
    <2> QED
      BY <1>3, <2>5
  <1>5. Counted'
    BY <1>1, <1>4, ArgsStay DEF Counted, Underway
  <1>6. Filling'
    BY <1>1, JobLegal, ArgsStay, EmptyJob DEF Filling, Underway
  <1>7. PassesOn'
    BY <1>1, <1>2, <1>4, ArgsStay DEF PassesOn, Underway
  <1> QED
    BY <1>4, <1>5, <1>6, <1>7 DEF Parts

(* imsync: copy_fence_fd has signalled, and so all that was submitted ran.  *)
LEMMA WaitedRan ==
  ASSUME Chained, Len(queue) \in 0..3, NEW n \in 1..Len(queue), fdtab[fence] = FenceOf(n), Waited
  PROVE  Ran(n)
  <1>1. fdtab[fence].kind = "fence" /\ fdtab[fence].job = n
    BY DEF FenceOf
  <1>2. Done(n)
    BY <1>1 DEF Waited
  <1> QED
    BY <1>2, DoneRan

LEMMA EndSyncStep ==
  ASSUME Underway, EndSync
  PROVE  Parts'
  <1>1. /\ at = "last_sync" /\ Waited /\ at' = "end_sync" /\ dst' = dst /\ plan' = plan /\ job' = job
        /\ passes' = passes /\ release' = release /\ fence' = fence
        /\ queue' = Append(queue, [todo |-> Tasks(job), wait |-> NoWait])
    BY DEF EndSync, Tasks
  <1>2. /\ Len(queue) = Submissions - 1 /\ job = Submission(Len(queue) + 1) /\ release = NoFd
        /\ Len(queue) \in 0..3 /\ Len(queue) \in 0..2 /\ queue # <<>> /\ Len(queue) \in 1..Len(queue)
    <2>1. Len(queue) = Submissions - 1 /\ job = Submission(Len(queue) + 1) /\ release = NoFd
      BY <1>1 DEF Underway, Counted, Filling, PassesOn
    <2> DEFINE n == Len(queue)
    <2>2. n = Submissions - 1
      BY <2>1
    <2>3. n # 0 => queue # <<>>
      OBVIOUS
    <2> HIDE DEF n
    <2>4. n \in 0..3 /\ n \in 0..2 /\ n # 0 /\ n \in 1..n
      BY <2>2, SubmissionsFacts
    <2> QED
      BY <2>1, <2>3, <2>4 DEF n
  <1>3. Ran(Len(queue))
    <2>1. CASE NoBorder
      <3>1. Len(queue) = 1
        BY <1>2, <2>1, SubmissionsFacts
      <3>2. Ran(1)
        BY <1>1, <2>1 DEF Underway, PassesOn
      <3> QED
        BY <3>1, <3>2
    <2>2. CASE ~NoBorder
      <3>1. fdtab[fence] = FenceOf(Len(queue))
        BY <1>1, <2>2 DEF Underway, PassesOn
      <3> QED
        BY <1>1, <1>2, <3>1, WaitedRan DEF Underway
    <2> QED
      BY <2>1, <2>2
  <1>4. /\ Chained' /\ Painted' /\ Len(queue') = Submissions /\ queue'[Len(queue')].wait = NoWait
        /\ queue' # <<>>
    <2> DEFINE w == NoWait
    <2>1. w \in Int
      BY DEF NoWait
    <2>2. queue' = Append(queue, [todo |-> Tasks(Submission(Len(queue) + 1)), wait |-> w])
      BY <1>1, <1>2
    <2>3. IF queue = <<>> THEN w \in {NoWait, 0} ELSE w = Len(queue) \/ (w = NoWait /\ Ran(Len(queue)))
      BY <1>2, <1>3
    <2>4. dst' = dst /\ Len(queue) \in 0..2 /\ args' = args
      BY <1>1, <1>2 DEF Underway
    <2>6. queue = <<>> \/ \A t \in Tasks(Submission(Len(queue) + 1)) : Legal(t)
      <3>1. \A t \in Tasks(job) : Legal(t)
        BY DEF Underway, Filling
      <3> QED
        BY <1>2, <3>1
    <2> HIDE DEF w
    <2>5. /\ Chained' /\ Painted' /\ Len(queue') = Len(queue) + 1 /\ queue'[Len(queue')].wait = w
          /\ queue' # <<>>
      BY <2>1, <2>2, <2>3, <2>4, <2>6, Submitted DEF Underway
    <2> QED
      BY <1>2, <2>5, SubmissionsFacts DEF w
  <1>5. Counted'
    BY <1>1, <1>4, ArgsStay DEF Counted, Underway
  <1>6. Filling'
    BY <1>1, JobLegal, ArgsStay, EmptyJob DEF Filling, Underway
  <1>7. PassesOn'
    BY <1>1, <1>2, <1>4, ArgsStay DEF PassesOn, Underway
  <1> QED
    BY <1>4, <1>5, <1>6, <1>7 DEF Parts

(* The steps that submit nothing.                                           *)
LEMMA QueueStays ==
  ASSUME Underway, queue' = queue, dst' = dst
  PROVE  Chained' /\ Painted' /\ \A k : Ran(k)' <=> Ran(k)
  <1>1. \A k : Ran(k)' <=> Ran(k)
    BY DEF Ran
  <1>2. Chained'
    BY <1>1, TasksStay, ArgsStay DEF Chained, Underway
  <1>3. \A r : Right(r) => Right(r)'
    BY ArgsStay DEF Right, Underway
  <1>4. Painted'
    BY <1>3, TasksStay, ArgsStay DEF Painted, Underway
  <1> QED
    BY <1>1, <1>2, <1>4

LEMMA CopySyncStep ==
  ASSUME Underway, CopySync
  PROVE  Parts'
  <1>1. /\ at = "copy_sync" /\ Waited /\ at' = "begin" /\ queue' = queue /\ dst' = dst /\ plan' = plan
        /\ job' = job /\ passes' = passes /\ release' = release
    BY DEF CopySync
  <1>2. Len(queue) = 1 /\ passes = 0 /\ NoBorder /\ args.sync /\ release = NoFd
    BY <1>1 DEF Underway, Counted, PassesOn, Inv, FenceHeld
  <1>3. Ran(1)
    <2>1. fdtab[fence] = FenceOf(1)
      BY <1>1 DEF Underway, PassesOn
    <2>2. Len(queue) \in 0..3 /\ 1 \in 1..Len(queue)
      BY <1>2
    <2> QED
      BY <1>1, <2>1, <2>2, WaitedRan DEF Underway
  <1>4. Chained' /\ Painted' /\ Ran(1)'
    BY <1>1, <1>3, QueueStays
  <1>5. Counted'
    BY <1>1, <1>2, ArgsStay, SubmissionsFacts DEF Counted, Underway
  <1>6. Filling'
    BY <1>1, JobLegal, ArgsStay, EmptyJob DEF Filling, Underway
  <1>7. PassesOn'
    BY <1>1, <1>2, <1>4, ArgsStay DEF PassesOn, Underway
  <1> QED
    BY <1>4, <1>5, <1>6, <1>7 DEF Parts

(* The job that is begun is the next submission.                            *)
LEMMA PlanIsNext ==
  ASSUME Underway, at = "begin"
  PROVE  Plan = Submission(Len(queue) + 1) /\ Plan \in Seq(AllTasks)
  <1> DEFINE n == Len(queue)
  <1>1. n \in 1..Submissions - 1 /\ passes = n - 1
    BY DEF Underway, Counted
  <1> HIDE DEF n
  <1>2. n \in {1, 2} /\ n + 1 \in 1..3 /\ (n = 2 => TwoPasses) /\ (passes = 0 <=> n = 1)
    BY <1>1, SubmissionsFacts
  <1>3. Plan = Submission(n + 1)
    <2>1. CASE args.type = "CONSTANT"
      <3>1. ~TwoPasses
        BY <2>1 DEF TwoPasses
      <3> QED
        BY <1>2, <2>1, <3>1 DEF Plan, Submission, LastTasks
    <2>2. CASE args.type # "CONSTANT" /\ TwoPasses /\ n = 1
      BY <1>2, <2>2 DEF Plan, Submission, LastTasks
    <2>3. CASE args.type # "CONSTANT" /\ ~(TwoPasses /\ n = 1)
      BY <1>2, <2>3 DEF Plan, Submission, LastTasks
    <2> QED
      BY <2>1, <2>2, <2>3
  <1>4. Submission(n + 1) \in Seq(AllTasks)
    BY <1>2, SubmissionSeq
  <1> QED
    BY <1>3, <1>4 DEF n

LEMMA BeginStep ==
  ASSUME Underway, Begin
  PROVE  Parts'
  <1>1. /\ at = "begin" /\ plan' = Plan /\ passes' = passes + 1 /\ at' = "tasks" /\ job' = job
        /\ queue' = queue /\ dst' = dst /\ release' = release /\ fence' = fence /\ fdtab' = fdtab
    BY DEF Begin, Underway, Fine
  <1>2. Chained' /\ Painted' /\ \A k : Ran(k)' <=> Ran(k)
    BY <1>1, QueueStays
  <1>3. Counted'
    <2>1. passes = Len(queue) - 1 /\ Len(queue) \in 1..Submissions - 1
      BY <1>1 DEF Underway, Counted
    <2>2. passes' = Len(queue)
      BY <1>1, <2>1, SubmissionsFacts
    <2> QED
      BY <1>1, <2>1, <2>2, ArgsStay DEF Counted, Underway
  <1>4. Filling'
    <2>1. Plan = Submission(Len(queue) + 1) /\ Plan \in Seq(AllTasks)
      BY <1>1, PlanIsNext
    <2>2. job = <<>> /\ job \in Seq(AllTasks)
      BY <1>1 DEF Underway, Filling
    <2>3. job \o Plan = Plan
      BY <2>1, <2>2, NothingAddedYet
    <2>4. (job \o plan)' = Plan
      BY <1>1, <2>3
    <2>5. Submission(Len(queue) + 1)' = Plan
      BY <1>1, <2>1, ArgsStay DEF Underway
    <2>6. (job \in Seq(AllTasks) /\ plan \in Seq(AllTasks))'
      BY <1>1, <2>1, <2>2, ArgsStay DEF Underway
    <2>7. (\A t \in Tasks(job) : Legal(t))'
      BY <1>1, JobLegal
    <2> QED
      BY <1>1, <2>4, <2>5, <2>6, <2>7 DEF Filling
  <1>5. PassesOn'
    BY <1>1, <1>2, ArgsStay DEF PassesOn, Underway
  <1> QED
    BY <1>2, <1>3, <1>4, <1>5 DEF Parts

LEMMA AddBorderStep ==
  ASSUME Underway, AddBorder
  PROVE  Parts'
  <1>1. /\ at = "tasks" /\ plan # <<>> /\ job' = Append(job, Head(plan)) /\ plan' = Tail(plan)
        /\ at' = at /\ passes' = passes
        /\ queue' = queue /\ dst' = dst /\ release' = release /\ fence' = fence /\ fdtab' = fdtab
    BY DEF AddBorder
  <1>2. Chained' /\ Painted' /\ \A k : Ran(k)' <=> Ran(k)
    BY <1>1, QueueStays
  <1>3. Counted'
    BY <1>1, ArgsStay DEF Counted, Underway
  <1>4. Filling'
    <2>1. /\ job \in Seq(AllTasks) /\ plan \in Seq(AllTasks)
          /\ job \o plan = Submission(Len(queue) + 1)
      BY <1>1 DEF Underway, Filling
    <2>2. (job \o plan)' = job \o plan
      BY <1>1, <2>1, MoveOne
    <2>3. job' \in Seq(AllTasks) /\ plan' \in Seq(AllTasks)
      BY <1>1, <2>1
    <2>4. Submission(Len(queue) + 1)' = Submission(Len(queue) + 1) /\ AllTasks' = AllTasks
      BY <1>1, ArgsStay DEF Underway
    <2>5. (\A t \in Tasks(job) : Legal(t))'
      <3>1. Legal(Head(plan)) /\ \A t \in Tasks(job) : Legal(t)
        BY DEF AddBorder, Underway, Filling
      <3>2. Head(plan) \in AllTasks
        BY <1>1, <2>1
      <3> DEFINE h == Head(plan)
      <3>3. job' = Append(job, h) /\ h \in AllTasks
        BY <1>1, <3>2
      <3> HIDE DEF h
      <3>4. /\ DOMAIN job' = 1..Len(job) + 1 /\ DOMAIN job = 1..Len(job) /\ Len(job) \in Nat
            /\ \A i \in 1..Len(job) : job'[i] = job[i]
            /\ job'[Len(job) + 1] = h
        BY <2>1, <3>3, AppendFacts
      <3>5. \A t \in Tasks(job)' : t \in Tasks(job) \/ t = h
        BY <3>4 DEF Tasks
      <3> QED
        BY <3>1, <3>5, ArgsStay DEF h, Underway
    <2> QED
      BY <1>1, <2>1, <2>2, <2>3, <2>4, <2>5 DEF Filling
  <1>5. PassesOn'
    BY <1>1, <1>2, ArgsStay DEF PassesOn, Underway
  <1> QED
    BY <1>2, <1>3, <1>4, <1>5 DEF Parts

LEMMA LastSyncStep ==
  ASSUME Underway, LastSync
  PROVE  Parts'
  <1>1. /\ at = "tasks" /\ plan = <<>> /\ ~FirstPass /\ at' = "last_sync" /\ job' = job /\ plan' = plan
        /\ passes' = passes
        /\ queue' = queue /\ dst' = dst /\ release' = release /\ fence' = fence /\ fdtab' = fdtab
    BY DEF LastSync
  <1>2. Chained' /\ Painted' /\ \A k : Ran(k)' <=> Ran(k)
    BY <1>1, QueueStays
  <1>3. Len(queue) = Submissions - 1 /\ job = Submission(Len(queue) + 1)
    BY <1>1, LastIsNext
  <1>4. Counted'
    BY <1>1, <1>3, ArgsStay DEF Counted, Underway
  <1>5. Filling'
    BY <1>1, <1>3, ArgsStay DEF Filling, Underway
  <1>6. PassesOn'
    BY <1>1, <1>2, ArgsStay DEF PassesOn, Underway
  <1> QED
    BY <1>2, <1>4, <1>5, <1>6 DEF Parts

LEMMA EndReturnsStep ==
  ASSUME Underway, EndReturns
  PROVE  Parts'
  <1>1. /\ at = "end_sync" /\ at' = "returned" /\ job' = <<>> /\ plan' = plan /\ Done(Len(queue))
        /\ queue' = queue /\ dst' = dst /\ release' = release /\ fence' = fence /\ fdtab' = fdtab
    BY DEF EndReturns, Returns
  <1>2. Chained' /\ Painted' /\ \A k : Ran(k)' <=> Ran(k)
    BY <1>1, QueueStays
  <1>3. Len(queue) = Submissions /\ release = NoFd
    BY <1>1 DEF Underway, Counted, PassesOn
  <1>4. Ran(Len(queue))
    <2>1. Len(queue) \in 0..3 /\ Len(queue) \in 1..Len(queue)
      <3> DEFINE n == Len(queue)
      <3>1. n = Submissions
        BY <1>3
      <3> HIDE DEF n
      <3>2. n \in 0..3 /\ n \in 1..n
        BY <3>1, SubmissionsFacts
      <3> QED
        BY <3>2 DEF n
    <2> QED
      BY <1>1, <2>1, DoneRan DEF Underway
  <1>5. Counted'
    BY <1>1, <1>3, ArgsStay DEF Counted, Underway
  <1>6. Filling'
    BY <1>1, JobLegal, ArgsStay, EmptyJob DEF Filling, Underway
  <1>7. PassesOn'
    BY <1>1, <1>2, <1>3, <1>4 DEF PassesOn
  <1> QED
    BY <1>2, <1>5, <1>6, <1>7 DEF Parts

(* The steps of the hardware, of the producer and of another thread.        *)
LEMMA HardwareStep ==
  ASSUME Underway, Within, NEW j \in DOMAIN queue, RunTask(j)
  PROVE  Parts'
  <1>1. UNCHANGED library /\ fdtab' = fdtab
    BY DEF RunTask
  <1>2. Len(queue) \in 0..3 /\ Len(queue) <= Submissions
    BY CountFacts DEF Underway, Inv, FenceTypes
  <1>3. /\ Chained' /\ Painted' /\ Len(queue') = Len(queue)
        /\ \A i \in DOMAIN queue : queue'[i].wait = queue[i].wait
        /\ \A k \in 0..Len(queue) : Ran(k) => Ran(k)'
        /\ queue' = <<>> <=> queue = <<>>
    BY <1>2, RunStep DEF Underway, Fine
  <1>4. Counted'
    BY <1>1, <1>3, ArgsStay DEF library, Counted, Underway
  <1>5. Filling'
    BY <1>1, <1>3, ArgsStay DEF library, Filling, Underway
  <1>6. PassesOn'
    <2>1. at = "end_sync" => Len(queue) \in DOMAIN queue
      <3>1. at = "end_sync" => Len(queue) = Submissions
        BY DEF Underway, Counted
      <3>2. DOMAIN queue = 1..Len(queue)
        BY <1>2, QueueFacts DEF Underway, QueueShape
      <3> QED
        BY <3>1, <3>2, SubmissionsFacts
    <2>2. NoBorder /\ at \in {"begin", "tasks", "last_sync"} => 1 \in 0..Len(queue)
      BY SubmissionsFacts DEF Underway, Counted
    <2>3. Len(queue) \in 0..Len(queue)
      BY <1>2
    <2>4. Ran(Len(queue)) => Ran(Len(queue))'
      BY <1>3, <2>3 DEF Ran
    <2> QED
      BY <1>1, <1>3, <2>1, <2>2, <2>4, ArgsStay DEF library, PassesOn, Underway
  <1> QED
    BY <1>3, <1>4, <1>5, <1>6 DEF Parts

LEMMA OutsideStep ==
  ASSUME Underway, UNCHANGED library, queue' = queue, dst' = dst,
         at # "returned" => \A g \in Fds : IsFence(g) => fdtab'[g] = fdtab[g],
         at = "returned" => fdtab' = fdtab
  PROVE  Parts'
  <1>1. Chained' /\ Painted' /\ \A k : Ran(k)' <=> Ran(k)
    BY QueueStays
  <1>2. Counted' /\ Filling'
    BY ArgsStay DEF library, Counted, Filling, Underway
  <1>3. at = "copy" /\ args.acquire => fdtab'[1] = FenceOf(0)
    <2>1. 1 \in Fds
      BY BorderAssumption DEF Fds
    <2> QED
      BY <2>1, DescriptorFacts DEF Underway, PassesOn, IsFence
  <1>4. at = "copy_sync" => fdtab'[fence] = FenceOf(1)
    BY DescriptorFacts DEF Underway, PassesOn, Inv, FenceHeld, IsFence
  <1>5. at \in {"begin", "tasks", "last_sync"} /\ ~NoBorder => fdtab'[fence] = FenceOf(Len(queue))
    BY DescriptorFacts DEF Underway, PassesOn, Inv, FenceHeld, IsFence
  <1>6. PassesOn'
    BY <1>1, <1>3, <1>4, <1>5, ArgsStay DEF library, PassesOn, Underway
  <1> QED
    BY <1>1, <1>2, <1>6 DEF Parts

LEMMA PictureStays ==
  ASSUME SidesWithin, Inv, Picture, [Next]_vars
  PROVE  Picture'
  <1> SUFFICES ASSUME Fine' PROVE Parts'
    BY DEF Picture, Parts
  <1>1. ret' # "error"
    BY DEF Fine
  <1>2. Within
    BY DEF SidesWithin, Within, Bordered, Inv, FenceTypes
  <1>3. CASE Refuse \/ Refused \/ Fails
    BY <1>1, <1>3 DEF Refuse, Refused, Fails, GivesUp, Returns
  <1>4. ASSUME at # "returned" \/ ret' = ret PROVE Underway
    BY <1>4, StepsUnderway
  <1>5. ASSUME NEW f \in Fds, Copy(f) \/ EndFirst(f) \/ EndAsync(f) PROVE Parts'
    <2>1. Underway
      BY <1>4, <1>5 DEF Copy, EndFirst, EndAsync
    <2> QED
      BY <1>5, <2>1, CopyStep, EndFirstStep, EndAsyncStep
  <1>6. CASE CopySync \/ Begin \/ AddBorder \/ LastSync \/ EndSync \/ EndReturns
    <2>1. Underway
      BY <1>4, <1>6 DEF CopySync, Begin, AddBorder, LastSync, EndSync, EndReturns
    <2> QED
      BY <1>6, <2>1, CopySyncStep, BeginStep, AddBorderStep, LastSyncStep, EndSyncStep, EndReturnsStep
  <1>7. ASSUME NEW j \in DOMAIN queue, RunTask(j) PROVE Parts'
    <2>1. Underway
      BY <1>4, <1>7 DEF RunTask, library
    <2> QED
      BY <1>2, <1>7, <2>1, HardwareStep
  <1>8. CASE Produce \/ UNCHANGED vars
    <2>1. UNCHANGED library /\ queue' = queue /\ dst' = dst /\ fdtab' = fdtab
      BY <1>8 DEF Produce, vars
    <2>2. Underway
      BY <1>4, <2>1 DEF library
    <2> QED
      BY <2>1, <2>2, OutsideStep
  <1>9. ASSUME NEW f \in Fds, OtherThread(f) PROVE Parts'
    <2>1. UNCHANGED library /\ queue' = queue /\ dst' = dst /\ at # "returned"
      BY <1>9 DEF OtherThread
    <2>2. \A g \in Fds : IsFence(g) => fdtab'[g] = fdtab[g]
      BY <1>9, DescriptorFacts DEF OtherThread, NextFd, IsFence, Inv, FenceTypes
    <2>3. Underway
      BY <1>4, <2>1
    <2> QED
      BY <2>1, <2>2, <2>3, OutsideStep
  <1> QED
    BY <1>3, <1>5, <1>6, <1>7, <1>8, <1>9 DEF Next, Library, Hardware

(* When the call has succeeded and its release fence has signalled, all     *)
(* that was submitted has run.                                              *)
LEMMA ReadyRan ==
  ASSUME Inv, Picture, Ready, args.type # "unknown"
  PROVE  Painted /\ Chained /\ Ran(Len(queue)) /\ Len(queue) \in 0..3
         /\ (Len(queue) = Submissions \/ (NoBorder /\ Len(queue) = 1))
  <1>1. at = "returned" /\ Fine
    BY DEF Ready, Inv, OneFence, Fine, FenceTypes
  <1>2. Painted /\ Chained /\ Counted /\ PassesOn
    BY <1>1 DEF Picture
  <1>3. /\ Len(queue) \in 0..3
        /\ Len(queue) = Submissions \/ (NoBorder /\ Len(queue) = 1)
    BY <1>1, <1>2, CountFacts DEF Counted, Stages
  <1>4. Len(queue) \in 1..Len(queue)
    <2> DEFINE n == Len(queue)
    <2>1. n = Submissions \/ n = 1
      BY <1>3
    <2> HIDE DEF n
    <2>2. n \in 1..n
      BY <2>1, SubmissionsFacts
    <2> QED
      BY <2>2 DEF n
  <1>5. Ran(Len(queue))
    <2>1. CASE release = NoFd
      BY <1>1, <1>2, <2>1 DEF PassesOn
    <2>2. CASE release # NoFd
      <3>1. fdtab[release].job = Len(queue)
        BY <1>1, <1>2, <2>2 DEF PassesOn, FenceOf
      <3>2. Done(Len(queue))
        BY <2>2, <3>1 DEF Ready
      <3> QED
        BY <1>2, <1>3, <1>4, <3>2, DoneRan
    <2> QED
      BY <2>1, <2>2
  <1> QED
    BY <1>2, <1>3, <1>5

LEMMA PictureDrawn ==
  ASSUME Inv, Picture
  PROVE  BorderDrawn
  <1> SUFFICES ASSUME Ready, args.type # "unknown", NEW p \in Pixels
               PROVE  dst[p] = Wanted(p[1], p[2])
    BY DEF BorderDrawn
  <1>1. args \in Calls
    BY DEF Inv, FenceTypes
  <1>2. Painted /\ Chained /\ Ran(Len(queue)) /\ Len(queue) \in 0..3
        /\ (Len(queue) = Submissions \/ (NoBorder /\ Len(queue) = 1))
    BY ReadyRan
  <1>3. p[1] \in 0..Width - 1 /\ p[2] \in 0..Height - 1
    BY <1>1, PixelFacts
  <1>4. PICK j \in 1..Submissions : \E t \in Tasks(Submission(j)) :
           Inside(p[1], p[2], t.to) /\ (NoBorder => j = 1)
    BY <1>1, <1>3, Covered
  <1>5. PICK t \in Tasks(Submission(j)) : Inside(p[1], p[2], t.to) /\ (NoBorder => j = 1)
    BY <1>4
  <1>6. j \in 1..Len(queue)
    BY <1>2, <1>5, SubmissionsFacts
  <1>7. queue[j].todo = {} /\ j \in DOMAIN queue
    BY <1>2, <1>6, QueueFacts DEF Ran, QueueShape
  <1>8. Right(t.to)
    BY <1>2, <1>5, <1>7 DEF Painted
  <1> QED
    BY <1>5, <1>8 DEF Right

(* Whatever the size of the image, the borders, the faults and the order in *)
(* which the hardware runs the tasks: when immakeBorder has succeeded and   *)
(* its release fence, if it has one, has signalled, every pixel of dst is   *)
(* the one the documentation draws.                                         *)
THEOREM BorderIsDrawn == ASSUME SidesWithin PROVE Spec => []BorderDrawn
  <1>1. Inv /\ Picture => BorderDrawn
    BY PictureDrawn
  <1>2. Inv /\ Picture /\ [Next]_vars => Picture'
    BY PictureStays
  <1> QED
    BY <1>1, <1>2, Starts, BorderInv, PTL DEF Spec
=============================================================================
