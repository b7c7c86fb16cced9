----------------------------- MODULE TaskSubmit -----------------------------
(* The end of rga_task_submit for a task that is not put into a job, and    *)
(* the calls that submit several tasks and make one fence of theirs:        *)
(* imfillArray, immosaicArray, imrectangle and imrectangleArray, with       *)
(* rga_sync_merge.  Threads share the table of descriptors, the heap and    *)
(* the kernel interface rga_sync.cpp remembers.                             *)
EXTENDS Integers, FiniteSets

CONSTANTS
  Threads,      \* threads of the process; each makes one call
  Calls,        \* the calls they may make
  Hosts,        \* the kernels and drivers they may run on
  MaxFd,        \* the last descriptor the process may have
  Addrs,        \* addresses malloc may return for a coefficient table
  NoAddr,       \* no address
  MaxTries,     \* bound on the signals that interrupt an ioctl
  MaxRefusals   \* bound on the merges of a call that the kernel refuses

(* A call submits groups * sides tasks.  The fences of a group are merged   *)
(* if it is an "array" or "nested", and those of the groups if "nested".    *)
(* fence: the caller wants the release fence; acquire: it gives one to wait *)
(* for; gauss: the tasks have IM_GAUSS.                                     *)
CallForm == [form : {"one", "array", "nested"}, groups : Nat, sides : Nat, async : BOOLEAN,
             fence : BOOLEAN, acquire : BOOLEAN, gauss : BOOLEAN]

(* The kernel's interface for sync files; driver_type; whether the driver   *)
(* leaves acquire fences to the library (driver 1.3.0 and later).           *)
HostForm == [sync : {"MODERN", "LEGACY"}, driver : {"MULTI", "RGA2"}, userClose : BOOLEAN]

ASSUME SubmitAssumption ==
  /\ Calls \subseteq CallForm
  /\ \A c \in Calls : c.groups > 0
  /\ \A c \in Calls : c.form = "one"   => c.groups = 1 /\ c.sides = 1
  /\ \A c \in Calls : c.form = "array" => c.groups = 1
  /\ \A c \in Calls : c.form = "nested" => c.sides > 0
  /\ \A c \in Calls : c.form # "one"   => ~c.acquire /\ ~c.gauss
  /\ Hosts \subseteq HostForm
  /\ \A h \in Hosts : h.userClose => h.driver = "MULTI"
  /\ MaxFd \in Nat /\ MaxTries \in Nat /\ MaxRefusals \in Nat
  /\ NoAddr \notin Addrs

VARIABLES
  host,  \* where the process runs; never changes
  uapi,  \* g_uapi_version
  fds,   \* what each descriptor refers to (external)
  heap,  \* whose coefficients lie at each address
  call   \* the call of each thread, with its locals

shared == <<host, uapi, fds, heap>>
vars == <<shared, call>>

Fds == 0..MaxFd

(* The n-th submission of a thread; the 0-th is the caller's own, whose     *)
(* fence the call has to wait for.                                          *)
Submissions == Threads \X Nat
Nobody == <<NoAddr, 0>>

Closed == [kind |-> "closed", of |-> {}]
Stdin  == [kind |-> "stdin", of |-> {}]
Fence(submissions) == [kind |-> "fence", of |-> submissions]
Files == [kind : {"closed", "stdin", "fence"}, of : SUBSET Submissions]

NoCall == [form |-> "one", groups |-> 1, sides |-> 1, async |-> FALSE, fence |-> FALSE,
           acquire |-> FALSE, gauss |-> FALSE]

(* i, j: how many of the group, and how many groups, are done; n: how many  *)
(* have been tried; inner, outer: tmp_fence_fd of the group's loop and of   *)
(* the loop over groups; rel: *release_fence_fd; acq: the acquire fence;    *)
(* table: req.gauss_config.coe_ptr; api: the interface a merge has loaded;  *)
(* level: the loop that merges; refused: merges the kernel refused.         *)
NotCalled == [at |-> "start", op |-> NoCall, i |-> 0, j |-> 0, n |-> 0, inner |-> -1,
              outer |-> -1, rel |-> -1, acq |-> -1, table |-> NoAddr, api |-> "UNKNOWN",
              level |-> "inner", tries |-> 0, refused |-> 0, status |-> "none"]

Init ==
  /\ host \in Hosts
  /\ uapi = "UNKNOWN"
  /\ fds = [f \in Fds |-> IF f = 0 THEN Stdin ELSE Closed]
  /\ heap = [a \in Addrs |-> Nobody]
  /\ call = [t \in Threads |-> NotCalled]

Lowest(f) == fds[f] = Closed /\ \A g \in 0..(f - 1) : fds[g] # Closed

Full == \A f \in Fds : fds[f] # Closed

At(t, label) == call[t].at = label

(* The submission a thread is at, or the one it made last. *)
This(t) == <<t, call[t].n>>

(* rga_sync_merge is called for a fence that follows another; the first is  *)
(* kept, and so is what there was when a submission leaves none.            *)
Fenced(c) == c.op.async /\ c.op.fence

(* A bug: the fence of the last submission is taken for all of them. *)
Merges_Never(c, kept) == FALSE

Merges(c, kept) == Fenced(c) /\ c.op.form # "one" /\ c.rel >= 0 /\ kept >= 0

Keep(c, kept) == IF Fenced(c) /\ c.op.form # "one" /\ c.rel >= 0 THEN c.rel ELSE kept

(* The loop over groups, then the loop of a group.  Each leaves what it has *)
(* kept in *release_fence_fd when it ends.                                  *)
NextGroup(c, tmp) ==
  IF c.j + 1 < c.op.groups
  THEN [c EXCEPT !.at = "loop", !.i = 0, !.inner = -1, !.j = @ + 1, !.outer = tmp]
  ELSE [c EXCEPT !.at = "end", !.status = "SUCCESS", !.j = @ + 1, !.outer = tmp,
                 !.rel = IF c.op.fence THEN tmp ELSE @]

GroupBack(c) ==
  IF Merges(c, c.outer) THEN [c EXCEPT !.at = "merge", !.level = "outer"]
  ELSE NextGroup(c, Keep(c, c.outer))

GroupDone(c) ==
  LET left == [c EXCEPT !.rel = IF c.op.form # "one" /\ c.op.fence THEN c.inner ELSE @]
  IN  IF c.op.form = "nested" THEN GroupBack(left)
      ELSE [left EXCEPT !.at = "end", !.status = "SUCCESS"]

NextTask(c, tmp) ==
  LET d == [c EXCEPT !.at = "loop", !.i = @ + 1, !.inner = tmp]
  IN  IF d.i < d.op.sides THEN d ELSE GroupDone(d)

TaskBack(c) ==
  IF Merges(c, c.inner) THEN [c EXCEPT !.at = "merge", !.level = "inner"]
  ELSE NextTask(c, Keep(c, c.inner))

Entered(op) ==
  LET c == [NotCalled EXCEPT !.at = "loop", !.op = op]
  IN  IF op.sides = 0 THEN GroupDone(c) ELSE c

Begin(t, op) ==
  /\ At(t, "start")
  /\ \/ /\ ~op.acquire
        /\ call' = [call EXCEPT ![t] = Entered(op)]
        /\ UNCHANGED fds
     \/ /\ op.acquire
        /\ \E f \in Fds :
             /\ Lowest(f)
             /\ fds' = [fds EXCEPT ![f] = Fence({<<t, 0>>})]
             /\ call' = [call EXCEPT ![t] = [Entered(op) EXCEPT !.acq = f]]
  /\ UNCHANGED <<host, uapi, heap>>
-----------------------------------------------------------------------------
Fail(t, label) == call' = [call EXCEPT ![t].at = label, ![t].status = "FAILED"]

(* The checks and the generators of rga_task_submit.  The table of          *)
(* coefficients is made before the last tests and is known to req only once *)
(* the generator succeeds, so that what fails in between loses it.          *)
Try(t) == [call[t] EXCEPT !.at = "ioctl", !.n = @ + 1, !.tries = 0]

MakesTable(t, a) ==
  /\ call[t].op.gauss /\ heap[a] = Nobody
  /\ heap' = [heap EXCEPT ![a] = <<t, call[t].n + 1>>]

Submittable(t) == call[t].op.async => call[t].op.fence

Generate(t) ==
  /\ At(t, "loop")
  /\ \/ Fail(t, "end") /\ UNCHANGED heap
     \/ /\ ~call[t].op.gauss /\ Submittable(t)
        /\ call' = [call EXCEPT ![t] = Try(t)]
        /\ UNCHANGED heap
     \/ \E a \in Addrs :
          /\ MakesTable(t, a)
          /\ \/ Submittable(t) /\ call' = [call EXCEPT ![t] = [Try(t) EXCEPT !.table = a]]
             \/ Fail(t, "end")
  /\ UNCHANGED <<host, uapi, fds>>
-----------------------------------------------------------------------------
(* The ioctl that submits.  A signal repeats it. *)
Interrupted(t) ==
  /\ At(t, "ioctl") /\ call[t].tries < MaxTries
  /\ call' = [call EXCEPT ![t].tries = @ + 1]
  /\ UNCHANGED shared

(* A bug: the failure of the ioctl returns past release_resource. *)
Refused_Lost(t) ==
  /\ At(t, "ioctl")
  /\ Fail(t, "end")
  /\ UNCHANGED shared

Refused(t) ==
  /\ At(t, "ioctl")
  /\ Fail(t, "release")
  /\ UNCHANGED shared

(* Only drivers before 1.3.0 close the acquire fence. *)
DriverCloses(t) ==
  call[t].op.async /\ call[t].op.acquire /\ host.driver = "MULTI" /\ ~host.userClose

AfterIoctl(t) == IF DriverCloses(t) THEN [fds EXCEPT ![call[t].acq] = Closed] ELSE fds

(* The older drivers leave out_fence_fd as it was cleared, 0. *)
Taken(t) ==
  LET async == call[t].op.async IN
  /\ At(t, "ioctl")
  /\ \/ /\ async /\ host.driver = "MULTI"
        /\ \E f \in Fds :
             /\ Lowest(f)
             /\ fds' = [AfterIoctl(t) EXCEPT ![f] = Fence({This(t)})]
             /\ call' = [call EXCEPT ![t].at = "close", ![t].rel = f]
     \/ /\ async /\ host.driver # "MULTI"
        /\ call' = [call EXCEPT ![t].at = "close", ![t].rel = 0]
        /\ UNCHANGED fds
     \/ /\ ~async
        /\ call' = [call EXCEPT ![t].at = "close"]
        /\ UNCHANGED fds
  /\ UNCHANGED <<host, uapi, heap>>

(* A bug: the driver's version is not asked for. *)
LibraryCloses_Always(t) == call[t].op.async /\ call[t].acq > 0

(* A bug: synchronous calls close it as well. *)
LibraryCloses_Sync(t) == host.userClose /\ call[t].acq > 0

(* The library closes the acquire fence that the driver leaves to it. *)
LibraryCloses(t) == call[t].op.async /\ host.userClose /\ call[t].acq > 0

CloseAcquire(t) ==
  /\ At(t, "close")
  /\ fds' = IF LibraryCloses(t) THEN [fds EXCEPT ![call[t].acq] = Closed] ELSE fds
  /\ call' = [call EXCEPT ![t].at = "release"]
  /\ UNCHANGED <<host, uapi, heap>>

(* release_resource: the table goes, after a failure as well. *)
Release(t) ==
  LET c == call[t] IN
  /\ At(t, "release")
  /\ heap' = IF c.op.gauss THEN [heap EXCEPT ![c.table] = Nobody] ELSE heap
  /\ call' = [call EXCEPT ![t] =
                IF c.status = "FAILED" THEN [c EXCEPT !.at = "end"] ELSE TaskBack(c)]
  /\ UNCHANGED <<host, uapi, fds>>
-----------------------------------------------------------------------------
Kept(c) == IF c.level = "inner" THEN c.inner ELSE c.outer

Continue(c, tmp) == IF c.level = "inner" THEN NextTask(c, tmp) ELSE NextGroup(c, tmp)

MergeLoad(t) ==
  /\ At(t, "merge")
  /\ call' = [call EXCEPT ![t].at = IF uapi = "LEGACY" THEN "legacy" ELSE "modern", ![t].api = uapi]
  /\ UNCHANGED shared

(* The merge of two fences by one of the kernel's interfaces (external): it *)
(* makes a third, or there is no room; what is no sync file, and the        *)
(* interface of another kernel, is ENOTTY.  Neither of the two is closed.   *)
IsFence(f) == fds[f].kind = "fence"

Understood(t, interface) == host.sync = interface /\ IsFence(Kept(call[t])) /\ IsFence(call[t].rel)

Remember(t, interface) == uapi' = IF call[t].api = "UNKNOWN" THEN interface ELSE uapi

Merged(t, interface) ==
  LET c == call[t] IN
  /\ Understood(t, interface)
  /\ \E f \in Fds :
       /\ Lowest(f)
       /\ fds' = [fds EXCEPT ![f] = Fence(fds[Kept(c)].of \cup fds[c.rel].of)]
       /\ call' = [call EXCEPT ![t] = Continue(c, f)]
  /\ Remember(t, interface)
  /\ UNCHANGED <<host, heap>>

NoMerge(t, interface) ==
  /\ Understood(t, interface)
  /\ call[t].refused < MaxRefusals \/ Full
  /\ call' = [call EXCEPT ![t] = [Continue(call[t], -1) EXCEPT !.refused = @ + 1]]
  /\ UNCHANGED shared

ModernMerge(t) ==
  /\ At(t, "modern")
  /\ \/ Merged(t, "MODERN")
     \/ NoMerge(t, "MODERN")
     \/ /\ ~Understood(t, "MODERN")
        /\ call' = [call EXCEPT ![t].at = "legacy"]
        /\ UNCHANGED shared

LegacyMerge(t) ==
  /\ At(t, "legacy")
  /\ \/ Merged(t, "LEGACY")
     \/ NoMerge(t, "LEGACY")
     \/ /\ ~Understood(t, "LEGACY")
        /\ call' = [call EXCEPT ![t] = Continue(call[t], -1)]
        /\ UNCHANGED shared

(* The caller waits with imsync, which closes the fence unless the poll     *)
(* fails; a poll that a signal ends is repeated.                            *)
SyncWait(f) == IF IsFence(f) THEN {0, -1} ELSE {-1}

Imsync(t) ==
  /\ At(t, "end") /\ call[t].status = "SUCCESS" /\ Fenced(call[t]) /\ call[t].rel > 0
  /\ \E ret \in SyncWait(call[t].rel) :
       fds' = IF ret = 0 THEN [fds EXCEPT ![call[t].rel] = Closed] ELSE fds
  /\ call' = [call EXCEPT ![t].at = "over"]
  /\ UNCHANGED <<host, uapi, heap>>

Step(t) ==
  \/ \E op \in Calls : Begin(t, op)
  \/ Generate(t)
  \/ Interrupted(t) \/ Refused(t) \/ Taken(t) \/ CloseAcquire(t) \/ Release(t)
  \/ MergeLoad(t) \/ ModernMerge(t) \/ LegacyMerge(t) \/ Imsync(t)

Next == \E t \in Threads : Step(t)

Spec == Init /\ [][Next]_vars
-----------------------------------------------------------------------------
CallState == [at : {"start", "loop", "ioctl", "close", "release", "merge",
                    "modern", "legacy", "end", "over"},
              op : Calls \cup {NoCall}, i : Nat, j : Nat, n : Nat, inner : Fds \cup {-1},
              outer : Fds \cup {-1}, rel : Fds \cup {-1}, acq : Fds \cup {-1},
              table : Addrs \cup {NoAddr}, api : {"UNKNOWN", "MODERN", "LEGACY"},
              level : {"inner", "outer"}, tries : Nat, refused : Nat,
              status : {"none", "SUCCESS", "FAILED"}]

TypeOK ==
  /\ host \in Hosts
  /\ uapi \in {"UNKNOWN", "MODERN", "LEGACY"}
  /\ fds \in [Fds -> Files]
  /\ heap \in [Addrs -> Submissions \cup {Nobody}]
  /\ call \in [Threads -> CallState]

Done(t) == At(t, "end") /\ call[t].status = "SUCCESS"

(* The one fence that a successful call hands out stands for every task it  *)
(* submitted, through both loops of imrectangleArray, whichever interface   *)
(* the kernel has, whatever another thread has made rga_sync.cpp remember,  *)
(* and whoever got the numbers of closed descriptors meanwhile.  Only a     *)
(* merge for which the kernel had no room loses a fence, and the call still *)
(* succeeds; drivers before the multi-core one hand out 0.                  *)
FenceCovers ==
  \A t \in Threads :
    (Done(t) /\ Fenced(call[t]) /\ host.driver = "MULTI" /\ call[t].refused = 0 /\ call[t].n > 0) =>
      /\ call[t].rel \in Fds
      /\ fds[call[t].rel] = Fence({<<t, k>> : k \in 1..call[t].n})

(* The acquire fence is closed by a call that succeeds asynchronously, by   *)
(* the driver or the library as the version says, and by no other: after a  *)
(* failure, or a synchronous call, it is still the caller's to close.       *)
AcquireSettled ==
  \A t \in Threads :
    (At(t, "end") /\ call[t].op.acquire /\ host.driver = "MULTI") =>
      ((\E f \in Fds : fds[f] = Fence({<<t, 0>>})) <=> ~(Done(t) /\ call[t].op.async))

(* The table of coefficients that req points to is this submission's own    *)
(* from the ioctl on, however often that is repeated, and no longer when    *)
(* the call has returned, whether it failed or not: the driver never reads  *)
(* what was freed or has become another thread's (release_resource).        *)
TableLives ==
  \A t \in Threads :
    call[t].table # NoAddr =>
      (heap[call[t].table] = This(t) <=> call[t].at \in {"ioctl", "close", "release"})

(* No step takes away a descriptor of somebody else: what a thread or the   *)
(* driver on its behalf closes is the acquire fence it was given or, in     *)
(* imsync, a fence of its own submissions, although numbers are used again. *)
OwnClosed ==
  [][\A f \in Fds :
       (fds[f] # Closed /\ fds'[f] # fds[f]) =>
         \E t \in Threads : /\ call'[t] # call[t]
                            /\ fds[f].kind = "fence"
                            /\ fds[f].of \subseteq {t} \X Nat]_vars
=============================================================================
