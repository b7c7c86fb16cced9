---------------------------- MODULE LegacyContext ----------------------------
(* The context behind the legacy API (NormalRga.cpp): one rgaCtx for the    *)
(* process, opened by the first RockchipRga object, counted in refCount,    *)
(* closed with the last one, and read without a lock by every RgaBlit.      *)
(* A thread owns one object.  mMutex protects refCount alone, so the        *)
(* application must not build and destroy objects at once: a "disciplined"  *)
(* client builds and destroys under a lock of its own (as RockchipRga::get  *)
(* does with the singleton's) and blits at any time.  A "manual" client     *)
(* calls RkRgaInit and RkRgaDeInit as it likes, from one thread.            *)
EXTENDS Integers, FiniteSets

CONSTANTS
  Threads,
  Ctx,      \* addresses malloc may answer with; a context's descriptor goes by its name
  NoCtx,    \* NULL
  Clients,  \* of "disciplined", "manual"
  Drivers,  \* of "new" (1.3.0 and later), "old", "compat" (without version ioctl)
  Garbage,  \* what driver_feature may say in memory fresh from malloc
  Faults,   \* of "open", "version", "check", "blit"
  MaxRef    \* bound on refCount

ASSUME LegacyAssumption ==
  /\ IsFiniteSet(Threads)
  /\ NoCtx \notin Ctx
  /\ Clients \subseteq {"disciplined", "manual"}
  /\ Drivers \subseteq {"new", "old", "compat"}
  /\ Garbage \subseteq BOOLEAN /\ Garbage # {}
  /\ Faults \subseteq {"open", "version", "check", "blit"}
  /\ MaxRef \in Nat

VARIABLES
  client, driver,
  rgaCtx, refCount,
  live,       \* contexts that are allocated
  fds,        \* open descriptors of /dev/rga
  feature,    \* contexts with RGA_DRIVER_FEATURE_USER_CLOSE_FENCE
  alive,      \* threads whose object is built and not destroyed
  supported,  \* threads whose object has mSupportRga
  mContext,   \* mContext of each object
  pc, ctx,    \* where a thread is, and its local ctx
  op,         \* what it is in: "init", "deinit", "destroy" or "blit"
  fence,      \* the acquire fence of its last blit, if that did not fail
  lost        \* descriptors a failed NormalRgaOpen has left open

global == <<rgaCtx, refCount, live, fds, feature, lost>>
object == <<alive, supported, mContext>>
vars   == <<client, driver, global, object, fence, pc, ctx, op>>

Lifecycle == {"open", "version", "count", "check", "close", "uncount", "release", "free"}
Blitting  == {"ioctl", "after"}

Init ==
  /\ client \in Clients /\ driver \in Drivers
  /\ rgaCtx = NoCtx /\ refCount = 0
  /\ live = {} /\ fds = {} /\ lost = {}
  /\ feature = {}
  /\ alive = {} /\ supported = {}
  /\ mContext = [t \in Threads |-> NoCtx]
  /\ pc = [t \in Threads |-> "idle"]
  /\ ctx = [t \in Threads |-> NoCtx]
  /\ op = [t \in Threads |-> "none"]
  /\ fence = [t \in Threads |-> "none"]

(* What the client's discipline lets thread t begin. *)
MayChange(t) ==
  /\ pc[t] = "idle"
  /\ \A u \in Threads : pc[u] \notin Lifecycle
  /\ client = "manual" => \A u \in Threads : pc[u] = "idle"

MayBlit(t) ==
  /\ pc[t] = "idle" /\ t \in alive
  /\ client = "disciplined" => t \in supported
  /\ client = "manual" => \A u \in Threads : pc[u] = "idle"

Goto(t, label) == pc' = [pc EXCEPT ![t] = label]

Return(t) ==
  /\ Goto(t, "idle")
  /\ ctx' = [ctx EXCEPT ![t] = NoCtx]
  /\ op' = [op EXCEPT ![t] = "none"]
-----------------------------------------------------------------------------
(* RkRgaInit, from the constructor or by hand. *)
RkRgaInit(t) ==
  /\ MayChange(t)
  /\ \/ t \notin alive
     \/ client = "manual" /\ t \notin supported
  /\ alive' = alive \cup {t}
  /\ Goto(t, "open")
  /\ op' = [op EXCEPT ![t] = "init"]
  /\ UNCHANGED <<client, driver, global, supported, mContext, fence, ctx>>

(* NormalRgaOpen: malloc and open. *)
OpenFirst(t, c) ==
  /\ pc[t] = "open" /\ rgaCtx = NoCtx
  /\ c \in Ctx \ (live \cup fds)
  /\ live' = live \cup {c}
  /\ fds' = fds \cup {c}
  /\ \E left \in Garbage : feature' = IF left THEN feature \cup {c} ELSE feature
  /\ ctx' = [ctx EXCEPT ![t] = c]
  /\ Goto(t, "version")
  /\ UNCHANGED <<client, driver, rgaCtx, refCount, lost, object, fence, op>>

OpenFails(t) ==
  /\ "open" \in Faults
  /\ pc[t] = "open" /\ rgaCtx = NoCtx
  /\ supported' = supported \ {t}
  /\ Return(t)
  /\ UNCHANGED <<client, driver, global, alive, mContext, fence>>

(* The version ioctls and rga_set_driver_feature, which only ever sets the  *)
(* bit.  Without a driver version it compares memory that nothing wrote.    *)
GetVersions(t) ==
  /\ pc[t] = "version"
  /\ \E recent \in (CASE driver = "new" -> {TRUE} [] driver = "old" -> {FALSE} [] OTHER -> Garbage) :
        feature' = IF recent THEN feature \cup {ctx[t]} ELSE feature
  /\ rgaCtx' = ctx[t]
  /\ Goto(t, "count")
  /\ UNCHANGED <<client, driver, refCount, live, fds, lost, object, fence, ctx, op>>

(* getVersionError frees the context and leaves its descriptor open. *)
GetVersionError(t) ==
  /\ "version" \in Faults
  /\ pc[t] = "version"
  /\ live' = live \ {ctx[t]}
  /\ feature' = feature \ {ctx[t]}
  /\ lost' = lost \cup {ctx[t]}
  /\ supported' = supported \ {t}
  /\ Return(t)
  /\ UNCHANGED <<client, driver, rgaCtx, refCount, fds, alive, mContext, fence>>

OpenShared(t) ==
  /\ pc[t] = "open" /\ rgaCtx # NoCtx
  /\ ctx' = [ctx EXCEPT ![t] = rgaCtx]
  /\ Goto(t, "count")
  /\ UNCHANGED <<client, driver, global, object, fence, op>>

(* Mutant: an object that finds the context open is not counted. *)
Count_FirstOnly(t) ==
  /\ pc[t] = "count" /\ refCount < MaxRef
  /\ refCount' = IF refCount = 0 THEN 1 ELSE refCount
  /\ mContext' = [mContext EXCEPT ![t] = ctx[t]]
  /\ Goto(t, "check")
  /\ UNCHANGED <<client, driver, rgaCtx, live, fds, feature, lost, alive, supported, fence, ctx, op>>

Count(t) ==
  /\ pc[t] = "count" /\ refCount < MaxRef
  /\ refCount' = refCount + 1
  /\ mContext' = [mContext EXCEPT ![t] = ctx[t]]
  /\ Goto(t, "check")
  /\ UNCHANGED <<client, driver, rgaCtx, live, fds, feature, lost, alive, supported, fence, ctx, op>>

(* RgaInit: a version the library does not know makes RkRgaInit fail, with  *)
(* the context held.                                                        *)
CheckDriver(t) ==
  /\ pc[t] = "check"
  /\ \/ supported' = supported \cup {t}
     \/ ("check" \in Faults \/ driver = "compat") /\ supported' = supported \ {t}
  /\ Return(t)
  /\ UNCHANGED <<client, driver, global, alive, mContext, fence>>
-----------------------------------------------------------------------------
RkRgaDeInit(t) ==
  /\ MayChange(t)
  /\ client = "manual" /\ t \in alive /\ t \in supported
  /\ Goto(t, "close")
  /\ op' = [op EXCEPT ![t] = "deinit"]
  /\ UNCHANGED <<client, driver, global, object, fence, ctx>>

(* ~RockchipRga closes whether RkRgaDeInit was called or not. *)
Destroy(t) ==
  /\ MayChange(t)
  /\ t \in alive
  /\ Goto(t, "close")
  /\ op' = [op EXCEPT ![t] = "destroy"]
  /\ UNCHANGED <<client, driver, global, object, fence, ctx>>

(* The object after a call that closed. *)
ObjectGone(t) ==
  /\ supported' = supported \ {t}
  /\ alive' = IF op[t] = "destroy" THEN alive \ {t} ELSE alive

(* NormalRgaClose returns early: no context, not this object's, or none to  *)
(* count down.                                                              *)
CloseRefused(t) ==
  /\ pc[t] = "close"
  /\ \/ rgaCtx = NoCtx \/ mContext[t] # rgaCtx
     \/ refCount <= 0
  /\ ObjectGone(t)
  /\ mContext' = IF op[t] = "destroy" THEN [mContext EXCEPT ![t] = NoCtx] ELSE mContext
  /\ Return(t)
  /\ UNCHANGED <<client, driver, global, fence>>

Close(t) ==
  /\ pc[t] = "close"
  /\ rgaCtx # NoCtx /\ mContext[t] = rgaCtx /\ refCount > 0
  /\ ctx' = [ctx EXCEPT ![t] = rgaCtx]
  /\ Goto(t, "uncount")
  /\ UNCHANGED <<client, driver, global, object, fence, op>>

(* Mutant: the last but one closes the context. *)
Uncount_Early(t) ==
  /\ pc[t] = "uncount"
  /\ refCount' = refCount - 1
  /\ Goto(t, "release")
  /\ UNCHANGED <<client, driver, rgaCtx, live, fds, feature, lost, object, fence, ctx, op>>

(* With references left the object keeps its pointer. *)
Uncount(t) ==
  /\ pc[t] = "uncount"
  /\ refCount' = refCount - 1
  /\ IF refCount' > 0
     THEN /\ ObjectGone(t)
          /\ mContext' = IF op[t] = "destroy" THEN [mContext EXCEPT ![t] = NoCtx] ELSE mContext
          /\ Return(t)
     ELSE Goto(t, "release") /\ UNCHANGED <<object, ctx, op>>
  /\ UNCHANGED <<client, driver, rgaCtx, live, fds, feature, lost, fence>>

Release(t) ==
  /\ pc[t] = "release"
  /\ rgaCtx' = NoCtx
  /\ mContext' = [mContext EXCEPT ![t] = NoCtx]
  /\ Goto(t, "free")
  /\ UNCHANGED <<client, driver, refCount, live, fds, feature, lost, alive, supported, fence, ctx, op>>

(* Mutant: the descriptor stays open. *)
Free_KeepsFd(t) ==
  /\ pc[t] = "free"
  /\ live' = live \ {ctx[t]}
  /\ feature' = feature \ {ctx[t]}
  /\ ObjectGone(t)
  /\ Return(t)
  /\ UNCHANGED <<client, driver, rgaCtx, refCount, fds, lost, mContext, fence>>

Free(t) ==
  /\ pc[t] = "free"
  /\ fds' = fds \ {ctx[t]}
  /\ live' = live \ {ctx[t]}
  /\ feature' = feature \ {ctx[t]}
  /\ ObjectGone(t)
  /\ Return(t)
  /\ UNCHANGED <<client, driver, rgaCtx, refCount, lost, mContext, fence>>
-----------------------------------------------------------------------------
(* RgaBlit (RgaCollorFill, RgaCollorPalette and RgaFlush use the context    *)
(* the same way), with or without an acquire fence; a "compat" driver knows *)
(* no fences.                                                               *)
Uninit(t) ==
  /\ MayBlit(t) /\ rgaCtx = NoCtx
  /\ fence' = [fence EXCEPT ![t] = "none"]
  /\ UNCHANGED <<client, driver, global, object, pc, ctx, op>>

RgaBlit(t) ==
  /\ MayBlit(t) /\ rgaCtx # NoCtx
  /\ op' = [op EXCEPT ![t] = "blit"]
  /\ ctx' = [ctx EXCEPT ![t] = rgaCtx]
  /\ \E f \in (IF driver = "compat" THEN {"none"} ELSE {"none", "open"}) :
        fence' = [fence EXCEPT ![t] = f]
  /\ Goto(t, "ioctl")
  /\ UNCHANGED <<client, driver, global, object>>

Closed(f) == CASE f = "open" -> "closed" [] f = "closed" -> "twice" [] OTHER -> f

(* A driver before 1.3.0 closes the acquire fence itself. *)
Ioctl(t) ==
  /\ pc[t] = "ioctl"
  /\ fence' = [fence EXCEPT ![t] = IF driver = "old" THEN Closed(@) ELSE @]
  /\ Goto(t, "after")
  /\ UNCHANGED <<client, driver, global, object, ctx, op>>

IoctlFails(t) ==
  /\ "blit" \in Faults
  /\ pc[t] = "ioctl"
  /\ fence' = [fence EXCEPT ![t] = "none"]
  /\ Return(t)
  /\ UNCHANGED <<client, driver, global, object>>

(* Mutant: nobody closes the fence. *)
BlitEnd_Leaves(t) ==
  /\ pc[t] = "after"
  /\ Return(t)
  /\ UNCHANGED <<client, driver, global, object, fence>>

(* The last lines of RgaBlit look at rgaCtx again, not at the local ctx. *)
BlitEnd(t) ==
  /\ pc[t] = "after"
  /\ fence' = [fence EXCEPT ![t] = IF rgaCtx \in feature THEN Closed(@) ELSE @]
  /\ Return(t)
  /\ UNCHANGED <<client, driver, global, object>>
-----------------------------------------------------------------------------
Step(t) ==
  \/ RkRgaInit(t) \/ RkRgaDeInit(t) \/ Destroy(t) \/ Uninit(t) \/ RgaBlit(t)
  \/ \E c \in Ctx : OpenFirst(t, c)
  \/ OpenFails(t) \/ GetVersions(t) \/ GetVersionError(t) \/ OpenShared(t)
  \/ Count(t) \/ CheckDriver(t)
  \/ CloseRefused(t) \/ Close(t) \/ Uncount(t) \/ Release(t) \/ Free(t)
  \/ Ioctl(t) \/ IoctlFails(t) \/ BlitEnd(t)

Next == \E t \in Threads : Step(t)

Spec == Init /\ [][Next]_vars
-----------------------------------------------------------------------------
TypeOK ==
  /\ client \in Clients /\ driver \in Drivers
  /\ rgaCtx \in Ctx \cup {NoCtx}
  /\ refCount \in 0..MaxRef
  /\ live \subseteq Ctx /\ fds \subseteq Ctx /\ lost \subseteq Ctx
  /\ feature \subseteq live
  /\ alive \subseteq Threads /\ supported \subseteq Threads
  /\ mContext \in [Threads -> Ctx \cup {NoCtx}]
  /\ ctx \in [Threads -> Ctx \cup {NoCtx}]
  /\ pc \in [Threads -> Lifecycle \cup Blitting \cup {"idle"}]
  /\ op \in [Threads -> {"none", "init", "deinit", "destroy", "blit"}]
  /\ fence \in [Threads -> {"none", "open", "closed", "twice"}]

Quiet == \A t \in Threads : pc[t] \notin Lifecycle

(* A blit under way has a context that is still allocated and a descriptor  *)
(* that is still open, and reads the same context through rgaCtx as through *)
(* its local pointer, whatever other threads build and destroy meanwhile.   *)
BlitSafe ==
  \A t \in Threads :
    pc[t] \in Blitting => ctx[t] \in live /\ ctx[t] \in fds /\ rgaCtx = ctx[t]

(* Between the calls of disciplined clients, refCount is the number of      *)
(* objects that hold the context, also of those whose RkRgaInit failed, and *)
(* the context is there exactly as long as there are some.                  *)
HoldersCounted ==
  client = "disciplined" /\ Quiet =>
    LET holders == {t \in Threads : mContext[t] # NoCtx}
    IN /\ refCount = Cardinality(holders)
       /\ rgaCtx # NoCtx <=> holders # {}
       /\ \A t \in holders : mContext[t] = rgaCtx

(* Between calls of any client, RkRgaDeInit too often included, the context *)
(* is the only allocated one and has the only open descriptor, but for      *)
(* those a failed NormalRgaOpen has left.                                   *)
OneContext ==
  Quiet => /\ live = {rgaCtx} \ {NoCtx}
           /\ fds = live \cup lost

(* The acquire fence of a blit that succeeded is closed, by the driver or   *)
(* by the library, and once only where the driver does not do it.           *)
FenceNotLeft ==
  \A t \in Threads :
    pc[t] = "idle" => fence[t] # "open" /\ (driver = "new" => fence[t] # "twice")

(* It is closed once with every driver: the library leaves it to one from   *)
(* before 1.3.0, which rga_set_driver_feature knows by its version.         *)
FenceClosedOnce == \A t \in Threads : fence[t] # "twice"
=============================================================================
