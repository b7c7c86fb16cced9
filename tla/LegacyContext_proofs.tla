------------------------ MODULE LegacyContext_proofs ------------------------
(* Proofs about LegacyContext: for any threads, addresses, faults, drivers  *)
(* and contents of fresh memory.                                            *)
EXTENDS LegacyContext, FiniteSetTheorems, TLAPS

USE LegacyAssumption

(* One thread at a time is in a call that changes objects, and a manual     *)
(* client makes one call at a time.                                         *)
Alone ==
  /\ \A t, u \in Threads : pc[t] \in Lifecycle /\ pc[u] \in Lifecycle => t = u
  /\ client = "manual" =>
       \A t, u \in Threads : pc[t] # "idle" /\ pc[u] # "idle" => t = u

(* The context that is allocated is rgaCtx, or not yet, or no longer.       *)
Private(t) == pc[t] \in {"version", "free"}

Memory ==
  /\ fds = live \cup lost /\ live \cap lost = {}
  /\ \A t \in Threads : Private(t) => rgaCtx = NoCtx /\ ctx[t] \in Ctx /\ live = {ctx[t]}
  /\ (\A t \in Threads : ~Private(t)) => live = {rgaCtx} \ {NoCtx}

(* What a local pointer is good for. *)
Locals ==
  \A t \in Threads :
    /\ pc[t] \in {"count", "uncount", "release"} \cup Blitting =>
         ctx[t] \in Ctx /\ rgaCtx = ctx[t]
    /\ pc[t] \in {"uncount", "release"} => mContext[t] = ctx[t]
    /\ pc[t] = "uncount" => refCount > 0
    /\ pc[t] = "release" => refCount = 0

(* The objects that are counted: a releasing one is not any more. *)
Holders == {t \in Threads : mContext[t] # NoCtx /\ pc[t] # "release"}

Holding ==
  \A t \in Threads :
    /\ mContext[t] # NoCtx => mContext[t] = rgaCtx
    /\ t \in supported /\ pc[t] # "free" => mContext[t] # NoCtx
    /\ pc[t] \in Blitting \cup {"check"} => mContext[t] # NoCtx
    /\ pc[t] \in {"open", "version", "count", "free"} => mContext[t] = NoCtx
    /\ pc[t] \in {"open", "version", "count"} => t \in alive
    /\ t \notin alive => mContext[t] = NoCtx
    /\ pc[t] \in {"close", "uncount", "release", "free"} => op[t] = "destroy"

Counted ==
  client = "disciplined" =>
    /\ refCount = Cardinality(Holders)
    /\ Holding
    /\ rgaCtx # NoCtx =>
         Holders # {} \/ \E t \in Threads : pc[t] \in {"count", "release"}

(* Who has still to close a fence. *)
Fences ==
  /\ driver = "new" /\ rgaCtx # NoCtx => rgaCtx \in feature
  /\ driver = "compat" => \A t \in Threads : fence[t] = "none"
  /\ \A t \in Threads :
       /\ pc[t] \notin Blitting => fence[t] # "open" /\ (driver = "new" => fence[t] # "twice")
       /\ pc[t] = "ioctl" => fence[t] \in {"none", "open"}
       /\ pc[t] = "after" /\ driver = "new" => fence[t] \in {"none", "open"}
       /\ pc[t] = "after" /\ driver = "old" => fence[t] \in {"none", "closed"}

Inv == TypeOK /\ Alone /\ Memory /\ Locals /\ Counted /\ Fences
-----------------------------------------------------------------------------
LEMMA InvInit == Init => Inv
  <1> SUFFICES ASSUME Init PROVE Inv
    OBVIOUS
  <1> USE DEF Init
  <1>1. TypeOK
    BY DEF TypeOK, Lifecycle, Blitting
  <1>2. Alone /\ Memory /\ Locals /\ Fences
    BY DEF Alone, Memory, Private, Locals, Fences, Lifecycle, Blitting
  <1>3. Holders = {}
    BY DEF Holders
  <1>4. Counted
    BY <1>3, FS_EmptySet DEF Counted, Holding, Blitting
  <1> QED
    BY <1>1, <1>2, <1>4 DEF Inv

(* The holders are finitely many. *)
LEMMA HoldersFinite == IsFiniteSet(Holders) /\ Cardinality(Holders) \in Nat
  BY FS_Subset, FS_CardinalityType DEF Holders

LEMMA HoldersNone == Cardinality(Holders) = 0 => Holders = {}
  BY HoldersFinite, FS_EmptySet

(* A step that neither releases nor changes mContext keeps the holders.     *)
LEMMA SameHolders ==
  ASSUME UNCHANGED mContext,
         \A u \in Threads : pc'[u] = "release" <=> pc[u] = "release"
  PROVE  Holders' = Holders
  BY DEF Holders
-----------------------------------------------------------------------------
(* The calls that change objects, one lemma a step.                         *)
LEMMA StepInit ==
  ASSUME Inv, NEW t \in Threads, RkRgaInit(t)
  PROVE  Inv'
  <1> USE DEF Inv, RkRgaInit, MayChange, Goto, global, object
  <1>1. TypeOK'
    BY DEF TypeOK, Lifecycle
  <1>2. Alone'
    BY DEF TypeOK, Alone, Lifecycle
  <1>3. Memory'
    BY DEF TypeOK, Memory, Private, Lifecycle
  <1>4. Locals'
    BY DEF TypeOK, Locals, Lifecycle, Blitting
  <1>5. Counted'
    <2>1. Holders' = Holders
      BY SameHolders DEF TypeOK, Lifecycle
    <2>2. client = "disciplined" => Holding'
      BY DEF TypeOK, Counted, Holding, Lifecycle, Blitting
    <2> QED
      BY <2>1, <2>2 DEF TypeOK, Counted, Lifecycle
  <1>6. Fences'
    BY DEF TypeOK, Fences, Lifecycle, Blitting
  <1> QED
    BY <1>1, <1>2, <1>3, <1>4, <1>5, <1>6 DEF Inv

LEMMA StepOpenFirst ==
  ASSUME Inv, NEW t \in Threads, NEW c \in Ctx, OpenFirst(t, c)
  PROVE  Inv'
  <1> USE DEF Inv, OpenFirst, Goto, global, object
  <1>1. TypeOK'
    BY DEF TypeOK, Lifecycle, Blitting
  <1>2. Alone'
    BY DEF TypeOK, Alone, Lifecycle
  <1>3. Memory'
    BY DEF TypeOK, Memory, Private, Lifecycle, Alone
  <1>4. Locals'
    BY DEF TypeOK, Locals, Lifecycle, Blitting, Alone
  <1>5. Counted'
    <2>1. Holders' = Holders
      BY SameHolders DEF TypeOK, Lifecycle
    <2>2. client = "disciplined" => Holding'
      BY DEF TypeOK, Counted, Holding, Lifecycle, Blitting, Locals
    <2> QED
      BY <2>1, <2>2 DEF TypeOK, Counted, Lifecycle, Alone
  <1>6. Fences'
    BY DEF TypeOK, Fences, Lifecycle, Blitting
  <1> QED
    BY <1>1, <1>2, <1>3, <1>4, <1>5, <1>6 DEF Inv


LEMMA StepOpenFails ==
  ASSUME Inv, NEW t \in Threads, OpenFails(t)
  PROVE  Inv'
  <1> USE DEF Inv, OpenFails, Return, Goto, global, object
  <1>1. TypeOK'
    BY DEF TypeOK, Lifecycle, Blitting
  <1>2. Alone'
    BY DEF TypeOK, Alone, Lifecycle
  <1>3. Memory'
    BY DEF TypeOK, Memory, Private, Lifecycle, Alone
  <1>4. Locals'
    BY DEF TypeOK, Locals, Lifecycle, Blitting, Alone
  <1>5. Counted'
    <2>1. Holders' = Holders
      BY SameHolders DEF TypeOK, Lifecycle
    <2>2. client = "disciplined" => Holding'
      BY DEF TypeOK, Counted, Holding, Lifecycle, Blitting
    <2> QED
      BY <2>1, <2>2 DEF TypeOK, Counted, Lifecycle, Alone
  <1>6. Fences'
    BY DEF TypeOK, Fences, Lifecycle, Blitting
  <1> QED
    BY <1>1, <1>2, <1>3, <1>4, <1>5, <1>6 DEF Inv


LEMMA StepGetVersions ==
  ASSUME Inv, NEW t \in Threads, GetVersions(t)
  PROVE  Inv'
  <1> USE DEF Inv, GetVersions, Goto, global, object
  <1>1. TypeOK'
    BY DEF TypeOK, Memory, Private, Lifecycle, Blitting
  <1>2. Alone'
    BY DEF TypeOK, Alone, Lifecycle
  <1>3. Memory'
    BY DEF TypeOK, Memory, Private, Lifecycle, Alone
  <1>4. Locals'
    BY DEF TypeOK, Locals, Lifecycle, Blitting, Alone, Memory, Private
  <1>5. Counted'
    <2>1. Holders' = Holders
      BY SameHolders DEF TypeOK, Lifecycle
    <2>2. client = "disciplined" => Holding'
      BY DEF TypeOK, Counted, Holding, Lifecycle, Blitting, Alone, Memory, Private
    <2> QED
      BY <2>1, <2>2 DEF TypeOK, Counted, Lifecycle, Alone, Memory, Private
  <1>6. Fences'
    BY DEF TypeOK, Fences, Lifecycle, Blitting, Memory, Private
  <1> QED
    BY <1>1, <1>2, <1>3, <1>4, <1>5, <1>6 DEF Inv


LEMMA StepGetVersionError ==
  ASSUME Inv, NEW t \in Threads, GetVersionError(t)
  PROVE  Inv'
  <1> USE DEF Inv, GetVersionError, Return, Goto, global, object
  <1>1. TypeOK'
    BY DEF TypeOK, Memory, Private, Lifecycle, Blitting
  <1>2. Alone'
    BY DEF TypeOK, Alone, Lifecycle
  <1>3. Memory'
    BY DEF TypeOK, Memory, Private, Lifecycle, Alone
  <1>4. Locals'
    BY DEF TypeOK, Locals, Lifecycle, Blitting, Alone
  <1>5. Counted'
    <2>1. Holders' = Holders
      BY SameHolders DEF TypeOK, Lifecycle
    <2>2. client = "disciplined" => Holding'
      BY DEF TypeOK, Counted, Holding, Lifecycle, Blitting
    <2> QED
      BY <2>1, <2>2 DEF TypeOK, Counted, Lifecycle, Alone, Memory, Private
  <1>6. Fences'
    BY DEF TypeOK, Fences, Lifecycle, Blitting, Memory, Private
  <1> QED
    BY <1>1, <1>2, <1>3, <1>4, <1>5, <1>6 DEF Inv


LEMMA StepOpenShared ==
  ASSUME Inv, NEW t \in Threads, OpenShared(t)
  PROVE  Inv'
  <1> USE DEF Inv, OpenShared, Goto, global, object
  <1>1. TypeOK'
    BY DEF TypeOK, Lifecycle, Blitting
  <1>2. Alone'
    BY DEF TypeOK, Alone, Lifecycle
  <1>3. Memory'
    BY DEF TypeOK, Memory, Private, Lifecycle, Alone
  <1>4. Locals'
    BY DEF TypeOK, Locals, Lifecycle, Blitting, Alone
  <1>5. Counted'
    <2>1. Holders' = Holders
      BY SameHolders DEF TypeOK, Lifecycle
    <2>2. client = "disciplined" => Holding'
      BY DEF TypeOK, Counted, Holding, Lifecycle, Blitting
    <2> QED
      BY <2>1, <2>2 DEF TypeOK, Counted, Lifecycle, Alone
  <1>6. Fences'
    BY DEF TypeOK, Fences, Lifecycle, Blitting
  <1> QED
    BY <1>1, <1>2, <1>3, <1>4, <1>5, <1>6 DEF Inv


LEMMA StepCheckDriver ==
  ASSUME Inv, NEW t \in Threads, CheckDriver(t)
  PROVE  Inv'
  <1> USE DEF Inv, CheckDriver, Return, Goto, global, object
  <1>1. TypeOK'
    BY DEF TypeOK, Lifecycle, Blitting
  <1>2. Alone'
    BY DEF TypeOK, Alone, Lifecycle
  <1>3. Memory'
    BY DEF TypeOK, Memory, Private, Lifecycle, Alone
  <1>4. Locals'
    BY DEF TypeOK, Locals, Lifecycle, Blitting, Alone
  <1>5. Counted'
    <2>1. Holders' = Holders
      BY SameHolders DEF TypeOK, Lifecycle
    <2>2. client = "disciplined" => Holding'
      BY DEF TypeOK, Counted, Holding, Lifecycle, Blitting
    <2> QED
      BY <2>1, <2>2 DEF TypeOK, Counted, Lifecycle, Alone
  <1>6. Fences'
    BY DEF TypeOK, Fences, Lifecycle, Blitting
  <1> QED
    BY <1>1, <1>2, <1>3, <1>4, <1>5, <1>6 DEF Inv


LEMMA StepDeInit ==
  ASSUME Inv, NEW t \in Threads, RkRgaDeInit(t)
  PROVE  Inv'
  <1> USE DEF Inv, RkRgaDeInit, MayChange, Goto, global, object
  <1>1. TypeOK'
    BY DEF TypeOK, Lifecycle, Blitting
  <1>2. Alone'
    BY DEF TypeOK, Alone, Lifecycle
  <1>3. Memory'
    BY DEF TypeOK, Memory, Private, Lifecycle, Alone
  <1>4. Locals'
    BY DEF TypeOK, Locals, Lifecycle, Blitting, Alone
  <1>5. Counted'
    <2>1. Holders' = Holders
      BY SameHolders DEF TypeOK, Lifecycle
    <2>2. client = "disciplined" => Holding'
      BY DEF TypeOK, Counted, Holding, Lifecycle, Blitting
    <2> QED
      BY <2>1, <2>2 DEF TypeOK, Counted, Lifecycle, Alone
  <1>6. Fences'
    BY DEF TypeOK, Fences, Lifecycle, Blitting
  <1> QED
    BY <1>1, <1>2, <1>3, <1>4, <1>5, <1>6 DEF Inv


LEMMA StepDestroy ==
  ASSUME Inv, NEW t \in Threads, Destroy(t)
  PROVE  Inv'
  <1> USE DEF Inv, Destroy, MayChange, Goto, global, object
  <1>1. TypeOK'
    BY DEF TypeOK, Lifecycle, Blitting
  <1>2. Alone'
    BY DEF TypeOK, Alone, Lifecycle
  <1>3. Memory'
    BY DEF TypeOK, Memory, Private, Lifecycle, Alone
  <1>4. Locals'
    BY DEF TypeOK, Locals, Lifecycle, Blitting, Alone
  <1>5. Counted'
    <2>1. Holders' = Holders
      BY SameHolders DEF TypeOK, Lifecycle
    <2>2. client = "disciplined" => Holding'
      BY DEF TypeOK, Counted, Holding, Lifecycle, Blitting
    <2> QED
      BY <2>1, <2>2 DEF TypeOK, Counted, Lifecycle, Alone
  <1>6. Fences'
    BY DEF TypeOK, Fences, Lifecycle, Blitting
  <1> QED
    BY <1>1, <1>2, <1>3, <1>4, <1>5, <1>6 DEF Inv


LEMMA StepClose ==
  ASSUME Inv, NEW t \in Threads, Close(t)
  PROVE  Inv'
  <1> USE DEF Inv, Close, Goto, global, object
  <1>1. TypeOK'
    BY DEF TypeOK, Lifecycle, Blitting
  <1>2. Alone'
    BY DEF TypeOK, Alone, Lifecycle
  <1>3. Memory'
    BY DEF TypeOK, Memory, Private, Lifecycle, Alone
  <1>4. Locals'
    BY DEF TypeOK, Locals, Lifecycle, Blitting, Alone, Memory
  <1>5. Counted'
    <2>1. Holders' = Holders
      BY SameHolders DEF TypeOK, Lifecycle
    <2>2. client = "disciplined" => Holding'
      BY DEF TypeOK, Counted, Holding, Lifecycle, Blitting
    <2> QED
      BY <2>1, <2>2 DEF TypeOK, Counted, Lifecycle, Alone
  <1>6. Fences'
    BY DEF TypeOK, Fences, Lifecycle, Blitting
  <1> QED
    BY <1>1, <1>2, <1>3, <1>4, <1>5, <1>6 DEF Inv


LEMMA StepUninit ==
  ASSUME Inv, NEW t \in Threads, Uninit(t)
  PROVE  Inv'
  <1> USE DEF Inv, Uninit, MayBlit, Goto, global, object
  <1>1. TypeOK'
    BY DEF TypeOK, Lifecycle, Blitting
  <1>2. Alone'
    BY DEF TypeOK, Alone, Lifecycle
  <1>3. Memory'
    BY DEF TypeOK, Memory, Private, Lifecycle, Alone
  <1>4. Locals'
    BY DEF TypeOK, Locals, Lifecycle, Blitting, Alone
  <1>5. Counted'
    <2>1. Holders' = Holders
      BY SameHolders DEF TypeOK, Lifecycle
    <2>2. client = "disciplined" => Holding'
      BY DEF TypeOK, Counted, Holding, Lifecycle, Blitting
    <2> QED
      BY <2>1, <2>2 DEF TypeOK, Counted, Lifecycle, Alone
  <1>6. Fences'
    BY DEF TypeOK, Fences, Lifecycle, Blitting
  <1> QED
    BY <1>1, <1>2, <1>3, <1>4, <1>5, <1>6 DEF Inv


LEMMA StepBlit ==
  ASSUME Inv, NEW t \in Threads, RgaBlit(t)
  PROVE  Inv'
  <1> USE DEF Inv, RgaBlit, MayBlit, Goto, global, object
  <1>1. TypeOK'
    BY DEF TypeOK, Lifecycle, Blitting
  <1>2. Alone'
    BY DEF TypeOK, Alone, Lifecycle
  <1>3. Memory'
    BY DEF TypeOK, Memory, Private, Lifecycle, Alone
  <1>4. Locals'
    BY DEF TypeOK, Locals, Lifecycle, Blitting, Alone
  <1>5. Counted'
    <2>1. Holders' = Holders
      BY SameHolders DEF TypeOK, Lifecycle
    <2>2. client = "disciplined" => Holding'
      BY DEF TypeOK, Counted, Holding, Lifecycle, Blitting
    <2> QED
      BY <2>1, <2>2 DEF TypeOK, Counted, Lifecycle, Alone
  <1>6. Fences'
    BY DEF TypeOK, Fences, Lifecycle, Blitting
  <1> QED
    BY <1>1, <1>2, <1>3, <1>4, <1>5, <1>6 DEF Inv


LEMMA StepIoctl ==
  ASSUME Inv, NEW t \in Threads, Ioctl(t)
  PROVE  Inv'
  <1> USE DEF Inv, Ioctl, Closed, Goto, global, object
  <1>1. TypeOK'
    BY DEF TypeOK, Lifecycle, Blitting
  <1>2. Alone'
    BY DEF TypeOK, Alone, Lifecycle
  <1>3. Memory'
    BY DEF TypeOK, Memory, Private, Lifecycle, Alone
  <1>4. Locals'
    BY DEF TypeOK, Locals, Lifecycle, Blitting, Alone
  <1>5. Counted'
    <2>1. Holders' = Holders
      BY SameHolders DEF TypeOK, Lifecycle
    <2>2. client = "disciplined" => Holding'
      BY DEF TypeOK, Counted, Holding, Lifecycle, Blitting
    <2> QED
      BY <2>1, <2>2 DEF TypeOK, Counted, Lifecycle, Alone
  <1>6. Fences'
    BY DEF TypeOK, Fences, Lifecycle, Blitting
  <1> QED
    BY <1>1, <1>2, <1>3, <1>4, <1>5, <1>6 DEF Inv


LEMMA StepIoctlFails ==
  ASSUME Inv, NEW t \in Threads, IoctlFails(t)
  PROVE  Inv'
  <1> USE DEF Inv, IoctlFails, Return, Goto, global, object
  <1>1. TypeOK'
    BY DEF TypeOK, Lifecycle, Blitting
  <1>2. Alone'
    BY DEF TypeOK, Alone, Lifecycle
  <1>3. Memory'
    BY DEF TypeOK, Memory, Private, Lifecycle, Alone
  <1>4. Locals'
    BY DEF TypeOK, Locals, Lifecycle, Blitting, Alone
  <1>5. Counted'
    <2>1. Holders' = Holders
      BY SameHolders DEF TypeOK, Lifecycle
    <2>2. client = "disciplined" => Holding'
      BY DEF TypeOK, Counted, Holding, Lifecycle, Blitting
    <2> QED
      BY <2>1, <2>2 DEF TypeOK, Counted, Lifecycle, Alone
  <1>6. Fences'
    BY DEF TypeOK, Fences, Lifecycle, Blitting
  <1> QED
    BY <1>1, <1>2, <1>3, <1>4, <1>5, <1>6 DEF Inv


LEMMA StepBlitEnd ==
  ASSUME Inv, NEW t \in Threads, BlitEnd(t)
  PROVE  Inv'
  <1> USE DEF Inv, BlitEnd, Closed, Return, Goto, global, object
  <1>1. TypeOK'
    BY DEF TypeOK, Lifecycle, Blitting
  <1>2. Alone'
    BY DEF TypeOK, Alone, Lifecycle
  <1>3. Memory'
    BY DEF TypeOK, Memory, Private, Lifecycle, Alone
  <1>4. Locals'
    BY DEF TypeOK, Locals, Lifecycle, Blitting, Alone
  <1>5. Counted'
    <2>1. Holders' = Holders
      BY SameHolders DEF TypeOK, Lifecycle
    <2>2. client = "disciplined" => Holding'
      BY DEF TypeOK, Counted, Holding, Lifecycle, Blitting
    <2> QED
      BY <2>1, <2>2 DEF TypeOK, Counted, Lifecycle, Alone
  <1>6. Fences'
    BY DEF TypeOK, Fences, Lifecycle, Blitting, Locals
  <1> QED
    BY <1>1, <1>2, <1>3, <1>4, <1>5, <1>6 DEF Inv

LEMMA StepCount ==
  ASSUME Inv, NEW t \in Threads, Count(t)
  PROVE  Inv'
  <1> USE DEF Inv, Count, Goto, global, object
  <1>1. TypeOK'
    BY DEF TypeOK, Lifecycle, Blitting
  <1>2. Alone'
    BY DEF TypeOK, Alone, Lifecycle
  <1>3. Memory'
    BY DEF TypeOK, Memory, Private, Lifecycle, Alone
  <1>4. Locals'
    BY DEF TypeOK, Locals, Lifecycle, Blitting, Alone
  <1>5. Counted'
    <2> SUFFICES ASSUME client = "disciplined" PROVE Counted'
      BY DEF Counted
    <2>1. t \notin Holders /\ Holders' = Holders \cup {t}
      BY DEF TypeOK, Counted, Holding, Holders, Locals
    <2>2. Cardinality(Holders') = Cardinality(Holders) + 1
      BY <2>1, HoldersFinite, FS_AddElement
    <2>3. Holding'
      BY DEF TypeOK, Counted, Holding, Lifecycle, Blitting, Locals
    <2> QED
      BY <2>1, <2>2, <2>3 DEF TypeOK, Counted
  <1>6. Fences'
    BY DEF TypeOK, Fences, Lifecycle, Blitting
  <1> QED
    BY <1>1, <1>2, <1>3, <1>4, <1>5, <1>6 DEF Inv


LEMMA StepCloseRefused ==
  ASSUME Inv, NEW t \in Threads, CloseRefused(t)
  PROVE  Inv'
  <1> USE DEF Inv, CloseRefused, ObjectGone, Return, Goto, global, object
  <1>1. TypeOK'
    BY DEF TypeOK, Lifecycle, Blitting
  <1>2. Alone'
    BY DEF TypeOK, Alone, Lifecycle
  <1>3. Memory'
    BY DEF TypeOK, Memory, Private, Lifecycle, Alone
  <1>4. Locals'
    BY DEF TypeOK, Locals, Lifecycle, Blitting, Alone
  <1>5. Counted'
    <2> SUFFICES ASSUME client = "disciplined" PROVE Counted'
      BY DEF Counted
    <2>1. mContext[t] = NoCtx
      <3>1. CASE refCount <= 0
        <4>1. Holders = {}
          BY <3>1, HoldersFinite, HoldersNone DEF Counted
        <4> QED
          BY <4>1 DEF TypeOK, Holders
      <3> QED
        BY <3>1 DEF TypeOK, Counted, Holding
    <2>2. mContext' = mContext
      BY <2>1 DEF TypeOK
    <2>3. Holders' = Holders
      BY <2>2, SameHolders DEF TypeOK
    <2>4. Holding'
      BY <2>1, <2>2 DEF TypeOK, Counted, Holding, Lifecycle, Blitting, Alone
    <2> QED
      BY <2>3, <2>4 DEF TypeOK, Counted, Lifecycle, Alone
  <1>6. Fences'
    BY DEF TypeOK, Fences, Lifecycle, Blitting
  <1> QED
    BY <1>1, <1>2, <1>3, <1>4, <1>5, <1>6 DEF Inv


LEMMA StepUncount ==
  ASSUME Inv, NEW t \in Threads, Uncount(t)
  PROVE  Inv'
  <1> USE DEF Inv, Uncount, ObjectGone, Return, Goto, global, object
  <1>1. TypeOK'
    BY DEF TypeOK, Lifecycle, Blitting, Locals, Memory, Private
  <1>2. Alone'
    BY DEF TypeOK, Alone, Lifecycle
  <1>3. Memory'
    BY DEF TypeOK, Memory, Private, Lifecycle, Alone
  <1>4. Locals'
    BY DEF TypeOK, Locals, Lifecycle, Blitting, Alone
  <1>5. Counted'
    <2> SUFFICES ASSUME client = "disciplined" PROVE Counted'
      BY DEF Counted
    <2>1. t \in Holders /\ Holders' = Holders \ {t}
      BY DEF TypeOK, Counted, Holding, Holders, Locals
    <2>2. refCount' = Cardinality(Holders')
      BY <2>1, HoldersFinite, FS_RemoveElement DEF Counted
    <2>3. Holding'
      BY DEF TypeOK, Counted, Holding, Lifecycle, Blitting, Alone
    <2>4. refCount' > 0 => Holders' # {}
      BY <2>2, FS_EmptySet
    <2>5. refCount' > 0 \/ pc'[t] = "release"
      BY DEF TypeOK
    <2> QED
      BY <2>2, <2>3, <2>4, <2>5 DEF Counted
  <1>6. Fences'
    BY DEF TypeOK, Fences, Lifecycle, Blitting
  <1> QED
    BY <1>1, <1>2, <1>3, <1>4, <1>5, <1>6 DEF Inv

(* With the count at 0 no other object holds the context. *)
LEMMA LastHolder ==
  ASSUME Inv, client = "disciplined", NEW t \in Threads, pc[t] = "release",
         NEW u \in Threads \ {t}
  PROVE  mContext[u] = NoCtx
  <1>1. Holders = {}
    BY HoldersNone DEF Inv, Counted, Locals
  <1> QED
    BY <1>1 DEF Inv, Holders, Alone, Lifecycle


LEMMA StepRelease ==
  ASSUME Inv, NEW t \in Threads, Release(t)
  PROVE  Inv'
  <1> USE DEF Inv, Release, Goto, global, object
  <1>1. TypeOK'
    BY DEF TypeOK, Lifecycle, Blitting
  <1>2. Alone'
    BY DEF TypeOK, Alone, Lifecycle
  <1>3. Memory'
    BY DEF TypeOK, Memory, Private, Lifecycle, Alone, Locals
  <1>4. Locals'
    BY LastHolder DEF TypeOK, Locals, Counted, Holding, Lifecycle, Blitting, Alone
  <1>5. Counted'
    <2> SUFFICES ASSUME client = "disciplined" PROVE Counted'
      BY DEF Counted
    <2>1. Holders = {} /\ Holders' = {}
      BY LastHolder DEF TypeOK, Holders
    <2>2. Holding'
      BY LastHolder DEF TypeOK, Counted, Holding, Lifecycle, Blitting, Alone
    <2> QED
      BY <2>1, <2>2 DEF Counted
  <1>6. Fences'
    BY DEF TypeOK, Fences, Lifecycle, Blitting
  <1> QED
    BY <1>1, <1>2, <1>3, <1>4, <1>5, <1>6 DEF Inv


LEMMA StepFree ==
  ASSUME Inv, NEW t \in Threads, Free(t)
  PROVE  Inv'
  <1> USE DEF Inv, Free, ObjectGone, Return, Goto, global, object
  <1>1. TypeOK'
    BY DEF TypeOK, Lifecycle, Blitting
  <1>2. Alone'
    BY DEF TypeOK, Alone, Lifecycle
  <1>3. Memory'
    BY DEF TypeOK, Memory, Private, Lifecycle, Alone
  <1>4. Locals'
    BY DEF TypeOK, Locals, Lifecycle, Blitting, Alone
  <1>5. Counted'
    <2> SUFFICES ASSUME client = "disciplined" PROVE Counted'
      BY DEF Counted
    <2>1. Holders' = Holders
      BY SameHolders DEF TypeOK
    <2>2. Holding'
      BY DEF TypeOK, Counted, Holding, Lifecycle, Blitting, Alone
    <2> QED
      BY <2>1, <2>2 DEF TypeOK, Counted, Lifecycle, Alone, Memory, Private
  <1>6. Fences'
    BY DEF TypeOK, Fences, Lifecycle, Blitting, Memory, Private
  <1> QED
    BY <1>1, <1>2, <1>3, <1>4, <1>5, <1>6 DEF Inv
-----------------------------------------------------------------------------
LEMMA InvStep == Inv /\ [Next]_vars => Inv'
  <1> SUFFICES ASSUME Inv, [Next]_vars PROVE Inv'
    OBVIOUS
  <1>1. CASE UNCHANGED vars
    <2>1. Holders' = Holders
      BY <1>1 DEF vars, object, Holders
    <2> QED
      BY <1>1, <2>1
      DEF vars, global, object, Inv, TypeOK, Alone, Memory, Private, Locals, Counted, Holding, Fences
  <1>2. ASSUME NEW t \in Threads, Step(t) PROVE Inv'
    BY <1>2, StepInit, StepDeInit, StepDestroy, StepUninit, StepBlit, StepOpenFirst,
       StepOpenFails, StepGetVersions, StepGetVersionError, StepOpenShared, StepCount,
       StepCheckDriver, StepCloseRefused, StepClose, StepUncount, StepRelease, StepFree,
       StepIoctl, StepIoctlFails, StepBlitEnd
    DEF Step
  <1> QED
    BY <1>1, <1>2 DEF Next

LEMMA Invariance == Spec => []Inv
  BY InvInit, InvStep, PTL DEF Spec

(* TypeOK: the variables keep their types, refCount never below zero.       *)
THEOREM LegacyTypeCorrect == Spec => []TypeOK
  <1>1. Inv => TypeOK
    BY DEF Inv
  <1> QED
    BY <1>1, Invariance, PTL

(* BlitSafe: the context and the descriptor that RgaBlit took from rgaCtx   *)
(* outlive it, although it takes no lock and no reference.                  *)
THEOREM LegacyBlitSafe == Spec => []BlitSafe
  <1>1. Inv => BlitSafe
    BY DEF Inv, BlitSafe, Memory, Private, Locals, Blitting
  <1> QED
    BY <1>1, Invariance, PTL

(* HoldersCounted: between calls refCount is the number of objects with     *)
(* mContext, and rgaCtx is set exactly while there are some.                *)
THEOREM LegacyHoldersCounted == Spec => []HoldersCounted
  <1>1. ASSUME Inv, client = "disciplined", Quiet PROVE HoldersCounted
    <2>1. Holders = {t \in Threads : mContext[t] # NoCtx}
      BY <1>1 DEF Quiet, Holders, Lifecycle
    <2> QED
      BY <1>1, <2>1 DEF Inv, HoldersCounted, Counted, Holding, Quiet, Lifecycle
  <1>2. Inv => HoldersCounted
    BY <1>1 DEF HoldersCounted
  <1> QED
    BY <1>2, Invariance, PTL

(* OneContext: between calls nothing is allocated but rgaCtx, and no        *)
(* descriptor is open but its own and those of failed opens.                *)
THEOREM LegacyOneContext == Spec => []OneContext
  <1>1. Inv => OneContext
    BY DEF Inv, OneContext, Quiet, Memory, Private, Lifecycle
  <1> QED
    BY <1>1, Invariance, PTL

(* FenceNotLeft: RgaBlit leaves no acquire fence open that it should close, *)
(* and with a driver that leaves it to the library closes it once.          *)
THEOREM LegacyFenceNotLeft == Spec => []FenceNotLeft
  <1>1. Inv => FenceNotLeft
    BY DEF Inv, FenceNotLeft, Fences, Blitting
  <1> QED
    BY <1>1, Invariance, PTL
=============================================================================
