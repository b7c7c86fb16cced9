----------------------------- MODULE RgaSession -----------------------------
(* The session of im2d (im2d_context.cpp): one g_rga_session per process,   *)
(* created by the first call that needs it behind a rwlock, used without    *)
(* the lock afterwards, and torn down by the library's destructor.  Every   *)
(* thread runs one API call at a time: a submit (rga_task_submit, which     *)
(* asks for the session three times), another call that checks what it got  *)
(* (rga_job_create, rga_import_buffers, rga_check, ...), or a querystring,  *)
(* which does not recognise the error pointer.                              *)
EXTENDS Integers, FiniteSets, RgaVersion

CONSTANTS
  Threads,   \* threads of the process
  Fds,       \* file descriptors open() may return for /dev/rga
  Hosts,     \* the kernel drivers the library may meet
  NULL,      \* no thread
  Faults,    \* the steps of the initialisation that may fail
  MaxCalls   \* bound on the API calls of one thread

ASSUME SessionAssumption ==
  /\ NULL \notin Threads
  /\ Fds \subseteq Nat
  /\ Hosts \subseteq [type : {"compat", "multi"}, version : Version]
  /\ Faults \subseteq {"open", "version", "info"}
  /\ MaxCalls \in Nat

VARIABLES
  host,           \* the driver behind /dev/rga; it does not change
  rga_dev_fd,     \* g_rga_session.rga_dev_fd
  driver_type,    \* g_rga_session.driver_type
  driver_verison, \* g_rga_session.driver_verison (spelt as in the source)
  driver_feature, \* g_rga_session.driver_feature: a set of feature bits
  hardware_info,  \* g_rga_session.hardware_info: "zero", a merged table, or
                  \* the table of RGA_V_ERR
  is_debug,       \* g_rga_session.is_debug
  readers,        \* the threads that hold g_rga_session.rwlock for reading
  writer,         \* the thread that holds it for writing, or NULL
  open,           \* the descriptors of /dev/rga the process has open
  call,           \* what each thread is doing
  calls,          \* how many API calls it has made
  state           \* the process: "running", "crashed" or "exited"

session == <<host, rga_dev_fd, driver_type, driver_verison, driver_feature, hardware_info>>
rwlock  == <<readers, writer>>
vars    == <<session, is_debug, rwlock, open, call, calls, state>>

NoFd == -1

(* The test the code makes for a device that is open: descriptor 0 fails it.*)
Opened(fd) == fd > 0

Ops == {"submit", "job", "query"}

(* Which get_rga_session of the call it is in: its own, the one inside      *)
(* get_debug_state or the one inside is_debug_en.                           *)
Levels == {"own", "get_debug_state", "is_debug_en"}

Idle == [op |-> "none", level |-> "own", at |-> "idle", fd |-> NoFd]

InInit == {"device", "version", "check", "info"}

Labels == {"rdlock", "fast", "wrlock", "slow"} \cup InInit
            \cup {"lock_debug", "debug", "use", "crash"}

Call == [op : Ops, level : Levels, at : Labels, fd : Fds \cup {NoFd}]

(* The types of the variables. *)
TypeOK ==
  /\ rga_dev_fd \in Fds \cup {NoFd}
  /\ host \in Hosts
  /\ driver_type \in {"unknown", "compat", "multi"}
  /\ driver_verison \in Version
  /\ driver_feature \subseteq {"USER_CLOSE_FENCE"}
  /\ hardware_info \in {"zero", "table", "error"}
  /\ is_debug \in BOOLEAN
  /\ readers \subseteq Threads
  /\ writer \in Threads \cup {NULL}
  /\ open \subseteq Fds
  /\ call \in [Threads -> Call \cup {Idle}]
  /\ calls \in [Threads -> 0..MaxCalls]
  /\ state \in {"running", "crashed", "exited"}

(* librga_init, the constructor of the library. *)
Init ==
  /\ host \in Hosts
  /\ rga_dev_fd = NoFd
  /\ driver_type = "unknown"
  /\ driver_verison = <<0, 0, 0>>
  /\ driver_feature = {}
  /\ hardware_info = "zero"
  /\ is_debug = FALSE
  /\ readers = {}
  /\ writer = NULL
  /\ open = {}
  /\ call = [t \in Threads |-> Idle]
  /\ calls = [t \in Threads |-> 0]
  /\ state = "running"

At(t, label) == state = "running" /\ call[t].at = label

Go(t, level, label) ==
  call' = [call EXCEPT ![t] = [op |-> @.op, level |-> level, at |-> label, fd |-> @.fd]]

Goto(t, label) == Go(t, call[t].level, label)

Return(t) == call' = [call EXCEPT ![t] = Idle]

CallStart(t, op) ==
  /\ At(t, "idle")
  /\ calls[t] < MaxCalls
  /\ calls' = [calls EXCEPT ![t] = @ + 1]
  /\ call' = [call EXCEPT ![t] = [op |-> op, level |-> "own", at |-> "rdlock", fd |-> NoFd]]
  /\ UNCHANGED <<session, is_debug, rwlock, open, state>>
-----------------------------------------------------------------------------
(* What the three callers do with what get_rga_session returns.             *)
AfterSession(t) ==
  /\ \/ call[t].level = "own" /\ call[t].op = "submit" /\ Go(t, "get_debug_state", "rdlock")
     \/ call[t].level = "own" /\ call[t].op # "submit" /\ Goto(t, "use")
     \/ call[t].level # "own" /\ Goto(t, "lock_debug")
  /\ UNCHANGED state

(* get_debug_state, is_debug_en and querystring follow the error pointer;   *)
(* their callers and the other calls test it and return.                    *)
Dereferences(t) == call[t].op = "query" \/ call[t].level # "own"

Crash(t) == state' = "crashed" /\ Goto(t, "crash")

AfterError(t) ==
  IF Dereferences(t) THEN Crash(t) ELSE Return(t) /\ UNCHANGED state

(* get_rga_session: the fast path under the read lock. *)
ReadLock_None(t) ==
  /\ At(t, "rdlock")
  /\ Goto(t, "fast")
  /\ UNCHANGED <<session, is_debug, rwlock, open, calls, state>>

ReadLock(t) ==
  /\ At(t, "rdlock")
  /\ writer = NULL
  /\ readers' = readers \cup {t}
  /\ Goto(t, "fast")
  /\ UNCHANGED <<session, is_debug, writer, open, calls, state>>

FastPath(t) ==
  /\ At(t, "fast")
  /\ readers' = readers \ {t}
  /\ IF Opened(rga_dev_fd) THEN AfterSession(t) ELSE Goto(t, "wrlock") /\ UNCHANGED state
  /\ UNCHANGED <<session, is_debug, writer, open, calls>>

WriteLock(t) ==
  /\ At(t, "wrlock")
  /\ writer = NULL /\ readers = {}
  /\ writer' = t
  /\ Goto(t, "slow")
  /\ UNCHANGED <<session, is_debug, readers, open, calls, state>>

SlowPath_NoRecheck(t) ==
  /\ At(t, "slow")
  /\ Goto(t, "device")
  /\ UNCHANGED <<session, is_debug, rwlock, open, calls, state>>

(* The device may have been opened between the two locks. *)
SlowPath(t) ==
  /\ At(t, "slow")
  /\ IF Opened(rga_dev_fd) THEN writer' = NULL /\ AfterSession(t)
     ELSE Goto(t, "device") /\ UNCHANGED <<writer, state>>
  /\ UNCHANGED <<session, is_debug, readers, open, calls>>
-----------------------------------------------------------------------------
(* rga_device_init and rga_get_info, under the write lock.                  *)
OpenDevice(t, fd) ==
  /\ At(t, "device")
  /\ fd \notin open
  /\ open' = open \cup {fd}
  /\ call' = [call EXCEPT ![t] = [op |-> @.op, level |-> @.level, at |-> "version", fd |-> fd]]
  /\ UNCHANGED <<session, is_debug, rwlock, calls, state>>

(* An assumption on the driver: a multi-core driver always answers          *)
(* GET_DRVIER_VERSION, so only the ioctl after it may fail.  (Did it fail,  *)
(* the library would take the driver for one of RGA1 or RGA2, without the   *)
(* feature bit.)  Those two answer one of the older ioctls and leave the    *)
(* version alone.                                                           *)
DriverAnswers ==
  driver_verison' = IF host.type = "multi" THEN host.version ELSE driver_verison

ReadVersions(t) ==
  /\ At(t, "version")
  /\ DriverAnswers
  /\ driver_type' = host.type
  /\ Goto(t, "check")
  /\ UNCHANGED <<host, rga_dev_fd, driver_feature, hardware_info, is_debug, rwlock, open, calls, state>>

(* set_driver_feature: from 1.3.0 on the driver leaves the closing of an    *)
(* acquire fence to librga.                                                 *)
set_driver_feature ==
  driver_feature' =
    driver_feature \cup IF AtLeast(driver_verison, <<1, 3, 0>>) THEN {"USER_CLOSE_FENCE"} ELSE {}

StoreFd_NoFeature(t) ==
  /\ At(t, "check")
  /\ rga_dev_fd' = call[t].fd
  /\ Goto(t, "info")
  /\ UNCHANGED <<host, driver_type, driver_verison, driver_feature, hardware_info, is_debug, rwlock, open, calls, state>>

(* rga_check_driver accepts the driver: its features and fd are stored. *)
StoreFd(t) ==
  /\ At(t, "check")
  /\ rga_check_driver(driver_verison)
  /\ set_driver_feature
  /\ rga_dev_fd' = call[t].fd
  /\ Goto(t, "info")
  /\ UNCHANGED <<host, driver_type, driver_verison, hardware_info, is_debug, rwlock, open, calls, state>>

(* rga_get_info and rga_version_update: the session is complete. *)
ReadInfo(t) ==
  /\ At(t, "info")
  /\ hardware_info' = "table"
  /\ writer' = NULL
  /\ AfterSession(t)
  /\ UNCHANGED <<host, rga_dev_fd, driver_type, driver_verison, driver_feature, is_debug, readers, open, calls>>

(* Where the initialisation stands when one of its steps fails. *)
CannotInit(t) ==
  \/ At(t, "device")  /\ ("open" \in Faults \/ open = Fds)
  \/ At(t, "version") /\ "version" \in Faults
  \/ At(t, "check")   /\ ~rga_check_driver(driver_verison)
  \/ At(t, "info")    /\ "info" \in Faults

(* GET_HW_VERSION may fail after GET_DRVIER_VERSION has been answered. *)
AfterFailure(t) ==
  /\ IF call[t].at = "version" THEN DriverAnswers ELSE UNCHANGED driver_verison
  /\ hardware_info' = IF call[t].at = "info" THEN "error" ELSE hardware_info
  /\ AfterError(t)
  /\ UNCHANGED <<host, rga_dev_fd, driver_type, driver_feature, is_debug, readers, open, calls>>

InitFails_Locked(t) == CannotInit(t) /\ AfterFailure(t) /\ UNCHANGED writer

(* ERR_PTR(IM_STATUS_NO_SESSION).  Nothing is undone: a descriptor that was *)
(* opened stays open, and one that was stored stays stored.                 *)
InitFails(t) == CannotInit(t) /\ AfterFailure(t) /\ writer' = NULL
-----------------------------------------------------------------------------
(* get_debug_state writes is_debug under the write lock, is_debug_en reads  *)
(* it under the read lock.                                                  *)
LockDebug(t) ==
  /\ At(t, "lock_debug")
  /\ writer = NULL
  /\ IF call[t].level = "get_debug_state"
     THEN readers = {} /\ writer' = t /\ UNCHANGED readers
     ELSE readers' = readers \cup {t} /\ UNCHANGED writer
  /\ Goto(t, "debug")
  /\ UNCHANGED <<session, is_debug, open, calls, state>>

UpdateDebug(t, enable) ==
  /\ At(t, "debug") /\ call[t].level = "get_debug_state"
  /\ is_debug' = enable
  /\ writer' = NULL
  /\ Go(t, "is_debug_en", "rdlock")
  /\ UNCHANGED <<session, readers, open, calls, state>>

ReadDebug(t) ==
  /\ At(t, "debug") /\ call[t].level = "is_debug_en"
  /\ readers' = readers \ {t}
  /\ Goto(t, "use")
  /\ UNCHANGED <<session, is_debug, writer, open, calls, state>>

(* The rest of the call: it reads the session without the lock. *)
UseSession(t) ==
  /\ At(t, "use")
  /\ Return(t)
  /\ UNCHANGED <<session, is_debug, rwlock, open, calls, state>>

(* librga_exit, the destructor: no call is running any more. *)
LibExit ==
  /\ \A t \in Threads : At(t, "idle")
  /\ state' = "exited"
  /\ hardware_info' = "zero"
  /\ rga_dev_fd' = NoFd
  /\ driver_type' = IF rga_dev_fd = NoFd THEN driver_type ELSE "unknown"
  /\ driver_feature' = IF rga_dev_fd = NoFd THEN driver_feature ELSE {}
  /\ open' = open \ {rga_dev_fd}
  /\ UNCHANGED <<host, driver_verison, is_debug, rwlock, call, calls>>
-----------------------------------------------------------------------------
Step(t) ==
  \/ ReadLock(t) \/ FastPath(t) \/ WriteLock(t) \/ SlowPath(t)
  \/ \E fd \in Fds : OpenDevice(t, fd)
  \/ ReadVersions(t) \/ StoreFd(t) \/ ReadInfo(t) \/ InitFails(t)
  \/ LockDebug(t)
  \/ \E enable \in BOOLEAN : UpdateDebug(t, enable)
  \/ ReadDebug(t) \/ UseSession(t)

Next ==
  \/ \E t \in Threads : (\E op \in Ops : CallStart(t, op)) \/ Step(t)
  \/ LibExit

Spec == Init /\ [][Next]_vars

(* A thread inside a call goes on.  Weak fairness is enough of the rwlock:  *)
(* with finitely many calls nobody holds it for ever in turns.              *)
FairSpec == Spec /\ \A t \in Threads : WF_vars(Step(t))
-----------------------------------------------------------------------------
(* A thread works with the session, after get_rga_session has returned it.  *)
Holds(t) == call[t].at \in {"use", "lock_debug", "debug"} \/ call[t].level # "own"

(* The drivers that leave acquire fences open. *)
LeavesFences == host.type = "multi" /\ AtLeast(host.version, <<1, 3, 0>>)

(* get_rga_session never gives out a session in the middle of its           *)
(* initialisation: the device is open, its driver known, its table read,    *)
(* and librga closes acquire fences for exactly the drivers that do not.    *)

SessionReady ==
  \A t \in Threads :
     Holds(t) =>
       /\ rga_dev_fd \in open
       /\ driver_type = host.type
       /\ hardware_info # "zero"
       /\ driver_feature = IF LeavesFences THEN {"USER_CLOSE_FENCE"} ELSE {}

(* The session is read without the lock, so nobody may be writing it: while *)
(* a thread works with it no other thread is in rga_session_init.           *)
NoInitWhileUsed ==
  \A t, u \in Threads : Holds(t) => call[u].at \notin InInit

(* The race of two first callers: a descriptor that is stored is never      *)
(* replaced by another one, until the library is unloaded.                  *)
StoredOnce ==
  [][Opened(rga_dev_fd) => rga_dev_fd' = rga_dev_fd \/ state' = "exited"]_vars

(* rga_task_submit tests its own session only: the ones get_debug_state and *)
(* is_debug_en get inside it are never error pointers.  Only querystring    *)
(* follows one.                                                             *)
DebugHasSession ==
  \A t \in Threads : call[t].at = "crash" => call[t].op = "query"

(* Every API call comes back, also after failed initialisations, unless a   *)
(* querystring has brought the process down.                                *)
CallsReturn ==
  \A t \in Threads :
     call[t].at = "rdlock" ~> (call[t].at = "idle" \/ state = "crashed")

(* "A process will only open one fd": as the FAQ states it. *)
OneFd == Cardinality(open) <= 1
=============================================================================
