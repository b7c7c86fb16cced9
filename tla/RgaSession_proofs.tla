-------------------------- MODULE RgaSession_proofs --------------------------
(* Proofs about RgaSession: for any threads, descriptors (other than 0),    *)
(* faults and number of calls.                                              *)
EXTENDS RgaSession, TLAPS

(* Whether a thread holds the rwlock can be read off its label. *)
Reading(t) ==
  call[t].at = "fast" \/ (call[t].at = "debug" /\ call[t].level = "is_debug_en")

Writing(t) ==
  \/ call[t].at = "slow" \/ call[t].at \in InInit
  \/ call[t].at = "debug" /\ call[t].level = "get_debug_state"

LockInv ==
  /\ \A t \in Threads : t \in readers <=> Reading(t)
  /\ \A t \in Threads : writer = t <=> Writing(t)
  /\ writer # NULL => readers = {}

(* debug steps belong to one of the two debug calls. *)
LevelInv ==
  \A t \in Threads :
     call[t].at \in {"lock_debug", "debug"} => call[t].level # "own"

(* What the session holds once a descriptor is stored, and what its         *)
(* initialiser has done so far.                                             *)
StoredInv ==
  /\ rga_dev_fd # NoFd => rga_dev_fd \in open /\ driver_type = host.type
  /\ rga_dev_fd # NoFd /\ hardware_info = "zero" =>
       \E t \in Threads : call[t].at = "info"

InitInv ==
  \A t \in Threads :
     /\ call[t].at \in {"version", "check", "info"} => call[t].fd \in open
     /\ call[t].at \in {"check", "info"} => driver_type = host.type
     /\ call[t].at \in {"device", "version", "check"} => rga_dev_fd = NoFd
     /\ call[t].at = "info" => rga_dev_fd # NoFd

HolderInv ==
  /\ \A t \in Threads : Holds(t) => rga_dev_fd # NoFd /\ hardware_info # "zero"
  /\ \A t, u \in Threads : Holds(t) => call[u].at # "info"

(* What is known of the driver: a compat driver never gives a version, and  *)
(* the feature is set once, with the descriptor.                            *)
VersionInv ==
  /\ host.type = "compat" => driver_verison = <<0, 0, 0>>
  /\ host.type = "multi" =>
       \A t \in Threads : call[t].at = "check" => driver_verison = host.version
  /\ rga_dev_fd = NoFd => driver_feature = {}
  /\ rga_dev_fd # NoFd =>
       driver_feature = IF LeavesFences THEN {"USER_CLOSE_FENCE"} ELSE {}

Inv ==
  /\ TypeOK /\ LockInv /\ LevelInv /\ StoredInv /\ InitInv /\ HolderInv
  /\ VersionInv /\ DebugHasSession
-----------------------------------------------------------------------------
(* The driver of the machine is one of two types and has a version. *)
LEMMA HostFacts ==
  ASSUME TypeOK
  PROVE  host.type \in {"compat", "multi"} /\ host.version \in Version
  <1>1. host \in [type : {"compat", "multi"}, version : Version]
    BY SessionAssumption DEF TypeOK
  <1> QED
    BY <1>1

(* The answer of the driver, when it gives one. *)
LEMMA AnswerFacts ==
  ASSUME TypeOK, DriverAnswers
  PROVE  driver_verison' \in Version
  BY HostFacts DEF DriverAnswers, TypeOK

(* What Go and Return do to the call records. *)
LEMMA GoFacts ==
  ASSUME TypeOK, NEW t \in Threads, NEW level \in Levels, NEW label \in Labels,
         call[t].at # "idle", Go(t, level, label)
  PROVE  /\ call' \in [Threads -> Call \cup {Idle}]
         /\ call'[t].op = call[t].op /\ call'[t].level = level
         /\ call'[t].at = label /\ call'[t].fd = call[t].fd
         /\ \A u \in Threads \ {t} : call'[u] = call[u]
  <1>1. call[t] \in Call
    BY DEF TypeOK, Idle
  <1>2. [op |-> call[t].op, level |-> level, at |-> label, fd |-> call[t].fd] \in Call
    BY <1>1 DEF Call
  <1> QED
    BY <1>2 DEF Go, TypeOK

LEMMA ReturnFacts ==
  ASSUME TypeOK, NEW t \in Threads, Return(t)
  PROVE  /\ call' \in [Threads -> Call \cup {Idle}]
         /\ call'[t].level = "own" /\ call'[t].at = "idle" /\ call'[t].op = "none"
         /\ \A u \in Threads \ {t} : call'[u] = call[u]
  BY DEF Return, TypeOK, Idle

(* A call that is not idle is one of the records of Call. *)
LEMMA CallFacts ==
  ASSUME TypeOK, NEW t \in Threads, call[t].at # "idle"
  PROVE  call[t].op \in Ops /\ call[t].level \in Levels /\ call[t].at \in Labels
           /\ call[t].fd \in Fds \cup {NoFd}
  BY DEF TypeOK, Idle, Call
-----------------------------------------------------------------------------
LEMMA InvInit == Init => Inv
  <1> SUFFICES ASSUME Init PROVE Inv
    OBVIOUS
  <1>1. \A t \in Threads : call[t] = Idle
    BY DEF Init
  <1>2. TypeOK
    <2>1. call \in [Threads -> Call \cup {Idle}]
      BY DEF Init
    <2>2. 0 \in 0..MaxCalls
      BY SessionAssumption
    <2>3. calls \in [Threads -> 0..MaxCalls]
      BY <2>2 DEF Init
    <2>4. driver_verison \in Version
      BY DEF Init, Version
    <2> QED
      BY <2>1, <2>3, <2>4 DEF Init, TypeOK
  <1>3. LockInv
    <2>1. \A t \in Threads : ~Reading(t) /\ ~Writing(t)
      BY <1>1 DEF Reading, Writing, InInit, Idle
    <2> QED
      BY <2>1, SessionAssumption DEF Init, LockInv
  <1>4. LevelInv /\ StoredInv /\ InitInv /\ HolderInv /\ VersionInv /\ DebugHasSession
    BY <1>1 DEF Init, LevelInv, StoredInv, InitInv, HolderInv, VersionInv, DebugHasSession, Holds, Idle
  <1> QED
    BY <1>2, <1>3, <1>4 DEF Inv

(* Where a thread is once get_rga_session has given it the session. *)
LEMMA AfterSessionFacts ==
  ASSUME TypeOK, NEW t \in Threads, call[t].at # "idle", AfterSession(t)
  PROVE  /\ call' \in [Threads -> Call \cup {Idle}]
         /\ call'[t].op = call[t].op
         /\ \/ call'[t].at = "rdlock" /\ call'[t].level = "get_debug_state"
            \/ call'[t].at = "use"
            \/ call'[t].at = "lock_debug" /\ call'[t].level # "own"
         /\ \A u \in Threads \ {t} : call'[u] = call[u]
         /\ state' = state
  <1>1. call[t].level \in Levels /\ {"rdlock", "use", "lock_debug"} \subseteq Labels
    BY CallFacts DEF Labels
  <1>2. CASE call[t].level = "own" /\ call[t].op = "submit" /\ Go(t, "get_debug_state", "rdlock")
    BY <1>1, <1>2, GoFacts DEF AfterSession, Levels
  <1>3. CASE Goto(t, "use")
    BY <1>1, <1>3, GoFacts DEF AfterSession, Goto
  <1>4. CASE call[t].level # "own" /\ Goto(t, "lock_debug")
    BY <1>1, <1>4, GoFacts DEF AfterSession, Goto
  <1> QED
    BY <1>2, <1>3, <1>4 DEF AfterSession

(* The initialisation runs in a caller's own get_rga_session: the nested    *)
(* ones find the device open.                                               *)
LEMMA InitIsOwn ==
  ASSUME Inv, NEW t \in Threads, call[t].at \in InInit
  PROVE  call[t].level = "own"
  BY DEF Inv, InitInv, HolderInv, Holds, InInit

(* While a thread initialises the session it is alone with it. *)
LEMMA Alone ==
  ASSUME Inv, NEW t \in Threads, call[t].at \in InInit
  PROVE  /\ writer = t /\ readers = {}
         /\ \A u \in Threads \ {t} : call[u].at \notin InInit
         /\ \A u \in Threads : ~Holds(u)
  <1>1. writer = t /\ readers = {}
    BY SessionAssumption DEF Inv, LockInv, Writing
  <1>2. \A u \in Threads \ {t} : call[u].at \notin InInit
    BY <1>1 DEF Inv, LockInv, Writing
  <1>3. \A u \in Threads : ~Holds(u)
    BY DEF Inv, InitInv, HolderInv, InInit
  <1> QED
    BY <1>1, <1>2, <1>3

LEMMA AfterErrorFacts ==
  ASSUME Inv, NEW t \in Threads, call[t].at \in InInit, AfterError(t)
  PROVE  /\ call' \in [Threads -> Call \cup {Idle}]
         /\ call'[t].at \in {"idle", "crash"} /\ call'[t].level = "own"
         /\ call'[t].at = "crash" => call'[t].op = "query"
         /\ \A u \in Threads \ {t} : call'[u] = call[u]
         /\ state' \in {state, "crashed"}
  <1>1. call[t].level = "own" /\ call[t].at # "idle" /\ TypeOK
    BY InitIsOwn DEF InInit, Inv
  <1>2. CASE call[t].op = "query"
    <2>1. Crash(t)
      BY <1>2 DEF AfterError, Dereferences
    <2>2. Go(t, "own", "crash") /\ state' = "crashed"
      BY <1>1, <2>1 DEF Crash, Goto
    <2> QED
      BY <1>1, <1>2, <2>2, GoFacts DEF Levels, Labels
  <1>3. CASE call[t].op # "query"
    <2>1. Return(t) /\ state' = state
      BY <1>1, <1>3 DEF AfterError, Dereferences
    <2> QED
      BY <1>1, <2>1, ReturnFacts
  <1> QED
    BY <1>2, <1>3
-----------------------------------------------------------------------------
LEMMA StepReadLock ==
  ASSUME Inv, NEW t \in Threads, ReadLock(t)
  PROVE  Inv'
  <1>1. call[t].at = "rdlock" /\ call[t].at # "idle"
    BY DEF ReadLock, At
  <1>2. /\ call' \in [Threads -> Call \cup {Idle}]
        /\ call'[t].op = call[t].op /\ call'[t].level = call[t].level
        /\ call'[t].at = "fast" /\ call'[t].fd = call[t].fd
        /\ \A u \in Threads \ {t} : call'[u] = call[u]
    BY <1>1, GoFacts, CallFacts DEF ReadLock, Goto, Inv, Labels
  <1>3. TypeOK'
    BY <1>1, <1>2 DEF ReadLock, Inv, TypeOK, session, rwlock
  <1>4. LockInv'
    BY <1>1, <1>2, SessionAssumption DEF ReadLock, Inv, TypeOK, LockInv, Reading, Writing, InInit, session, rwlock
  <1>5. LevelInv' /\ InitInv' /\ DebugHasSession'
    BY <1>1, <1>2 DEF ReadLock, Inv, TypeOK, LevelInv, InitInv, DebugHasSession, session, rwlock
  <1>6. StoredInv'
    BY <1>1, <1>2 DEF ReadLock, Inv, StoredInv, session, rwlock
  <1>7. HolderInv'
    BY <1>1, <1>2 DEF ReadLock, Inv, HolderInv, Holds, session, rwlock
  <1>9. VersionInv'
    BY <1>1, <1>2 DEF ReadLock, Inv, VersionInv, LeavesFences, session
  <1> QED
    BY <1>3, <1>4, <1>5, <1>6, <1>7, <1>9 DEF Inv

LEMMA StepWriteLock ==
  ASSUME Inv, NEW t \in Threads, WriteLock(t)
  PROVE  Inv'
  <1>1. call[t].at = "wrlock" /\ call[t].at # "idle"
    BY DEF WriteLock, At
  <1>2. /\ call' \in [Threads -> Call \cup {Idle}]
        /\ call'[t].op = call[t].op /\ call'[t].level = call[t].level
        /\ call'[t].at = "slow" /\ call'[t].fd = call[t].fd
        /\ \A u \in Threads \ {t} : call'[u] = call[u]
    BY <1>1, GoFacts, CallFacts DEF WriteLock, Goto, Inv, Labels
  <1>3. TypeOK'
    BY <1>1, <1>2 DEF WriteLock, Inv, TypeOK, session, rwlock
  <1>4. LockInv'
    BY <1>1, <1>2, SessionAssumption DEF WriteLock, Inv, TypeOK, LockInv, Reading, Writing, InInit, session, rwlock
  <1>5. LevelInv' /\ InitInv' /\ DebugHasSession'
    BY <1>1, <1>2 DEF WriteLock, Inv, TypeOK, LevelInv, InitInv, DebugHasSession, session, rwlock
  <1>6. StoredInv'
    BY <1>1, <1>2 DEF WriteLock, Inv, StoredInv, session, rwlock
  <1>7. HolderInv'
    BY <1>1, <1>2 DEF WriteLock, Inv, HolderInv, Holds, session, rwlock
  <1>9. VersionInv'
    BY <1>1, <1>2 DEF WriteLock, Inv, VersionInv, LeavesFences, session
  <1> QED
    BY <1>3, <1>4, <1>5, <1>6, <1>7, <1>9 DEF Inv

LEMMA StepReadVersions ==
  ASSUME Inv, NEW t \in Threads, ReadVersions(t)
  PROVE  Inv'
  <1>1. call[t].at = "version" /\ call[t].at # "idle"
    BY DEF ReadVersions, At
  <1>2. /\ call' \in [Threads -> Call \cup {Idle}]
        /\ call'[t].op = call[t].op /\ call'[t].level = call[t].level
        /\ call'[t].at = "check" /\ call'[t].fd = call[t].fd
        /\ \A u \in Threads \ {t} : call'[u] = call[u]
    BY <1>1, GoFacts, CallFacts DEF ReadVersions, Goto, Inv, Labels, InInit
  <1>0. /\ writer = t /\ readers = {}
        /\ \A u \in Threads \ {t} : call[u].at \notin InInit
        /\ \A u \in Threads : ~Holds(u)
    BY <1>1, Alone DEF InInit
  <1>3. TypeOK'
    <2>1. driver_verison' \in Version /\ driver_type' \in {"compat", "multi"}
      BY AnswerFacts, HostFacts DEF ReadVersions, Inv
    <2> QED
      BY <1>1, <1>2, <1>0, <2>1 DEF ReadVersions, Inv, TypeOK, session, rwlock
  <1>4. LockInv'
    BY <1>1, <1>2, <1>0, SessionAssumption DEF ReadVersions, Inv, TypeOK, LockInv, Reading, Writing, InInit, session, rwlock
  <1>5. LevelInv' /\ InitInv' /\ DebugHasSession'
    BY <1>1, <1>2, <1>0 DEF ReadVersions, Inv, TypeOK, LevelInv, InitInv, DebugHasSession, session, rwlock
  <1>6. StoredInv'
    BY <1>1, <1>2, <1>0 DEF ReadVersions, Inv, StoredInv, session, rwlock
  <1>7. HolderInv'
    BY <1>1, <1>2, <1>0 DEF ReadVersions, Inv, HolderInv, Holds, session, rwlock
  <1>9. VersionInv'
    BY <1>1, <1>2, <1>0 DEF ReadVersions, DriverAnswers, Inv, InitInv, VersionInv, LeavesFences, InInit
  <1> QED
    BY <1>3, <1>4, <1>5, <1>6, <1>7, <1>9 DEF Inv

LEMMA StepStoreFd ==
  ASSUME Inv, NEW t \in Threads, StoreFd(t)
  PROVE  Inv'
  <1>1. call[t].at = "check" /\ call[t].at # "idle"
    BY DEF StoreFd, At
  <1>2. /\ call' \in [Threads -> Call \cup {Idle}]
        /\ call'[t].op = call[t].op /\ call'[t].level = call[t].level
        /\ call'[t].at = "info" /\ call'[t].fd = call[t].fd
        /\ \A u \in Threads \ {t} : call'[u] = call[u]
    BY <1>1, GoFacts, CallFacts DEF StoreFd, Goto, Inv, Labels, InInit
  <1>0. /\ writer = t /\ readers = {}
        /\ \A u \in Threads \ {t} : call[u].at \notin InInit
        /\ \A u \in Threads : ~Holds(u)
    BY <1>1, Alone DEF InInit
  <1>8. call[t].fd \in open /\ call[t].fd \in Fds /\ call[t].fd # NoFd /\ driver_type = host.type
    <2>1. call[t].fd \in open /\ driver_type = host.type
      BY <1>1 DEF Inv, InitInv
    <2>2. open \subseteq Fds
      BY DEF Inv, TypeOK
    <2>3. call[t].fd \in Fds /\ call[t].fd \in Nat
      BY <2>1, <2>2, SessionAssumption
    <2>4. call[t].fd # NoFd
      BY <2>3 DEF NoFd
    <2> QED
      BY <2>1, <2>3, <2>4
  <1>3. TypeOK'
    BY <1>1, <1>2, <1>0, <1>8 DEF StoreFd, set_driver_feature, Inv, TypeOK, session, rwlock
  <1>4. LockInv'
    BY <1>1, <1>2, <1>0, <1>8, SessionAssumption DEF StoreFd, Inv, TypeOK, LockInv, Reading, Writing, InInit, session, rwlock
  <1>5. LevelInv' /\ InitInv' /\ DebugHasSession'
    BY <1>1, <1>2, <1>0, <1>8 DEF StoreFd, Inv, LevelInv, InitInv, DebugHasSession, InInit
  <1>6. StoredInv'
    BY <1>1, <1>2, <1>0, <1>8 DEF StoreFd, StoredInv
  <1>7. HolderInv'
    BY <1>1, <1>2, <1>0, <1>8 DEF StoreFd, Inv, HolderInv, Holds, session, rwlock
  <1>9. VersionInv'
    <2>1. /\ host' = host /\ driver_verison' = driver_verison
          /\ rga_dev_fd' # NoFd /\ rga_dev_fd = NoFd /\ driver_feature = {}
      BY <1>1, <1>8 DEF StoreFd, Inv, InitInv, VersionInv
    <2>2. \A u \in Threads : call'[u].at # "check"
      BY <1>2, <1>0, <1>1 DEF InInit
    <2>3. AtLeast(driver_verison, <<1, 3, 0>>) <=> LeavesFences
      <3>1. host.type = "multi" \/ host.type = "compat"
        BY HostFacts DEF Inv
      <3>2. CASE host.type = "multi"
        BY <1>1, <3>2 DEF Inv, VersionInv, LeavesFences
      <3>3. CASE host.type = "compat"
        <4>1. driver_verison = <<0, 0, 0>>
          BY <3>3 DEF Inv, VersionInv
        <4>2. ~AtLeast(<<0, 0, 0>>, <<1, 3, 0>>)
          BY DEF AtLeast, Newer
        <4> QED
          BY <3>3, <4>1, <4>2 DEF LeavesFences
      <3> QED
        BY <3>1, <3>2, <3>3
    <2>4. driver_feature' = IF LeavesFences THEN {"USER_CLOSE_FENCE"} ELSE {}
      BY <2>1, <2>3 DEF StoreFd, set_driver_feature
    <2>5. LeavesFences' <=> LeavesFences
      BY <2>1 DEF LeavesFences
    <2> QED
      BY <2>1, <2>2, <2>4, <2>5 DEF Inv, VersionInv
  <1> QED
    BY <1>3, <1>4, <1>5, <1>6, <1>7, <1>9 DEF Inv

LEMMA StepReadInfo ==
  ASSUME Inv, NEW t \in Threads, ReadInfo(t)
  PROVE  Inv'
  <1>1. call[t].at = "info" /\ call[t].at # "idle"
    BY DEF ReadInfo, At
  <1>2. /\ call' \in [Threads -> Call \cup {Idle}]
        /\ call'[t].op = call[t].op
        /\ \/ call'[t].at = "rdlock" /\ call'[t].level = "get_debug_state"
           \/ call'[t].at = "use"
           \/ call'[t].at = "lock_debug" /\ call'[t].level # "own"
        /\ state' = state
        /\ \A u \in Threads \ {t} : call'[u] = call[u]
    BY <1>1, AfterSessionFacts DEF ReadInfo, Inv
  <1>0. /\ writer = t /\ readers = {}
        /\ \A u \in Threads \ {t} : call[u].at \notin InInit
        /\ \A u \in Threads : ~Holds(u)
    BY <1>1, Alone DEF InInit
  <1>3. TypeOK'
    BY <1>1, <1>2, <1>0 DEF ReadInfo, Inv, TypeOK, session, rwlock
  <1>4. LockInv'
    BY <1>1, <1>2, <1>0, SessionAssumption DEF ReadInfo, Inv, TypeOK, LockInv, Reading, Writing, InInit, session, rwlock
  <1>5. LevelInv' /\ InitInv' /\ DebugHasSession'
    BY <1>1, <1>2, <1>0 DEF ReadInfo, Inv, TypeOK, LevelInv, InitInv, DebugHasSession, session, rwlock
  <1>6. StoredInv'
    BY <1>1, <1>2, <1>0 DEF ReadInfo, Inv, StoredInv, session, rwlock
  <1>7. HolderInv'
    BY <1>1, <1>2, <1>0 DEF ReadInfo, Inv, InitInv, HolderInv, Holds, InInit
  <1>9. VersionInv'
    BY <1>1, <1>2, <1>0 DEF ReadInfo, Inv, InitInv, VersionInv, LeavesFences
  <1> QED
    BY <1>3, <1>4, <1>5, <1>6, <1>7, <1>9 DEF Inv

LEMMA StepOpenDevice ==
  ASSUME Inv, NEW t \in Threads, NEW fd \in Fds, OpenDevice(t, fd)
  PROVE  Inv'
  <1>1. call[t].at = "device" /\ call[t].at # "idle"
    BY DEF OpenDevice, At
  <1>2. /\ call' \in [Threads -> Call \cup {Idle}]
        /\ call'[t].op = call[t].op /\ call'[t].level = call[t].level
        /\ call'[t].at = "version" /\ call'[t].fd = fd
        /\ \A u \in Threads \ {t} : call'[u] = call[u]
    BY <1>1, CallFacts DEF OpenDevice, Inv, TypeOK, Call, Labels, InInit
  <1>0. /\ writer = t /\ readers = {}
        /\ \A u \in Threads \ {t} : call[u].at \notin InInit
        /\ \A u \in Threads : ~Holds(u)
    BY <1>1, Alone DEF InInit
  <1>3. TypeOK'
    BY <1>1, <1>2, <1>0 DEF OpenDevice, Inv, TypeOK, session, rwlock
  <1>4. LockInv'
    BY <1>1, <1>2, <1>0, SessionAssumption DEF OpenDevice, Inv, TypeOK, LockInv, Reading, Writing, InInit, session, rwlock
  <1>5. LevelInv' /\ InitInv' /\ DebugHasSession'
    BY <1>1, <1>2, <1>0 DEF OpenDevice, Inv, TypeOK, LevelInv, InitInv, DebugHasSession, session, rwlock
  <1>6. StoredInv'
    BY <1>1, <1>2, <1>0 DEF OpenDevice, Inv, StoredInv, session, rwlock
  <1>7. HolderInv'
    BY <1>1, <1>2, <1>0 DEF OpenDevice, Inv, HolderInv, Holds, session, rwlock
  <1>9. VersionInv'
    BY <1>1, <1>2 DEF OpenDevice, Inv, VersionInv, LeavesFences, session
  <1> QED
    BY <1>3, <1>4, <1>5, <1>6, <1>7, <1>9 DEF Inv

LEMMA StepUpdateDebug ==
  ASSUME Inv, NEW t \in Threads, NEW enable \in BOOLEAN, UpdateDebug(t, enable)
  PROVE  Inv'
  <1>1. call[t].at = "debug" /\ call[t].at # "idle" /\ call[t].level = "get_debug_state"
    BY DEF UpdateDebug, At
  <1>2. /\ call' \in [Threads -> Call \cup {Idle}]
        /\ call'[t].op = call[t].op /\ call'[t].level = "is_debug_en"
        /\ call'[t].at = "rdlock" /\ call'[t].fd = call[t].fd
        /\ \A u \in Threads \ {t} : call'[u] = call[u]
    BY <1>1, GoFacts, CallFacts DEF UpdateDebug, Inv, Labels, Levels
  <1>3. TypeOK'
    BY <1>1, <1>2 DEF UpdateDebug, Inv, TypeOK, session, rwlock
  <1>4. LockInv'
    BY <1>1, <1>2, SessionAssumption DEF UpdateDebug, Inv, TypeOK, LockInv, Reading, Writing, InInit, session, rwlock
  <1>5. LevelInv' /\ InitInv' /\ DebugHasSession'
    BY <1>1, <1>2 DEF UpdateDebug, Inv, TypeOK, LevelInv, InitInv, DebugHasSession, session, rwlock
  <1>6. StoredInv'
    BY <1>1, <1>2 DEF UpdateDebug, Inv, StoredInv, session, rwlock
  <1>7. HolderInv'
    BY <1>1, <1>2 DEF UpdateDebug, Inv, HolderInv, Holds, session, rwlock
  <1>9. VersionInv'
    BY <1>1, <1>2 DEF UpdateDebug, Inv, VersionInv, LeavesFences, session
  <1> QED
    BY <1>3, <1>4, <1>5, <1>6, <1>7, <1>9 DEF Inv

LEMMA StepReadDebug ==
  ASSUME Inv, NEW t \in Threads, ReadDebug(t)
  PROVE  Inv'
  <1>1. call[t].at = "debug" /\ call[t].at # "idle" /\ call[t].level = "is_debug_en"
    BY DEF ReadDebug, At
  <1>2. /\ call' \in [Threads -> Call \cup {Idle}]
        /\ call'[t].op = call[t].op /\ call'[t].level = call[t].level
        /\ call'[t].at = "use" /\ call'[t].fd = call[t].fd
        /\ \A u \in Threads \ {t} : call'[u] = call[u]
    BY <1>1, GoFacts, CallFacts DEF ReadDebug, Goto, Inv, Labels
  <1>3. TypeOK'
    BY <1>1, <1>2 DEF ReadDebug, Inv, TypeOK, session, rwlock
  <1>4. LockInv'
    BY <1>1, <1>2, SessionAssumption DEF ReadDebug, Inv, TypeOK, LockInv, Reading, Writing, InInit, session, rwlock
  <1>5. LevelInv' /\ InitInv' /\ DebugHasSession'
    BY <1>1, <1>2 DEF ReadDebug, Inv, TypeOK, LevelInv, InitInv, DebugHasSession, session, rwlock
  <1>6. StoredInv'
    BY <1>1, <1>2 DEF ReadDebug, Inv, StoredInv, session, rwlock
  <1>7. HolderInv'
    BY <1>1, <1>2 DEF ReadDebug, Inv, HolderInv, Holds, session, rwlock
  <1>9. VersionInv'
    BY <1>1, <1>2 DEF ReadDebug, Inv, VersionInv, LeavesFences, session
  <1> QED
    BY <1>3, <1>4, <1>5, <1>6, <1>7, <1>9 DEF Inv

LEMMA StepLockDebug ==
  ASSUME Inv, NEW t \in Threads, LockDebug(t)
  PROVE  Inv'
  <1>1. call[t].at = "lock_debug" /\ call[t].at # "idle"
    BY DEF LockDebug, At
  <1>2. /\ call' \in [Threads -> Call \cup {Idle}]
        /\ call'[t].op = call[t].op /\ call'[t].level = call[t].level
        /\ call'[t].at = "debug" /\ call'[t].fd = call[t].fd
        /\ \A u \in Threads \ {t} : call'[u] = call[u]
    BY <1>1, GoFacts, CallFacts DEF LockDebug, Goto, Inv, Labels
  <1>3. TypeOK'
    BY <1>1, <1>2 DEF LockDebug, Inv, TypeOK, session, rwlock
  <1>4. LockInv'
    <2>1. call[t].level \in {"get_debug_state", "is_debug_en"}
      BY <1>1, CallFacts DEF Inv, LevelInv, Levels
    <2>2. \A u \in Threads \ {t} : (Reading(u)' <=> Reading(u)) /\ (Writing(u)' <=> Writing(u))
      BY <1>2 DEF Reading, Writing
    <2>3. CASE call[t].level = "get_debug_state"
      <3>1. readers' = {} /\ readers = {} /\ writer' = t /\ writer = NULL
        BY <2>3 DEF LockDebug
      <3>2. Writing(t)' /\ ~Reading(t)'
        BY <1>2, <2>3 DEF Reading, Writing
      <3> QED
        BY <2>2, <3>1, <3>2, SessionAssumption DEF Inv, LockInv
    <2>4. CASE call[t].level = "is_debug_en"
      <3>1. readers' = readers \cup {t} /\ writer' = NULL /\ writer = NULL
        BY <2>4 DEF LockDebug
      <3>2. Reading(t)' /\ ~Writing(t)'
        BY <1>2, <2>4 DEF Reading, Writing, InInit
      <3> QED
        BY <2>2, <3>1, <3>2, SessionAssumption DEF Inv, LockInv
    <2> QED
      BY <2>1, <2>3, <2>4
  <1>5. LevelInv' /\ InitInv' /\ DebugHasSession'
    BY <1>1, <1>2 DEF LockDebug, Inv, TypeOK, LevelInv, InitInv, DebugHasSession, session, rwlock
  <1>6. StoredInv'
    BY <1>1, <1>2 DEF LockDebug, Inv, StoredInv, session, rwlock
  <1>7. HolderInv'
    BY <1>1, <1>2 DEF LockDebug, Inv, HolderInv, Holds, session, rwlock
  <1>9. VersionInv'
    BY <1>1, <1>2 DEF LockDebug, Inv, VersionInv, LeavesFences, session
  <1> QED
    BY <1>3, <1>4, <1>5, <1>6, <1>7, <1>9 DEF Inv

LEMMA StepCallStart ==
  ASSUME Inv, NEW t \in Threads, NEW op \in Ops, CallStart(t, op)
  PROVE  Inv'
  <1>1. call[t].at = "idle" /\ call[t].level = "own"
    BY DEF CallStart, At, Inv, TypeOK, Idle, Call, Labels, InInit
  <1>2. /\ call' \in [Threads -> Call \cup {Idle}]
        /\ call'[t].op = op /\ call'[t].level = "own"
        /\ call'[t].at = "rdlock" /\ call'[t].fd = NoFd
        /\ \A u \in Threads \ {t} : call'[u] = call[u]
    BY DEF CallStart, Inv, TypeOK, Call, Labels, Levels
  <1>3. TypeOK'
    <2>1. calls' \in [Threads -> 0..MaxCalls]
      BY SessionAssumption DEF CallStart, Inv, TypeOK
    <2> QED
      BY <1>2, <2>1 DEF CallStart, Inv, TypeOK, session, rwlock
  <1>4. LockInv'
    BY <1>1, <1>2, SessionAssumption DEF CallStart, Inv, TypeOK, LockInv, Reading, Writing, InInit, session, rwlock
  <1>5. LevelInv' /\ InitInv' /\ DebugHasSession'
    BY <1>1, <1>2 DEF CallStart, Inv, TypeOK, LevelInv, InitInv, DebugHasSession, session, rwlock
  <1>6. StoredInv'
    BY <1>1, <1>2 DEF CallStart, Inv, StoredInv, session, rwlock
  <1>7. HolderInv'
    BY <1>1, <1>2 DEF CallStart, Inv, HolderInv, Holds, session, rwlock
  <1>9. VersionInv'
    BY <1>1, <1>2 DEF CallStart, Inv, VersionInv, LeavesFences, session
  <1> QED
    BY <1>3, <1>4, <1>5, <1>6, <1>7, <1>9 DEF Inv

LEMMA StepInitFails ==
  ASSUME Inv, NEW t \in Threads, InitFails(t)
  PROVE  Inv'
  <1>1. call[t].at \in InInit /\ call[t].at # "idle"
    BY DEF InitFails, AfterFailure, CannotInit, At, InInit
  <1>2. /\ call' \in [Threads -> Call \cup {Idle}]
        /\ call'[t].at \in {"idle", "crash"} /\ call'[t].level = "own"
        /\ call'[t].at = "crash" => call'[t].op = "query"
        /\ state' \in {state, "crashed"}
        /\ \A u \in Threads \ {t} : call'[u] = call[u]
    BY <1>1, AfterErrorFacts DEF InitFails, AfterFailure
  <1>0. /\ writer = t /\ readers = {}
        /\ \A u \in Threads \ {t} : call[u].at \notin InInit
        /\ \A u \in Threads : ~Holds(u)
    BY <1>1, Alone DEF InInit
  <1>3. TypeOK'
    <2>1. driver_verison' \in Version
      BY AnswerFacts DEF InitFails, AfterFailure, Inv, TypeOK
    <2> QED
      BY <1>1, <1>2, <1>0, <2>1 DEF InitFails, AfterFailure, Inv, TypeOK, session, rwlock
  <1>4. LockInv'
    BY <1>1, <1>2, <1>0, SessionAssumption DEF InitFails, AfterFailure, Inv, TypeOK, LockInv, Reading, Writing, InInit, session, rwlock
  <1>5. LevelInv' /\ InitInv' /\ DebugHasSession'
    BY <1>1, <1>2, <1>0 DEF InitFails, AfterFailure, Inv, TypeOK, LevelInv, InitInv, DebugHasSession, session, rwlock
  <1>6. StoredInv'
    BY <1>1, <1>2, <1>0 DEF InitFails, AfterFailure, Inv, StoredInv, session, rwlock
  <1>7. HolderInv'
    BY <1>1, <1>2, <1>0 DEF InitFails, AfterFailure, Inv, HolderInv, Holds, session, rwlock
  <1>9. VersionInv'
    BY <1>1, <1>2, <1>0 DEF InitFails, AfterFailure, DriverAnswers, Inv, VersionInv, LeavesFences, InInit
  <1> QED
    BY <1>3, <1>4, <1>5, <1>6, <1>7, <1>9 DEF Inv

LEMMA StepFastPath ==
  ASSUME Inv, NEW t \in Threads, FastPath(t)
  PROVE  Inv'
  <1>1. call[t].at = "fast" /\ call[t].at # "idle"
    BY DEF FastPath, At
  <1>2. /\ call' \in [Threads -> Call \cup {Idle}]
        /\ call'[t].op = call[t].op
        /\ \/ /\ Opened(rga_dev_fd)
              /\ \/ call'[t].at = "rdlock" /\ call'[t].level = "get_debug_state"
                 \/ call'[t].at = "use"
                 \/ call'[t].at = "lock_debug" /\ call'[t].level # "own"
           \/ ~Opened(rga_dev_fd) /\ call'[t].at = "wrlock" /\ call'[t].level = call[t].level
        /\ state' = state
        /\ \A u \in Threads \ {t} : call'[u] = call[u]
    BY <1>1, GoFacts, CallFacts, AfterSessionFacts DEF FastPath, Goto, Inv, Labels, InInit
  <1>0. /\ \A u \in Threads : call[u].at \notin InInit
        /\ Opened(rga_dev_fd) => rga_dev_fd # NoFd
    <2>1. t \in readers /\ writer = NULL
      BY <1>1 DEF Inv, LockInv, Reading
    <2> QED
      BY <2>1, SessionAssumption DEF Inv, LockInv, Writing, Opened, NoFd
  <1>3. TypeOK'
    BY <1>1, <1>2 DEF FastPath, Inv, TypeOK, session, rwlock
  <1>4. LockInv'
    BY <1>1, <1>2, SessionAssumption DEF FastPath, Inv, TypeOK, LockInv, Reading, Writing, InInit, session, rwlock
  <1>5. LevelInv' /\ InitInv' /\ DebugHasSession'
    BY <1>1, <1>2 DEF FastPath, Inv, TypeOK, LevelInv, InitInv, DebugHasSession, session, rwlock
  <1>6. StoredInv'
    BY <1>1, <1>2 DEF FastPath, Inv, StoredInv, session, rwlock
  <1>7. HolderInv'
    BY <1>1, <1>2, <1>0 DEF FastPath, Inv, StoredInv, HolderInv, Holds, session, InInit
  <1>9. VersionInv'
    BY <1>1, <1>2 DEF FastPath, Inv, VersionInv, LeavesFences, session
  <1> QED
    BY <1>3, <1>4, <1>5, <1>6, <1>7, <1>9 DEF Inv

LEMMA StepSlowPath ==
  ASSUME 0 \notin Fds, Inv, NEW t \in Threads, SlowPath(t)
  PROVE  Inv'
  <1>1. call[t].at = "slow" /\ call[t].at # "idle"
    BY DEF SlowPath, At
  <1>2. /\ call' \in [Threads -> Call \cup {Idle}]
        /\ call'[t].op = call[t].op
        /\ \/ /\ Opened(rga_dev_fd)
              /\ \/ call'[t].at = "rdlock" /\ call'[t].level = "get_debug_state"
                 \/ call'[t].at = "use"
                 \/ call'[t].at = "lock_debug" /\ call'[t].level # "own"
           \/ ~Opened(rga_dev_fd) /\ call'[t].at = "device" /\ call'[t].level = call[t].level
        /\ state' = state
        /\ \A u \in Threads \ {t} : call'[u] = call[u]
    BY <1>1, GoFacts, CallFacts, AfterSessionFacts DEF SlowPath, Goto, Inv, Labels, InInit
  <1>0. /\ \A u \in Threads : call[u].at \notin InInit
        /\ Opened(rga_dev_fd) <=> rga_dev_fd # NoFd
    <2>1. writer = t /\ call[t].at \notin InInit
      BY <1>1 DEF Inv, LockInv, Writing, InInit
    <2>2. \A u \in Threads : call[u].at \notin InInit
      BY <2>1 DEF Inv, LockInv, Writing
    <2>3. (rga_dev_fd \in Nat /\ rga_dev_fd # 0) \/ rga_dev_fd = NoFd
      BY SessionAssumption DEF Inv, TypeOK
    <2>4. Opened(rga_dev_fd) <=> rga_dev_fd # NoFd
      BY <2>3 DEF Opened, NoFd
    <2> QED
      BY <2>2, <2>4
  <1>3. TypeOK'
    BY <1>1, <1>2 DEF SlowPath, Inv, TypeOK, session, rwlock
  <1>4. LockInv'
    BY <1>1, <1>2, SessionAssumption DEF SlowPath, Inv, TypeOK, LockInv, Reading, Writing, InInit, session, rwlock
  <1>5. LevelInv' /\ InitInv' /\ DebugHasSession'
    BY <1>1, <1>2, <1>0 DEF SlowPath, Inv, LevelInv, InitInv, DebugHasSession, session
  <1>6. StoredInv'
    BY <1>1, <1>2 DEF SlowPath, Inv, StoredInv, session, rwlock
  <1>7. HolderInv'
    BY <1>1, <1>2, <1>0 DEF SlowPath, Inv, StoredInv, HolderInv, Holds, session, InInit
  <1>9. VersionInv'
    BY <1>1, <1>2 DEF SlowPath, Inv, VersionInv, LeavesFences, session
  <1> QED
    BY <1>3, <1>4, <1>5, <1>6, <1>7, <1>9 DEF Inv

LEMMA StepUseSession ==
  ASSUME Inv, NEW t \in Threads, UseSession(t)
  PROVE  Inv'
  <1>1. call[t].at = "use"
    BY DEF UseSession, At
  <1>2. /\ call' \in [Threads -> Call \cup {Idle}]
        /\ call'[t].level = "own" /\ call'[t].at = "idle"
        /\ \A u \in Threads \ {t} : call'[u] = call[u]
    BY ReturnFacts DEF UseSession, Inv
  <1>3. TypeOK'
    BY <1>1, <1>2 DEF UseSession, Inv, TypeOK, session, rwlock
  <1>4. LockInv'
    BY <1>1, <1>2, SessionAssumption DEF UseSession, Inv, TypeOK, LockInv, Reading, Writing, InInit, session, rwlock
  <1>5. LevelInv' /\ InitInv' /\ DebugHasSession'
    BY <1>1, <1>2 DEF UseSession, Inv, TypeOK, LevelInv, InitInv, DebugHasSession, session, rwlock
  <1>6. StoredInv'
    BY <1>1, <1>2 DEF UseSession, Inv, StoredInv, session, rwlock
  <1>7. HolderInv'
    BY <1>1, <1>2 DEF UseSession, Inv, HolderInv, Holds, session, rwlock
  <1>9. VersionInv'
    BY <1>1, <1>2 DEF UseSession, Inv, VersionInv, LeavesFences, session
  <1> QED
    BY <1>3, <1>4, <1>5, <1>6, <1>7, <1>9 DEF Inv

(* Nobody is in a call, nobody holds the lock. *)
LEMMA StepLibExit ==
  ASSUME Inv, LibExit
  PROVE  Inv'
  <1>1. \A t \in Threads : call[t] = Idle
    BY DEF LibExit, At, Inv, TypeOK, Call, Labels, InInit
  <1>2. call' = call /\ rga_dev_fd' = NoFd /\ hardware_info' = "zero" /\ state' = "exited"
    BY DEF LibExit
  <1>3. TypeOK'
    BY <1>2 DEF LibExit, Inv, TypeOK, rwlock
  <1>4. LockInv'
    BY <1>2 DEF LibExit, Inv, LockInv, Reading, Writing, rwlock
  <1>5. LevelInv' /\ InitInv' /\ DebugHasSession'
    BY <1>1, <1>2 DEF LevelInv, InitInv, DebugHasSession, Idle
  <1>6. StoredInv'
    BY <1>2 DEF StoredInv
  <1>7. HolderInv'
    BY <1>1, <1>2 DEF HolderInv, Holds, Idle
  <1>9. VersionInv'
    BY <1>1, <1>2 DEF LibExit, Inv, VersionInv, LeavesFences, Idle
  <1> QED
    BY <1>3, <1>4, <1>5, <1>6, <1>7, <1>9 DEF Inv

LEMMA InvStep ==
  ASSUME 0 \notin Fds, Inv, [Next]_vars
  PROVE  Inv'
  <1>1. CASE UNCHANGED vars
    BY <1>1 DEF vars, session, rwlock, Inv, TypeOK, LockInv, LevelInv, StoredInv, InitInv,
                HolderInv, VersionInv, LeavesFences, DebugHasSession, Reading, Writing, Holds
  <1>2. ASSUME NEW t \in Threads, Step(t) PROVE Inv'
    BY <1>2, StepReadLock, StepFastPath, StepWriteLock, StepSlowPath, StepOpenDevice,
       StepReadVersions, StepStoreFd, StepReadInfo, StepInitFails, StepLockDebug,
       StepUpdateDebug, StepReadDebug, StepUseSession
    DEF Step
  <1>3. ASSUME NEW t \in Threads, NEW op \in Ops, CallStart(t, op) PROVE Inv'
    BY <1>3, StepCallStart
  <1> QED
    BY <1>1, <1>2, <1>3, StepLibExit DEF Next
-----------------------------------------------------------------------------
LEMMA Invariance == ASSUME 0 \notin Fds PROVE Spec => []Inv
  BY InvInit, InvStep, PTL DEF Spec

(* The variables keep their types (im2d_context.cpp). *)
THEOREM SessionTypeCorrect == ASSUME 0 \notin Fds PROVE Spec => []TypeOK
  <1>1. Inv => TypeOK
    BY DEF Inv
  <1> QED
    BY <1>1, Invariance, PTL

(* get_rga_session gives out initialised sessions only. *)
THEOREM SessionIsReady == ASSUME 0 \notin Fds PROVE Spec => []SessionReady
  <1>1. Inv => SessionReady
    BY DEF Inv, StoredInv, HolderInv, VersionInv, SessionReady
  <1> QED
    BY <1>1, Invariance, PTL

(* A session that is in use is not being initialised: reading it without    *)
(* the rwlock is no race.                                                   *)
THEOREM SessionQuiet == ASSUME 0 \notin Fds PROVE Spec => []NoInitWhileUsed
  <1>1. Inv => NoInitWhileUsed
    BY DEF Inv, InitInv, HolderInv, NoInitWhileUsed, InInit
  <1> QED
    BY <1>1, Invariance, PTL

(* get_debug_state and is_debug_en never follow an error pointer. *)
THEOREM SessionDebugSafe == ASSUME 0 \notin Fds PROVE Spec => []DebugHasSession
  <1>1. Inv => DebugHasSession
    BY DEF Inv
  <1> QED
    BY <1>1, Invariance, PTL

(* The stored descriptor is never replaced: the two locks of                *)
(* get_rga_session make the first callers initialise one session.           *)
THEOREM SessionStoredOnce == ASSUME 0 \notin Fds PROVE Spec => StoredOnce
  <1> DEFINE Keeps == Opened(rga_dev_fd) => rga_dev_fd' = rga_dev_fd \/ state' = "exited"
  <1>1. Inv /\ [Next]_vars => [Keeps]_vars
    <2> SUFFICES ASSUME Inv, Next, Opened(rga_dev_fd)
                 PROVE  rga_dev_fd' = rga_dev_fd \/ state' = "exited"
      OBVIOUS
    <2>1. rga_dev_fd # NoFd
      BY DEF Opened, NoFd
    <2>2. ASSUME NEW t \in Threads, Step(t) PROVE rga_dev_fd' = rga_dev_fd
      <3>1. ~StoreFd(t)
        BY <2>1 DEF StoreFd, At, Inv, InitInv
      <3> QED
        BY <2>2, <3>1 DEF Step, ReadLock, FastPath, WriteLock, SlowPath, OpenDevice, ReadVersions,
           ReadInfo, InitFails, AfterFailure, LockDebug, UpdateDebug, ReadDebug, UseSession, session
    <2>3. ASSUME NEW t \in Threads, NEW op \in Ops, CallStart(t, op)
          PROVE  rga_dev_fd' = rga_dev_fd
      BY <2>3 DEF CallStart, session
    <2>4. CASE LibExit
      BY <2>4 DEF LibExit
    <2> QED
      BY <2>2, <2>3, <2>4 DEF Next
  <1> QED
    BY <1>1, Invariance, PTL DEF Spec, StoredOnce
-----------------------------------------------------------------------------
(* The versions: what the tables say, for every librga, driver and header   *)
(* version.  The session relies on them in its checks.                      *)

(* The rows of the tables as a chain of conditions. *)
DriverRow(v) ==
  IF AtLeast(v, <<1, 7, 3>>) THEN 5
  ELSE IF AtLeast(v, <<1, 7, 2>>) THEN 4
  ELSE IF AtLeast(v, <<1, 6, 0>>) THEN 3
  ELSE IF AtLeast(v, <<1, 0, 3>>) THEN 2 ELSE 1

DriverMinimumRow(w) ==
  IF AtLeast(w, <<1, 2, 4>>) THEN 5
  ELSE IF AtLeast(w, <<1, 2, 0>>) THEN 4
  ELSE IF AtLeast(w, <<1, 1, 5>>) THEN 3 ELSE 2

HeaderRow(v) ==
  IF AtLeast(v, <<1, 4, 0>>) THEN 3 ELSE IF AtLeast(v, <<1, 0, 3>>) THEN 2 ELSE 1

LEMMA LastOfOne == ASSUME NEW i PROVE LastOf({i}) = i
  <1>1. \A k : k \in {i} => k = i
    OBVIOUS
  <1> QED
    BY DEF LastOf

LEMMA DriverTable ==
  /\ Len(user_driver_bind_table) = 5 /\ DOMAIN user_driver_bind_table = 1..5
  /\ user_driver_bind_table[1] = Row(<<0, 0, 0>>, <<0, 0, 0>>)
  /\ user_driver_bind_table[2] = Row(<<1, 0, 3>>, <<0, 0, 0>>)
  /\ user_driver_bind_table[3] = Row(<<1, 6, 0>>, <<1, 1, 5>>)
  /\ user_driver_bind_table[4] = Row(<<1, 7, 2>>, <<1, 2, 0>>)
  /\ user_driver_bind_table[5] = Row(<<1, 7, 3>>, <<1, 2, 4>>)
  BY DEF user_driver_bind_table

LEMMA HeaderTable ==
  /\ Len(user_header_bind_table) = 3 /\ DOMAIN user_header_bind_table = 1..3
  /\ user_header_bind_table[1] = Row(<<0, 0, 0>>, <<0, 0, 0>>)
  /\ user_header_bind_table[2] = Row(<<1, 0, 3>>, <<1, 0, 3>>)
  /\ user_header_bind_table[3] = Row(<<1, 4, 0>>, <<1, 4, 0>>)
  BY DEF user_header_bind_table

LEMMA DriverIndex ==
  ASSUME NEW v \in Version
  PROVE  CurrentIndex(v, user_driver_bind_table) = DriverRow(v)
  <1>1. Reached(v, user_driver_bind_table, "current") = {DriverRow(v)}
    BY DriverTable DEF Reached, DriverRow, AtLeast, Newer, Row, Version
  <1> QED
    BY <1>1, LastOfOne DEF CurrentIndex

LEMMA DriverMinimumIndex ==
  ASSUME NEW w \in Version
  PROVE  MinimumIndex(w, user_driver_bind_table) = DriverMinimumRow(w)
  <1>1. Reached(w, user_driver_bind_table, "minimum") = {DriverMinimumRow(w)}
    BY DriverTable DEF Reached, DriverMinimumRow, AtLeast, Newer, Row, Version
  <1> QED
    BY <1>1, LastOfOne DEF MinimumIndex

LEMMA HeaderIndex ==
  ASSUME NEW v \in Version
  PROVE  /\ CurrentIndex(v, user_header_bind_table) = HeaderRow(v)
         /\ MinimumIndex(v, user_header_bind_table) = HeaderRow(v)
  <1>1. Reached(v, user_header_bind_table, "current") = {HeaderRow(v)}
    BY HeaderTable DEF Reached, HeaderRow, AtLeast, Newer, Row, Version
  <1>2. Reached(v, user_header_bind_table, "minimum") = {HeaderRow(v)}
    BY HeaderTable DEF Reached, HeaderRow, AtLeast, Newer, Row, Version
  <1> QED
    BY <1>1, <1>2, LastOfOne DEF CurrentIndex, MinimumIndex
-----------------------------------------------------------------------------
(* From librga 1.7.3 on, which this one is, rga_check_driver refuses no     *)
(* driver: the last row has no upper bound and a driver below it only gets  *)
(* the advice to update.                                                    *)
THEOREM EveryDriverAccepted ==
  ASSUME AtLeast(ApiVersion, <<1, 7, 3>>), NEW driver \in Version
  PROVE  rga_check_driver(driver)
  <1>1. CurrentIndex(ApiVersion, user_driver_bind_table) = 5
    BY VersionAssumption, DriverIndex DEF DriverRow
  <1> QED
    BY <1>1, DriverTable DEF rga_check_driver, VersionCheck, MinimumRange, NoRow

(* rga_check_header accepts the headers from 1.4.0 on, newer ones than the  *)
(* library included.                                                        *)
THEOREM HeadersAccepted ==
  ASSUME AtLeast(ApiVersion, <<1, 4, 0>>), NEW header \in Version
  PROVE  rga_check_header(header) <=> AtLeast(header, <<1, 4, 0>>)
  <1>1. CurrentIndex(ApiVersion, user_header_bind_table) = 3
    BY VersionAssumption, HeaderIndex DEF HeaderRow
  <1> QED
    BY <1>1, HeaderTable DEF rga_check_header, VersionCheck, MinimumRange, NoRow, Row

(* The messages of the handlers give good advice: whoever installs the      *)
(* driver, or the librga, that they name has a pair the check takes.        *)
THEOREM DriverAdvice ==
  ASSUME NEW v \in Version, NEW w \in Version
  PROVE  /\ VersionCheck(v, w, user_driver_bind_table) = "below" =>
              VersionCheck(v, AdvisedOther(v, user_driver_bind_table), user_driver_bind_table)
                = "within"
         /\ VersionCheck(v, w, user_driver_bind_table) = "above" =>
              VersionCheck(AdvisedLibrga(w, user_driver_bind_table), w, user_driver_bind_table)
                = "within"
  <1> DEFINE T == user_driver_bind_table
             i == DriverRow(v)
             m == DriverMinimumRow(w)
  <1>1. CurrentIndex(v, T) = i /\ MinimumIndex(w, T) = m /\ i \in 1..5 /\ m \in 2..5
    BY DriverIndex, DriverMinimumIndex DEF DriverRow, DriverMinimumRow
  <1>2. VersionCheck(v, w, T) = "below" => VersionCheck(v, T[i].minimum, T) = "within"
    BY <1>1, DriverTable
    DEF VersionCheck, MinimumRange, NoRow, Row, AtLeast, Newer, Version
  <1>3. T[m].current \in Version /\ DriverRow(T[m].current) = m
    <2> HIDE DEF m
    <2>1. \A k \in 2..5 : k = 2 \/ k = 3 \/ k = 4 \/ k = 5
      OBVIOUS
    <2>2. CASE m = 2
      BY <2>2, DriverTable DEF DriverRow, Row, AtLeast, Newer, Version
    <2>3. CASE m = 3
      BY <2>3, DriverTable DEF DriverRow, Row, AtLeast, Newer, Version
    <2>4. CASE m = 4
      BY <2>4, DriverTable DEF DriverRow, Row, AtLeast, Newer, Version
    <2>5. CASE m = 5
      BY <2>5, DriverTable DEF DriverRow, Row, AtLeast, Newer, Version
    <2> QED
      BY <1>1, <2>1, <2>2, <2>3, <2>4, <2>5
  <1>4. CurrentIndex(T[m].current, T) = m
    BY <1>3, DriverIndex
  <1>5. MinimumRange(w, T, m) = "within"
    BY <1>1, DriverTable DEF MinimumRange, DriverMinimumRow, Row, AtLeast, Newer, Version
  <1>6. VersionCheck(T[m].current, w, T) = "within"
    BY <1>1, <1>4, <1>5 DEF VersionCheck, NoRow
  <1> QED
    BY <1>1, <1>2, <1>6 DEF AdvisedOther, AdvisedLibrga

(* The same of the header table (imcheckHeader). *)
THEOREM HeaderAdvice ==
  ASSUME NEW v \in Version, NEW w \in Version
  PROVE  /\ VersionCheck(v, w, user_header_bind_table) = "below" =>
              VersionCheck(v, AdvisedOther(v, user_header_bind_table), user_header_bind_table)
                = "within"
         /\ VersionCheck(v, w, user_header_bind_table) = "above" =>
              VersionCheck(AdvisedLibrga(w, user_header_bind_table), w, user_header_bind_table)
                = "within"
  <1> DEFINE T == user_header_bind_table
             i == HeaderRow(v)
             m == HeaderRow(w)
  <1>1. CurrentIndex(v, T) = i /\ MinimumIndex(w, T) = m /\ i \in 1..3 /\ m \in 1..3
    BY HeaderIndex DEF HeaderRow
  <1>2. VersionCheck(v, w, T) = "below" => VersionCheck(v, T[i].minimum, T) = "within"
    BY <1>1, HeaderTable
    DEF VersionCheck, MinimumRange, NoRow, Row, AtLeast, Newer, Version
  <1>3. T[m].current \in Version /\ HeaderRow(T[m].current) = m
    <2> HIDE DEF m
    <2>1. CASE m = 1
      BY <2>1, HeaderTable DEF HeaderRow, Row, AtLeast, Newer, Version
    <2>2. CASE m = 2
      BY <2>2, HeaderTable DEF HeaderRow, Row, AtLeast, Newer, Version
    <2>3. CASE m = 3
      BY <2>3, HeaderTable DEF HeaderRow, Row, AtLeast, Newer, Version
    <2> QED
      BY <1>1, <2>1, <2>2, <2>3
  <1>4. CurrentIndex(T[m].current, T) = m
    BY <1>3, HeaderIndex
  <1>5. MinimumRange(w, T, m) = "within"
    BY <1>1, HeaderTable DEF MinimumRange, HeaderRow, Row, AtLeast, Newer, Version
  <1>6. VersionCheck(T[m].current, w, T) = "within"
    BY <1>1, <1>4, <1>5 DEF VersionCheck, NoRow
  <1> QED
    BY <1>1, <1>2, <1>6 DEF AdvisedOther, AdvisedLibrga
=============================================================================
