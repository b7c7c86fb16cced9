# A verification project for librga

librga is the user-space library of Rockchip's RGA 2D accelerator. An
application describes images and operations; the library checks them, translates
them into requests (`struct rga_req`) and hands these to the driver with ioctls
on `/dev/rga`. This directory models the parts of it that have state,
concurrency or failure paths in TLA+, checks the models with TLC, and proves
some of the properties for all values of the constants with TLAPS. Paths such as
`im2d.cpp:1516` are in `src/`; the driver, the hardware, libc and the application
are external and modelled only as the library meets them.

## The system

| Component | State it keeps | Operations | Where it is modelled |
| --- | --- | --- | --- |
| im2d job manager (`im2d_job.cpp`, `im2d_impl.cpp:2373-2575`) | mutex, map handle -> job, the jobs on the heap | `rga_job_create`, `_cancel`, `_submit`, `_config`, the job branch of `rga_task_submit` | `RgaJob`, `JobBatch`, `RgaJob_proofs` |
| im2d session (`im2d_context.cpp`) | one `rga_session_t` per process behind a read-write lock | `get_rga_session`, `get_debug_state`, `is_debug_en`, the library's constructor and destructor | `RgaSession`, `RgaSession_proofs` |
| border drawing (`im2d.cpp:1495-1653`) | the fences and the job of one call | `immakeBorder`, `imsync` | `MakeBorder`, `MakeBorder_proofs` |
| legacy context (`NormalRga.cpp:36-232`, `RockchipRga.cpp`) | `rgaCtx` and `refCount`, `mSupportRga` and `mContext` of each object | `RkRgaInit`, `RkRgaDeInit`, the destructor, `RgaBlit` around its ioctl | `LegacyContext`, `LegacyContext_proofs` |
| im2d front end (`im2d.cpp`) | none but a `static string` in `querystring` | about 90 entry points, single or as tasks of a job | `ImageCall`, `ImageCall_proofs`, `Query`; array calls in `TaskSubmit` |
| hardware information (`im2d_impl.cpp:73-104`, `451-746`, `im2d_hardware.h`) | `core_version` and `hardware_info` of the session | `rga_get_info`, `rga_support_info_merge_table` | `HwInfo`, `HwTables` |
| checks (`im2d_impl.cpp:784-1406`) | none | `rga_check` and its parts, `rga_check_external` | `RgaCheck` |
| task submission (`im2d_impl.cpp:1795-2376`) | gauss coefficient table, acquire and release fence | `rga_task_submit` | up to the request `ImageCall!Submit`, `ReqGen!SubmitStatus`; from there `TaskSubmit`, `TaskSubmit_proofs` |
| request generation (`im2d_impl.cpp:2574-4513`) | none | im2d tasks to `rga_req` | `ReqGen`, `ReqEffects` |
| legacy request generation (`NormalRga.cpp:402-2398`, `NormalRgaApi.cpp`) | none | `RgaBlit`, `RgaCollorFill`, `RgaCollorPalette`, the conversion for older drivers | `LegacyReq`; beside im2d in `AllCalls`, `AllCalls_proofs` |
| sync fences (`rga_sync.cpp`) | which kernel interface works | `rga_sync_wait`, `rga_sync_merge` | `TaskSubmit`; waiting also in `MakeBorder` |
| versions (`im2d_impl.cpp:115-382`, `748-782`) | tables | `rga_version_check` | `RgaVersion`, called by `RgaSession`; theorems in `RgaSession_proofs` |
| buffers and formats (`im2d_impl.cpp:1408-1475`, `utils/`) | none; the driver counts references | import, `wrapbuffer_*`, format conversions | `Buffers`, and classes of formats in `RgaCheck` |
| self test (`samples/im2d_slt`) | golden table, golden file, results of the threads | `im2d_slt` with its options | `SelfTest`, `SelfTest_proofs` |
| gralloc, RT-Thread adapter, log, debugger, other samples, vendored headers | tables, none, or external | forwarding and formatting | not modelled; reasons in `PROJECT.json` |

How they interact. Every im2d call first gets the session and then, with a job
handle, goes through the job manager; without one it issues its ioctl at once.
The session's lock is released before its result is used, so what follows reads
the session without a lock. The job manager's mutex is released before the
ioctls, so a job is used after the unlock by the thread that took it out of the
map (submit) or, in `rga_job_config`, by one that did not. Release fences of one
submission are acquire fences of the next; who closes a fence, the driver or the
library, depends on the driver's version. The legacy API shares one context
between all its objects and reads it without any lock.

What is hard, and listed line by line under `hazards` in `PROJECT.json`: state
used after an unlock, two descriptors or objects with one name, error paths that
must undo some steps and not others, double-checked initialisation, fences that
must be closed exactly once by exactly one party, and tasks that the hardware
runs in an order the fences alone decide. The checks and the generator look at
the same task in different files and by different tests, so that one may let
through what the other is not made for.

What makes each component correct: the job manager hands the driver each
job's tasks in order, exactly once, from memory that is still allocated, and
loses none; the session is initialised once and complete before anybody uses
it, and failure releases the lock; a border is drawn as asked, whatever the
order of the hardware, without losing or stealing a descriptor; the legacy
context lives exactly as long as an object holds it; a request that passes the
checks stays inside its buffers and within what the hardware can do, and asks
for the conversion and the scaling its images call for.

## The job manager: `RgaJob`, `JobBatch`

A thread runs one call at a time. A call is its entry (with the ioctl of
`rga_job_create`), the wait for the mutex (`Lock`), the critical section, which
is one action per branch of the code, and what follows the unlock: the ioctl
and the `free`. `job_map` and `mutex` are fields of
`g_im2d_job_manager`; `heap` says what lives at each address; `request` is the
driver's table, which may refuse, run, interrupt or keep what it is given.
`owner` and `failed` say which handles a client knows, and the constants
`Shared`, `UseConfig`, `CancelFailed`, `MallocFails` and `KernelKeeps` which
clients and faults there are. `JobBatch` is what the calls promise, one batch of
tasks per handle; `RgaJob` implements it (`ImplementsBatch`, an instance with a
refinement mapping).

| Run | Question | Bounds and why they are enough |
| --- | --- | --- |
| `job_cleanup` | map and driver agree, nothing is lost, `rga_job_config` reads live jobs, `JobBatch` is implemented; with failing mallocs and submits | 2 threads, 2 handles, 2 addresses, 2 different tasks, 2 tasks a job: each thread can have a job, an address is used again as soon as it is freed, and order and mix-ups of tasks show |
| `job_hostile` | memory safety and mutex discipline with shared and stale handles that the driver reuses at once; every submit comes back although another client cancels or submits the same job and the driver refuses what it no longer knows | 3 addresses: two live jobs and one on its way to `free`, or the other way round; a submit that waits for the hardware, and one that runs into its cancel; no symmetry, which is unsound for liveness |
| `job_config_shared` | (violation) `rga_job_config` and a concurrent cancel | 2 threads, 1 handle |

A failing submit ioctl is two actions: `SubmitRefused`, the driver's answer to a
handle that is not open, and `SubmitFails`, a fault that may strike any ioctl.
`KernelKeeps` says that the driver keeps the request of a failed submit. Where
it does not, the cancel that follows one may meet a handle that is another
client's by now: `job_hostile` goes there and finds memory safe, but whose job
it is that is cancelled no property says.

`job_count` is left out, because nothing in the library reads it.

## The session: `RgaSession`

Two threads make up to `MaxCalls` calls of three kinds: one that goes through
the debug functions (`rga_task_submit`), one that tests the result
(`rga_job_create`), and `querystring`, which does not. `get_rga_session` is the
read-locked look, the write-locked second look, and one action per step of the
initialisation, each of which may fail, except that a multi-core driver is
assumed to answer `GET_DRVIER_VERSION` (`DriverAnswers`): if it did not, the
code would take it for one of the older drivers (`im2d_context.cpp:122-131`),
ask it their questions and might give it out as an RGA2. Error pointers that are dereferenced
end the model in a crash. `SessionReady` promises that what is handed out has a
descriptor, a driver type and a hardware table; the table may be the error entry
if `rga_get_info` failed in an earlier call, because the descriptor stays stored
then (`im2d_context.cpp:187`).

`session` explores all interleavings of two threads, two calls each and three
descriptors: enough for a failed initialisation, its repetition by either thread
and a call on the fast path. `session_one_fd` is a violation, of multi-core
drivers alone: `RGA_IOC_GET_HW_VERSION` fails and the descriptor stays open.

## The border: `MakeBorder`

One call of `immakeBorder`, step by step (copy, wait, job of top and bottom, job
of left and right), with the descriptor table of the process, in which another
thread opens and closes a descriptor, and a hardware that runs the tasks of a
submission in any order once the fence they wait for has signalled, writing
pixels of `dst`. What a step can meet is one of three: the code's own refusal
(`Refused`: what is `Impossible` for the hardware limits or with a closed
descriptor), a fault of `Faults` (`Fails`), or success. `BorderDrawn` compares the pixels with the picture that the
documentation of `IM_BORDER_CONSTANT`, `_REFLECT` and `_WRAP` draws.

The run `border` uses a 3 by 3 image and sides of 0, 2 and 3 pixels: a side
narrower than the image tells reflection, wrapping and the two ends apart, one
as wide as the image is the documented limit, and 1 is refused by the hardware
limits, as is a reflection of one row more than the source has: `Legal` is what
`rga_check_info` says of a border's rectangles. It does not refuse every such
border: the source of the left and right strips is `dst`, so a side wider than
the image is let through when the other side makes room for it, and then reads
columns that are being written. That is the caller's to avoid, as the
documentation says (`SidesWithin` in the proof). `CallReturns` excepts the
synchronous border without any side, whose last wait may be for a descriptor of
another thread that never becomes ready. Five descriptors are the caller's fence, three of the call and one of
the other thread. `border_edges` (a violation) asks whether a call without
faults succeeds; it does not for one of left and right empty with reflect or
wrap, nor for an all-empty synchronous border, which waits for, and may close, a
descriptor that is no longer its own: `OwnFenceOnly` therefore excepts it. Left
out: drivers before the multi-core one, which hand out no fences.

## The legacy context: `LegacyContext`

One `RockchipRga` object per thread. Construction, `RkRgaDeInit` and destruction
are the steps of `NormalRgaOpen` and `NormalRgaClose`, with the section under
`mMutex` as one action. The code protects `refCount` only, so the model's
clients do not build and destroy at once: "disciplined" ones have a lock for
that, as `RockchipRga::get` has, and blit at any time; "manual" ones call
`RkRgaInit` and `RkRgaDeInit` as they please from one thread. The context is not
cleared after `malloc`, so its feature word starts with any value of `Garbage`.

The run `legacy` has three objects (two to hold and one to go), two
addresses (a new context beside a lost descriptor), and the three kinds of
driver; `MaxRef` bounds `refCount`, which a manual client can push up by
repeating `RkRgaInit` after a failed version check. `legacy_fence` is a
violation: with an old driver a fence can be closed twice.

## Image operations: `ImageCall`, `RgaCheck`, `ReqGen`, `ReqEffects`, `HwInfo`, `HwTables`

`HwInfo` is `rga_get_info`: one step merges the entry of one core, and an
unknown core leads to the guess from the version string of the first one or to
the error entry. `HwTables` holds `hw_info_table` and the entries derived from
it. `ImageCall` adds one action for each operation on a single image: it makes
the task (source, destination, pattern, rectangles, usage flags) and submits it,
and the variable `call` records the task, the status and the request that
reached the driver. `RgaCheck` has an operator for each check, returning the
status of the C function; `first ?? second` is the early return. `ReqGen` has
the refusals and the request of each generator. A request is what the properties
need: the window of each image, whether it is mapped by the IOMMU, the
conversion, the interpolation and the turn. `NOERROR` with a request means that
it was handed to the driver, whose answer (`ioctl` in `rga_task_submit`) is not
modelled here, except for the update of a palette's table, which is part of the
generator.

The run `image` asks, of seven chips (several cores, one core, RGA1 of both
kinds, an unknown second core), whether

- the merged entry has everything some core can do and suits the stride of all
  (`InfoBacked`), and what `querystring` tells of it is what the checks accept
  (`QueryHonest`);
- what the checks let through is inside the buffers and the limits, and within
  the scaling limit, in the windows the hardware is given (`AcceptedInside`,
  `ScaleAsSeen`); operations that must not scale do not (`Unscaled1to1`);
- the interpolation chosen by default is accepted (`DefaultInterpAccepted`);
- images of different colours are converted, and only those
  (`ConversionMatches`); left out is the blend whose source has no colour space
  of its own (A8, RGBA2BPP) over an RGB background into a YUV image, for which
  `generate_blit_req` sets no conversion (`im2d_impl.cpp:3525`);
- `imcheck` lets through what `improcess` sends (`CheckAgrees`);
- an effect outlasts those written after it into the same bits (`EffectsKept`);
- the older API asks the driver for the same (`GeneratorsAgree`), and the older
  drivers get the right corner of a turned window (`TurnedCorner`), see below.

Every operation is called once in every state of the session: nothing of one
call is left for the next but the merged entry. The inputs are chosen on both
sides of each test: sizes around the stride, the resolution, the scaling limits
8 and 16 (64 against 640, 16 and 9000; 400 against 8000) and the limits of the
line buffer (600, 1928, 4096); rectangles inside, across the edge, negative,
odd, without width, and with an offset only; one format of each kind the
operations tell apart, one the checks refuse, one that is unknown; every kind
of address; each rotation and flip alone and combined; the three ways of asking
for a conversion. The conversion table is exercised with one element in an
image's `csc`, except for the pair of Y2R and R2Y in a destination. With a third
image two full-range conversions can be or-ed into one word; what comes out is
the conversion of that number (`FullPart`), with coefficients or without.

What the properties leave out is what the code really does: two rotations at
once (`ROT_90` with `ROT_180`) are one for the check and none for the generator;
`imfill` accepts a rectangle that has an offset and no size and adds the two
nowhere; `imrectangle` with a thickness of 0 or of half the height fills the
whole image, because a rectangle without a side is the image's; `imcheck` alone
looks at `IM_CROP` and at a pattern no flag uses; a source with no address makes
`generate_blit_req` return success with an empty request (`BlankReq`). The sums
are mathematical integers: sizes near `INT_MAX` are not among the inputs. Left
out of the model: the Android, RK3126C and `#if 0` branches, the numbers of
addresses and planes, and the numbers inside an effect (the blocks of an OSD,
the kernel of a blur), which are copied or computed without a branch.

`ReqEffects` is the part of the generators in which order matters: blend, 565
dithering, quantization, gray dithering, raster operation, colour key and so on
are written one after the other, some by assignment, into fields they share.

The tasks of a job are actions of their own (`ImcopyTask` to `ImprocessTask`):
most repeat the single call, but `imcvtcolorTask` overwrites the conversion of
`dst` that `imcvtcolor` keeps, and there is no `imgaussianBlurTask`.
`improcess` with an options structure is `ImprocessOpt`: `rga_get_opt` reads by
the version the program says it was compiled with, drops what that version did
not have, and for a version beyond 2.0.0 drops everything although the call goes
on. `improcess_ctx` passes its usage with no place for a fence, so `IM_ASYNC` is
always refused there and the branch that would set an asynchronous mode
(`im2d.cpp:2053-2073`) is dead.

## Buffers and questions: `Buffers`, `Query`

`Buffers` makes the images `image` runs on: `importbuffer`, `wrapbuffer_*` with
the DRM formats and modifiers, and which of several addresses counts. An import
with an unknown format answers -1 in the place of a handle, which as a handle is
no address, so it does no more harm than 0. AFBC 32x8, RFBC 64x4 and tile 4x4
modifiers come out as modes whose alignment `rga_check_align` does not look at.
`Query` is `querystring`: each question has a table of names. What has none is
not told (RGBA_1010102, YUV_444_10, SECURE, widths such as 8176), and two
resolutions are told smaller than the entry (2880x1620, 1280x1280).

## The older API: `LegacyReq`, `AllCalls`

`LegacyReq` holds the generators of `NormalRga.cpp`, from which im2d's were
copied and then changed, in the terms of `ReqGen`. `AllCalls` puts the two side
by side: after an operation of im2d a program makes the call of the older API
for the same task (its *twin*), and `GeneratorsAgree` compares the requests;
tasks of its own (`LegacyTasks`) reach branches im2d has no task for.
`NormalRgaCompatModeConvertRga2` (`Compat`) moves the corner of a turned window,
which `TurnedCorner` computes from the task instead.

What differs, and is excepted by name in the property: the refusals
(`Comparable` says where they are the same), `mmuFlag` of a physical address,
the conversion where the third image or the full-range flags come in or a colour
space does not fit its format (im2d adds the mode the formats call for to the
one that was asked, the older API takes what it is given), the palette mode of
`YCbCr_400`, and the blur, which only im2d has. A vertical stride of 0 is
replaced by the height, but not that of a lookup table (`PaletteStrided`). That
the older API grants every scaling im2d grants depends on the entries of the
chips: `VersionAssumption` says what is needed, and TLC evaluates it on the
tables of `HwTables`. Worth knowing
beside the code: the last ioctl of `RgaCollorPalette` passes a `rga_req` on the
stack (`StackReq`) whose rectangle is not set when there is no table; the
conversion drops `handle_flag`; the table update goes to older drivers
unconverted; `mVersion < 1.003` compares a float with a double, so a fill shares
descriptors from 1.003 on and blit and palette from 1.004. Drivers before the
multi-core one leave fence 0 (`RgaBlit` sets -1).

## Submission and fences: `TaskSubmit`

`ImageCall` ends at the request; `TaskSubmit` begins there. A thread makes one
call: one task, a loop over rectangles (`immosaicArray`, `imfillArray`,
`imrectangle`) or a loop over such loops (`imrectangleArray`). Each submission
generates (the table of blur coefficients is allocated), tries the ioctl as
often as signals interrupt it, closes the acquire fence if that is the library's
task, and frees the table; its release fence is merged with those so far. The
threads share the descriptors, the heap, and `g_uapi_version`, which
`rga_sync_merge` sets without a lock.

The run `submit`: two threads; kernels with either merge interface; drivers that
close acquire fences, leave them, or know none; two rectangles and two sides,
where the code has four, since the loop only tells the first from the later
ones; `MaxTries` signals and `MaxRefusals` merges without room; 11 descriptors,
so that numbers are used again and two calls of `imrectangleArray` can fill the
table. `FenceCovers`, `AcquireSettled`, `TableLives` and the action property
`OwnClosed` say whose a descriptor or a table is. What they except is what the code does: a refused
merge loses fences while the call succeeds; when a later submission fails the
caller has the last fence only; nobody closes the two fences that went into a
merged one; `rga_job_submit` never closes an acquire fence; a task put into a
job keeps the address of a freed table; an asynchronous call without a place for
its fence leaks the table. `imsync` takes a fence 0 for an error.

## Versions: `RgaVersion`

Pure functions on two tables, used by the session's checks and by theorems. With
the shipped version (1.10.5) `rga_check_driver` refuses no driver, and
`rga_check_header` takes every header from 1.4.0 on, newer ones included; the
versions the messages advise do work together.

## The self test: `SelfTest`

One behaviour is up to two processes of `im2d_slt` on one chip, typically one
that makes golden data (`--crc`) and one that compares (`--golden`), with a core
that may break between them. Main goes through its phases; the threads of a
phase run their cases on the core of their row. A picture is the core's health,
so a CRC is whether the picture is right. `FaultFound`: a check that succeeds
has looked at every core there is. `NoFalseAlarm`: a healthy chip passes,
which needs every thread to find the row of golden data it had when they were
made. `EndsClean`: whichever step of the set-up or of a case fails, a thread
gives back exactly what it holds. What it holds (`held`) and what its local
variables say (`locals`) are kept apart, per image and kind: memory, the
descriptor of a dma heap's memory, the handle. `Released` is the guards of
`RELEASE_BUFFER` (`rga_im2d_slt.cpp:682-706`), which look at the locals only:
a handle that is not 0, with the dma heap a mapping that is not NULL with a
descriptor over 0 (which every descriptor is, since 0 to 2 are taken), without
it a `malloc` that is not NULL. They have to fit all the
ways a set-up can end (`SetUpFailures`): the mallocs are made before any of
them is looked at, the heap's buffers are taken one by one, imports come after
all of them. Excepted is the descriptor of the heap itself, which a failing
`dma_buf_alloc` leaves open. `Heaps` are the chips whose kernel has the heap;
`Over` counts a release of what is not held as well, so that a double release
would show. The type
invariant is checked here because it holds the bounds of `data[]` and of the
rows and columns of the golden table; that a row for every thread is enough is
`SelfTestAssumption`, from the two numbers in `slt_config.h`. Six configurations, `WhileNum` = 1 (the
loop repeats the same pictures), two performance threads, one failing step.

Beside the properties: `main` returns 0 for `--help` and for an illegal option;
`--chip=RK3588` in capitals is unknown; `-s` is missing from the short options
and `mode_options` is not terminated; TILE8x8 is never tested; RGA3_core1's
raster test is guarded by core 0's bit (line 862); `dma_buf_alloc` leaves its
heap open when it fails;
a failed join ends the process with threads still running; a failing
`save_crc_table` is ignored. The RT-Thread build, which takes a semaphore for
any thread and then looks at the results in order, is left out.

## Fairness

Safety runs assume none, and no fault is part of any fairness formula: an ioctl
that waits need never fail, a poll without a timeout need never be interrupted.
`EndReturns` (a submit comes back) assumes that a thread past the mutex goes on
and that the driver finishes what runs, because a synchronous ioctl waits for the
hardware; without the second the property fails. Nothing is assumed of a thread
that waits for the mutex. `CallsReturn` of the session assumes weak fairness of
each thread, whose steps never wait for anything but the lock: a client makes
boundedly many calls, so a writer is not
starved by readers for ever; with unbounded calls the read-write lock of glibc,
which prefers readers, gives no such guarantee. `CallReturns` of the border
assumes that the call, the hardware and the producer of the caller's acquire
fence go on, and fails without either of the last two; nothing is assumed of the
other thread, and so not of a poll of its descriptor (`PollsOther`).

## Proofs

| Theorem | For every value of the constants |
| --- | --- |
| `RgaJob_proofs`: `JobTypeCorrect`, `JobMutexDiscipline`, `JobMapBacked`, `JobSubmitExclusive`, `JobNoLeak` | types, with no job over `RGA_TASK_NUM_MAX` tasks; mutex held exactly in critical sections; mapped handles have live jobs; a submitted job has one user; no job becomes unreachable |
| the same: `JobKernelAgrees`, `JobConfigReadsLive`, `JobRequestsReclaimed`, `JobImplementsBatch` | for clients that keep their handles to themselves: a mapped handle is open in the driver; `rga_job_config` reads a live job; no request of the driver is lost; the job manager implements `JobBatch` |
| `RgaSession_proofs`: `SessionTypeCorrect`, `SessionIsReady`, `SessionQuiet`, `SessionDebugSafe`, `SessionStoredOnce` | types; what is handed out is initialised and is not initialised again while in use; the debug calls get no error pointer; one descriptor is stored, once |
| the same: `EveryDriverAccepted`, `HeadersAccepted`, `DriverAdvice`, `HeaderAdvice` | what the version checks accept for the current and later librga; the advice of their messages passes them |
| `LegacyContext_proofs`: `LegacyTypeCorrect`, `LegacyBlitSafe`, `LegacyHoldersCounted`, `LegacyOneContext`, `LegacyFenceNotLeft` | types; no blit outlives its context; `refCount` counts the holders; one context at most; fences are not left open |
| `TaskSubmit_proofs`: `SubmitTypeOK`, `SubmitFenceCovers`, `SubmitAcquireSettled`, `SubmitTableLives`, `SubmitOwnClosed` | types; the fence of a successful call stands for all its tasks; the acquire fence is closed once, by a call that succeeds; a request has a table of its own until it is released; nobody closes another's descriptor |
| `MakeBorder_proofs`: `BorderOwnFenceOnly`, `BorderNothingLeft`, `BorderIsDrawn` | the call waits for and closes its own fences only; a call that succeeds leaves no fence but the one it hands out, and no job; its picture is the documented one, in whatever order the hardware ran the tasks |
| `ImageCall_proofs`: `ImageTypeCorrect`, `ImageAcceptedInside`, `ImageScaleAsSeen`, `ImageUnknownRefused` | types, with a request only from a call that succeeds; a request stays inside the buffers and the resolutions; its scaling is within the limit as the hardware sees it; unknown chips are refused everything |
| the same: `ImageCheckAgrees`, `ImageDefaultInterpAccepted`, `ImageConversionMatches`, `ImageUnscaled1to1`, `ImageEffectsKept` | `imcheck` lets through what `improcess` sends; the default interpolation is accepted; images are converted if and only if their colours differ; what must not scale does not; effects outlast those written after them |
| the same: `ImageInfoBacked`, `ImageQueryHonest` | the merged entry has what some core can do and a stride for all; `querystring` tells what the checks accept |
| `AllCalls_proofs`: `AllTurnedCorner`, `AllGeneratorsAgree` | the older drivers get the corner of a turned window, from both generators; what im2d sends, the older API does not refuse and makes the same request of |
| `SelfTest_proofs`: `SelfTestTypeOK`, `SelfTestFaultFound`, `SelfTestNoFalseAlarm`, `SelfTestEndsClean` | the bounds of `data[]` and of the golden table; a comparing process that succeeds has seen every core; a healthy chip passes; a thread that is over has given back what it acquired, and nothing twice, but for the heap of a failed `dma_buf_alloc` |

The argument is the same each time: an inductive invariant, its preservation
by one lemma per action, and the properties as its consequences. TLC checked
the properties on the runs before they were proved.

- `HeapInv` (jobs): the heap properties plus who may know an object. Every
  live object is known from exactly one place, the map or the call that took it
  out of it; without this a `free` could hit another thread's job.
- `OwnInv` (jobs, for four theorems): who holds a handle, as its owner, as the
  client that has still to cancel it, or in a call on it. One thread at most
  does (`OneHolder`), the driver's request of a held handle is open, or running
  while its holder waits (`StageOfHeld`), and the copy that `rga_job_config`
  made under the lock is still what is in the map (`ConfigOwn`). The theorems
  assume `OwnHandles`: clients do not share handles, and one that cancels a
  handle again after a failed submit does so only with a driver that keeps the
  request, since otherwise the number may be somebody else's by then.
  `job_config_shared` shows that the first half is needed. `JobRequestsReclaimed`
  also needs the converse: nobody but such a client reclaims a request that the
  driver keeps after a failed submit.
- The refinement (`JobImplementsBatch`) maps each step of a thread to at most
  one of `JobBatch`: the batch of a handle is what the map's job holds, or the
  job of the call that took it out until its ioctl. One lemma says which batches
  a step leaves alone (`SameBatch`), one that changing a single batch is a step
  of `JobBatch` (`OneBatch`).
- `Inv` (session): the lock's holders match the threads' positions, at most one
  thread is past the write lock, and past the fast path the session is complete.
  The theorems assume that the kernel does not hand out descriptor 0, which the
  code takes for "not open".
- `Inv` (legacy): at most one thread is in the life-cycle calls, the allocated
  context is `rgaCtx` or private to that thread, and, for disciplined clients,
  `refCount` is the number of objects whose `mContext` is set and not being
  released. `HoldersCounted` alone says nothing about the middle of a call,
  which is where blits of other threads have to be safe.
- `Inv` (image operations): what the session knows before it is open (as long as
  entries are being merged every merged core was a known one, and a chip im2d
  cannot name ends with the error entry); that what a call has sent is the
  request of its own task, which passed (`RequestFrom`); and that what must not
  scale has windows of one size once the rectangles are applied (`ShapedSent`,
  because each of these wrappers ensures it in its own way). The other properties
  are then statements about one task: `CheckFacts` and `SubmitStatusFacts` say
  what a task that passed satisfies, `BuildInside` and `BuildScaled` what that
  makes of its request, and `SubmitsIntro` reduces the API functions to one
  submission of a well-typed task. Images, rectangles, factors, tasks, chips and
  the numbers in the entries are arbitrary (`HwAssumption`, `ImageAssumption`);
  the formats and usages are those of the model.
- `MergeInv`: each field of the merged entry comes from a merged core, and its
  stride is the largest. That the largest stride suits every core needs the
  tables of the code, in which each stride divides every larger one
  (`TableAssumption`); that `querystring` is honest needs that it has a name for
  whatever the tables hold or that it tells less (`QueryAssumption`). TLC
  evaluates both on the tables of `HwTables`.
- `IInv` (submission): one predicate for each kind of thing that can be lost.
  `Shape` says how far a call can be, in its own locals. `Tables` and `TableOf`
  tie a table's address to the one submission that allocated it. `Descriptors`
  says which fence is still open at which step, the caller's among them, so
  that a closed number can only be the thread's own. `Covered` is the loop
  invariant of the array calls: the fences kept by the inner loop, the outer
  loop and the submission under way stand for consecutive stretches of the
  submissions so far; at the end there is one stretch. `Interface` is what other
  threads could spoil: the remembered interface is unknown or the kernel's own,
  so a merge that fell back to the older one is understood. Each action has a
  lemma for the call that takes it and the threads that do not.
- `Inv` and `Picture` (border): `Inv` says which descriptor is the one fence of
  the call at each step. `Picture` says how many submissions there are
  (`Counted`), that the open job and what is still to be added make up the next
  one (`Filling`), that each submission waits for the one before, or for nothing
  because all before it have run (`Chained`, `PassesOn`), and that the picture
  is right wherever a task has run (`Painted`). The order of the hardware enters
  in two places: a signalled fence means that all earlier submissions have run
  (`DoneRan`, by unfolding `Done` along a chain of three at most), so left and
  right find the rows they copy from finished; and within a submission no task
  reads what another writes, which is arithmetic on the rectangles and where
  `SidesWithin` is needed. At the end the rectangles cover the image
  (`Covered`). Sizes, sides, faults and descriptors are arbitrary.
- `AllCalls`: the steps of the older API leave im2d's variables alone
  (`AllImage`), so `Inv` carries over; the corner is arithmetic on the window
  that both generators swap. For `AllGeneratorsAgree` the answer to a twin is
  traced to the call it was made of (`TwinSent`), the table of a palette to its
  task (`TableFrom`), and the merged scaling limit to the version (`LimitInv`).
  What is left is about one task and its twin, which have the same images,
  rectangles and flags (`SameTask`): `BlitAccepted` goes through the refusals of
  `RgaBlit` one by one, each from the check of im2d it was copied to,
  `SameBlit`, `SameFill` and `SamePalette` compare the requests (`Alike`), and
  `SameConversion` the colours, where `AskedConverts` says that a conversion
  chosen by spaces that fit the formats already holds the one the formats need.
- `Inv` (self test): every stage has places in `data[]` of its own, the same in
  each process (`Places`, `Assigned`), so a thread compares with the row that
  its own predecessor filled (`Saved`, `GoldenRight`); a raster thread that has
  passed a case has shown its core to be healthy, and every core has one
  (`Seen`); main has looked at every thread it joined (`Joined`). While a thread
  runs its locals are what it holds (`Known`), all of it; `ReleasesAll` then goes
  through the ways a set-up can fail and the two kinds of memory.

Only model-checked: liveness (`EndReturns`, `CallsReturn`, `CallReturns`), which
is out of the prover's reach. Only proved: the type invariants of `RgaJob`,
`RgaSession`, `LegacyContext`, `ImageCall` and `TaskSubmit`, `DebugHasSession`,
`UnknownRefused` and the theorems about versions.

## What the project found

- `job_config_shared`: `rga_job_config` lets the driver read a job another
  thread has freed (`im2d_impl.cpp:2552`).
- `session_one_fd`: an initialisation that fails after `open` leaves its
  descriptor open (`im2d_context.cpp:124`; the older drivers' questions, lines
  133-139, do the same).
- `border_edges`: documented borders fail (`im2d.cpp:1628`, `1640`).
- `legacy_fence`: an uninitialised feature word closes a fence twice
  (`NormalRga.cpp:64`).

Not findings, because no document of the repository says otherwise, but worth a
reader's time: the list at the end of each section above, and the hazards with a
note in `PROJECT.json`.

## Not modelled

- `imconfig`: it stores scheduling hints of the calling thread, which go into
  the request uninterpreted (`check_mode` is stored and never read). `RgaFlush`
  and `rga_release_buffer`: one ioctl each.
- Array calls with a job handle: each element is one of the modelled tasks; the
  first that is refused ends the call and the earlier ones stay in the job.
- Android (gralloc, `GraphicBuffer`, HAL formats, `GetRects`), RT-Thread
  (where `rga_device_init` closes the descriptor it has stored) and RK3126C.
- The DRM dumb-buffer calls of `RockchipRga`, the log and the debugger:
  forwarding, mappings and formatting. The samples but for the self test.
- What the driver does with an accepted request, apart from when it ends, what
  it refuses and which fences it makes and closes.
- Process exit: the library's destructor closes the session while other threads
  may still be in a call; `LibExit` is taken when none is.

## Plan

Everything of the first plan is modelled, and every safety property that a
passing run checks is proved. What is left:

1. Consequences that are only stated for one call: two jobs of one thread, and
   the fence of one call as the acquire fence of the next.
