------------------------------- MODULE SelfTest -------------------------------
(* im2d_slt, the self test of the repository (samples/im2d_slt): a process  *)
(* that makes every core of a chip draw the same few pictures, one thread a *)
(* test, and compares their CRCs with a golden table, which an earlier      *)
(* process (--crc) has saved or which is built in.  Three phases follow one *)
(* another: raster tests, tests of the special buffer layouts, and a        *)
(* performance test that compares nothing.  A CRC stands for the picture.   *)
(* The threads are those of the pthread build, the chip is one board.       *)
EXTENDS Integers, Sequences, FiniteSets

CONSTANTS
  Chips,        \* chips the command line may name
  Heaps,        \* those whose dma heap is there (file_exists)
  PerfThreads,  \* IM2D_SLT_PERF_THREAD_MAX
  WhileNum,     \* g_chip_config.while_num
  MaxRuns,      \* bound on the processes of a behaviour
  MaxFaults,    \* bound on the steps that fail in one of them
  NULL          \* no golden table, no file

TestThreads == 10                        \* IM2D_SLT_TEST_THREAD_MAX
ThreadMax == TestThreads + PerfThreads   \* IM2D_SLT_THREAD_MAX
RowMax == 16                             \* RGA_SLT_THREAD_MAX
CaseMax == 16                            \* RGA_SLT_CASE_MAX

Names == {"rk3588", "rk3576", "rk3538", "common_rga2", "rv1103b", "rk3506"}

ASSUME SelfTestAssumption ==
  /\ Chips \subseteq Names /\ Heaps \subseteq Chips
  /\ PerfThreads \in Nat /\ ThreadMax <= RowMax /\ WhileNum \in Nat \ {0}
  /\ MaxRuns \in Nat /\ MaxFaults \in Nat

VARIABLES
  chip,     \* the board
  broken,   \* its cores that draw wrong pictures
  file,     \* the golden file of the chip, or NULL
  runs,     \* processes started
  cmd,      \* the options of the process
  phase,    \* where main is: one of the three tests or how it ended
  ids,      \* the indices of data[] the phase uses: first, end, and how many
            \* threads have been created and joined
  data,     \* data[]: the threads and what they have done
  table,    \* g_generated_golden_data
  read,     \* whether g_read_golden_data points to it
  faults    \* steps that have failed, other than by a picture (history)

vars == <<chip, broken, file, runs, cmd, phase, ids, data, table, read, faults>>

board   == <<chip, broken>>
process == <<runs, cmd, read>>
-----------------------------------------------------------------------------
(* The chips, slt_config.h.  A special layout names the tests of its input  *)
(* and of its output; RGA2 draws three of them, RGA3 the fourth.            *)
RGA3 == {"RGA3_CORE0", "RGA3_CORE1"}
RGA2 == {"RGA2_CORE0", "RGA2_CORE1"}

Layout(in, out) == [in |-> in, out |-> out]
NoLayouts == [l \in {} |-> Layout(FALSE, FALSE)]

Config ==
  [ rk3588 |-> [cores |-> RGA3 \cup {"RGA2_CORE0"}, alpha |-> TRUE, heap |-> TRUE,
                special |-> [l \in {"AFBC16x16", "TILE8x8"} |-> Layout(TRUE, TRUE)]],
    rk3576 |-> [cores |-> RGA2, alpha |-> TRUE, heap |-> TRUE,
                special |-> [l \in {"AFBC32x8", "RKFBC64x4", "TILE4x4"} |->
                               Layout(TRUE, l = "TILE4x4")]],
    rk3538 |-> [cores |-> {"RGA2_CORE0"}, alpha |-> TRUE, heap |-> TRUE,
                special |-> [l \in {"AFBC32x8", "RKFBC64x4"} |-> Layout(TRUE, l = "AFBC32x8")]],
    common_rga2 |-> [cores |-> {"RGA2_CORE0"}, alpha |-> TRUE, heap |-> TRUE, special |-> NoLayouts],
    rv1103b |-> [cores |-> {"RGA2_CORE0"}, alpha |-> FALSE, heap |-> TRUE, special |-> NoLayouts],
    rk3506  |-> [cores |-> {"RGA2_CORE0"}, alpha |-> FALSE, heap |-> FALSE, special |-> NoLayouts] ]

config == Config[chip]

(* The threads of each phase, in the order main fills data[] in.  The       *)
(* raster thread of RGA3 core 1 is guarded by the mask of core 0, and no    *)
(* thread is made for TILE8x8.  The layout is a name only: rga_run sets     *)
(* rd_mode on its own images after it has copied them for the cases, which  *)
(* therefore all run on raster images.                                      *)
Test(layout, core) == [layout |-> layout, core |-> core]

Guard(core) == IF core = "RGA3_CORE1" THEN "RGA3_CORE0" ELSE core

When(condition, x) == IF condition THEN <<x>> ELSE <<>>

RasterTests ==
  LET Listed(core) == When(Guard(core) \in config.cores, Test("RASTER", core))
  IN  Listed("RGA3_CORE0") \o Listed("RGA3_CORE1")
        \o Listed("RGA2_CORE0") \o Listed("RGA2_CORE1")

SpecialTests ==
  LET Listed(layout, core) ==
        When(layout \in DOMAIN config.special /\ core \in config.cores, Test(layout, core))
  IN  Listed("AFBC16x16", "RGA3_CORE0") \o Listed("AFBC16x16", "RGA3_CORE1")
        \o Listed("AFBC32x8", "RGA2_CORE0") \o Listed("AFBC32x8", "RGA2_CORE1")
        \o Listed("RKFBC64x4", "RGA2_CORE0") \o Listed("RKFBC64x4", "RGA2_CORE1")
        \o Listed("TILE4x4", "RGA2_CORE0") \o Listed("TILE4x4", "RGA2_CORE1")

PerfTests_All == [i \in 1..ThreadMax |-> Test("PERF", "DEFAULT")]

PerfTests == [i \in 1..PerfThreads |-> Test("PERF", "DEFAULT")]

TestsOf(stage) ==
  CASE stage = "raster" -> RasterTests
    [] stage = "special" -> SpecialTests
    [] stage = "perf" -> PerfTests

(* The cases a thread runs: rga_raster_test, rga_special_test and the loop  *)
(* of rga_perf_test.                                                        *)
CasesOf(test) ==
  CASE test.layout = "RASTER" ->
         <<"csc">> \o When(config.alpha, "blend") \o <<"rotate">> \o When(test.core \in RGA2, "fill")
    [] test.layout = "PERF" -> [i \in 1..WhileNum |-> "copy"]
    [] OTHER ->
         When(config.special[test.layout].in, "in") \o When(config.special[test.layout].out, "out")
-----------------------------------------------------------------------------
(* The pictures, and what a case leaves in the two buffers that are drawn   *)
(* to: both start as memset, `in' draws to tmp only, `out' copies tmp.      *)
Blank == "blank"
Wrong == "wrong"
Pictures == {Blank, Wrong, "csc", "blend", "rotate", "fill", "copy", "in"}

Draws(core, picture) == IF core \in broken THEN Wrong ELSE picture

TmpAfter(w, case) == IF case = "in" THEN Draws(w.test.core, "in") ELSE w.tmp

DstAfter(w, case) ==
  CASE case = "in"  -> w.dst
    [] case = "out" -> Draws(w.test.core, w.tmp)
    [] OTHER        -> Draws(w.test.core, case)

(* A table of golden data: the cells that are not zero. *)
Zero == "zero"
EmptyTable == [r \in 0..(RowMax - 1) |-> [c \in 0..(CaseMax - 1) |-> Zero]]

Filled(rows) ==
  [r \in 0..(RowMax - 1) |->
     [c \in 0..(CaseMax - 1) |->
        IF r < Len(rows) /\ c < Len(rows[r + 1]) THEN rows[r + 1][c + 1] ELSE Zero]]

(* common_golden_data and rk3538_golden_data; a healthy chip drew them. *)
Builtin ==
  CASE chip = "common_rga2" -> Filled(<< <<"csc", "blend", "rotate", "fill">> >>)
    [] chip = "rk3538" -> Filled(<< <<"csc", "blend", "rotate", "fill">>,
                                    <<Blank, "in">>, <<Blank>> >>)
    [] OTHER -> NULL

(* get_crcdata_table: the table read from the file, else the built-in one.  *)
Golden == IF read THEN table ELSE Builtin
-----------------------------------------------------------------------------
Images == {"src", "tmp", "dst"}

(* What rga_run acquires: of which images it has the memory, a descriptor   *)
(* of the dma heap for it, the handle of the import.  "heap" is what        *)
(* dma_buf_alloc leaves open when it fails, which no local knows.           *)
Kinds   == {"buf", "dma_fd", "handle"}
Nothing == [kind \in Kinds |-> {}]
Heap    == [Nothing EXCEPT !["dma_fd"] = {"heap"}]

Results == {0, -1, -2, -3}   \* success, slt_error, slt_check_error, slt_rga_error

NoThread == [test |-> Test("RASTER", "DEFAULT"), cases |-> <<>>, at |-> "none", done |-> 0,
             tmp |-> Blank, dst |-> Blank, locals |-> Nothing, held |-> Nothing, result |-> 0]

Stages == {"raster", "special", "perf"}
Ended  == {"usage", "success", "failed"}

(* With --crc the option --golden only says where the file goes. *)
Commands ==
  {c \in [generate : BOOLEAN, golden : BOOLEAN, perf : BOOLEAN] : c.generate => ~c.golden}

(* The types of the variables; the threads of a phase have their places in  *)
(* data[], and their cases in the table of golden data.                     *)
TypeOK ==
  /\ chip \in Chips /\ broken \subseteq config.cores
  /\ runs \in 0..MaxRuns /\ faults \in 0..MaxFaults
  /\ cmd \in Commands
  /\ phase \in Stages \cup Ended
  /\ ids \in [first : Nat, end : Nat, created : Nat, joined : Nat]
  /\ ids.end <= ThreadMax /\ ids.end <= RowMax
  /\ \A i \in DOMAIN data :
       /\ Len(data[i].cases) <= CaseMax \/ data[i].test.layout = "PERF"
       /\ data[i].done <= Len(data[i].cases)
       /\ data[i].result \in Results /\ data[i].dst \in Pictures

Fresh(first, stage) ==
  [first |-> first, end |-> first + Len(TestsOf(stage)), created |-> 0, joined |-> 0]

AllZero == [i \in 0..(ThreadMax - 1) |-> NoThread]

Init ==
  /\ chip \in Chips
  /\ broken = {}
  /\ file = NULL
  /\ runs = 0
  /\ cmd = [generate |-> FALSE, golden |-> FALSE, perf |-> FALSE]
  /\ phase = "usage"
  /\ ids = [first |-> 0, end |-> 0, created |-> 0, joined |-> 0]
  /\ data = AllZero
  /\ table = EmptyTable
  /\ read = FALSE
  /\ faults = 0
-----------------------------------------------------------------------------
(* A new process; in the meantime a core may have broken.  It reads the      *)
(* golden file when it is given --golden without --crc; a file that is      *)
(* missing leaves the built-in table.                                       *)
StartRun(command, worse) ==
  /\ phase \in Ended
  /\ runs < MaxRuns
  /\ runs' = runs + 1
  /\ broken' = broken \cup worse
  /\ cmd' = command
  /\ read' = (command.golden /\ ~command.generate /\ file # NULL)
  /\ table' = IF read' THEN file ELSE EmptyTable
  /\ phase' = "raster"
  /\ ids' = Fresh(0, "raster")
  /\ data' = AllZero
  /\ faults' = 0
  /\ UNCHANGED <<chip, file>>

(* rga_slt_parse_argv has met --help or an illegal value: main returns 0,   *)
(* having tested nothing.                                                   *)
Usage ==
  /\ phase \in Ended
  /\ runs < MaxRuns
  /\ runs' = runs + 1
  /\ phase' = "usage"
  /\ UNCHANGED <<board, file, cmd, ids, data, table, read, faults>>

(* The loop of run_test that makes the threads. *)
CreateThread ==
  LET i == ids.first + ids.created
      test == TestsOf(phase)[ids.created + 1]
  IN  /\ phase \in Stages
      /\ i < ids.end
      /\ ids' = [ids EXCEPT !.created = @ + 1]
      /\ data' = [data EXCEPT ![i] = [NoThread EXCEPT !.test = test, !.cases = CasesOf(test),
                                                      !.at = "created"]]
      /\ UNCHANGED <<board, file, process, phase, table, faults>>

Alive(i, at) == phase \in Stages /\ data[i].at = at

(* rga_run up to its loop: memory for three images, from the dma heap when  *)
(* it is there, a handle for each, the input image.                         *)
UseDmaHeap == config.heap /\ chip \in Heaps

Acquired(memory, imported) ==
  [buf |-> memory, dma_fd |-> IF UseDmaHeap THEN memory ELSE {}, handle |-> imported]

All == Acquired(Images, Images)

(* How far the set-up has come when a step of it fails: what it holds, and  *)
(* whether a descriptor is lost.  The mallocs are all made before they are  *)
(* looked at.                                                               *)
SoFar == {{}, {"src"}, {"src", "tmp"}}

SetUpFailures ==
  [memory : IF UseDmaHeap THEN SoFar ELSE SUBSET Images, imported : {{}}, lost : {Nothing}]
    \cup [memory : {Images}, imported : SoFar \cup {Images}, lost : {Nothing}]
    \cup [memory : IF UseDmaHeap THEN SoFar ELSE {}, imported : {{}}, lost : {Heap}]

(* A bug: only what has been imported is released. *)
Released_Imported(locals) ==
  LET mapped == locals.handle \cap locals.buf
  IN  [handle |-> locals.handle, dma_fd |-> mapped \cap locals.dma_fd, buf |-> mapped]

(* RELEASE_BUFFER goes by the locals, each of which was cleared first: a    *)
(* handle that is not 0, a mapping with its descriptor (which is not 0,     *)
(* that is stdin), a malloc.                                                *)
Released(locals) ==
  LET mapped == locals.dma_fd \cap locals.buf
  IN  [handle |-> locals.handle,
       dma_fd |-> IF UseDmaHeap THEN mapped ELSE {},
       buf    |-> IF UseDmaHeap THEN mapped ELSE locals.buf]

(* A thread w is over, with a result for run_test: it no longer holds what  *)
(* it has released, and to release what it does not hold counts as well.    *)
Over(w, ret) ==
  LET released == Released(w.locals)
  IN  [w EXCEPT !.at = "over", !.result = ret, !.locals = Nothing,
                !.held = [kind \in Kinds |-> (w.held[kind] \ released[kind])
                                                \cup (released[kind] \ w.held[kind])]]

SetUp(i) ==
  /\ Alive(i, "created")
  /\ data' = [data EXCEPT ![i].at = "running", ![i].locals = All, ![i].held = All]
  /\ UNCHANGED <<board, file, process, phase, ids, table, faults>>

SetUpFails(i, failure) ==
  LET locals == Acquired(failure.memory, failure.imported)
      held   == [kind \in Kinds |-> locals[kind] \cup failure.lost[kind]]
  IN  /\ Alive(i, "created") /\ faults < MaxFaults
      /\ data' = [data EXCEPT ![i] = Over([@ EXCEPT !.locals = locals, !.held = held], -1)]
      /\ faults' = faults + 1
      /\ UNCHANGED <<board, file, process, phase, ids, table>>

(* A call of im2d fails: slt_rga_error. *)
RgaFails(i) ==
  /\ Alive(i, "running") /\ faults < MaxFaults
  /\ data' = [data EXCEPT ![i] = Over(@, -3)]
  /\ faults' = faults + 1
  /\ UNCHANGED <<board, file, process, phase, ids, table>>

(* A test without a table to compare with: slt_error. *)
NoGolden(i) ==
  /\ Alive(i, "running")
  /\ ~cmd.generate /\ Golden = NULL /\ data[i].test.layout # "PERF"
  /\ data' = [data EXCEPT ![i] = Over(@, -1)]
  /\ UNCHANGED <<board, file, process, phase, ids, table, faults>>

(* One case: the core draws, the CRC of dst is saved in the row of the      *)
(* thread's id or compared with what is there; after the last case the      *)
(* thread is over.                                                          *)
RunCase(i) ==
  LET w == data[i]
      case == w.cases[w.done + 1]
      dst == DstAfter(w, case)
      drawn == [w EXCEPT !.done = @ + 1, !.tmp = TmpAfter(w, case), !.dst = dst]
      checked == w.test.layout # "PERF"
      passed == ~checked \/ cmd.generate \/ Golden[i][w.done] = dst
  IN  /\ Alive(i, "running")
      /\ checked => cmd.generate \/ Golden # NULL
      /\ table' = IF checked /\ cmd.generate THEN [table EXCEPT ![i][w.done] = dst] ELSE table
      /\ data' = [data EXCEPT ![i] =
                    IF ~passed THEN Over(drawn, -2)
                    ELSE IF drawn.done = Len(w.cases) THEN Over(drawn, 0) ELSE drawn]
      /\ UNCHANGED <<board, file, process, phase, ids, faults>>
-----------------------------------------------------------------------------
Judge_OneError(i) ==
  /\ ids' = [ids EXCEPT !.joined = @ + 1]
  /\ phase' = IF data[i].result = -1 THEN "failed" ELSE phase
  /\ UNCHANGED <<board, file, process, data, table, faults>>

(* What main does with the result of the thread in place i: the first one   *)
(* that has failed ends the process.                                        *)
Judge(i) ==
  /\ ids' = [ids EXCEPT !.joined = @ + 1]
  /\ phase' = IF data[i].result < 0 THEN "failed" ELSE phase
  /\ UNCHANGED <<board, file, process, data, table, faults>>

Joinable == phase \in Stages /\ ids.created = ids.end - ids.first /\ ids.joined < ids.created

(* run_test joins the threads in the order of their places.  (The build for *)
(* RT-Thread counts a semaphore instead, and so looks at the result of a    *)
(* thread when as many others are over.)                                    *)
Join ==
  /\ Joinable
  /\ data[ids.first + ids.joined].at = "over"
  /\ Judge(ids.first + ids.joined)

StartPhase_SameRows(stage) ==
  /\ phase' = stage
  /\ ids' = Fresh(0, stage)
  /\ data' = AllZero

(* A further phase uses the places of data[] after those of the last one,   *)
(* and so rows of its own in the golden table.                              *)
StartPhase(stage) ==
  /\ phase' = stage
  /\ ids' = Fresh(ids.end, stage)
  /\ data' = AllZero

(* main after a phase all of whose threads have been joined.  The golden    *)
(* data are saved at the end; a file that cannot be written is no failure.  *)
PhaseOver == phase \in Stages /\ ids.first + ids.joined = ids.end

WantsSpecial == phase = "raster" /\ DOMAIN config.special # {}
WantsPerf    == phase # "perf" /\ cmd.perf

NextPhase ==
  /\ PhaseOver
  /\ \/ WantsSpecial /\ StartPhase("special")
     \/ ~WantsSpecial /\ WantsPerf /\ StartPhase("perf")
  /\ UNCHANGED <<board, file, process, table, faults>>

Succeed ==
  /\ PhaseOver /\ ~WantsSpecial /\ ~WantsPerf
  /\ phase' = "success"
  /\ file' \in IF cmd.generate THEN {file, table} ELSE {file}
  /\ UNCHANGED <<board, process, ids, data, table, faults>>

(* The last process has ended. *)
Stop == phase \in Ended /\ runs = MaxRuns /\ UNCHANGED vars
-----------------------------------------------------------------------------
Thread(i) ==
  \/ SetUp(i)
  \/ \E failure \in SetUpFailures : SetUpFails(i, failure)
  \/ RgaFails(i) \/ NoGolden(i) \/ RunCase(i)

Next ==
  \/ \E command \in Commands, worse \in {{}} \cup {{c} : c \in config.cores} : StartRun(command, worse)
  \/ Usage
  \/ CreateThread
  \/ \E i \in DOMAIN data : Thread(i)
  \/ Join \/ NextPhase \/ Succeed \/ Stop

Spec == Init /\ [][Next]_vars
-----------------------------------------------------------------------------
(* A process that compares and ends well has found every core of the mask   *)
(* in order: each of them was made to draw, each picture was compared and   *)
(* every thread's result was looked at.                                     *)
TrustedGolden ==
  Golden # NULL => \A i \in 0..(RowMax - 1), c \in 0..(CaseMax - 1) : Golden[i][c] # Wrong

FaultFound ==
  phase = "success" /\ ~cmd.generate /\ TrustedGolden => broken = {}

(* No false alarm: a healthy chip passes against its own golden data, from  *)
(* a file an earlier process made or built in, unless something other than  *)
(* a picture goes wrong.  The phases must give each thread the row of the   *)
(* table that it had in the generating process, and no thread another's.    *)
NoFalseAlarm ==
  phase = "failed" => faults > 0 \/ broken # {} \/ (~cmd.generate /\ Golden = NULL)

(* Whichever step of the set-up or of a case fails, and however the memory  *)
(* was had: the guards of RELEASE_BUFFER, which look at the locals, give    *)
(* back exactly what was acquired, nothing twice.  Only what dma_buf_alloc  *)
(* leaves open when it fails is lost.                                       *)
EndsClean == \A i \in DOMAIN data : data[i].at = "over" => data[i].held \in {Nothing, Heap}
=============================================================================
