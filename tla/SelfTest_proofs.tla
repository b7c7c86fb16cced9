---------------------------- MODULE SelfTest_proofs ----------------------------
(* Proofs about SelfTest: for any number of processes, faults, repetitions  *)
(* and performance threads, and for any of the chips.                       *)
EXTENDS SelfTest, TLAPS

Cores   == RGA3 \cup RGA2 \cup {"DEFAULT"}
Layouts == {"RASTER", "PERF", "AFBC16x16", "AFBC32x8", "RKFBC64x4", "TILE4x4"}
Cases   == {"csc", "blend", "rotate", "fill", "copy", "in", "out"}

ThreadType ==
  [test : [layout : Layouts, core : Cores], cases : Seq(Cases),
   at : {"none", "created", "running", "over"}, done : Nat, tmp : Pictures, dst : Pictures,
   locals : [Kinds -> SUBSET Images], held : [Kinds -> SUBSET (Images \cup {"heap"})],
   result : Results]

(* Tables of golden data. *)
Tables == [0..(RowMax - 1) -> [0..(CaseMax - 1) -> Pictures \cup {Zero}]]

(* The rows of the table that the threads of a chip compare with or fill:   *)
(* first those of the raster tests, then those of the special ones.         *)
Rows == Len(RasterTests) + Len(SpecialTests)

RowTest(i) ==
  IF i < Len(RasterTests) THEN RasterTests[i + 1] ELSE SpecialTests[i + 1 - Len(RasterTests)]

(* What a healthy core has drawn into dst after case c of a test: `in' draws *)
(* into tmp only, and `out' copies tmp.                                     *)
Expected(test, c) ==
  LET case == CasesOf(test)[c + 1]
  IN  IF case = "in" THEN Blank ELSE IF case = "out" THEN "in" ELSE case

RightRow(golden, i) ==
  \A c \in 0..(Len(CasesOf(RowTest(i))) - 1) : golden[i][c] = Expected(RowTest(i), c)

Right(golden) == \A i \in 0..(Rows - 1) : RightRow(golden, i)

(* The place in data[] of the first thread of a stage. *)
First(stage) ==
  IF stage = "raster" THEN 0 ELSE IF stage = "special" THEN Len(RasterTests) ELSE Rows
-----------------------------------------------------------------------------
Types ==
  /\ chip \in Chips /\ broken \subseteq config.cores
  /\ runs \in 0..MaxRuns /\ faults \in 0..MaxFaults
  /\ cmd \in Commands /\ phase \in Stages \cup Ended
  /\ ids \in [first : Nat, end : Nat, created : Nat, joined : Nat]
  /\ ids.end <= ThreadMax
  /\ data \in [0..(ThreadMax - 1) -> ThreadType]
  /\ table \in Tables /\ (file # NULL => file \in Tables)
  /\ read \in BOOLEAN

(* A thread knows what it holds, except what dma_buf_alloc has lost. *)
Known(w) ==
  \E memory, imported \in SUBSET Images, lost \in {Nothing, Heap} :
    /\ w.locals = Acquired(memory, imported)
    /\ w.held = [kind \in Kinds |-> Acquired(memory, imported)[kind] \cup lost[kind]]

(* What a thread is in, whatever the others do. *)
Alone(w) ==
  /\ Len(w.cases) <= CaseMax \/ w.test.layout = "PERF"
  /\ w.done <= Len(w.cases)
  /\ w.at \in {"none", "created"} => w.done = 0 /\ w.tmp = Blank /\ w.dst = Blank
  /\ w.at = "running" => w.done < Len(w.cases) /\ Known(w)
  /\ w.at = "over" => w.held \in {Nothing, Heap}
  /\ w.at # "over" => w.result = 0
  /\ w.at = "over" /\ w.result = 0 => w.done = Len(w.cases)

(* Every stage has places in data[] of its own, the same in each process.   *)
Places ==
  phase \in Stages =>
    /\ ids.first = First(phase) /\ ids.end = ids.first + Len(TestsOf(phase))
    /\ ids.joined <= ids.created /\ ids.created <= ids.end - ids.first

Made == ids.first..(ids.first + ids.created - 1)

Assigned ==
  phase \in Stages => \A i \in DOMAIN data :
    IF i \in Made
    THEN /\ data[i].at # "none"
         /\ data[i].test = TestsOf(phase)[i - ids.first + 1]
         /\ data[i].cases = CasesOf(data[i].test)
    ELSE data[i].at = "none"

(* The threads main has looked at have ended well. *)
Joined ==
  phase \in Stages =>
    \A i \in ids.first..(ids.first + ids.joined - 1) : data[i].at = "over" /\ data[i].result = 0

Compares == ~cmd.generate /\ TrustedGolden

(* A raster thread that has passed a case has shown that its core draws     *)
(* right, and after the raster tests every core has such a thread.          *)
Seen ==
  Compares =>
    /\ phase = "raster" =>
         \A i \in Made : data[i].result = 0 /\ data[i].done > 0 => data[i].test.core \notin broken
    /\ phase \in {"special", "perf", "success"} => broken = {}

(* As long as nothing is broken a saved table is right: cores do not heal,   *)
(* so nothing was broken when it was made.                                  *)
GoldenRight ==
  broken = {} => (file # NULL => Right(file)) /\ (read => Right(table))

ReadOnly == read => ~cmd.generate

(* The buffers of a thread with a special layout on a healthy chip. *)
Drawn ==
  phase = "special" /\ broken = {} => \A i \in Made :
    /\ data[i].done = 0 => data[i].dst = Blank
    /\ data[i].done = 1 => data[i].tmp = "in" /\ data[i].dst = Blank

(* The rows a generating process has filled so far. *)
Saved ==
  phase \in Stages /\ cmd.generate /\ broken = {} =>
    /\ \A i \in 0..(ids.first - 1) : i < Rows => RightRow(table, i)
    /\ \A i \in Made : i < Rows =>
         \A c \in 0..(data[i].done - 1) : table[i][c] = Expected(data[i].test, c)

Healthy == faults = 0 /\ broken = {} /\ (cmd.generate \/ Golden # NULL)

(* With a healthy chip no thread ends with an error. *)
Passing ==
  /\ phase \in Stages /\ Healthy => \A i \in Made : data[i].result = 0
  /\ phase = "failed" => ~Healthy

Inv ==
  /\ Types
  /\ \A i \in DOMAIN data : Alone(data[i])
  /\ Places /\ Assigned /\ Joined
  /\ Seen
  /\ ReadOnly /\ GoldenRight /\ Drawn /\ Saved /\ Passing
-----------------------------------------------------------------------------
TestSet == [layout : Layouts, core : Cores]

LEMMA ChipTypes ==
  ASSUME chip \in Chips
  PROVE  /\ config.cores \subseteq RGA3 \cup RGA2
         /\ config.alpha \in BOOLEAN /\ config.heap \in BOOLEAN
         /\ \A l \in DOMAIN config.special :
              config.special[l].in = TRUE /\ config.special[l].out \in BOOLEAN
  <1>1. chip \in Names
    BY SelfTestAssumption
  <1>2. CASE chip = "rk3588"
    BY <1>2 DEF config, Config, Layout, RGA2, RGA3
  <1>3. CASE chip = "rk3576"
    BY <1>3 DEF config, Config, Layout, RGA2, RGA3
  <1>4. CASE chip = "rk3538"
    BY <1>4 DEF config, Config, Layout, RGA2, RGA3
  <1>5. CASE chip = "common_rga2"
    BY <1>5 DEF config, Config, NoLayouts, RGA2, RGA3
  <1>6. CASE chip = "rv1103b"
    BY <1>6 DEF config, Config, NoLayouts, RGA2, RGA3
  <1>7. CASE chip = "rk3506"
    BY <1>7 DEF config, Config, NoLayouts, RGA2, RGA3
  <1> QED
    BY <1>1, <1>2, <1>3, <1>4, <1>5, <1>6, <1>7 DEF Names

LEMMA WhenType == ASSUME NEW S, NEW x \in S, NEW c PROVE When(c, x) \in Seq(S)
  BY DEF When

LEMMA RowTypes == RasterTests \in Seq(TestSet) /\ SpecialTests \in Seq(TestSet)
  <1> DEFINE W(c, l, k) == When(c, Test(l, k))
  <1>1. \A c, l, k : l \in Layouts /\ k \in Cores => W(c, l, k) \in Seq(TestSet)
    BY WhenType DEF Test, TestSet
  <1>2. RGA3 \cup RGA2 \subseteq Cores /\ RGA3 = {"RGA3_CORE0", "RGA3_CORE1"}
        /\ RGA2 = {"RGA2_CORE0", "RGA2_CORE1"}
    BY DEF Cores, RGA3, RGA2
  <1>3. \A s, t : s \in Seq(TestSet) /\ t \in Seq(TestSet) => s \o t \in Seq(TestSet)
    OBVIOUS
  <1>4. /\ RasterTests = W(Guard("RGA3_CORE0") \in config.cores, "RASTER", "RGA3_CORE0")
             \o W(Guard("RGA3_CORE1") \in config.cores, "RASTER", "RGA3_CORE1")
             \o W(Guard("RGA2_CORE0") \in config.cores, "RASTER", "RGA2_CORE0")
             \o W(Guard("RGA2_CORE1") \in config.cores, "RASTER", "RGA2_CORE1")
    BY DEF RasterTests
  <1> DEFINE S(l, k) == W(l \in DOMAIN config.special /\ k \in config.cores, l, k)
  <1>5. SpecialTests = S("AFBC16x16", "RGA3_CORE0") \o S("AFBC16x16", "RGA3_CORE1")
          \o S("AFBC32x8", "RGA2_CORE0") \o S("AFBC32x8", "RGA2_CORE1")
          \o S("RKFBC64x4", "RGA2_CORE0") \o S("RKFBC64x4", "RGA2_CORE1")
          \o S("TILE4x4", "RGA2_CORE0") \o S("TILE4x4", "RGA2_CORE1")
    BY DEF SpecialTests
  <1>6. \A l, k : l \in Layouts /\ k \in Cores => S(l, k) \in Seq(TestSet)
    BY <1>1
  <1> HIDE DEF W, S
  <1> QED
    BY <1>1, <1>2, <1>3, <1>4, <1>5, <1>6 DEF Layouts

(* The threads of the chips, row by row.                                    *)
LEMMA RasterRows ==
  ASSUME chip \in Chips
  PROVE  /\ RasterTests \in Seq(TestSet)
         /\ Len(RasterTests) \in 1..3
         /\ \A j \in 1..Len(RasterTests) : RasterTests[j].layout = "RASTER"
         /\ \A core \in config.cores :
              \E j \in 1..Len(RasterTests) : RasterTests[j].core = core
  <1>1. chip \in Names
    BY SelfTestAssumption
  <1>2. CASE chip = "rk3588"
    <2>3. Len(RasterTests) = 3
      BY <1>2 DEF RasterTests, config, Config, Guard, When, RGA3, RGA2, Test
    <2>1. /\ RasterTests[1] = Test("RASTER", "RGA3_CORE0")
          /\ RasterTests[2] = Test("RASTER", "RGA3_CORE1")
          /\ RasterTests[3] = Test("RASTER", "RGA2_CORE0")
      BY <1>2 DEF RasterTests, config, Config, Guard, When, RGA3, RGA2, Test
    <2>2. config.cores = {"RGA3_CORE0", "RGA3_CORE1", "RGA2_CORE0"}
      BY <1>2 DEF config, Config, RGA3
    <2> QED
      BY <2>1, <2>2, RowTypes, <2>3 DEF Test
  <1>3. CASE chip = "rk3576"
    <2>3. Len(RasterTests) = 2
      BY <1>3 DEF RasterTests, config, Config, Guard, When, RGA3, RGA2, Test
    <2>1. /\ RasterTests[1] = Test("RASTER", "RGA2_CORE0")
          /\ RasterTests[2] = Test("RASTER", "RGA2_CORE1")
      BY <1>3 DEF RasterTests, config, Config, Guard, When, RGA3, RGA2, Test
    <2>2. config.cores = {"RGA2_CORE0", "RGA2_CORE1"}
      BY <1>3 DEF config, Config, RGA2
    <2> QED
      BY <2>1, <2>2, RowTypes, <2>3 DEF Test
  <1>4. CASE chip \in {"rk3538", "common_rga2", "rv1103b", "rk3506"}
    <2>1. config.cores = {"RGA2_CORE0"}
      <3>1. CASE chip = "rk3538"
        BY <3>1 DEF config, Config
      <3>2. CASE chip = "common_rga2"
        BY <3>2 DEF config, Config
      <3>3. CASE chip = "rv1103b"
        BY <3>3 DEF config, Config
      <3>4. CASE chip = "rk3506"
        BY <3>4 DEF config, Config
      <3> QED
        BY <1>4, <3>1, <3>2, <3>3, <3>4
    <2>2. /\ Len(RasterTests) = 1
          /\ RasterTests[1] = Test("RASTER", "RGA2_CORE0")
      BY <2>1 DEF RasterTests, Guard, When, Test, RGA2
    <2> QED
      BY <2>1, <2>2, RowTypes DEF Test
  <1> QED
    BY <1>1, <1>2, <1>3, <1>4 DEF Names

LEMMA SpecialRows ==
  ASSUME chip \in Chips
  PROVE  /\ SpecialTests \in Seq(TestSet)
         /\ Len(RasterTests) + Len(SpecialTests) <= TestThreads
         /\ \A j \in 1..Len(SpecialTests) : /\ SpecialTests[j].layout \in DOMAIN config.special
                                            /\ SpecialTests[j].layout \notin {"RASTER", "PERF"}
         /\ DOMAIN config.special = {} => Len(SpecialTests) = 0
  <1>1. chip \in Names
    BY SelfTestAssumption
  <1>2. CASE chip = "rk3588"
    <2>3. Len(SpecialTests) = 2
      BY <1>2 DEF SpecialTests, config, Config, When, RGA3, RGA2, Test
    <2>1. /\ SpecialTests[1] = Test("AFBC16x16", "RGA3_CORE0")
          /\ SpecialTests[2] = Test("AFBC16x16", "RGA3_CORE1")
      BY <1>2 DEF SpecialTests, config, Config, When, RGA3, RGA2, Test
    <2>2. DOMAIN config.special = {"AFBC16x16", "TILE8x8"}
      BY <1>2 DEF config, Config
    <2> QED
      BY <2>1, <2>2, RowTypes, <2>3, RasterRows DEF Test, TestThreads
  <1>3. CASE chip = "rk3576"
    <2>3. Len(SpecialTests) = 6
      BY <1>3 DEF SpecialTests, config, Config, When, RGA3, RGA2, Test
    <2>1. /\ SpecialTests[1] = Test("AFBC32x8", "RGA2_CORE0")
          /\ SpecialTests[2] = Test("AFBC32x8", "RGA2_CORE1")
          /\ SpecialTests[3] = Test("RKFBC64x4", "RGA2_CORE0")
          /\ SpecialTests[4] = Test("RKFBC64x4", "RGA2_CORE1")
          /\ SpecialTests[5] = Test("TILE4x4", "RGA2_CORE0")
          /\ SpecialTests[6] = Test("TILE4x4", "RGA2_CORE1")
      BY <1>3 DEF SpecialTests, config, Config, When, RGA3, RGA2, Test
    <2>2. DOMAIN config.special = {"AFBC32x8", "RKFBC64x4", "TILE4x4"}
      BY <1>3 DEF config, Config
    <2> QED
      BY <2>1, <2>2, RowTypes, <2>3, RasterRows DEF Test, TestThreads
  <1>4. CASE chip = "rk3538"
    <2>3. Len(SpecialTests) = 2
      BY <1>4 DEF SpecialTests, config, Config, When, RGA3, RGA2, Test
    <2>1. /\ SpecialTests[1] = Test("AFBC32x8", "RGA2_CORE0")
          /\ SpecialTests[2] = Test("RKFBC64x4", "RGA2_CORE0")
      BY <1>4 DEF SpecialTests, config, Config, When, RGA3, RGA2, Test
    <2>2. DOMAIN config.special = {"AFBC32x8", "RKFBC64x4"}
      BY <1>4 DEF config, Config
    <2> QED
      BY <2>1, <2>2, RowTypes, <2>3, RasterRows DEF Test, TestThreads
  <1>5. CASE chip \in {"common_rga2", "rv1103b", "rk3506"}
    <2>1. DOMAIN config.special = {}
      <3>1. CASE chip = "common_rga2"
        BY <3>1 DEF config, Config, NoLayouts
      <3>2. CASE chip = "rv1103b"
        BY <3>2 DEF config, Config, NoLayouts
      <3>3. CASE chip = "rk3506"
        BY <3>3 DEF config, Config, NoLayouts
      <3> QED
        BY <1>5, <3>1, <3>2, <3>3
    <2>2. SpecialTests = <<>>
      BY <2>1 DEF SpecialTests, When
    <2> QED
      BY <2>1, <2>2, RowTypes, RasterRows DEF TestThreads
  <1> QED
    BY <1>1, <1>2, <1>3, <1>4, <1>5 DEF Names
-----------------------------------------------------------------------------
(* The cases of a thread, in the order it runs them.                        *)
LEMMA RasterCases ==
  ASSUME NEW t, t.layout = "RASTER"
  PROVE  /\ CasesOf(t) \in Seq(Cases)
         /\ Len(CasesOf(t)) \in 2..4
         /\ CasesOf(t)[1] = "csc"
         /\ \A k \in 1..Len(CasesOf(t)) : CasesOf(t)[k] \in {"csc", "blend", "rotate", "fill"}
  <1> DEFINE R == {"csc", "blend", "rotate", "fill"}
             a == When(config.alpha, "blend")
             f == When(t.core \in RGA2, "fill")
  <1>1. CasesOf(t) = <<"csc">> \o a \o <<"rotate">> \o f
    BY DEF CasesOf
  <1>2. a \in Seq(R) /\ f \in Seq(R)
    BY WhenType
  <1>8. Len(a) \in 0..1 /\ Len(f) \in 0..1
    BY DEF When
  <1>3. R \subseteq Cases
    BY DEF Cases
  <1> HIDE DEF a, f
  <1>4. CasesOf(t) \in Seq(R)
    BY <1>1, <1>2
  <1>5. Len(CasesOf(t)) = 2 + Len(a) + Len(f) /\ CasesOf(t)[1] = "csc"
    BY <1>1, <1>2
  <1>6. \A k \in 1..Len(CasesOf(t)) : CasesOf(t)[k] \in R
    BY <1>4
  <1>7. CasesOf(t) \in Seq(Cases)
    BY <1>3, <1>4
  <1>9. Len(CasesOf(t)) \in 2..4
    <2>1. \A m, n \in 0..1 : 2 + m + n \in 2..4
      OBVIOUS
    <2> QED
      BY <1>5, <1>8, <2>1
  <1> QED
    BY <1>5, <1>6, <1>7, <1>9

LEMMA SpecialCases ==
  ASSUME chip \in Chips, NEW t,
         t.layout \in DOMAIN config.special, t.layout \notin {"RASTER", "PERF"}
  PROVE  /\ CasesOf(t) \in Seq(Cases)
         /\ Len(CasesOf(t)) \in 1..2
         /\ CasesOf(t)[1] = "in"
         /\ Len(CasesOf(t)) = 2 => CasesOf(t)[2] = "out"
  <1> DEFINE o == When(config.special[t.layout].out, "out")
  <1>1. CasesOf(t) = <<"in">> \o o
    BY ChipTypes DEF CasesOf, When
  <1>2. o = <<>> \/ o = <<"out">>
    BY DEF When
  <1> HIDE DEF o
  <1>3. CASE o = <<>>
    BY <1>1, <1>3 DEF Cases
  <1>4. CASE o = <<"out">>
    BY <1>1, <1>4 DEF Cases
  <1> QED
    BY <1>2, <1>3, <1>4

LEMMA PerfCases ==
  ASSUME NEW t, t.layout = "PERF"
  PROVE  /\ CasesOf(t) \in Seq(Cases)
         /\ Len(CasesOf(t)) = WhileNum
         /\ \A k \in 1..Len(CasesOf(t)) : CasesOf(t)[k] = "copy"
  <1>1. CasesOf(t) = [i \in 1..WhileNum |-> "copy"]
    BY DEF CasesOf
  <1>2. WhileNum \in Nat
    BY SelfTestAssumption
  <1> QED
    BY <1>1, <1>2 DEF Cases

(* What a stage asks of its threads.                                        *)
LEMMA StageFacts ==
  ASSUME chip \in Chips, NEW stage \in Stages
  PROVE  /\ TestsOf(stage) \in Seq(TestSet)
         /\ First(stage) \in Nat
         /\ First(stage) + Len(TestsOf(stage)) <= ThreadMax
         /\ \A j \in 1..Len(TestsOf(stage)) :
              LET t == TestsOf(stage)[j]
              IN  /\ t.layout = "PERF" <=> stage = "perf"
                  /\ t.layout = "RASTER" <=> stage = "raster"
                  /\ stage = "special" => t.layout \in DOMAIN config.special
                  /\ CasesOf(t) \in Seq(Cases) /\ Len(CasesOf(t)) \in Nat \ {0}
                  /\ stage # "perf" => /\ Len(CasesOf(t)) <= CaseMax
                                       /\ First(stage) + j - 1 < Rows
                                       /\ RowTest(First(stage) + j - 1) = t
  <1>1. Len(RasterTests) \in Nat /\ Len(SpecialTests) \in Nat /\ PerfThreads \in Nat
        /\ Rows <= TestThreads
    BY RowTypes, SpecialRows, SelfTestAssumption DEF Rows
  <1>2. CASE stage = "raster"
    <2>1. TestsOf(stage) = RasterTests /\ First(stage) = 0
      BY <1>2 DEF TestsOf, First
    <2>2. \A j \in 1..Len(RasterTests) : /\ RasterTests[j].layout = "RASTER"
                                         /\ CasesOf(RasterTests[j]) \in Seq(Cases)
                                         /\ Len(CasesOf(RasterTests[j])) \in 1..4
      BY RasterRows, RasterCases
    <2>3. \A j \in 1..Len(RasterTests) :
            First(stage) + j - 1 < Rows /\ RowTest(First(stage) + j - 1) = RasterTests[j]
      BY <1>1, <2>1 DEF Rows, RowTest
    <2>4. First(stage) + Len(TestsOf(stage)) <= ThreadMax
      BY <1>1, <2>1 DEF ThreadMax, Rows, TestThreads
    <2>5. \A j \in 1..Len(RasterTests) : /\ Len(CasesOf(RasterTests[j])) \in Nat \ {0}
                                    /\ Len(CasesOf(RasterTests[j])) <= CaseMax
      <3>1. \A n \in 1..4 : n \in Nat \ {0} /\ n <= CaseMax
        BY DEF CaseMax
      <3> QED
        BY <2>2, <3>1
    <2> QED
      BY <1>2, <2>1, <2>2, <2>3, <2>4, <2>5, RowTypes
  <1>3. CASE stage = "special"
    <2>1. TestsOf(stage) = SpecialTests /\ First(stage) = Len(RasterTests)
      BY <1>3 DEF TestsOf, First
    <2>2. \A j \in 1..Len(SpecialTests) : /\ SpecialTests[j].layout \notin {"RASTER", "PERF"}
                                          /\ SpecialTests[j].layout \in DOMAIN config.special
                                          /\ CasesOf(SpecialTests[j]) \in Seq(Cases)
                                          /\ Len(CasesOf(SpecialTests[j])) \in 1..4
      BY SpecialRows, SpecialCases
    <2>3. \A j \in 1..Len(SpecialTests) :
            First(stage) + j - 1 < Rows /\ RowTest(First(stage) + j - 1) = SpecialTests[j]
      BY <1>1, <2>1 DEF Rows, RowTest
    <2>4. First(stage) + Len(TestsOf(stage)) <= ThreadMax /\ First(stage) \in Nat
      BY <1>1, <2>1 DEF ThreadMax, Rows, TestThreads
    <2>5. \A j \in 1..Len(SpecialTests) : /\ Len(CasesOf(SpecialTests[j])) \in Nat \ {0}
                                    /\ Len(CasesOf(SpecialTests[j])) <= CaseMax
      <3>1. \A n \in 1..4 : n \in Nat \ {0} /\ n <= CaseMax
        BY DEF CaseMax
      <3> QED
        BY <2>2, <3>1
    <2> QED
      BY <1>3, <2>1, <2>2, <2>3, <2>4, <2>5, RowTypes
  <1>4. CASE stage = "perf"
    <2>1. TestsOf(stage) = PerfTests /\ First(stage) = Rows
      BY <1>4 DEF TestsOf, First
    <2>2. Test("PERF", "DEFAULT") \in TestSet /\ Test("PERF", "DEFAULT").layout = "PERF"
      BY DEF Test, TestSet, Layouts, Cores
    <2>3. /\ PerfTests \in Seq(TestSet) /\ Len(PerfTests) = PerfThreads
          /\ \A j \in 1..PerfThreads : PerfTests[j].layout = "PERF"
      BY <1>1, <2>2 DEF PerfTests
    <2>4. \A j \in 1..PerfThreads : /\ CasesOf(PerfTests[j]) \in Seq(Cases)
                                    /\ Len(CasesOf(PerfTests[j])) \in Nat \ {0}
      BY <2>3, PerfCases, SelfTestAssumption
    <2> QED
      BY <1>1, <1>4, <2>1, <2>3, <2>4 DEF ThreadMax, Rows, TestThreads
  <1> QED
    BY <1>2, <1>3, <1>4 DEF Stages

(* What a healthy core leaves in dst.                                       *)
LEMMA ExpectedRaster ==
  ASSUME NEW t, t.layout = "RASTER", NEW c \in Nat, c < Len(CasesOf(t))
  PROVE  Expected(t, c) = CasesOf(t)[c + 1]
  BY RasterCases DEF Expected

LEMMA ExpectedSpecial ==
  ASSUME chip \in Chips, NEW t,
         t.layout \in DOMAIN config.special, t.layout \notin {"RASTER", "PERF"}
  PROVE  /\ Expected(t, 0) = Blank
         /\ Len(CasesOf(t)) = 2 => Expected(t, 1) = "in"
  BY SpecialCases DEF Expected

(* The raster thread of the chips with one RGA2, and its row of a table.    *)
LEMMA OneRaster ==
  ASSUME chip \in Chips, config.cores = {"RGA2_CORE0"}, config.alpha = TRUE, NEW rows,
         Len(rows) > 0, rows[1] = <<"csc", "blend", "rotate", "fill">>
  PROVE  Len(RasterTests) = 1 /\ RightRow(Filled(rows), 0)
  <1> DEFINE t == Test("RASTER", "RGA2_CORE0")
  <1>1. t.layout = "RASTER" /\ t.core = "RGA2_CORE0"
    BY DEF Test
  <1>2. Len(RasterTests) = 1 /\ RasterTests[1] = t
    BY DEF RasterTests, Guard, When, RGA2
  <1> HIDE DEF t
  <1>3. CasesOf(t) = <<"csc">> \o <<"blend">> \o <<"rotate">> \o <<"fill">>
    BY <1>1 DEF CasesOf, When, RGA2
  <1>4. /\ Len(CasesOf(t)) = 4 /\ CasesOf(t)[1] = "csc" /\ CasesOf(t)[2] = "blend"
        /\ CasesOf(t)[3] = "rotate" /\ CasesOf(t)[4] = "fill"
    BY <1>3
  <1>5. RowTest(0) = t
    BY <1>2 DEF RowTest
  <1>6. ASSUME NEW c \in 0..3 PROVE Filled(rows)[0][c] = Expected(t, c)
    <2>1. c = 0 \/ c = 1 \/ c = 2 \/ c = 3
      OBVIOUS
    <2>2. Expected(t, c) = CasesOf(t)[c + 1]
      BY <1>1, <1>4, ExpectedRaster
    <2>3. rows[1][c + 1] = CasesOf(t)[c + 1]
      BY <1>4, <2>1
    <2>4. Len(rows[1]) = 4 /\ c \in 0..(CaseMax - 1) /\ c < Len(rows[1])
      BY DEF CaseMax
    <2>5. Filled(rows)[0] = [k \in 0..(CaseMax - 1) |->
            IF 0 < Len(rows) /\ k < Len(rows[0 + 1]) THEN rows[0 + 1][k + 1] ELSE Zero]
      BY DEF Filled, RowMax
    <2>6. Filled(rows)[0][c] = rows[1][c + 1]
      <3>1. 0 + 1 = 1
        OBVIOUS
      <3> QED
        BY <2>4, <2>5, <3>1, Zenon
    <2> QED
      BY <2>2, <2>3, <2>6
  <1>7. Len(CasesOf(t)) - 1 = 3
    BY <1>4
  <1> QED
    BY <1>2, <1>5, <1>6, <1>7 DEF RightRow

(* The built-in tables are what a healthy chip draws.                       *)
LEMMA BuiltinRight == ASSUME chip \in Chips PROVE Builtin # NULL => Right(Builtin)
  <1>1. CASE chip = "common_rga2"
    <2> DEFINE rows == << <<"csc", "blend", "rotate", "fill">> >>
    <2>1. config.cores = {"RGA2_CORE0"} /\ config.alpha = TRUE /\ DOMAIN config.special = {}
      BY <1>1 DEF config, Config, NoLayouts
    <2>2. Len(SpecialTests) = 0
      BY <2>1, SpecialRows
    <2>3. Builtin = Filled(rows)
      BY <1>1 DEF Builtin
    <2>4. Len(rows) > 0 /\ rows[1] = <<"csc", "blend", "rotate", "fill">>
      OBVIOUS
    <2> HIDE DEF rows
    <2>5. Len(RasterTests) = 1 /\ RightRow(Builtin, 0)
      BY <2>1, <2>3, <2>4, OneRaster
    <2>6. Rows = 1
      BY <2>2, <2>5 DEF Rows
    <2> QED
      BY <2>5, <2>6 DEF Right
  <1>2. CASE chip = "rk3538"
    <2> DEFINE rows == << <<"csc", "blend", "rotate", "fill">>, <<Blank, "in">>, <<Blank>> >>
               a == SpecialTests[1]
               b == SpecialTests[2]
    <2>1. /\ config.cores = {"RGA2_CORE0"} /\ config.alpha = TRUE
          /\ DOMAIN config.special = {"AFBC32x8", "RKFBC64x4"}
          /\ config.special["AFBC32x8"].out = TRUE /\ config.special["RKFBC64x4"].out = FALSE
      BY <1>2 DEF config, Config, Layout
    <2>2. Len(SpecialTests) = 2 /\ a.layout = "AFBC32x8" /\ b.layout = "RKFBC64x4"
      BY <2>1 DEF SpecialTests, When, Test
    <2>3. Builtin = Filled(rows)
      BY <1>2 DEF Builtin
    <2>4. /\ Len(rows) = 3 /\ rows[1] = <<"csc", "blend", "rotate", "fill">>
          /\ Len(rows[2]) = 2 /\ rows[2][1] = Blank /\ rows[2][2] = "in"
          /\ Len(rows[3]) = 1 /\ rows[3][1] = Blank
      OBVIOUS
    <2> HIDE DEF rows, a, b
    <2>5. Len(RasterTests) = 1 /\ RightRow(Builtin, 0)
      <3>1. Len(rows) > 0
        BY <2>4
      <3> QED
        BY <2>1, <2>3, <2>4, <3>1, OneRaster
    <2>6. /\ Builtin[1][0] = Blank /\ Builtin[1][1] = "in" /\ Builtin[2][0] = Blank
      <3>1. Filled(rows)[1][0] = rows[2][1]
        BY <2>4 DEF Filled, RowMax, CaseMax
      <3>2. Filled(rows)[1][1] = rows[2][2]
        BY <2>4 DEF Filled, RowMax, CaseMax
      <3>3. Filled(rows)[2][0] = rows[3][1]
        BY <2>4 DEF Filled, RowMax, CaseMax
      <3> QED
        BY <2>3, <2>4, <3>1, <3>2, <3>3
    <2>7. RowTest(1) = a /\ RowTest(2) = b /\ Rows = 3
      BY <2>2, <2>5 DEF RowTest, Rows, a, b
    <2>8. a.layout \notin {"RASTER", "PERF"} /\ b.layout \notin {"RASTER", "PERF"}
      BY <2>2
    <2>9. Len(CasesOf(a)) = 2 /\ Len(CasesOf(b)) = 1
      <3>1. CasesOf(a) = <<"in">> \o <<"out">>
        BY <2>1, <2>2, ChipTypes DEF CasesOf, When
      <3>2. CasesOf(b) = <<"in">> \o <<>>
        BY <2>1, <2>2, ChipTypes DEF CasesOf, When
      <3> QED
        BY <3>1, <3>2
    <2>10. Expected(a, 0) = Blank /\ Expected(a, 1) = "in" /\ Expected(b, 0) = Blank
      BY <2>1, <2>2, <2>8, <2>9, ExpectedSpecial
    <2>11. RightRow(Builtin, 1) /\ RightRow(Builtin, 2)
      <3>1. \A c \in 0..1 : c = 0 \/ c = 1
        OBVIOUS
      <3>2. \A c \in 0..0 : c = 0
        OBVIOUS
      <3>3. Len(CasesOf(a)) - 1 = 1 /\ Len(CasesOf(b)) - 1 = 0
        BY <2>9
      <3>4. RightRow(Builtin, 1)
        BY <2>6, <2>7, <2>10, <3>1, <3>3 DEF RightRow
      <3>5. RightRow(Builtin, 2)
        BY <2>6, <2>7, <2>10, <3>2, <3>3 DEF RightRow
      <3> QED
        BY <3>4, <3>5
    <2>12. \A i \in 0..2 : i = 0 \/ i = 1 \/ i = 2
      OBVIOUS
    <2> QED
      BY <2>5, <2>7, <2>11, <2>12 DEF Right
  <1>3. chip \in Names
    BY SelfTestAssumption
  <1> QED
    BY <1>1, <1>2, <1>3 DEF Builtin, Names
-----------------------------------------------------------------------------
(* The chip stays what it is, and with it all that depends on it.           *)
LEMMA SameChip ==
  ASSUME chip' = chip
  PROVE  /\ config' = config
         /\ RasterTests' = RasterTests /\ SpecialTests' = SpecialTests /\ Rows' = Rows
         /\ Builtin' = Builtin
         /\ \A s : First(s)' = First(s)
         /\ \A s : TestsOf(s)' = TestsOf(s)
         /\ \A t : CasesOf(t)' = CasesOf(t)
         /\ \A i : RowTest(i)' = RowTest(i)
         /\ \A t, c : Expected(t, c)' = Expected(t, c)
         /\ \A g, i : RightRow(g, i)' = RightRow(g, i)
         /\ \A g : Right(g)' = Right(g)
         /\ \A w : Known(w)' = Known(w) /\ Alone(w)' = Alone(w)
  <1>1. config' = config
    BY DEF config
  <1>2. RasterTests' = RasterTests /\ SpecialTests' = SpecialTests /\ Builtin' = Builtin
    BY <1>1 DEF RasterTests, SpecialTests, Builtin
  <1>3. Rows' = Rows /\ (\A s : First(s)' = First(s)) /\ (\A i : RowTest(i)' = RowTest(i))
    BY <1>2 DEF Rows, First, RowTest
  <1>4. (\A s : TestsOf(s)' = TestsOf(s)) /\ (\A t : CasesOf(t)' = CasesOf(t))
    BY <1>1, <1>2 DEF TestsOf, CasesOf
  <1>5. \A t, c : Expected(t, c)' = Expected(t, c)
    BY <1>4 DEF Expected
  <1>6. \A g, i : RightRow(g, i)' = RightRow(g, i)
    BY <1>3, <1>4, <1>5 DEF RightRow
  <1>7. \A g : Right(g)' = Right(g)
    BY <1>3, <1>6 DEF Right
  <1>8. \A w : Known(w)' = Known(w)
    BY <1>1 DEF Known, Acquired, UseDmaHeap
  <1>9. \A w : Alone(w)' = Alone(w)
    BY <1>8 DEF Alone
  <1> QED
    BY <1>1, <1>2, <1>3, <1>4, <1>5, <1>6, <1>7, <1>8, <1>9

(* What the golden data are compared with does not change while a process   *)
(* compares.                                                                *)
LEMMA SameGolden ==
  ASSUME chip' = chip, read' = read, read => table' = table
  PROVE  Golden' = Golden /\ TrustedGolden' = TrustedGolden
  <1>1. Golden' = Golden
    BY SameChip DEF Golden
  <1> QED
    BY <1>1 DEF TrustedGolden

LEMMA RowsFacts ==
  ASSUME chip \in Chips
  PROVE  Rows \in Nat /\ Rows <= TestThreads /\ Rows <= RowMax - 1 /\ RowMax \in Nat
  <1>1. Len(RasterTests) \in Nat /\ Len(SpecialTests) \in Nat
    BY RowTypes
  <1>2. Len(RasterTests) + Len(SpecialTests) <= TestThreads
    BY SpecialRows
  <1> QED
    BY <1>1, <1>2 DEF Rows, TestThreads, RowMax

LEMMA MadeFacts ==
  ASSUME Inv, phase \in Stages
  PROVE  /\ ids.first \in Nat /\ ids.created \in Nat
         /\ Made \subseteq DOMAIN data /\ Made \subseteq Nat
  <1>1. /\ ids.first \in Nat /\ ids.end \in Nat /\ ids.created \in Nat
        /\ ids.created <= ids.end - ids.first /\ ids.end <= ThreadMax
        /\ DOMAIN data = 0..(ThreadMax - 1)
    BY DEF Inv, Types, Places
  <1>2. ThreadMax \in Nat
    BY SelfTestAssumption DEF ThreadMax, TestThreads
  <1> QED
    BY <1>1, <1>2 DEF Made

(* A thread of the phase takes a step.                                      *)
LEMMA ThreadStep ==
  ASSUME Inv, NEW i \in DOMAIN data, NEW w, phase \in Stages,
         data[i].at \in {"created", "running"},
         data' = [data EXCEPT ![i] = w], w \in ThreadType, Alone(w), w.at # "none",
         w.test = data[i].test, w.cases = data[i].cases,
         UNCHANGED <<board, file, process, phase, ids>>,
         faults' \in faults..MaxFaults,
         table' \in Tables, ~cmd.generate => table' = table,
         \A r \in 0..(RowMax - 1) : r # i => table'[r] = table[r],
         phase = "raster" /\ Compares /\ w.result = 0 /\ w.done > 0 => w.test.core \notin broken,
         phase = "special" /\ broken = {} /\ w.done = 0 => w.dst = Blank,
         phase = "special" /\ broken = {} /\ w.done = 1 => w.tmp = "in" /\ w.dst = Blank,
         cmd.generate /\ broken = {} /\ i < Rows =>
           \A c \in 0..(w.done - 1) : table'[i][c] = Expected(w.test, c),
         Healthy /\ faults' = 0 => w.result = 0
  PROVE  Inv'
  <1>1. chip' = chip /\ broken' = broken /\ cmd' = cmd /\ read' = read /\ phase' = phase
        /\ ids' = ids /\ file' = file /\ runs' = runs
    BY DEF board, process
  <1>2. read => table' = table
    BY DEF Inv, ReadOnly
  <1>3. Golden' = Golden /\ TrustedGolden' = TrustedGolden
    BY <1>1, <1>2, SameGolden
  <1>4. i \in Made
    BY DEF Inv, Assigned
  <1>5. /\ DOMAIN data' = DOMAIN data /\ data'[i] = w
        /\ \A j \in DOMAIN data : j # i => data'[j] = data[j]
    BY DEF Inv, Types
  <1>6. Made' = Made
    BY <1>1 DEF Made
  <1>7. Types'
    <2>1. faults' \in 0..MaxFaults
      BY SelfTestAssumption DEF Inv, Types
    <2> QED
      BY <1>1, <1>5, <2>1, SameChip DEF Inv, Types
  <1>8. (\A j \in DOMAIN data : Alone(data[j]))'
    BY <1>1, <1>5, SameChip DEF Inv
  <1>9. Places' /\ ReadOnly'
    BY <1>1, SameChip DEF Inv, Places, ReadOnly
  <1>10. Assigned'
    BY <1>1, <1>4, <1>5, <1>6, SameChip DEF Inv, Assigned
  <1>11. Joined'
    BY <1>1, <1>5 DEF Inv, Joined
  <1>12. Seen'
    BY <1>1, <1>3, <1>5, <1>6 DEF Inv, Seen, Compares
  <1>13. GoldenRight'
    BY <1>1, <1>2, SameChip DEF Inv, GoldenRight
  <1>14. Drawn'
    BY <1>1, <1>5, <1>6 DEF Inv, Drawn
  <1>15. Saved'
    <2> SUFFICES ASSUME cmd.generate, broken = {}
                 PROVE  /\ \A r \in 0..(ids.first - 1) : r < Rows => RightRow(table, r)'
                        /\ \A r \in Made : r < Rows =>
                             \A c \in 0..(data'[r].done - 1) :
                               table'[r][c] = Expected(data'[r].test, c)
      BY <1>1, <1>6, SameChip DEF Saved
    <2>1. Rows \in Nat /\ Rows <= RowMax - 1 /\ RowMax \in Nat
      BY RowsFacts DEF Inv, Types
    <2>4. i \in Nat /\ ids.first \in Nat /\ i >= ids.first
      BY <1>4, MadeFacts DEF Made
    <2>2. ASSUME NEW r \in 0..(ids.first - 1), r < Rows PROVE RightRow(table, r)'
      <3>1. RightRow(table, r)
        BY <2>2 DEF Inv, Saved
      <3>2. r # i /\ r \in 0..(RowMax - 1)
        BY <2>1, <2>2, <2>4
      <3>3. table'[r] = table[r]
        BY <3>2
      <3> QED
        BY <1>1, <3>1, <3>3, SameChip DEF RightRow
    <2>3. ASSUME NEW r \in Made, r < Rows, NEW c \in 0..(data'[r].done - 1)
          PROVE  table'[r][c] = Expected(data'[r].test, c)
      <3>1. CASE r = i
        BY <1>5, <2>3, <3>1
      <3>2. CASE r # i
        <4>1. r \in DOMAIN data /\ r \in 0..(RowMax - 1)
          BY <2>1, <2>3, MadeFacts
        <4>2. data'[r] = data[r] /\ table'[r] = table[r]
          BY <1>5, <3>2, <4>1
        <4> QED
          BY <2>3, <4>2 DEF Inv, Saved
      <3> QED
        BY <3>1, <3>2
    <2> QED
      BY <2>2, <2>3
  <1>16. Passing'
    <2>1. Healthy' => Healthy
      BY <1>1, <1>3, SelfTestAssumption DEF Inv, Types, Healthy
    <2> QED
      BY <1>1, <1>5, <1>6, <2>1 DEF Inv, Passing, Healthy, Stages
  <1> QED
    BY <1>7, <1>8, <1>9, <1>10, <1>11, <1>12, <1>13, <1>14, <1>15, <1>16 DEF Inv
-----------------------------------------------------------------------------
LEMMA NoThreadFacts ==
  /\ NoThread \in ThreadType /\ Alone(NoThread) /\ NoThread.at = "none"
  /\ AllZero \in [0..(ThreadMax - 1) -> ThreadType]
  /\ \A i \in DOMAIN AllZero : AllZero[i] = NoThread
  <1>1. NoThread \in ThreadType /\ Alone(NoThread) /\ NoThread.at = "none"
    BY DEF NoThread, ThreadType, Alone, Nothing, Kinds, Test, Layouts, Cores, Pictures, Blank,
           Results, CaseMax
  <1> QED
    BY <1>1 DEF AllZero

LEMMA InitInv == Init => Inv
  <1> SUFFICES ASSUME Init PROVE Inv
    OBVIOUS
  <1>1. phase = "usage" /\ phase \notin Stages /\ faults = 0 /\ data = AllZero
        /\ file = NULL /\ read = FALSE
    BY DEF Init, Stages
  <1>3. EmptyTable \in Tables
    BY DEF EmptyTable, Tables
  <1>2. /\ ids \in [first : Nat, end : Nat, created : Nat, joined : Nat] /\ ids.end = 0
        /\ cmd \in Commands /\ chip \in Chips /\ broken = {} /\ runs = 0 /\ table = EmptyTable
    BY DEF Init, Commands
  <1>4. Types
    <2>1. 0 <= ThreadMax
      BY SelfTestAssumption DEF ThreadMax, TestThreads
    <2>2. runs \in 0..MaxRuns /\ faults \in 0..MaxFaults
      BY <1>1, <1>2, SelfTestAssumption
    <2> QED
      BY <1>1, <1>2, <1>3, <2>1, <2>2, NoThreadFacts DEF Types, Ended
  <1>5. \A i \in DOMAIN data : Alone(data[i])
    BY <1>1, NoThreadFacts
  <1> QED
    BY <1>1, <1>4, <1>5
      DEF Inv, Places, Assigned, Joined, Seen, ReadOnly, GoldenRight, Drawn, Saved, Passing

(* The threads of a phase that begins are still to be made.                 *)
LEMMA FreshPhase ==
  ASSUME chip \in Chips, NEW stage \in Stages
  PROVE  /\ Fresh(First(stage), stage).first = First(stage)
         /\ Fresh(First(stage), stage).end = First(stage) + Len(TestsOf(stage))
         /\ Fresh(First(stage), stage).created = 0 /\ Fresh(First(stage), stage).joined = 0
         /\ Fresh(First(stage), stage) \in [first : Nat, end : Nat, created : Nat, joined : Nat]
         /\ Fresh(First(stage), stage).end <= ThreadMax
  BY StageFacts DEF Fresh

LEMMA StartInv ==
  ASSUME Inv, NEW command \in Commands, NEW worse, worse \subseteq config.cores,
         StartRun(command, worse)
  PROVE  Inv'
  <1>1. /\ chip' = chip /\ broken' = broken \cup worse /\ file' = file /\ runs' = runs + 1
        /\ cmd' = command /\ phase' = "raster" /\ ids' = Fresh(0, "raster") /\ data' = AllZero
        /\ faults' = 0 /\ runs < MaxRuns
    BY DEF StartRun
  <1>2. /\ read' = (command.golden /\ ~command.generate /\ file # NULL)
        /\ table' = IF read' THEN file ELSE EmptyTable
    BY DEF StartRun
  <1>3. First("raster") = 0 /\ "raster" \in Stages
    BY DEF First, Stages
  <1>4. /\ ids' \in [first : Nat, end : Nat, created : Nat, joined : Nat]
        /\ ids'.first = 0 /\ ids'.end = 0 + Len(TestsOf("raster"))
        /\ ids'.created = 0 /\ ids'.joined = 0 /\ ids'.end <= ThreadMax
    BY <1>1, <1>3, FreshPhase DEF Inv, Types
  <1>5. Made' = {}
    BY <1>4 DEF Made
  <1>6. EmptyTable \in Tables
    BY DEF EmptyTable, Tables
  <1>7. Types'
    <2>1. config' = config
      BY <1>1, SameChip
    <2>2. chip' \in Chips /\ broken' \subseteq config'.cores /\ (file # NULL => file \in Tables)
      BY <1>1, <2>1 DEF Inv, Types
    <2>3. read' \in BOOLEAN /\ table' \in Tables
      BY <1>2, <1>6, <2>2
    <2>4. runs' \in 0..MaxRuns /\ faults' \in 0..MaxFaults
      BY <1>1, SelfTestAssumption DEF Inv, Types
    <2> QED
      BY <1>1, <1>3, <1>4, <2>2, <2>3, <2>4, NoThreadFacts DEF Types
  <1>8. (\A i \in DOMAIN data : Alone(data[i]))'
    BY <1>1, NoThreadFacts, SameChip
  <1>9. Places'
    BY <1>1, <1>3, <1>4, StageFacts, SameChip DEF Inv, Types, Places
  <1>10. Assigned'
    BY <1>1, <1>5, NoThreadFacts DEF Assigned
  <1>11. Joined'
    BY <1>4 DEF Joined
  <1>12. Seen'
    BY <1>1, <1>5 DEF Seen
  <1>13. ReadOnly'
    BY <1>1, <1>2 DEF ReadOnly
  <1>14. GoldenRight'
    <2>1. broken' = {} => broken = {}
      BY <1>1
    <2>2. read' => table' = file /\ file # NULL
      BY <1>2
    <2> QED
      BY <1>1, <2>1, <2>2, SameChip DEF Inv, GoldenRight
  <1>15. Drawn'
    BY <1>1 DEF Drawn
  <1>16. Saved'
    BY <1>4, <1>5 DEF Saved
  <1>17. Passing'
    BY <1>1, <1>5 DEF Passing
  <1> QED
    BY <1>7, <1>8, <1>9, <1>10, <1>11, <1>12, <1>13, <1>14, <1>15, <1>16, <1>17 DEF Inv

LEMMA UsageInv == ASSUME Inv, Usage PROVE Inv'
  <1>1. /\ chip' = chip /\ broken' = broken /\ file' = file /\ runs' = runs + 1 /\ runs < MaxRuns
        /\ cmd' = cmd /\ phase' = "usage" /\ ids' = ids /\ data' = data /\ table' = table
        /\ read' = read /\ faults' = faults
    BY DEF Usage, board
  <1>2. phase' \notin Stages /\ phase' \in Ended
    BY <1>1 DEF Stages, Ended
  <1>3. Types'
    BY <1>1, <1>2, SameChip, SelfTestAssumption DEF Inv, Types
  <1>4. (\A i \in DOMAIN data : Alone(data[i]))'
    BY <1>1, SameChip DEF Inv
  <1>5. GoldenRight'
    BY <1>1, SameChip DEF Inv, GoldenRight
  <1> QED
    BY <1>1, <1>2, <1>3, <1>4, <1>5
      DEF Inv, Places, Assigned, Joined, Seen, ReadOnly, Drawn, Saved, Passing

(* A thread of the phase has the test of its place, and its row of the      *)
(* table of golden data.                                                    *)
LEMMA PlaceFacts ==
  ASSUME Inv, phase \in Stages, NEW i \in ids.first..(ids.end - 1)
  PROVE  LET t == TestsOf(phase)[i - ids.first + 1]
         IN  /\ t \in TestSet
             /\ t.layout = "PERF" <=> phase = "perf"
             /\ t.layout = "RASTER" <=> phase = "raster"
             /\ phase = "special" => t.layout \in DOMAIN config.special
             /\ CasesOf(t) \in Seq(Cases) /\ Len(CasesOf(t)) \in Nat \ {0}
             /\ phase # "perf" => Len(CasesOf(t)) <= CaseMax /\ i < Rows /\ RowTest(i) = t
  <1> DEFINE j == i - ids.first + 1
  <1>1. /\ ids.first = First(phase) /\ ids.end = ids.first + Len(TestsOf(phase))
        /\ ids.first \in Nat /\ ids.end \in Nat
    BY DEF Inv, Types, Places
  <1>2. TestsOf(phase) \in Seq(TestSet) /\ Len(TestsOf(phase)) \in Nat
    BY StageFacts DEF Inv, Types
  <1>3. j \in 1..Len(TestsOf(phase)) /\ First(phase) + j - 1 = i
    BY <1>1, <1>2
  <1>4. TestsOf(phase)[j] \in TestSet
    BY <1>2, <1>3
  <1>5. chip \in Chips
    BY DEF Inv, Types
  <1> DEFINE t == TestsOf(phase)[j]
  <1>6. /\ t.layout = "PERF" <=> phase = "perf"
        /\ t.layout = "RASTER" <=> phase = "raster"
        /\ phase = "special" => t.layout \in DOMAIN config.special
        /\ CasesOf(t) \in Seq(Cases) /\ Len(CasesOf(t)) \in Nat \ {0}
        /\ phase # "perf" => /\ Len(CasesOf(t)) <= CaseMax
                             /\ First(phase) + j - 1 < Rows
                             /\ RowTest(First(phase) + j - 1) = t
    BY <1>3, <1>5, StageFacts
  <1> QED
    BY <1>3, <1>4, <1>6

LEMMA CreateInv == ASSUME Inv, CreateThread PROVE Inv'
  <1> DEFINE i == ids.first + ids.created
             t == TestsOf(phase)[ids.created + 1]
             w == [NoThread EXCEPT !.test = t, !.cases = CasesOf(t), !.at = "created"]
  <1>1. /\ phase \in Stages /\ i < ids.end
        /\ ids' = [ids EXCEPT !.created = @ + 1]
        /\ data' = [data EXCEPT ![i] = w]
        /\ chip' = chip /\ broken' = broken /\ file' = file /\ runs' = runs /\ cmd' = cmd
        /\ read' = read /\ phase' = phase /\ table' = table /\ faults' = faults
    BY DEF CreateThread, board, process
  <1>2. /\ ids.first \in Nat /\ ids.end \in Nat /\ ids.created \in Nat /\ ids.joined \in Nat
        /\ ids.end <= ThreadMax /\ DOMAIN data = 0..(ThreadMax - 1) /\ ids.joined <= ids.created
    BY <1>1 DEF Inv, Types, Places
  <1>3. ThreadMax \in Nat
    BY SelfTestAssumption DEF ThreadMax, TestThreads
  <1>4. i \in DOMAIN data /\ i \in ids.first..(ids.end - 1) /\ i - ids.first + 1 = ids.created + 1
    BY <1>1, <1>2, <1>3
  <1>5. /\ t \in TestSet /\ CasesOf(t) \in Seq(Cases)
        /\ Len(CasesOf(t)) <= CaseMax \/ t.layout = "PERF"
    BY <1>1, <1>4, PlaceFacts
  <1>6. /\ w \in ThreadType /\ w.at = "created" /\ w.test = t /\ w.cases = CasesOf(t)
        /\ w.done = 0 /\ w.result = 0 /\ w.dst = Blank /\ w.tmp = Blank
    BY <1>5 DEF NoThread, ThreadType, TestSet, Pictures, Results, Blank, Nothing, Kinds
  <1>7. Len(w.cases) \in Nat
    BY <1>5, <1>6
  <1> HIDE DEF w, t
  <1>8. Alone(w)
    BY <1>5, <1>6, <1>7 DEF Alone
  <1>9. /\ ids' \in [first : Nat, end : Nat, created : Nat, joined : Nat]
        /\ ids'.first = ids.first /\ ids'.end = ids.end /\ ids'.joined = ids.joined
        /\ ids'.created = ids.created + 1
    BY <1>1, <1>2 DEF Inv, Types
  <1>10. Made' = Made \cup {i} /\ i \notin Made /\ Made \subseteq DOMAIN data
    BY <1>1, <1>2, <1>9, MadeFacts DEF Made
  <1>11. /\ DOMAIN data' = DOMAIN data /\ data'[i] = w
         /\ \A j \in DOMAIN data : j # i => data'[j] = data[j]
    BY <1>1, <1>4
  <1> HIDE DEF i
  <1>12. Types'
    BY <1>1, <1>6, <1>9, SameChip DEF Inv, Types
  <1>13. (\A j \in DOMAIN data : Alone(data[j]))'
    BY <1>1, <1>8, <1>11, SameChip DEF Inv
  <1>14. Places'
    BY <1>1, <1>2, <1>9, SameChip DEF Inv, Places, i
  <1>15. Assigned'
    <2>1. w.test = TestsOf(phase)[i - ids.first + 1]
      BY <1>4, <1>6 DEF t
    <2> QED
      BY <1>1, <1>6, <1>9, <1>10, <1>11, <2>1, SameChip DEF Inv, Assigned
  <1>16. Joined'
    <2>1. \A j \in ids.first..(ids.first + ids.joined - 1) : j # i /\ j \in DOMAIN data
      BY <1>2, <1>10 DEF Made, i
    <2> QED
      BY <1>1, <1>9, <1>11, <2>1 DEF Inv, Joined
  <1>17. Golden' = Golden /\ TrustedGolden' = TrustedGolden
    BY <1>1, SameGolden
  <1>18. Seen'
    BY <1>1, <1>6, <1>10, <1>11, <1>17 DEF Inv, Seen, Compares
  <1>19. ReadOnly' /\ GoldenRight'
    BY <1>1, SameChip DEF Inv, ReadOnly, GoldenRight
  <1>20. Drawn'
    BY <1>1, <1>6, <1>10, <1>11 DEF Inv, Drawn
  <1>21. Saved'
    <2>1. \A c \in 0..(w.done - 1) : FALSE
      BY <1>6
    <2> QED
      BY <1>1, <1>9, <1>10, <1>11, <2>1, SameChip DEF Inv, Saved
  <1>22. Passing'
    BY <1>1, <1>6, <1>10, <1>11, <1>17 DEF Inv, Passing, Healthy, Stages
  <1> QED
    BY <1>12, <1>13, <1>14, <1>15, <1>16, <1>18, <1>19, <1>20, <1>21, <1>22 DEF Inv

(* What is known of a thread that has been made and is not over.            *)
LEMMA LiveThread ==
  ASSUME Inv, phase \in Stages, NEW i \in DOMAIN data, data[i].at \in {"created", "running"}
  PROVE  /\ i \in Made /\ i \in ids.first..(ids.end - 1)
         /\ data[i] \in ThreadType /\ Alone(data[i])
         /\ data[i].test = TestsOf(phase)[i - ids.first + 1]
         /\ data[i].cases = CasesOf(data[i].test)
  <1>1. i \in Made
    BY DEF Inv, Assigned
  <1>2. i \in ids.first..(ids.end - 1)
    BY <1>1 DEF Inv, Types, Places, Made
  <1> QED
    BY <1>1, <1>2 DEF Inv, Types, Assigned

LEMMA AcquiredType ==
  ASSUME NEW memory \in SUBSET Images, NEW imported \in SUBSET Images
  PROVE  Acquired(memory, imported) \in [Kinds -> SUBSET Images]
  BY DEF Acquired, Kinds

LEMMA SameKnown ==
  ASSUME NEW v, NEW w, Known(v), w.locals = v.locals, w.held = v.held
  PROVE  Known(w)
  BY DEF Known

LEMMA SetUpInv == ASSUME Inv, NEW i \in DOMAIN data, SetUp(i) PROVE Inv'
  <1> DEFINE w == [data[i] EXCEPT !.at = "running", !.locals = All, !.held = All]
  <1>1. /\ phase \in Stages /\ data[i].at = "created"
        /\ UNCHANGED <<board, file, process, phase, ids, table, faults>>
    BY DEF SetUp, Alive
  <1>2. data' = [data EXCEPT ![i] = w]
    BY DEF SetUp
  <1>3. data[i] \in ThreadType /\ Alone(data[i]) /\ Len(data[i].cases) \in Nat \ {0}
    BY <1>1, LiveThread, PlaceFacts
  <1>9. All \in [Kinds -> SUBSET Images] /\ All \in [Kinds -> SUBSET (Images \cup {"heap"})]
    <2>1. All \in [Kinds -> SUBSET Images]
      BY AcquiredType DEF All
    <2> QED
      BY <2>1
  <1>4. /\ w \in ThreadType /\ w.at = "running" /\ w.test = data[i].test
        /\ w.cases = data[i].cases /\ w.done = 0 /\ w.dst = Blank /\ w.tmp = data[i].tmp
        /\ w.result = 0 /\ data[i].done = 0 /\ w.locals = All /\ w.held = All
    BY <1>1, <1>3, <1>9 DEF ThreadType, Alone
  <1> HIDE DEF w
  <1>5. Alone(w)
    <2>1. All = [kind \in Kinds |-> All[kind] \cup Nothing[kind]]
      BY DEF All, Acquired, Nothing, Kinds
    <2>2. Known(w)
      BY <1>4, <2>1 DEF Known, All
    <2> QED
      BY <1>3, <1>4, <2>2 DEF Alone
  <1>6. \A c \in 0..(w.done - 1) : table'[i][c] = Expected(w.test, c)
    BY <1>4
  <1>7. faults' \in faults..MaxFaults /\ table' = table /\ table' \in Tables
    BY <1>1, SelfTestAssumption DEF Inv, Types
  <1>8. ~(w.done > 0) /\ w.done # 1 /\ w.at # "none"
    BY <1>4
  <1> QED
    BY <1>1, <1>2, <1>4, <1>5, <1>6, <1>7, <1>8, ThreadStep

(* The guards of RELEASE_BUFFER hold for just what has been acquired: each  *)
(* descriptor of the dma heap has a mapping and the other way round.        *)
LEMMA ReleasesAll ==
  ASSUME NEW memory \in SUBSET Images, NEW imported \in SUBSET Images, NEW kind \in Kinds
  PROVE  Released(Acquired(memory, imported))[kind] = Acquired(memory, imported)[kind]
  BY DEF Released, Acquired, Kinds

(* A thread that is over has given back what it knows of, and nothing else. *)
LEMMA OverFacts ==
  ASSUME NEW w \in ThreadType, NEW ret \in Results, Known(w)
  PROVE  LET o == Over(w, ret)
         IN  /\ o \in ThreadType /\ o.at = "over" /\ o.result = ret /\ o.held \in {Nothing, Heap}
             /\ o.test = w.test /\ o.cases = w.cases /\ o.done = w.done
             /\ o.tmp = w.tmp /\ o.dst = w.dst
  <1> DEFINE o == Over(w, ret)
             released == Released(w.locals)
             held == [kind \in Kinds |-> (w.held[kind] \ released[kind])
                                          \cup (released[kind] \ w.held[kind])]
  <1>1. PICK memory \in SUBSET Images, imported \in SUBSET Images, lost \in {Nothing, Heap} :
          /\ w.locals = Acquired(memory, imported)
          /\ w.held = [kind \in Kinds |-> Acquired(memory, imported)[kind] \cup lost[kind]]
    BY DEF Known
  <1>2. \A kind \in Kinds : lost[kind] \subseteq {"heap"}
    BY DEF Nothing, Heap, Kinds
  <1>3. \A kind \in Kinds : held[kind] = lost[kind]
    <2> SUFFICES ASSUME NEW kind \in Kinds PROVE held[kind] = lost[kind]
      OBVIOUS
    <2>1. released[kind] = Acquired(memory, imported)[kind]
      BY <1>1, ReleasesAll
    <2>2. w.held[kind] = Acquired(memory, imported)[kind] \cup lost[kind]
      BY <1>1
    <2>3. Acquired(memory, imported)[kind] \subseteq Images
      BY AcquiredType
    <2> QED
      BY <1>2, <2>1, <2>2, <2>3 DEF Images
  <1>4. held = lost
    BY <1>3 DEF Nothing, Heap
  <1>5. Nothing \in [Kinds -> SUBSET Images] /\ lost \in [Kinds -> SUBSET (Images \cup {"heap"})]
    BY DEF Nothing, Heap
  <1>6. o = [w EXCEPT !.at = "over", !.result = ret, !.locals = Nothing, !.held = held]
    BY DEF Over
  <1> HIDE DEF held, o
  <1> QED
    BY <1>4, <1>5, <1>6, ZenonT(60) DEF ThreadType, o

(* A thread that ends with an error, for a reason other than a picture.     *)
LEMMA FailInv ==
  ASSUME Inv, NEW i \in DOMAIN data, NEW w \in ThreadType, NEW ret \in Results \ {0},
         Known(w), phase \in Stages, data[i].at \in {"created", "running"},
         data' = [data EXCEPT ![i] = Over(w, ret)],
         w.test = data[i].test, w.cases = data[i].cases, w.done = data[i].done,
         w.tmp = data[i].tmp, w.dst = data[i].dst,
         UNCHANGED <<board, file, process, phase, ids, table>>,
         faults' \in faults..MaxFaults, faults' > 0 \/ ~Healthy
  PROVE  Inv'
  <1> DEFINE o == Over(w, ret)
  <1>1. /\ o \in ThreadType /\ o.at = "over" /\ o.result = ret /\ o.held \in {Nothing, Heap}
        /\ o.test = w.test /\ o.cases = w.cases /\ o.done = w.done
        /\ o.tmp = w.tmp /\ o.dst = w.dst
    BY OverFacts
  <1>2. ret # 0
    OBVIOUS
  <1> HIDE DEF o
  <1>3. Alone(data[i]) /\ i \in Made
    BY LiveThread
  <1>4. Alone(o)
    BY <1>1, <1>2, <1>3 DEF Alone
  <1>5. /\ phase = "special" /\ broken = {} =>
             /\ o.done = 0 => o.dst = Blank
             /\ o.done = 1 => o.tmp = "in" /\ o.dst = Blank
        /\ phase \in Stages /\ cmd.generate /\ broken = {} /\ i < Rows =>
             \A c \in 0..(o.done - 1) : table[i][c] = Expected(o.test, c)
    BY <1>1, <1>3 DEF Inv, Drawn, Saved
  <1>6. faults' = 0 => ~Healthy
    BY SelfTestAssumption DEF Inv, Types
  <1>7. table' = table /\ table' \in Tables
    BY DEF Inv, Types
  <1>8. data' = [data EXCEPT ![i] = o]
    BY DEF o
  <1>9. o.at # "none" /\ o.result # 0 /\ o.test = data[i].test /\ o.cases = data[i].cases
    BY <1>1, <1>2
  <1>10. cmd.generate /\ broken = {} /\ i < Rows =>
           \A c \in 0..(o.done - 1) : table'[i][c] = Expected(o.test, c)
    BY <1>5, <1>7
  <1>11. Healthy /\ faults' = 0 => o.result = 0
    BY <1>6
  <1> QED
    BY <1>1, <1>4, <1>5, <1>7, <1>8, <1>9, <1>10, <1>11, ThreadStep

LEMMA SetUpFailsInv ==
  ASSUME Inv, NEW i \in DOMAIN data, NEW failure \in SetUpFailures, SetUpFails(i, failure)
  PROVE  Inv'
  <1> DEFINE locals == Acquired(failure.memory, failure.imported)
             held == [kind \in Kinds |-> locals[kind] \cup failure.lost[kind]]
             w == [data[i] EXCEPT !.locals = locals, !.held = held]
  <1>1. /\ phase \in Stages /\ data[i].at = "created" /\ faults < MaxFaults /\ faults' = faults + 1
        /\ UNCHANGED <<board, file, process, phase, ids, table>>
    BY DEF SetUpFails, Alive
  <1>2. data' = [data EXCEPT ![i] = Over(w, -1)]
    BY DEF SetUpFails
  <1>3. /\ failure.memory \in SUBSET Images /\ failure.imported \in SUBSET Images
        /\ failure.lost \in {Nothing, Heap}
    BY DEF SetUpFailures, SoFar, Images
  <1>4. locals \in [Kinds -> SUBSET Images] /\ held \in [Kinds -> SUBSET (Images \cup {"heap"})]
    <2>1. locals \in [Kinds -> SUBSET Images]
      BY <1>3, AcquiredType
    <2>2. \A kind \in Kinds : failure.lost[kind] \subseteq {"heap"}
      BY <1>3 DEF Nothing, Heap, Kinds
    <2> QED
      BY <2>1, <2>2
  <1>5. data[i] \in ThreadType
    BY <1>1, LiveThread
  <1>6. /\ w \in ThreadType /\ w.test = data[i].test /\ w.cases = data[i].cases
        /\ w.done = data[i].done /\ w.tmp = data[i].tmp /\ w.dst = data[i].dst
        /\ w.locals = locals /\ w.held = held
    <2> HIDE DEF locals, held
    <2> QED
      BY <1>4, <1>5 DEF ThreadType
  <1>7. -1 \in Results \ {0} /\ faults' \in faults..MaxFaults /\ faults' > 0
    BY <1>1, SelfTestAssumption DEF Results, Inv, Types
  <1>8. Known(w)
    BY <1>3, <1>6 DEF Known
  <1> HIDE DEF w
  <1> QED
    BY <1>1, <1>2, <1>6, <1>7, <1>8, FailInv

LEMMA RgaFailsInv == ASSUME Inv, NEW i \in DOMAIN data, RgaFails(i) PROVE Inv'
  <1>1. /\ phase \in Stages /\ data[i].at = "running" /\ faults < MaxFaults /\ faults' = faults + 1
        /\ UNCHANGED <<board, file, process, phase, ids, table>>
        /\ data' = [data EXCEPT ![i] = Over(data[i], -3)]
    BY DEF RgaFails, Alive
  <1>2. data[i] \in ThreadType /\ Known(data[i])
    BY <1>1, LiveThread DEF Alone
  <1>3. -3 \in Results \ {0} /\ faults' \in faults..MaxFaults /\ faults' > 0
    BY <1>1, SelfTestAssumption DEF Results, Inv, Types
  <1> QED
    BY <1>1, <1>2, <1>3, FailInv

LEMMA NoGoldenInv == ASSUME Inv, NEW i \in DOMAIN data, NoGolden(i) PROVE Inv'
  <1>1. /\ phase \in Stages /\ data[i].at = "running" /\ faults' = faults
        /\ UNCHANGED <<board, file, process, phase, ids, table>>
        /\ data' = [data EXCEPT ![i] = Over(data[i], -1)]
        /\ ~cmd.generate /\ Golden = NULL
    BY DEF NoGolden, Alive
  <1>2. data[i] \in ThreadType /\ Known(data[i])
    BY <1>1, LiveThread DEF Alone
  <1>3. -1 \in Results \ {0} /\ faults' \in faults..MaxFaults /\ ~Healthy
    BY <1>1, SelfTestAssumption DEF Results, Inv, Types, Healthy
  <1> QED
    BY <1>1, <1>2, <1>3, FailInv

(* One case of a healthy core leaves in dst what its row expects.           *)
LEMMA RunCaseInv == ASSUME Inv, NEW i \in DOMAIN data, RunCase(i) PROVE Inv'
  <1> DEFINE w == data[i]
             t == w.test
             case == w.cases[w.done + 1]
             dst == DstAfter(w, case)
             tmp == TmpAfter(w, case)
             drawn == [w EXCEPT !.done = @ + 1, !.tmp = tmp, !.dst = dst]
             checked == t.layout # "PERF"
             passed == ~checked \/ cmd.generate \/ Golden[i][w.done] = dst
             after == IF ~passed THEN Over(drawn, -2)
                      ELSE IF drawn.done = Len(w.cases) THEN Over(drawn, 0) ELSE drawn
  <1>1. /\ phase \in Stages /\ w.at = "running"
        /\ checked => cmd.generate \/ Golden # NULL
        /\ table' = IF checked /\ cmd.generate THEN [table EXCEPT ![i][w.done] = dst] ELSE table
        /\ data' = [data EXCEPT ![i] = after]
        /\ UNCHANGED <<board, file, process, phase, ids>> /\ faults' = faults
    BY DEF RunCase, Alive
  <1>2. /\ i \in Made /\ w \in ThreadType /\ Alone(w) /\ w.cases = CasesOf(t)
        /\ t = TestsOf(phase)[i - ids.first + 1] /\ i \in ids.first..(ids.end - 1)
    BY <1>1, LiveThread
  <1>3. /\ t.layout = "PERF" <=> phase = "perf"
        /\ t.layout = "RASTER" <=> phase = "raster"
        /\ phase = "special" => t.layout \in DOMAIN config.special
        /\ w.cases \in Seq(Cases)
        /\ phase # "perf" => Len(w.cases) <= CaseMax /\ i < Rows /\ RowTest(i) = t
    BY <1>1, <1>2, PlaceFacts
  <1>4. /\ w.done \in Nat /\ Len(w.cases) \in Nat /\ w.done < Len(w.cases)
        /\ w.done + 1 \in 1..Len(w.cases) /\ case \in Cases
    BY <1>1, <1>2, <1>3 DEF ThreadType, Alone
  <1>5. chip \in Chips /\ broken \subseteq config.cores
    BY DEF Inv, Types
  <1>6. dst \in Pictures /\ tmp \in Pictures
    BY <1>2, <1>4 DEF DstAfter, TmpAfter, Draws, Cases, Pictures, ThreadType, Wrong, Blank
  <1>7. /\ drawn \in ThreadType /\ drawn.done = w.done + 1 /\ drawn.tmp = tmp
        /\ drawn.dst = dst /\ drawn.test = t /\ drawn.cases = w.cases /\ drawn.at = "running"
        /\ drawn.result = 0 /\ drawn.locals = w.locals /\ drawn.held = w.held
    <2> HIDE DEF tmp, dst, case
    <2>1. w.result = 0
      BY <1>1, <1>2 DEF Alone
    <2>2. w.done + 1 \in Nat
      BY <1>4
    <2> HIDE DEF w
    <2> QED
      BY <1>1, <1>2, <1>6, <2>1, <2>2 DEF ThreadType
  (* The picture of a healthy core. *)
  <1>8. ASSUME phase = "raster" PROVE case \in {"csc", "blend", "rotate", "fill"}
    BY <1>2, <1>3, <1>4, <1>8, RasterCases
  <1>9. ASSUME phase = "special"
        PROVE  w.done \in 0..1 /\ (w.done = 0 => case = "in") /\ (w.done = 1 => case = "out")
    <2>1. /\ Len(w.cases) \in 1..2 /\ w.cases[1] = "in"
          /\ Len(w.cases) = 2 => w.cases[2] = "out"
      BY <1>2, <1>3, <1>5, <1>9, SpecialCases
    <2> QED
      BY <1>4, <2>1
  <1>10. ASSUME broken = {}, phase # "perf" PROVE dst = Expected(t, w.done)
    <2>1. CASE phase = "raster"
      <3>1. dst = case
        BY <1>8, <1>10, <2>1 DEF DstAfter, Draws
      <3> QED
        BY <1>2, <1>3, <1>4, <2>1, <3>1, ExpectedRaster
    <2>2. CASE phase = "special"
      <3>1. t.layout \notin {"RASTER", "PERF"}
        BY <1>3, <2>2
      <3>2. Expected(t, 0) = Blank /\ (Len(w.cases) = 2 => Expected(t, 1) = "in")
        BY <1>2, <1>3, <1>5, <2>2, <3>1, ExpectedSpecial
      <3>3. CASE w.done = 0
        BY <1>2, <1>9, <1>10, <2>2, <3>2, <3>3 DEF DstAfter, Inv, Drawn
      <3>4. CASE w.done = 1
        <4>1. Len(w.cases) = 2
          <5>1. Len(w.cases) \in 1..2
            BY <1>2, <1>3, <1>5, <2>2, <3>1, SpecialCases
          <5> QED
            BY <1>4, <3>4, <5>1
        <4>2. w.tmp = "in" /\ case = "out"
          BY <1>2, <1>9, <1>10, <2>2, <3>4 DEF Inv, Drawn
        <4> QED
          BY <1>10, <3>2, <3>4, <4>1, <4>2 DEF DstAfter, Draws
      <3> QED
        BY <1>9, <2>2, <3>3, <3>4
    <2> QED
      BY <1>1, <1>10, <2>1, <2>2 DEF Stages
  (* What becomes of the thread. *)
  <1>11. -2 \in Results /\ 0 \in Results
    BY DEF Results
  <1>12. /\ after \in ThreadType /\ after.at \in {"running", "over"}
         /\ after.test = t /\ after.cases = w.cases /\ after.done = w.done + 1
         /\ after.tmp = tmp /\ after.dst = dst
         /\ after.at = "over" => after.held \in {Nothing, Heap}
         /\ after.at = "running" => Known(after)
         /\ after.result = IF passed THEN 0 ELSE -2
         /\ after.at = "running" => passed /\ w.done + 1 # Len(w.cases)
         /\ after.at = "over" /\ passed => w.done + 1 = Len(w.cases)
    <2>0. Known(w)
      BY <1>1, <1>2 DEF Alone
    <2>4. Known(drawn)
      <3> HIDE DEF drawn, w
      <3> QED
        BY <1>7, <2>0, SameKnown
    <2> HIDE DEF drawn, passed, tmp, dst
    <2>1. CASE ~passed
      <3>1. after = Over(drawn, -2)
        BY <2>1
      <3> HIDE DEF after, w
      <3> QED
        BY <1>7, <1>11, <2>1, <2>4, <3>1, OverFacts
    <2>2. CASE passed /\ drawn.done = Len(w.cases)
      <3>1. after = Over(drawn, 0)
        BY <2>2
      <3> HIDE DEF after, w
      <3> QED
        BY <1>7, <1>11, <2>2, <2>4, <3>1, OverFacts
    <2>3. CASE passed /\ drawn.done # Len(w.cases)
      <3>1. after = drawn
        BY <2>3
      <3> HIDE DEF after, w
      <3> QED
        BY <1>7, <2>3, <2>4, <3>1
    <2> QED
      BY <2>1, <2>2, <2>3
  <1>13. Alone(after)
    <2> HIDE DEF after, passed
    <2>1. Len(w.cases) <= CaseMax \/ t.layout = "PERF"
      BY <1>2 DEF Alone
    <2> QED
      BY <1>4, <1>12, <2>1 DEF Alone
  <1>14. checked => i \in 0..(RowMax - 1) /\ w.done \in 0..(CaseMax - 1)
    <2>1. Rows \in Nat /\ Rows <= RowMax - 1 /\ RowMax \in Nat /\ CaseMax \in Nat
      BY <1>5, RowsFacts DEF CaseMax
    <2>2. i \in Nat
      BY <1>1, <1>2, MadeFacts
    <2> QED
      BY <1>3, <1>4, <2>1, <2>2
  <1>15. table' \in Tables
    BY <1>1, <1>6, <1>14 DEF Inv, Types, Tables
  <1>16. \A r \in 0..(RowMax - 1) : r # i => table'[r] = table[r]
    BY <1>1, <1>14 DEF Inv, Types, Tables
  <1> HIDE DEF after, drawn, dst, tmp, case
  <1>17. ASSUME phase = "raster", Compares, after.result = 0 PROVE t.core \notin broken
    <2>1. checked /\ Golden # NULL /\ Golden[i][w.done] = dst
      BY <1>1, <1>3, <1>12, <1>17 DEF Compares
    <2>2. dst # Wrong
      BY <1>14, <1>17, <2>1 DEF Compares, TrustedGolden
    <2>3. dst = Draws(t.core, case)
      BY <1>8, <1>17 DEF DstAfter, dst
    <2> QED
      BY <2>2, <2>3 DEF Draws
  <1>18. ASSUME phase = "special", broken = {}
         PROVE  after.done # 0 /\ (after.done = 1 => after.tmp = "in" /\ after.dst = Blank)
    <2>1. CASE w.done = 0
      <3>1. case = "in" /\ w.dst = Blank
        BY <1>2, <1>9, <1>18, <2>1 DEF Inv, Drawn
      <3> QED
        BY <1>12, <1>18, <2>1, <3>1 DEF DstAfter, TmpAfter, Draws, dst, tmp
    <2>2. CASE w.done # 0
      BY <1>4, <1>12, <2>2
    <2> QED
      BY <2>1, <2>2
  <1>19. ASSUME cmd.generate, broken = {}, i < Rows, NEW c \in 0..(after.done - 1)
         PROVE  table'[i][c] = Expected(after.test, c)
    <2>1. phase # "perf"
      <3>1. ids.first = First(phase) /\ i >= ids.first /\ ids.first \in Nat
        BY <1>1, <1>2, MadeFacts DEF Inv, Places
      <3> QED
        BY <1>1, <1>2, <1>5, <1>19, <3>1, RowsFacts, MadeFacts DEF First
    <2>2. checked
      BY <1>3, <2>1
    <2>3. c \in 0..(w.done - 1) \/ c = w.done
      BY <1>4, <1>12
    <2>4. table'[i][w.done] = dst /\ \A k \in 0..(w.done - 1) : table'[i][k] = table[i][k]
      <3>1. table' = [table EXCEPT ![i][w.done] = dst]
        BY <1>1, <1>19, <2>2
      <3>2. i \in DOMAIN table /\ w.done \in DOMAIN table[i]
        BY <1>14, <2>2 DEF Inv, Types, Tables
      <3>3. \A k \in 0..(w.done - 1) : k # w.done
        <4> HIDE DEF w
        <4> QED
          BY <1>4
      <3> QED
        BY <3>1, <3>2, <3>3
    <2>5. dst = Expected(t, w.done)
      BY <1>10, <1>19, <2>1 DEF dst, case
    <2>6. \A k \in 0..(w.done - 1) : table[i][k] = Expected(t, k)
      BY <1>1, <1>2, <1>19 DEF Inv, Saved
    <2> QED
      BY <1>12, <2>3, <2>4, <2>5, <2>6
  <1>20. ASSUME Healthy PROVE after.result = 0
    <2>1. CASE checked /\ ~cmd.generate
      <3>1. phase # "perf" /\ i < Rows /\ RowTest(i) = t /\ broken = {} /\ Golden # NULL
        BY <1>3, <1>20, <2>1 DEF Healthy
      <3>2. Right(Golden)
        BY <1>5, <3>1, BuiltinRight DEF Golden, Inv, GoldenRight
      <3>3. i \in 0..(Rows - 1) /\ w.done \in 0..(Len(CasesOf(t)) - 1)
        BY <1>1, <1>2, <1>4, <1>5, <3>1, MadeFacts, RowsFacts
      <3>4. Golden[i][w.done] = Expected(t, w.done)
        BY <3>1, <3>2, <3>3 DEF Right, RightRow
      <3>5. dst = Expected(t, w.done)
        BY <1>10, <3>1 DEF dst, case
      <3> QED
        BY <1>12, <3>4, <3>5
    <2>2. CASE ~checked \/ cmd.generate
      BY <1>12, <2>2
    <2> QED
      BY <2>1, <2>2
  <1>21. faults' \in faults..MaxFaults
    BY <1>1, SelfTestAssumption DEF Inv, Types
  <1>22. ~cmd.generate => table' = table
    BY <1>1
  <1>23. after.at # "none" /\ data[i].at \in {"created", "running"}
    BY <1>1, <1>12
  <1> HIDE DEF w
  <1> QED
    BY <1>1, <1>12, <1>13, <1>15, <1>16, <1>17, <1>18, <1>19, <1>20, <1>21, <1>22, <1>23,
       ThreadStep DEF w

(* All threads of the phase have been looked at.                            *)
LEMMA PhaseDone ==
  ASSUME Inv, PhaseOver
  PROVE  /\ ids.first = First(phase) /\ ids.end = First(phase) + Len(TestsOf(phase))
         /\ ids.first \in Nat /\ ids.end \in Nat
         /\ Compares => broken = {}
         /\ cmd.generate /\ broken = {} =>
              \A r \in 0..(ids.end - 1) : r < Rows => RightRow(table, r)
  <1>1. /\ phase \in Stages /\ ids.first + ids.joined = ids.end
        /\ ids.first = First(phase) /\ ids.end = First(phase) + Len(TestsOf(phase))
        /\ ids.joined <= ids.created /\ ids.created <= ids.end - ids.first
        /\ ids.first \in Nat /\ ids.end \in Nat /\ ids.created \in Nat /\ ids.joined \in Nat
    BY DEF PhaseOver, Inv, Types, Places
  <1>2. Made = ids.first..(ids.end - 1) /\ ids.joined = ids.created
    BY <1>1 DEF Made
  <1>3. \A i \in Made : i \in DOMAIN data
    BY <1>1, MadeFacts
  <1>4. \A i \in Made : /\ data[i].result = 0
                        /\ data[i].test = TestsOf(phase)[i - ids.first + 1]
                        /\ data[i].done = Len(CasesOf(data[i].test))
    <2> SUFFICES ASSUME NEW i \in Made
                 PROVE  /\ data[i].result = 0
                        /\ data[i].test = TestsOf(phase)[i - ids.first + 1]
                        /\ data[i].done = Len(CasesOf(data[i].test))
      OBVIOUS
    <2>1. data[i].at = "over" /\ data[i].result = 0
      BY <1>1, <1>2 DEF Inv, Joined
    <2>2. Alone(data[i])
      BY <1>3 DEF Inv
    <2>3. data[i].test = TestsOf(phase)[i - ids.first + 1] /\ data[i].cases = CasesOf(data[i].test)
      BY <1>1, <1>3 DEF Inv, Assigned
    <2> QED
      BY <2>1, <2>2, <2>3 DEF Alone
  <1>5. ASSUME Compares PROVE broken = {}
    <2>1. CASE phase = "raster"
      <3> SUFFICES ASSUME NEW core \in broken PROVE FALSE
        OBVIOUS
      <3>1. chip \in Chips /\ core \in config.cores
        BY DEF Inv, Types
      <3>2. PICK j \in 1..Len(RasterTests) : RasterTests[j].core = core
        BY <3>1, RasterRows
      <3>3. ids.first = 0 /\ TestsOf(phase) = RasterTests
        BY <1>1, <2>1 DEF First, TestsOf
      <3>4. Len(RasterTests) \in Nat
        BY RowTypes
      <3>5. j - 1 \in Made /\ j - 1 - ids.first + 1 = j
        BY <1>1, <1>2, <3>3, <3>4
      <3>6. data[j - 1].result = 0 /\ data[j - 1].test = RasterTests[j]
            /\ data[j - 1].done = Len(CasesOf(RasterTests[j]))
        BY <1>4, <3>3, <3>5
      <3>7. Len(CasesOf(RasterTests[j])) > 0
        BY <3>1, RasterRows, RasterCases
      <3> QED
        BY <1>5, <2>1, <3>2, <3>5, <3>6, <3>7 DEF Inv, Seen
    <2>2. CASE phase # "raster"
      BY <1>1, <1>5, <2>2 DEF Inv, Seen, Stages
    <2> QED
      BY <2>1, <2>2
  <1>6. ASSUME cmd.generate, broken = {}, NEW r \in 0..(ids.end - 1), r < Rows
        PROVE  RightRow(table, r)
    <2>1. CASE r < ids.first
      BY <1>1, <1>6, <2>1 DEF Inv, Saved
    <2>2. CASE r >= ids.first
      <3>1. r \in Made /\ r \in ids.first..(ids.end - 1)
        BY <1>1, <1>2, <1>6, <2>2
      <3>2. phase # "perf"
        BY <1>1, <1>6, <2>2, RowsFacts DEF First, Inv, Types
      <3>3. data[r].test = RowTest(r) /\ data[r].done = Len(CasesOf(RowTest(r)))
        BY <1>1, <1>4, <3>1, <3>2, PlaceFacts
      <3>4. \A c \in 0..(data[r].done - 1) : table[r][c] = Expected(data[r].test, c)
        BY <1>1, <1>6, <3>1 DEF Inv, Saved
      <3> QED
        BY <3>3, <3>4 DEF RightRow
    <2> QED
      BY <1>1, <1>6, <2>1, <2>2
  <1> QED
    BY <1>1, <1>5, <1>6

LEMMA JoinInv == ASSUME Inv, Join PROVE Inv'
  <1> DEFINE i == ids.first + ids.joined
  <1>1. /\ phase \in Stages /\ ids.created = ids.end - ids.first /\ ids.joined < ids.created
        /\ data[i].at = "over"
        /\ ids' = [ids EXCEPT !.joined = @ + 1]
        /\ phase' = IF data[i].result < 0 THEN "failed" ELSE phase
        /\ chip' = chip /\ broken' = broken /\ file' = file /\ runs' = runs /\ cmd' = cmd
        /\ read' = read /\ data' = data /\ table' = table /\ faults' = faults
    BY DEF Join, Joinable, Judge, board, process
  <1>2. /\ ids.first \in Nat /\ ids.created \in Nat /\ ids.joined \in Nat
        /\ ids' \in [first : Nat, end : Nat, created : Nat, joined : Nat]
        /\ ids'.first = ids.first /\ ids'.end = ids.end /\ ids'.created = ids.created
        /\ ids'.joined = ids.joined + 1
    BY <1>1 DEF Inv, Types
  <1>3. i \in Made /\ i \in DOMAIN data
    BY <1>1, <1>2, MadeFacts DEF Made
  <1>4. data[i].result \in Results
    BY <1>3 DEF Inv, Types, ThreadType
  <1>5. Made' = Made
    BY <1>2 DEF Made
  <1> HIDE DEF i
  <1>6. phase' \in Stages \cup Ended /\ (phase' \in Stages => phase' = phase)
    BY <1>1 DEF Stages, Ended
  <1>7. Types'
    BY <1>1, <1>2, <1>6, SameChip DEF Inv, Types
  <1>8. (\A j \in DOMAIN data : Alone(data[j]))'
    BY <1>1, SameChip DEF Inv
  <1>9. Places'
    BY <1>1, <1>2, <1>6, SameChip DEF Inv, Places
  <1>10. Assigned'
    BY <1>1, <1>2, <1>5, <1>6, SameChip DEF Inv, Assigned
  <1>11. Joined'
    <2> SUFFICES ASSUME phase' \in Stages, NEW j \in ids.first..(ids.first + ids.joined)
                 PROVE  data[j].at = "over" /\ data[j].result = 0
      BY <1>1, <1>2 DEF Joined
    <2>1. CASE j = i
      <3>1. ~(data[i].result < 0)
        BY <1>1 DEF Stages
      <3> QED
        BY <1>1, <1>4, <2>1, <3>1 DEF Results
    <2>2. CASE j # i
      BY <1>1, <1>2, <2>2 DEF Inv, Joined, i
    <2> QED
      BY <2>1, <2>2
  <1>12. Golden' = Golden /\ TrustedGolden' = TrustedGolden
    BY <1>1, SameGolden
  <1>13. Seen'
    <2>1. phase' = phase \/ phase' = "failed"
      BY <1>1
    <2> QED
      BY <1>1, <1>5, <1>12, <2>1 DEF Inv, Seen, Compares
  <1>14. ReadOnly' /\ GoldenRight'
    BY <1>1, SameChip DEF Inv, ReadOnly, GoldenRight
  <1>15. Drawn'
    BY <1>1, <1>5 DEF Inv, Drawn
  <1>16. Saved'
    BY <1>1, <1>2, <1>5, <1>6, SameChip DEF Inv, Saved
  <1>17. Passing'
    <2>1. Healthy' = Healthy
      BY <1>1, <1>12 DEF Healthy
    <2>2. phase' = "failed" => ~Healthy
      <3>1. phase' = "failed" => data[i].result < 0
        BY <1>1 DEF Stages
      <3> QED
        BY <1>1, <1>3, <3>1 DEF Inv, Passing
    <2> QED
      BY <1>1, <1>5, <1>6, <2>1, <2>2 DEF Inv, Passing
  <1> QED
    BY <1>7, <1>8, <1>9, <1>10, <1>11, <1>13, <1>14, <1>15, <1>16, <1>17 DEF Inv

(* The further phase takes the places after the last one.                   *)
LEMMA PhaseInv ==
  ASSUME Inv, PhaseOver, NEW stage \in {"special", "perf"}, ids.end = First(stage),
         StartPhase(stage), UNCHANGED <<board, file, process, table, faults>>
  PROVE  Inv'
  <1>1. /\ phase' = stage /\ ids' = Fresh(First(stage), stage) /\ data' = AllZero
        /\ chip' = chip /\ broken' = broken /\ file' = file /\ runs' = runs /\ cmd' = cmd
        /\ read' = read /\ table' = table /\ faults' = faults
    BY DEF StartPhase, board, process
  <1>2. stage \in Stages /\ chip \in Chips
    BY DEF Stages, Inv, Types
  <1>3. /\ ids'.first = First(stage) /\ ids'.end = First(stage) + Len(TestsOf(stage))
        /\ ids'.created = 0 /\ ids'.joined = 0
        /\ ids' \in [first : Nat, end : Nat, created : Nat, joined : Nat]
        /\ ids'.end <= ThreadMax
    BY <1>1, <1>2, FreshPhase
  <1>4. Made' = {} /\ First(stage) \in Nat /\ Len(TestsOf(stage)) \in Nat
    BY <1>2, <1>3, StageFacts DEF Made
  <1>5. Types'
    BY <1>1, <1>2, <1>3, SameChip, NoThreadFacts DEF Inv, Types
  <1>6. (\A j \in DOMAIN data : Alone(data[j]))'
    BY <1>1, NoThreadFacts, SameChip
  <1>7. Places'
    BY <1>1, <1>3, <1>4, SameChip DEF Places
  <1>8. Assigned'
    BY <1>1, <1>4, NoThreadFacts DEF Assigned
  <1>9. Joined'
    BY <1>3, <1>4 DEF Joined
  <1>10. Golden' = Golden /\ TrustedGolden' = TrustedGolden
    BY <1>1, SameGolden
  <1>11. Seen'
    BY <1>1, <1>4, <1>10, PhaseDone DEF Seen, Compares
  <1>12. ReadOnly' /\ GoldenRight'
    BY <1>1, SameChip DEF Inv, ReadOnly, GoldenRight
  <1>13. Drawn'
    BY <1>4 DEF Drawn
  <1>14. Saved'
    BY <1>1, <1>3, <1>4, SameChip, PhaseDone DEF Saved
  <1>15. Passing'
    BY <1>1, <1>4 DEF Passing
  <1> QED
    BY <1>5, <1>6, <1>7, <1>8, <1>9, <1>11, <1>12, <1>13, <1>14, <1>15 DEF Inv

LEMMA NextPhaseInv == ASSUME Inv, NextPhase PROVE Inv'
  <1>1. PhaseOver /\ UNCHANGED <<board, file, process, table, faults>>
    BY DEF NextPhase
  <1>2. /\ ids.end = First(phase) + Len(TestsOf(phase)) /\ phase \in Stages
        /\ Len(RasterTests) \in Nat /\ Len(SpecialTests) \in Nat
    BY <1>1, PhaseDone, RowTypes DEF PhaseOver
  <1>3. CASE WantsSpecial /\ StartPhase("special")
    <2>1. ids.end = First("special")
      BY <1>2, <1>3 DEF WantsSpecial, First, TestsOf
    <2> QED
      BY <1>1, <1>3, <2>1, PhaseInv
  <1>4. CASE ~WantsSpecial /\ WantsPerf /\ StartPhase("perf")
    <2>1. phase = "raster" => Len(SpecialTests) = 0
      BY <1>4, SpecialRows DEF WantsSpecial, Inv, Types
    <2>2. phase \in {"raster", "special"}
      BY <1>2, <1>4 DEF WantsPerf, Stages
    <2>3. ids.end = First("perf")
      <3>1. CASE phase = "raster"
        BY <1>2, <2>1, <3>1 DEF First, TestsOf, Rows
      <3>2. CASE phase = "special"
        BY <1>2, <3>2 DEF First, TestsOf, Rows
      <3> QED
        BY <2>2, <3>1, <3>2
    <2> QED
      BY <1>1, <1>4, <2>3, PhaseInv
  <1> QED
    BY <1>3, <1>4 DEF NextPhase

LEMMA SucceedInv == ASSUME Inv, Succeed PROVE Inv'
  <1>1. /\ PhaseOver /\ ~WantsSpecial /\ phase' = "success"
        /\ file' \in IF cmd.generate THEN {file, table} ELSE {file}
        /\ chip' = chip /\ broken' = broken /\ runs' = runs /\ cmd' = cmd /\ read' = read
        /\ ids' = ids /\ data' = data /\ table' = table /\ faults' = faults
    BY DEF Succeed, board, process
  <1>2. phase' \notin Stages /\ phase' \in Ended
    BY <1>1 DEF Stages, Ended
  <1>3. /\ ids.end = First(phase) + Len(TestsOf(phase)) /\ phase \in Stages /\ ids.end \in Nat
        /\ Len(RasterTests) \in Nat /\ Len(SpecialTests) \in Nat /\ PerfThreads \in Nat
    BY <1>1, PhaseDone, RowTypes, SelfTestAssumption DEF PhaseOver
  <1>4. Rows <= ids.end
    <2>1. CASE phase = "raster"
      <3>1. Len(SpecialTests) = 0
        BY <1>1, <2>1, SpecialRows DEF WantsSpecial, Inv, Types
      <3> QED
        BY <1>3, <2>1, <3>1 DEF First, TestsOf, Rows
    <2>2. CASE phase = "special"
      BY <1>3, <2>2 DEF First, TestsOf, Rows
    <2>3. CASE phase = "perf"
      <3>1. Len(TestsOf("perf")) \in Nat
        BY StageFacts DEF Inv, Types, Stages
      <3> QED
        BY <1>3, <2>3, <3>1 DEF First, Rows
    <2> QED
      BY <1>3, <2>1, <2>2, <2>3 DEF Stages
  <1>5. cmd.generate /\ broken = {} => Right(table)
    <2>1. Rows \in Nat
      BY <1>3 DEF Rows
    <2> QED
      BY <1>1, <1>3, <1>4, <2>1, PhaseDone DEF Right
  <1>6. Types'
    BY <1>1, <1>2, SameChip DEF Inv, Types
  <1>7. (\A j \in DOMAIN data : Alone(data[j]))'
    BY <1>1, SameChip DEF Inv
  <1>8. Golden' = Golden /\ TrustedGolden' = TrustedGolden
    BY <1>1, SameGolden
  <1>9. Seen'
    BY <1>1, <1>8, PhaseDone DEF Seen, Compares
  <1>10. ReadOnly' /\ GoldenRight'
    BY <1>1, <1>5, SameChip DEF Inv, ReadOnly, GoldenRight
  <1> QED
    BY <1>1, <1>2, <1>6, <1>7, <1>9, <1>10
      DEF Inv, Places, Assigned, Joined, Drawn, Saved, Passing

LEMMA NextInv == ASSUME Inv, [Next]_vars PROVE Inv'
  <1>1. ASSUME NEW command \in Commands, NEW worse \in {{}} \cup {{c} : c \in config.cores},
               StartRun(command, worse)
        PROVE  Inv'
    BY <1>1, StartInv
  <1>2. ASSUME NEW i \in DOMAIN data, Thread(i) PROVE Inv'
    BY <1>2, SetUpInv, SetUpFailsInv, RgaFailsInv, NoGoldenInv, RunCaseInv DEF Thread
  <1>3. CASE UNCHANGED vars
    <2>1. /\ chip' = chip /\ broken' = broken /\ file' = file /\ runs' = runs /\ cmd' = cmd
          /\ phase' = phase /\ ids' = ids /\ data' = data /\ table' = table /\ read' = read
          /\ faults' = faults
      BY <1>3 DEF vars
    <2>2. Golden' = Golden /\ TrustedGolden' = TrustedGolden /\ Made' = Made
      BY <2>1, SameGolden DEF Made
    <2>3. Types' /\ (\A i \in DOMAIN data : Alone(data[i]))' /\ Places' /\ ReadOnly'
      BY <2>1, SameChip DEF Inv, Types, Places, ReadOnly
    <2>4. Assigned' /\ Joined' /\ Drawn'
      BY <2>1, <2>2, SameChip DEF Inv, Assigned, Joined, Drawn
    <2>5. Seen' /\ GoldenRight'
      BY <2>1, <2>2, SameChip DEF Inv, Seen, Compares, GoldenRight
    <2>6. Saved' /\ Passing'
      BY <2>1, <2>2, SameChip DEF Inv, Saved, Passing, Healthy
    <2> QED
      BY <2>3, <2>4, <2>5, <2>6 DEF Inv
  <1> QED
    BY <1>1, <1>2, <1>3, UsageInv, CreateInv, JoinInv, NextPhaseInv, SucceedInv DEF Next, Stop

THEOREM SelfTestInvariant == Spec => []Inv
  BY InitInv, NextInv, PTL DEF Spec
-----------------------------------------------------------------------------
(* The threads of a phase have their places in data[], which is as long as  *)
(* the chips with the most tests and the performance test ask for, and      *)
(* their cases in the table of golden data.                                 *)
THEOREM SelfTestTypeOK == Spec => []TypeOK
  <1>1. ThreadMax \in Nat /\ ThreadMax <= RowMax /\ RowMax \in Nat
    BY SelfTestAssumption DEF ThreadMax, TestThreads, RowMax
  <1>2. Inv => ids.end <= ThreadMax /\ ids.end <= RowMax
    BY <1>1 DEF Inv, Types
  <1>3. Inv => \A i \in DOMAIN data :
           /\ Len(data[i].cases) <= CaseMax \/ data[i].test.layout = "PERF"
           /\ data[i].done <= Len(data[i].cases)
           /\ data[i].result \in Results /\ data[i].dst \in Pictures
    BY DEF Inv, Types, Alone, ThreadType
  <1>4. Inv => TypeOK
    BY <1>2, <1>3 DEF Inv, Types, TypeOK
  <1> QED
    BY <1>4, SelfTestInvariant, PTL

(* A process that compares with golden data none of which is wrong and      *)
(* succeeds has looked at every core of the chip, and none was broken.      *)
THEOREM SelfTestFaultFound == Spec => []FaultFound
  <1>1. Inv => FaultFound
    BY DEF Inv, Seen, Compares, FaultFound
  <1> QED
    BY <1>1, SelfTestInvariant, PTL

(* A healthy chip passes against what it drew itself or what is built in.   *)
THEOREM SelfTestNoFalseAlarm == Spec => []NoFalseAlarm
  <1>1. Inv => NoFalseAlarm
    BY SelfTestAssumption DEF Inv, Types, Passing, Healthy, NoFalseAlarm
  <1> QED
    BY <1>1, SelfTestInvariant, PTL

(* Whichever step fails and wherever the memory came from, RELEASE_BUFFER   *)
(* has given back what the thread had acquired, each piece once; only a     *)
(* descriptor that a failing dma_buf_alloc keeps to itself stays open.      *)
THEOREM SelfTestEndsClean == Spec => []EndsClean
  <1>1. Inv => EndsClean
    BY DEF Inv, Alone, EndsClean
  <1> QED
    BY <1>1, SelfTestInvariant, PTL
=============================================================================
