------------------------------- MODULE HwInfo -------------------------------
(* What im2d believes the hardware can do (rga_get_info): the driver lists  *)
(* the cores of the chip, and the table entries of the cores are merged     *)
(* into one, which every later check is made against.  A core the library   *)
(* does not know throws the merged entry away and takes the one that the    *)
(* version string of the FIRST core suggests, or the error entry.           *)
EXTENDS Integers, Sequences

CONSTANTS
  Chips,        \* the lists of cores the driver may report
  CoreTable,    \* the entry of each core that is known by its version triple
  CompatTable   \* the entry for the beginning of a version string

Res == [w : Nat, h : Nat]

(* rga_info_table_entry; the bit masks are sets of the enumerators' names.  *)
Versions == {"RGA_V_ERR", "RGA_1", "RGA_1_PLUS", "RGA_2", "RGA_2_LITE0", "RGA_2_LITE1",
             "RGA_2_LITE2", "RGA_2_ENHANCE", "RGA_2_PRO", "RGA_3"}

Entry == [version : SUBSET Versions, inRes : Res, outRes : Res,
          byteStride : Nat, scaleLimit : Nat, performance : Nat, bicubic : Nat,
          inFmt : SUBSET STRING, outFmt : SUBSET STRING, feature : SUBSET STRING]

(* A core as the driver names it: its version triple, and how its version   *)
(* string begins.                                                           *)
Core == [id : STRING, prefix : STRING]

ASSUME HwAssumption ==
  /\ Chips \subseteq Seq(Core)
  /\ \A chip \in Chips : chip # <<>>
  /\ \A c \in DOMAIN CoreTable : CoreTable[c] \in Entry
  /\ \A p \in DOMAIN CompatTable : CompatTable[p] \in Entry

(* Merging relies on it that every entry of hw_info_table has a resolution  *)
(* and a stride, and that of two strides the coarser suits the finer.       *)
ASSUME TableAssumption ==
  \A c \in DOMAIN CoreTable :
    /\ \A res \in {CoreTable[c].inRes, CoreTable[c].outRes} : res.w > 0 /\ res.h > 0
    /\ CoreTable[c].byteStride > 0
    /\ \A d \in DOMAIN CoreTable :
         CoreTable[c].byteStride <= CoreTable[d].byteStride =>
           CoreTable[d].byteStride % CoreTable[c].byteStride = 0

VARIABLES
  chip,    \* session->core_version
  merged,  \* i: how many cores have been merged
  info,    \* session->hardware_info
  probe    \* "merging", "ready" or "failed"

hwVars == <<chip, merged, info, probe>>

NoRes == [w |-> 0, h |-> 0]

(* The zeroed structure the first rga_get_info starts from. *)
Zero == [version |-> {}, inRes |-> NoRes, outRes |-> NoRes,
         byteStride |-> 0, scaleLimit |-> 0, performance |-> 0, bicubic |-> 0,
         inFmt |-> {}, outFmt |-> {}, feature |-> {}]

(* hw_info_table[IM_RGA_HW_VERSION_RGA_V_ERR_INDEX]. *)
VErr == [Zero EXCEPT !.version = {"RGA_V_ERR"}]

Larger(a, b) == IF a > b THEN a ELSE b

(* A resolution is replaced only by one that is larger both ways. *)
LargerRes(r, s) == IF s.w > r.w /\ s.h > r.h THEN s ELSE r

(* A bug: the stride of the last core is kept, not the coarsest. *)
Merge_LastStride(e, f) ==
  [e EXCEPT !.inRes = LargerRes(@, f.inRes), !.outRes = LargerRes(@, f.outRes),
            !.byteStride = f.byteStride, !.scaleLimit = Larger(@, f.scaleLimit),
            !.inFmt = @ \cup f.inFmt, !.outFmt = @ \cup f.outFmt,
            !.feature = @ \cup f.feature]

Merge(e, f) ==
  [version     |-> e.version \cup f.version,
   inRes       |-> LargerRes(e.inRes, f.inRes),
   outRes      |-> LargerRes(e.outRes, f.outRes),
   byteStride  |-> Larger(e.byteStride, f.byteStride),
   scaleLimit  |-> Larger(e.scaleLimit, f.scaleLimit),
   performance |-> Larger(e.performance, f.performance),
   bicubic     |-> Larger(e.bicubic, f.bicubic),
   inFmt       |-> e.inFmt \cup f.inFmt,
   outFmt      |-> e.outFmt \cup f.outFmt,
   feature     |-> e.feature \cup f.feature]
-----------------------------------------------------------------------------
HwTypeOK ==
  /\ chip \in Chips
  /\ merged \in 0..Len(chip)
  /\ info \in Entry
  /\ probe \in {"merging", "ready", "failed"}

HwInit ==
  /\ chip \in Chips
  /\ merged = 0
  /\ info = Zero
  /\ probe = "merging"

Known(core) == core.id \in DOMAIN CoreTable

(* One turn of the loop over the cores. *)
MergeCore ==
  /\ probe = "merging"
  /\ merged < Len(chip)
  /\ Known(chip[merged + 1])
  /\ info' = Merge(info, CoreTable[chip[merged + 1].id])
  /\ merged' = merged + 1
  /\ UNCHANGED <<chip, probe>>

InfoComplete ==
  /\ probe = "merging"
  /\ merged = Len(chip)
  /\ probe' = "ready"
  /\ UNCHANGED <<chip, merged, info>>

Guessed == chip[1].prefix \in DOMAIN CompatTable

(* TRY_TO_COMPATIBLE: chip[1], whichever core was the unknown one. *)
TryCompatible ==
  /\ probe = "merging"
  /\ merged < Len(chip)
  /\ ~Known(chip[merged + 1])
  /\ \/ Guessed /\ info' = CompatTable[chip[1].prefix] /\ probe' = "ready"
     \/ ~Guessed /\ info' = VErr /\ probe' = "failed"
  /\ UNCHANGED <<chip, merged>>

(* rga_get_info failed, and with it the call that opened the session, but   *)
(* the descriptor has been stored: the next call finds a session, whose     *)
(* entry is the error entry.                                                *)
UseErrorEntry ==
  /\ probe = "failed"
  /\ probe' = "ready"
  /\ UNCHANGED <<chip, merged, info>>

HwNext == MergeCore \/ InfoComplete \/ TryCompatible \/ UseErrorEntry
-----------------------------------------------------------------------------
AllKnown == \A i \in DOMAIN chip : Known(chip[i])

EntryOf(i) == CoreTable[chip[i].id]

(* The session hands out the merged entry only when every core's formats    *)
(* and features are in it and nothing else is, each resolution is that of a *)
(* core, and the stride it asks for suits every core, because the driver    *)
(* may run the request on any of them (rga_support_info_merge_table).       *)
InfoBacked ==
  (probe = "ready" /\ AllKnown) =>
    /\ info.inFmt   = UNION {EntryOf(i).inFmt : i \in DOMAIN chip}
    /\ info.outFmt  = UNION {EntryOf(i).outFmt : i \in DOMAIN chip}
    /\ info.feature = UNION {EntryOf(i).feature : i \in DOMAIN chip}
    /\ \E i \in DOMAIN chip : info.inRes = EntryOf(i).inRes
    /\ \E i \in DOMAIN chip : info.outRes = EntryOf(i).outRes
    /\ \A i \in DOMAIN chip : info.byteStride % EntryOf(i).byteStride = 0
=============================================================================
