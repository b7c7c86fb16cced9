-------------------------------- MODULE Query --------------------------------
(* querystring: what a program is told of the hardware, read from the same  *)
(* entry the tasks are checked against.  Each kind of question has its own  *)
(* table of names; what has no name there is not told.                      *)
EXTENDS HwInfo

NamedFormats ==
  {"RGB", "ARGB_16", "RGBA_16", "BPP", "YUV_420_SP_8", "YUV_420_SP_10", "YUV_420_P_8",
   "YUV_420_P_10", "YUV_422_SP_8", "YUV_422_SP_10", "YUV_422_P_8", "YUV_422_P_10",
   "YUYV_420", "YUYV_422", "YUV_400", "Y4", "RGBA2BPP", "ALPHA_8", "YUV_444_SP_8", "Y8"}

NamedFeatures ==
  {"COLOR_FILL", "COLOR_PALETTE", "ROP", "QUANTIZE", "SRC1_R2Y_CSC", "DST_FULL_CSC", "FBC",
   "BLEND_YUV", "BT2020", "MOSAIC", "OSD", "PRE_INTR", "ALPHA_BIT_MAP", "GAUSS"}

VersionsTold == IF info.version = {"RGA_V_ERR"} THEN {"unknown"} ELSE info.version \ {"RGA_V_ERR"}

(* By the width alone; any other width is "unknown", which is {}. *)
ResolutionTold(res) ==
  CASE res.w \in {2048, 4096, 8192, 8128} -> {[w |-> res.w, h |-> res.w]}
    [] res.w = 2880 -> {[w |-> 2880, h |-> 1620]}
    [] res.w = 1280 -> {[w |-> 1280, h |-> 1280]}
    [] OTHER -> {}

(* What querystring relies on: of each entry that can be merged or guessed, *)
(* the features have names but for one, the 16-bit format of the line that  *)
(* asks the wrong mask is in both, and the resolution a width stands for is *)
(* within the entry's own.                                                  *)
NamedEntry(e) ==
  /\ "ARGB_16" \in e.inFmt <=> "ARGB_16" \in e.outFmt
  /\ e.feature \subseteq NamedFeatures \cup {"SECURE"}
  /\ \A res \in {e.inRes, e.outRes} : \A r \in ResolutionTold(res) : r.w <= res.w /\ r.h <= res.h

ASSUME QueryAssumption ==
  /\ \A c \in DOMAIN CoreTable : NamedEntry(CoreTable[c])
  /\ \A p \in DOMAIN CompatTable : NamedEntry(CompatTable[p])

ByteStrideTold == {n \in {info.byteStride} : n > 0}
ScaleLimitTold == {n \in {info.scaleLimit} : n \in {8, 16}}

InputFormatsTold == info.inFmt \cap NamedFormats

(* A bug: the line of the other 16-bit formats asks the input too. *)
OutputFormatsTold_OfInput ==
  {f \in NamedFormats : f \in (IF f \in {"ARGB_16", "RGBA_16"} THEN info.inFmt ELSE info.outFmt)}

(* The line of ARGB_16 asks the input. *)
OutputFormatsTold ==
  {f \in NamedFormats : f \in (IF f = "ARGB_16" THEN info.inFmt ELSE info.outFmt)}

FeaturesTold == info.feature \cap NamedFeatures
PerformanceTold == {n \in {info.performance} : n \in {1, 2, 4}}

(* RGA_ALL: every answer, in the order of the questions. *)
Told ==
  [versions |-> VersionsTold, maxInput |-> ResolutionTold(info.inRes),
   maxOutput |-> ResolutionTold(info.outRes), byteStride |-> ByteStrideTold,
   scaleLimit |-> ScaleLimitTold, inputs |-> InputFormatsTold, outputs |-> OutputFormatsTold,
   features |-> FeaturesTold, performance |-> PerformanceTold]

(* A program that asks before it calls is told nothing the checks would     *)
(* refuse and, of what has a name, all that they accept: each question      *)
(* reads its own mask of an entry that was merged from several cores, and   *)
(* the one line that reads another's (im2d.cpp:704) answers as its own      *)
(* would, since no hardware reads ARGB_16 without writing it or the other   *)
(* way round.  A resolution or a scale told is within the limits of some    *)
(* core.                                                                    *)
QueryHonest ==
  probe = "ready" =>
    /\ Told.inputs = info.inFmt \cap NamedFormats
    /\ Told.outputs = info.outFmt \cap NamedFormats
    /\ Told.features \subseteq info.feature /\ info.feature \ Told.features \subseteq {"SECURE"}
    /\ \A r \in Told.maxInput : r.w <= info.inRes.w /\ r.h <= info.inRes.h
    /\ \A r \in Told.maxOutput : r.w <= info.outRes.w /\ r.h <= info.outRes.h
    /\ AllKnown => \A n \in Told.scaleLimit : \E i \in DOMAIN chip : EntryOf(i).scaleLimit = n
=============================================================================
