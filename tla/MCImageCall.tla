----------------------------- MODULE MCImageCall -----------------------------
(* AllCalls for TLC: chips of every kind of driver, and images, rectangles  *)
(* and tasks on both sides of every check.                                  *)
EXTENDS AllCalls, Buffers, Query, Sequences

(* A core of a driver that reports triples, and one known by its string. *)
Triple(id) == [id |-> id, prefix |-> ""]
Named(prefix) == [id |-> "other", prefix |-> prefix]

RK3588 == <<Triple("3.0.76831"), Triple("3.0.76831"), Triple("3.2.63318")>>
RK3576 == <<Triple("3.e.19357"), Triple("3.e.19357")>>

MCDriverOf ==
     RK3588                   :> "MULTI"
  @@ RK3576                   :> "MULTI"
  @@ <<Triple("3.a.07135")>>  :> "MULTI"
  @@ <<Triple("2.0.0")>>      :> "RGA2"
  @@ <<Named("1.3")>>         :> "RGA1_OLD"
  @@ <<Named("1.6")>>         :> "RGA1"
  @@ <<Triple("3.0.76831"), Named("9.9")>> :> "MULTI"

MCChips == DOMAIN MCDriverOf

(* What atof makes of the string; 3.2 stands for every new driver. *)
MCLegacyVersion ==
  [c \in MCChips |->
     CASE c = <<Triple("2.0.0")>>  -> 2000
       [] c = <<Named("1.3")>>     -> 1300
       [] c = <<Named("1.6")>>     -> 1600
       [] OTHER                    -> 3200]

(* The images, as programs wrap them: a handle of the driver, an address or *)
(* a descriptor of their own.                                               *)
At == "handle"   :> OfHandle(ImportBuffer(TRUE, 7)) @@ "physical" :> OfPhysical(4096)
   @@ "fd"       :> OfFd(5)                   @@ "virtual"  :> OfVirtual(8192)
   @@ "none"     :> Zeroed

Image(w, h, fmt, mem) == Wrap(At[mem], w, h, fmt, 0, 0)

InSpace(image, space) == [image EXCEPT !.csc = {space}]

RgbaHandle == Image(64, 64, "RGBA_8888", "handle")
RgbaFd     == Image(64, 64, "RGBA_8888", "fd")
Nv12       == Image(64, 64, "YCbCr_420_SP", "fd")
Small      == Image(16, 16, "RGBA_8888", "physical")
Padded     == Wrap(At["virtual"], 48, 32, "RGB_888", 64, 64)
Flat       == Image(640, 64, "RGBA_8888", "fd")
Steep      == Image(64, 640, "RGBA_8888", "fd")
Medium     == Image(1000, 1000, "RGBA_8888", "fd")
Broad      == Image(2000, 500, "RGBA_8888", "fd")
Long       == Image(8000, 400, "RGBA_8888", "fd")
High       == Image(400, 8000, "RGBA_8888", "fd")
Huge       == Image(9000, 16, "RGBA_8888", "fd")
OddYuyv    == Image(62, 64, "YUYV_422", "virtual")
Table      == Image(64, 64, "BPP8", "handle")
GrayIndex  == Image(64, 64, "YCbCr_400", "handle")
Unread     == Image(64, 64, "P010", "fd")
Foreign    == Image(64, 64, "no format", "fd")

(* Nothing to read or write: the driver, the checks of the import, and of   *)
(* the modifier, said no.                                                   *)
Nowhere    == Wrap(OfHandle(ImportBuffer(FALSE, 7)), 64, 64, "RGBA_8888", 0, 0)
Unimported == Wrap(OfHandle(ImportBufferParam(TRUE, 7, "no format")), 64, 64, "YCbCr_420_SP", 0, 0)

Modifier(vendor, kind, block, split) ==
  [vendor |-> vendor, kind |-> kind, block |-> block, split |-> split]
Tiles(block) == Modifier("ROCKCHIP", "TILED", block, FALSE)
Afbc(block, split) == Modifier("ARM", "AFBC", block, split)

Tiled      == WrapDrm(At["handle"], 64, 64, "NV12", Tiles(1), 0, 0)
Packed     == WrapDrm(At["handle"], 64, 64, "ABGR8888", Afbc(1, FALSE), 72, 64)
Zeroes     == {WrapDrm(At["handle"], 64, 64, "ABGR8888", m, 0, 0) :
                 m \in {Tiles(2), Afbc(2, FALSE)}}
AsRaster   == {WrapDrm(At["handle"], 64, 64, "ABGR8888", Afbc(2, TRUE), 0, 0),
               WrapDrm(At["handle"], 64, 64, "NV16", Tiles(2), 0, 0)}

MCSrcs == {RgbaHandle, RgbaFd, Nv12, Padded, Flat, OddYuyv, Table, Unread, Nowhere, Tiled, Packed,
           Unimported} \cup Zeroes \cup AsRaster
MCDsts == {RgbaHandle, RgbaFd, Nv12, Small, Padded, Flat, Foreign, NoImage,
           InSpace(Nv12, "R2Y_709_LIMIT"), InSpace(RgbaFd, "Y2R_601_FULL")}
MCPats == {RgbaHandle, RgbaFd, Small, Nv12}

Rect(x, y, w, h) == [x |-> x, y |-> y, w |-> w, h |-> h]

MCRects == {NoRect, Rect(8, 8, 16, 16), Rect(56, 48, 16, 16), Rect(10, 10, 0, 0),
            Rect(0, 0, 16, 0), Rect(-2, 0, 16, 16), Rect(1, 1, 15, 15)}
MCShifts == {0, 16, 64}
Factor(num, den) == [num |-> num, den |-> den]
MCFactors == {Factor(0, 1), Factor(1, 2), Factor(3, 4)}
MCFormats == {"RGBA_8888", "YCbCr_420_SP"}
MCModes == {{}, {"Y2R_601_LIMIT"}, {"R2Y_709_LIMIT"}, {"RGB_FULL"}, {"RGB_TO_Y4"}}
Interp2(horiz, verti) == [horiz |-> horiz, verti |-> verti]
MCInterps == {DefaultInterp, Interp2("LINEAR", "LINEAR")}
MCKernels == {3, 5}
MCLines == {-1, 0, 2, 8}

(* The tasks, by what they vary. *)
Task(src, dst, pat, usage) == [Plain(src, dst) EXCEPT !.pat = pat, !.usage = usage]

Turns == {{}, {"ROT_90"}, {"ROT_270", "FLIP_H"}, {"ROT_180", "FLIP_V"}, {"FLIP_H_V"},
          {"ROT_90", "ROT_180"}}
Sizes == {Small, RgbaFd, Flat, Steep, Medium, Broad, Long, High, Huge}

Turned90 == {Task(s, d, NoImage, u) : s, d \in Sizes, u \in Turns}

Rastered ==
  {[Task(s, d, NoImage, u) EXCEPT !.srect = sr, !.drect = dr] :
     s \in {Nv12, Flat, Padded}, d \in {RgbaFd, Nv12, Padded}, sr, dr \in MCRects,
     u \in {{}, {"ROT_90"}, {"CROP"}}}

Interpolated ==
  {[Task(s, d, NoImage, u) EXCEPT !.interp = Interp2(h, v)] :
     s, d \in {Flat, Medium, Broad, High}, u \in {{}, {"ROT_90"}},
     h, v \in {"DEFAULT", "LINEAR", "BICUBIC"}}

Blended3 ==
  {[Task(s, d, p, {b} \cup u) EXCEPT !.prect = pr] :
     s \in {RgbaHandle, RgbaFd, Nv12, Nowhere}, p \in MCPats \cup {Unread, Foreign},
     d \in {RgbaHandle, RgbaFd, Nv12}, b \in {"BLEND_SRC_OVER", "BLEND_SRC"},
     u \in {{}, {"ROT_90"}}, pr \in {NoRect, Rect(0, 0, 16, 16)}}

Colored == {Nv12, RgbaFd} \cup {InSpace(Nv12, m) : m \in {"601_FULL", "709_LIMIT", "709_FULL"}}
             \cup {InSpace(RgbaFd, "RGB_FULL")}

Converted ==
  {Task(s, d, p, IF p = NoImage THEN {} ELSE {"BLEND_SRC_OVER"}) :
     s \in Colored, d \in Colored \cup {[Nv12 EXCEPT !.csc = {"Y2R_601_LIMIT", "R2Y_709_LIMIT"}]},
     p \in {NoImage, RgbaFd, InSpace(RgbaFd, "RGB_FULL"), InSpace(RgbaFd, "709_LIMIT"), Nv12}}

Flagged ==
  {Task(s, RgbaHandle, Table, {"COLOR_PALETTE"}) : s \in {Table, GrayIndex}} \cup
  {Task(s, d, p, u) :
     s \in {RgbaHandle, RgbaFd, Nowhere}, d \in {RgbaHandle, RgbaFd}, p \in {NoImage, RgbaHandle},
     u \in {{"COLOR_FILL"}, {"COLOR_PALETTE"}, {"COLOR_FILL", "ROT_90"}, {"ASYNC"}, {"ALPHA_BIT_MAP"},
            {"PRE_INTR"}, {"GAUSS", "ROT_90"}, {"BLEND_DST_OVER"}}}

(* Every two of the effects, and three that are written one over the other. *)
Gray8 == Image(64, 64, "Y8", "fd")
Shared == {"BLEND_SRC_OVER", "COLORKEY", "ROP", "NN_QUANTIZE", "PRE_MUL"}
Together ==
  {{f, g} : f, g \in Shared \cup {"MOSAIC", "OSD", "GAUSS", "ALPHA_BIT_MAP"}}
    \cup {Shared, Shared \ {"ROP"}, Shared \ {"NN_QUANTIZE"}, {"BLEND_SRC_OVER", "BLEND_SRC"}}

Effected ==
  {[Task(RgbaFd, d, p, u) EXCEPT !.kernel = 3, !.rop = TRUE] :
     d \in {RgbaFd, Image(64, 64, "RGB_565", "fd"), Gray8, InSpace(Gray8, "RGB_TO_Y4")},
     p \in {NoImage, RgbaFd, Image(64, 64, "ARGB_5551", "fd")}, u \in Together}

(* rga_info structures as programs of the older API fill them in. *)
Addresses == {[RgbaFd EXCEPT !.mem = m] : m \in {"none", "handle", "physical", "fd", "virtual"}}
Strideless == [RgbaFd EXCEPT !.hs = 0]

MCLegacyTasks ==
     {Task(s, d, NoImage, u) : s, d \in Addresses, u \in {{}, {"COLOR_FILL"}}}
  \cup {Task(s, d, p, {"BLEND_SRC_OVER"}) : s, d, p \in Addresses}
  \cup {Task(s, d, p, {"COLOR_PALETTE"}) : s, d \in {RgbaHandle, RgbaFd}, p \in {NoImage, Table, RgbaFd}}
  \cup {[Task(s, d, p, u) EXCEPT !.drect = r] :
          s \in {Strideless, Flat, Huge, Nv12, OddYuyv}, d \in {Small, RgbaFd, Nv12},
          p \in {NoImage, RgbaFd}, u \in Turns, r \in {NoRect, Rect(8, 8, 0, 0)}}
  \cup {Task(s, [d EXCEPT !.csc = m], NoImage, {}) :
          s, d \in {Nv12, RgbaFd},
          m \in {{"rgb2yuv_709_limit"}, {"rgb2yuv_601_full"}, {"601_limit_2_709_full"},
                 {"Y2R_601_FULL", "rgb2yuv_709_limit"}}}

MCTasks == Turned90 \cup Rastered \cup Interpolated \cup Blended3 \cup Converted \cup Flagged
             \cup Effected
=============================================================================
