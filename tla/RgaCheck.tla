------------------------------ MODULE RgaCheck ------------------------------
(* The checks im2d makes of a task before it builds a request for the       *)
(* driver (rga_check and what it calls), as operators over the task and the *)
(* entry of the hardware.  Each returns the status the function returns; a  *)
(* check made after another is written  first ?? second.                    *)
(*                                                                          *)
(* An image is [w, h, ws, hs, fmt, mem, mode, csc]: its size and strides,   *)
(* its format, the kind of address it is given by ("none" for a structure   *)
(* that was zeroed), its data layout and its color_space_mode.  A rectangle *)
(* is [x, y, w, h].  A usage is the set of the flags that are set.          *)
EXTENDS Integers, HwTables

Refuse(bad, status) == IF bad THEN status ELSE "NOERROR"

a ?? b == IF a = "NOERROR" THEN b ELSE a

(* One format of each class the checks tell apart: the bit of the masks it  *)
(* needs, the bits of a pixel (of the luma plane), and its colour space.    *)
(* P010 stands for the formats that convert_to_rga_format knows and no      *)
(* check accepts.                                                           *)
FormatClass ==
     "RGBA_8888" :> [class |-> "RGB", bits |-> 32, color |-> "rgb"]
  @@ "RGB_888"   :> [class |-> "RGB", bits |-> 24, color |-> "rgb"]
  @@ "RGB_565"   :> [class |-> "RGB", bits |-> 16, color |-> "rgb"]
  @@ "ARGB_5551" :> [class |-> "ARGB_16", bits |-> 16, color |-> "rgb"]
  @@ "RGBA_5551" :> [class |-> "RGBA_16", bits |-> 16, color |-> "rgb"]
  @@ "RGBA_1010102" :> [class |-> "RGBA_1010102", bits |-> 32, color |-> "rgb"]
  @@ "BPP8"      :> [class |-> "BPP", bits |-> 8, color |-> "other"]
  @@ "RGBA2BPP"  :> [class |-> "RGBA2BPP", bits |-> 2, color |-> "other"]
  @@ "A8"        :> [class |-> "ALPHA_8", bits |-> 8, color |-> "other"]
  @@ "YCbCr_420_SP" :> [class |-> "YUV_420_SP_8", bits |-> 8, color |-> "yuv"]
  @@ "YCbCr_420_P"  :> [class |-> "YUV_420_P_8", bits |-> 8, color |-> "yuv"]
  @@ "YCbCr_422_SP" :> [class |-> "YUV_422_SP_8", bits |-> 8, color |-> "yuv"]
  @@ "YCbCr_422_P"  :> [class |-> "YUV_422_P_8", bits |-> 8, color |-> "yuv"]
  @@ "YCbCr_420_SP_10B" :> [class |-> "YUV_420_SP_10", bits |-> 10, color |-> "yuv"]
  @@ "YCbCr_422_SP_10B" :> [class |-> "YUV_422_SP_10", bits |-> 10, color |-> "yuv"]
  @@ "YCbCr_444_SP" :> [class |-> "YUV_444_SP_8", bits |-> 8, color |-> "yuv"]
  @@ "YUV_444_10B"  :> [class |-> "YUV_444_10", bits |-> 30, color |-> "yuv"]
  @@ "YUYV_420"  :> [class |-> "YUYV_420", bits |-> 16, color |-> "yuv"]
  @@ "YUYV_422"  :> [class |-> "YUYV_422", bits |-> 16, color |-> "yuv"]
  @@ "YCbCr_400" :> [class |-> "YUV_400", bits |-> 8, color |-> "yuv"]
  @@ "Y4"        :> [class |-> "Y4", bits |-> 4, color |-> "yuv"]
  @@ "Y8"        :> [class |-> "Y8", bits |-> 8, color |-> "yuv"]
  @@ "P010"      :> [class |-> "ERROR", bits |-> 10, color |-> "other"]

Convertible(fmt) == fmt \in DOMAIN FormatClass
Bits(fmt) == FormatClass[fmt].bits
IsYuv(fmt) == Convertible(fmt) /\ FormatClass[fmt].color = "yuv"
IsRgb(fmt) == Convertible(fmt) /\ FormatClass[fmt].color = "rgb"

Rotations == {"ROT_90", "ROT_180", "ROT_270"}
Flips == {"FLIP_H", "FLIP_V", "FLIP_H_V"}
BlendModes == {"BLEND_SRC_OVER", "BLEND_DST_OVER", "BLEND_SRC"}
Effects == {"COLORKEY", "NN_QUANTIZE", "ROP", "MOSAIC", "OSD", "GAUSS", "PRE_INTR",
            "ALPHA_BIT_MAP", "PRE_MUL", "COLOR_FILL", "COLOR_PALETTE", "CROP", "ASYNC"}
Usages == Rotations \cup Flips \cup BlendModes \cup Effects

(* The parts of a color_space_mode. *)
R2yModes == {"R2Y_601_LIMIT", "R2Y_601_FULL", "R2Y_709_LIMIT"}
Y2rModes == {"Y2R_601_LIMIT", "Y2R_601_FULL", "Y2R_709_LIMIT"}
Y4Modes == {"RGB_TO_Y4"}
FullSpaces == {"RGB_FULL", "601_LIMIT", "601_FULL", "709_LIMIT", "709_FULL"}

(* The formats a caller may name, the one a zeroed structure has among them. *)
FormatNames == {"RGBA_8888", "no format"} \cup DOMAIN FormatClass

Buffers ==
  [w : Int, h : Int, ws : Int, hs : Int, fmt : FormatNames,
   mem : {"none", "handle", "physical", "fd", "virtual"}, mode : {"RASTER", "FBC", "TILE"},
   csc : SUBSET (R2yModes \cup Y2rModes \cup Y4Modes \cup FullSpaces)]

Rectangles == [x : Int, y : Int, w : Int, h : Int]

BufferValid(image) == image.mem # "none"

Sized(rect) == rect.w > 0 /\ rect.h > 0

ApplyRect(image, rect) ==
  IF Sized(rect) THEN [image EXCEPT !.w = rect.w, !.h = rect.h] ELSE image
-----------------------------------------------------------------------------
(* A bug: the offset of the rectangle is left out of the sum. *)
CheckInfo_NoOffset(image, rect, res) ==
     Refuse(image.w < 2 \/ image.h < 2, "ILLEGAL_PARAM")
  ?? Refuse(image.ws < image.w \/ image.hs < image.h, "INVALID_PARAM")
  ?? Refuse((rect.w = 0) # (rect.h = 0), "ILLEGAL_PARAM")
  ?? Refuse(\E side \in DOMAIN rect : rect[side] < 0, "ILLEGAL_PARAM")
  ?? Refuse(image.w > res.w \/ image.h > res.h, "NOT_SUPPORTED")

CheckInfo(image, rect, res) ==
     Refuse(image.w < 2 \/ image.h < 2, "ILLEGAL_PARAM")
  ?? Refuse(image.ws < image.w \/ image.hs < image.h, "INVALID_PARAM")
  ?? Refuse(\/ rect.w = 0 /\ rect.h > 0
            \/ rect.w > 0 /\ rect.h = 0, "ILLEGAL_PARAM")
  ?? Refuse(\E side \in DOMAIN rect : rect[side] < 0, "ILLEGAL_PARAM")
  ?? Refuse(rect.w + rect.x > image.ws \/ rect.h + rect.y > image.hs, "INVALID_PARAM")
  ?? Refuse(\/ image.w > res.w \/ image.h > res.h
            \/ rect.w > res.w \/ rect.h > res.h, "NOT_SUPPORTED")

YuvLegality(image, rect) ==
  Refuse(\/ \E v \in {image.w, image.h, image.ws, image.hs} : v % 2 # 0
         \/ \E side \in DOMAIN rect : rect[side] % 2 # 0, "INVALID_PARAM")

(* The palette formats also pass when the task is a palette's. *)
CheckFormat(image, rect, classes, usage) ==
  LET class == FormatClass[image.fmt].class
  IN   Refuse(class \notin classes /\ ~(class = "BPP" /\ "COLOR_PALETTE" \in usage),
              "NOT_SUPPORTED")
    ?? IF IsYuv(image.fmt) THEN YuvLegality(image, rect) ELSE "NOERROR"

CheckAlign(image, byteStride, isRead) ==
     Refuse(image.mode = "FBC" /\ (image.ws % 16 # 0 \/ image.hs % 16 # 0), "NOT_SUPPORTED")
  ?? Refuse(/\ image.mode = "TILE"
            /\ \/ image.w % 8 # 0 \/ image.h % 8 # 0
               \/ isRead /\ (image.ws % 16 # 0 \/ image.hs % 16 # 0), "NOT_SUPPORTED")
  ?? Refuse((Bits(image.fmt) * image.ws) % (byteStride * 8) # 0, "NOT_SUPPORTED")

CheckImage(image, rect, res, classes, stride, usage, isRead) ==
     CheckInfo(image, rect, res)
  ?? CheckFormat(image, rect, classes, usage)
  ?? CheckAlign(image, stride, isRead)

Swapped(image) == [image EXCEPT !.w = image.h, !.h = image.w]

TooFar(a, b, limit) == a > limit * b \/ b > limit * a

(* A bug: the sides are compared as they lie. *)
CheckLimit_NoSwap(src, dst, limit, usage) ==
  Refuse(TooFar(src.w, dst.w, limit) \/ TooFar(src.h, dst.h, limit), "NOT_SUPPORTED")

(* The sides of a quarter turn are compared crosswise. *)
CheckLimit(src, dst, limit, usage) ==
  LET d == IF usage \cap {"ROT_90", "ROT_270"} # {} THEN Swapped(dst) ELSE dst
  IN  Refuse(TooFar(src.w, d.w, limit) \/ TooFar(src.h, d.h, limit), "NOT_SUPPORTED")

(* Only the sizes can be refused: is_rga_format, which is meant to refuse a *)
(* background that is not RGB, is true of every format of librga.           *)
CheckBlend(pat, dst, patEnable) ==
  Refuse(patEnable /\ (pat.w # dst.w \/ pat.h # dst.h), "NOT_SUPPORTED")

CheckRotate(version, usage) ==
  Refuse(/\ version \cap {"RGA_1", "RGA_1_PLUS"} # {}
         /\ \/ "FLIP_H_V" \in usage
            \/ usage \cap Rotations # {} /\ usage \cap Flips # {}, "NOT_SUPPORTED")

Feature ==
     "COLOR_FILL"    :> "COLOR_FILL"  @@ "COLOR_PALETTE" :> "COLOR_PALETTE"
  @@ "ROP"           :> "ROP"         @@ "NN_QUANTIZE"   :> "QUANTIZE"
  @@ "MOSAIC"        :> "MOSAIC"      @@ "OSD"           :> "OSD"
  @@ "PRE_INTR"      :> "PRE_INTR"    @@ "ALPHA_BIT_MAP" :> "ALPHA_BIT_MAP"
  @@ "GAUSS"         :> "GAUSS"

CheckFeature(src, pat, dst, patEnable, usage, features) ==
     Refuse(\E f \in usage \cap DOMAIN Feature : Feature[f] \notin features, "NOT_SUPPORTED")
  ?? Refuse(patEnable /\ pat.csc \cap R2yModes # {} /\ "SRC1_R2Y_CSC" \notin features,
            "NOT_SUPPORTED")
  ?? Refuse(/\ \/ (src.csc \cup dst.csc) \cap FullSpaces # {}
               \/ patEnable /\ pat.csc \cap FullSpaces # {}
            /\ "DST_FULL_CSC" \notin features, "NOT_SUPPORTED")
-----------------------------------------------------------------------------
(* rga_check: t is the task once its rectangles are applied, e the entry of *)
(* the hardware.                                                            *)
Blended(t) == t.usage \cap BlendModes # {} /\ BufferValid(t.pat)

Check(t, e) ==
  LET patEnable == Blended(t)
      reads     == "COLOR_FILL" \notin t.usage
  IN   CheckFeature(t.src, t.pat, t.dst, patEnable, t.usage, e.feature)
    ?? (IF reads
        THEN CheckImage(t.src, t.srect, e.inRes, e.inFmt, e.byteStride, t.usage, TRUE)
        ELSE "NOERROR")
    ?? (IF patEnable
        THEN    Refuse(e.version \cap {"RGA_1", "RGA_1_PLUS"} # {}, "NOT_SUPPORTED")
             ?? CheckImage(t.pat, t.prect, e.inRes, e.inFmt, e.byteStride, t.usage, TRUE)
        ELSE "NOERROR")
    ?? CheckImage(t.dst, t.drect, e.outRes, e.outFmt, e.byteStride, t.usage, FALSE)
    ?? (IF reads THEN CheckLimit(t.src, t.dst, e.scaleLimit, t.usage) ELSE "NOERROR")
    ?? (IF t.usage \cap BlendModes # {} THEN CheckBlend(t.pat, t.dst, patEnable) ELSE "NOERROR")
    ?? CheckRotate(e.version, t.usage)

(* A bug: the source is checked as a whole, not the part of it that is read. *)
CheckExternal_Whole(t, e) ==
     Refuse(~Convertible(t.src.fmt) \/ ~Convertible(t.dst.fmt), "NOT_SUPPORTED")
  ?? Check([t EXCEPT !.dst = ApplyRect(t.dst, t.drect)], e)

(* rga_check_external (imcheck): the size of a crop is that of its source's *)
(* rectangle, and whatever the task is the format of src must be known.     *)
CheckExternal(t, e) ==
  LET drect == IF "CROP" \in t.usage
               THEN [t.drect EXCEPT !.w = t.srect.w, !.h = t.srect.h] ELSE t.drect
      u == [t EXCEPT !.src = ApplyRect(t.src, t.srect), !.dst = ApplyRect(t.dst, drect),
                     !.drect = drect,
                     !.pat = IF BufferValid(t.pat) THEN ApplyRect(t.pat, t.prect) ELSE t.pat]
  IN   Refuse(~Convertible(t.src.fmt) \/ ~Convertible(t.dst.fmt), "NOT_SUPPORTED")
    ?? Refuse(BufferValid(t.pat) /\ ~Convertible(t.pat.fmt), "NOT_SUPPORTED")
    ?? Check(u, e)
=============================================================================
