------------------------------ MODULE HwTables ------------------------------
(* The capability tables of im2d: hw_info_table, one entry for each IP of   *)
(* the hardware, and the entries that rga_get_info derives from it for the  *)
(* core of each chip it knows.  A format mask is the set of its classes.    *)
EXTENDS TLC

Yuv8 == {"YUV_420_SP_8", "YUV_420_P_8", "YUV_422_SP_8", "YUV_422_P_8"}
Yuv10 == {"YUV_420_SP_10", "YUV_420_P_10", "YUV_422_SP_10", "YUV_422_P_10"}
Rgb == {"RGB", "ARGB_16", "RGBA_16"}

Square(n) == [w |-> n, h |-> n]

RGA_1 ==
  [version |-> {"RGA_1"}, inRes |-> Square(8192), outRes |-> Square(2048),
   byteStride |-> 4, scaleLimit |-> 8, performance |-> 1, bicubic |-> 0,
   inFmt   |-> {"RGB", "ARGB_16", "BPP"} \cup Yuv8,
   outFmt  |-> Rgb \cup Yuv8,
   feature |-> {"COLOR_FILL", "COLOR_PALETTE", "ROP"}]

RGA_1_PLUS ==
  [RGA_1 EXCEPT !.version = {"RGA_1_PLUS"}, !.outRes = Square(4096),
                !.feature = @ \ {"ROP"}]

RGA_2 ==
  [version |-> {"RGA_2"}, inRes |-> Square(8192), outRes |-> Square(4096),
   byteStride |-> 4, scaleLimit |-> 16, performance |-> 2, bicubic |-> 1928,
   inFmt   |-> {"RGB", "ARGB_16"} \cup Yuv8,
   outFmt  |-> Rgb \cup Yuv8,
   feature |-> {"COLOR_FILL", "COLOR_PALETTE", "ROP"}]

RGA_2_LITE0 == [RGA_2 EXCEPT !.version = {"RGA_2_LITE0"}, !.scaleLimit = 8]

RGA_2_LITE1 ==
  [RGA_2_LITE0 EXCEPT !.version = {"RGA_2_LITE1"}, !.inFmt = @ \cup Yuv10,
                      !.feature = @ \ {"ROP"}]

RGA_2_ENHANCE ==
  [RGA_2 EXCEPT !.version = {"RGA_2_ENHANCE"}, !.inFmt = @ \cup Yuv10,
                !.outFmt = @ \cup {"YUYV_420", "YUYV_422"}]

RGA_2_PRO ==
  [RGA_2_ENHANCE EXCEPT
     !.version = {"RGA_2_PRO"}, !.outRes = Square(8192),
     !.inFmt   = @ \cup {"YUV_400", "YUV_444_SP_8", "YUYV_422", "RGBA2BPP", "ALPHA_8"},
     !.outFmt  = @ \cup {"Y4", "Y8", "YUV_400", "YUV_444_SP_8"},
     !.feature = @ \cup {"QUANTIZE", "SRC1_R2Y_CSC", "DST_FULL_CSC", "MOSAIC", "OSD",
                         "PRE_INTR", "ALPHA_BIT_MAP"}]

RGA_2_LITE2 ==
  [RGA_2 EXCEPT !.version = {"RGA_2_LITE2"}, !.bicubic = 0,
                !.inRes = [w |-> 2880, h |-> 8192], !.outRes = [w |-> 2880, h |-> 8192],
                !.inFmt = @ \cup Yuv10 \cup {"YUV_400", "YUYV_422"},
                !.outFmt = @ \cup {"YUV_400", "YUYV_422"}, !.feature = @ \ {"ROP"}]

Rga3Formats == {"RGB", "YUV_420_SP_8", "YUV_422_SP_8", "YUV_420_SP_10", "YUV_422_SP_10",
                "YUYV_422"}

RGA_3 ==
  [version |-> {"RGA_3"}, inRes |-> Square(8176), outRes |-> Square(8128),
   byteStride |-> 16, scaleLimit |-> 8, performance |-> 4, bicubic |-> 8128,
   inFmt   |-> Rga3Formats,
   outFmt  |-> Rga3Formats,
   feature |-> {"FBC", "BLEND_YUV", "BT2020"}]
-----------------------------------------------------------------------------
(* The cores whose entry is the table's with a few bits set or cleared,     *)
(* named after their version triple.                                        *)

(* 3.2.56726 and 3.2.63318: RV1109, RK3566/RK3568 and the third core of RK3588. *)
Rga2eQuantize ==
  [RGA_2_ENHANCE EXCEPT
     !.inFmt   = @ \cup {"YUYV_422", "YUV_400"},
     !.outFmt  = @ \cup {"YUV_400", "Y4"},
     !.feature = @ \cup {"QUANTIZE", "SRC1_R2Y_CSC", "DST_FULL_CSC"}]

(* 3.3.87975, 3.6.92812, 3.7.93215: RV1106, RK3562, RK3528. *)
Rga2eOsd ==
  [Rga2eQuantize EXCEPT !.inFmt = @ \cup {"RGBA2BPP"},
                        !.feature = @ \cup {"MOSAIC", "OSD", "PRE_INTR"}]

(* 3.a.07135: RK3506. *)
Rga2eGauss ==
  [RGA_2_ENHANCE EXCEPT
     !.inRes   = [w |-> 1280, h |-> 8192],
     !.outRes  = [w |-> 1280, h |-> 4096],
     !.inFmt   = @ \cup {"YUYV_422", "YUV_400", "ALPHA_8"},
     !.outFmt  = @ \cup {"YUV_400"},
     !.feature = (@ \cup {"SRC1_R2Y_CSC", "DST_FULL_CSC", "GAUSS"}) \ {"ROP"},
     !.bicubic = 600]

(* 4.1.34669 and 4.1.33689: RV1126B, RK1820. *)
Rga2pNoDither == [RGA_2_PRO EXCEPT !.outFmt = @ \ {"Y4", "Y8"}, !.feature = @ \ {"MOSAIC"}]
Rga2pNoRop == [Rga2pNoDither EXCEPT !.feature = @ \ {"ROP", "QUANTIZE"}]

(* 5.2.48482: RK3538. *)
Rga2pSecure ==
  [RGA_2_PRO EXCEPT
     !.inFmt   = @ \cup {"RGBA_16"},
     !.outFmt  = @ \cup {"YUV_420_SP_10", "YUV_422_SP_10", "RGBA_1010102", "YUV_444_10"},
     !.feature = (@ \cup {"SECURE"}) \ {"QUANTIZE", "ROP"}]

(* 4.0.23998, 4.0.27615, 4.0.28610: RK3228H, RK1808, RK3326. *)
Rga2LiteR2y == [RGA_2_LITE1 EXCEPT !.feature = @ \cup {"SRC1_R2Y_CSC"}]

(* The cores rga_get_info knows, by their version triple. *)
CoreEntry ==
     "2.0.0"     :> RGA_2         @@ "3.0.16445" :> RGA_2
  @@ "3.0.22245" :> RGA_2_ENHANCE @@ "3.0.76831" :> RGA_3
  @@ "3.2.18218" :> RGA_2_ENHANCE @@ "3.2.56726" :> Rga2eQuantize
  @@ "3.2.63318" :> Rga2eQuantize @@ "3.3.87975" :> Rga2eOsd
  @@ "3.6.92812" :> Rga2eOsd      @@ "3.7.93215" :> Rga2eOsd
  @@ "3.a.07135" :> Rga2eGauss    @@ "3.e.19357" :> RGA_2_PRO
  @@ "3.f.23690" :> RGA_2_LITE2   @@ "4.0.18632" :> RGA_2_LITE0
  @@ "4.0.23998" :> Rga2LiteR2y   @@ "4.0.27615" :> Rga2LiteR2y
  @@ "4.0.28610" :> Rga2LiteR2y   @@ "4.1.34669" :> Rga2pNoRop
  @@ "4.1.33689" :> Rga2pNoDither @@ "5.2.48482" :> Rga2pSecure
  @@ "42.0.17760" :> RGA_2_LITE1

(* The guesses from the version string, in the order they are tried. *)
PrefixEntry ==
     "1.3"  :> RGA_1         @@ "1.6"  :> RGA_1_PLUS
  @@ "2.00" :> RGA_2         @@ "3.00" :> RGA_2
  @@ "3.02" :> RGA_2_ENHANCE @@ "4.00" :> RGA_2_LITE0
=============================================================================
