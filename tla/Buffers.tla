------------------------------- MODULE Buffers -------------------------------
(* How a program describes its images to im2d: handles it imports from the  *)
(* driver, addresses of its own, and the rga_buffer_t that wraps either.    *)
(* Handles, descriptors and addresses are integers; 0 is the one of a       *)
(* zeroed structure.                                                        *)
EXTENDS RgaCheck

(* An address, as the fields of rga_buffer_t: all but one are 0. *)
Zeroed == [handle |-> 0, phy |-> 0, fd |-> 0, vir |-> 0]
OfHandle(n) == [Zeroed EXCEPT !.handle = n]
OfPhysical(n) == [Zeroed EXCEPT !.phy = n]
OfFd(n) == [Zeroed EXCEPT !.fd = n]
OfVirtual(n) == [Zeroed EXCEPT !.vir = n]

(* rga_import_buffer: the handle the driver answers, or 0 if it refuses. *)
ImportBuffer(ok, handle) == IF ok THEN handle ELSE 0

(* With the parameters of an image, a format that is not known is answered  *)
(* by the status NOT_SUPPORTED, which is -1, in the place of a handle.      *)
NotSupported == -1

ImportBufferParam(ok, handle, fmt) ==
  IF Convertible(fmt) THEN ImportBuffer(ok, handle) ELSE NotSupported

(* rga_set_buffer_info: which address the driver is given.  A handle or a   *)
(* descriptor below 1 is none, a pointer that is not NULL is one.           *)
MemOf(at) ==
  CASE at.handle > 0 -> "handle"
    [] at.handle <= 0 /\ at.phy # 0 -> "physical"
    [] at.handle <= 0 /\ at.phy = 0 /\ at.fd > 0 -> "fd"
    [] at.handle <= 0 /\ at.phy = 0 /\ at.fd <= 0 /\ at.vir # 0 -> "virtual"
    [] OTHER -> "none"

(* wrapbuffer_handle, _fd, _physicaladdr and _virtualaddr. *)
Wrap(at, w, h, fmt, ws, hs) ==
  [w |-> w, h |-> h, ws |-> IF ws = 0 THEN w ELSE ws, hs |-> IF hs = 0 THEN h ELSE hs,
   fmt |-> fmt, mem |-> MemOf(at), mode |-> "RASTER", csc |-> {}]

NoBuffer == Wrap(Zeroed, 0, 0, "RGBA_8888", 0, 0)
-----------------------------------------------------------------------------
(* The same by a DRM fourcc and modifier.  The fourccs are those of the     *)
(* formats that stand for their class, every other is one that librga does  *)
(* not know.  A modifier is [vendor, kind, block, split]: block is its low  *)
(* nibble, which each vendor and kind reads its own way, split its bit 5.   *)
DrmFourcc ==
     "ABGR8888" :> "RGBA_8888" @@ "BGR888" :> "RGB_888" @@ "BGR565" :> "RGB_565"
  @@ "BGRA5551" :> "ARGB_5551" @@ "ABGR1555" :> "RGBA_5551"
  @@ "ABGR2101010" :> "RGBA_1010102"
  @@ "YUV420_8BIT" :> "YCbCr_420_SP" @@ "YUV420_10BIT" :> "YCbCr_420_SP_10B"
  @@ "NV12" :> "YCbCr_420_SP" @@ "NV15" :> "YCbCr_420_SP_10B" @@ "P010" :> "P010"
  @@ "YUV420" :> "YCbCr_420_P" @@ "YUYV" :> "YUYV_422" @@ "NV16" :> "YCbCr_422_SP"
  @@ "NV20" :> "YCbCr_422_SP_10B" @@ "YUV422" :> "YCbCr_422_P"
  @@ "VUY101010" :> "YUV_444_10B" @@ "NV24" :> "YCbCr_444_SP"

FormatOf(fourcc) == IF fourcc \in DOMAIN DrmFourcc THEN DrmFourcc[fourcc] ELSE "no format"

(* get_mode_from_drm_modifier.  The checks know two of the layouts, the     *)
(* others (AFBC 32x8, RFBC 64x4 and the tiles of 4x4) are to them a raster. *)
ModeOf(m) ==
  CASE m.vendor = "ARM" /\ m.kind = "AFBC" /\ m.block = 1 -> "FBC"
    [] m.vendor = "ROCKCHIP" /\ m.kind = "TILED" /\ m.block = 1 -> "TILE"
    [] OTHER -> "RASTER"

(* check_drm_modifier_afbc: of blocks of 32x8 an RGB format must be split,  *)
(* and four YUV formats must not.  The nibble is read whoever the modifier  *)
(* belongs to: to Rockchip's tiles 2 means 4x4.                             *)
MustSplit == {"ABGR8888", "BGR888", "ABGR2101010", "VUY101010"}
MustNotSplit == {"YUV420_8BIT", "YUV420_10BIT", "YUYV"}

ModifierAccepted(fourcc, m) ==
  m.block = 2 => /\ fourcc \in MustSplit => m.split
                 /\ fourcc \in MustNotSplit => ~m.split

(* A modifier that is not accepted leaves the structure zeroed. *)
WrapDrm(at, w, h, fourcc, m, ws, hs) ==
  IF ModifierAccepted(fourcc, m)
  THEN [Wrap(at, w, h, FormatOf(fourcc), ws, hs) EXCEPT !.mode = ModeOf(m)]
  ELSE NoBuffer
=============================================================================
