------------------------------ MODULE LegacyReq ------------------------------
(* The generators of the older API, RgaBlit, RgaCollorFill and              *)
(* RgaCollorPalette: what they refuse, and the request they make of a task  *)
(* whose images already have the size of their rectangles (rga_info.rect).  *)
(* im2d's generators were copied from these and changed.  version is        *)
(* rgaContext.mVersion in thousandths; the comparison of that float with    *)
(* the double 1.003 is false for 1.003 itself, that with (float)1.003 is    *)
(* true.                                                                    *)
EXTENDS ReqGen

(* An image without a vertical stride has its height. *)
Strided(image) == IF image.hs = 0 THEN [image EXCEPT !.hs = image.h] ELSE image

AllStrided(t) == [t EXCEPT !.src = Strided(t.src), !.dst = Strided(t.dst), !.pat = Strided(t.pat)]

(* A palette's table keeps a vertical stride of 0. *)
PaletteStrided(t) == [t EXCEPT !.src = Strided(t.src), !.dst = Strided(t.dst)]

(* rga_info *src1, which may be NULL: the zeroed image stands for that. *)
HasSrc1(t) == t.pat.mem # "none" \/ t.pat.w # 0

Images(t) == {t.src, t.dst} \cup IF HasSrc1(t) THEN {t.pat} ELSE {}

(* The scaling, measured against src1 when there is one.  In that case the  *)
(* lower limits are integer divisions, zero, and refuse nothing.            *)
LegacyScale(t, version) ==
  LET to         == Scaled(t, HasSrc1(t))
      Down(most) == t.src.w > most * to.w \/ t.src.h > most * to.h
      Up(most)   == to.w > most * t.src.w \/ to.h > most * t.src.h
  IN  IF HasSrc1(t)
      THEN    Refuse(version <= 2000 /\ Down(8), "FAILED")
           ?? Refuse(Down(16), "FAILED")
      ELSE    Refuse(Down(16) \/ Up(16), "FAILED")
           ?? Refuse(version < 2000 /\ (Down(8) \/ Up(8)), "FAILED")
           ?? Refuse(version < 1003 /\ Up(2), "FAILED")

LegacyInterp(t) == Interp(t, HasSrc1(t), 1996)

(* The width of the interpolation's line buffer is fixed, and dst is not    *)
(* held to 4096.                                                            *)
CheckLegacyInterp(t) ==
  LET to    == Scaled(t, HasSrc1(t))
      how   == LegacyInterp(t)
      downH == t.src.w > to.w
      downV == t.src.h > to.h
      up    == t.src.w < to.w \/ t.src.h < to.h
      linearDown == (downV /\ how.verti = "LINEAR") \/ (downH /\ how.horiz = "LINEAR")
  IN     Refuse(how.verti = "BICUBIC" /\ t.src.h < to.h /\ BicubicTooWide(t, to, 1996), "FAILED")
      ?? Refuse(linearDown /\ up, "FAILED")

(* A full conversion must be the whole of what is asked. *)
CheckLegacyCsc(csc) ==
  LET alone == csc \subseteq FullConversions
  IN  Refuse(FullBits(csc) # {} /\ ~(alone /\ FullPart(csc) \cap Coefficients # {}), "FAILED")

(* An image in no memory ends the call with success, and nothing is sent.   *)
CheckMemory(t) == Refuse(\E image \in Images(t) : image.mem = "none", "nothing")

CheckLegacyBlit(t, version) ==
     CheckHandles(Images(t))
  ?? CheckMemory(t)
  ?? CheckRect(t.src, t.srect)
  ?? (IF HasSrc1(t) THEN CheckRect(t.pat, t.prect) ELSE "NOERROR")
  ?? CheckRect(t.dst, t.drect)
  ?? LegacyScale(t, version)
  ?? CheckLegacyInterp(t)
  ?? CheckLegacyCsc(t.dst.csc)
-----------------------------------------------------------------------------
(* Whether the driver must map an image.  stale: its rga_info holds the     *)
(* mmuFlag of an earlier call and its fd is -1, which the first versions    *)
(* of the driver and physical memory are meant to be safe from.             *)
LegacyMmu(image, version, stale) ==
  IF version <= 1003 THEN TRUE
  ELSE CASE image.mem \in {"fd", "virtual"} -> TRUE
         [] image.mem = "physical"          -> version >= 1600 /\ stale
         [] OTHER                           -> FALSE

(* RgaCollorFill never sets mmuFlag: left is what the caller, or an earlier *)
(* RgaBlit with the same rga_info, put there; unset: its fd is -1.          *)
LegacyFillMmu(image, version, left, unset) ==
  CASE version < 1003        -> FALSE
    [] version >= 1003 /\ image.mem = "fd"       -> left
    [] version >= 1003 /\ image.mem = "virtual"  -> IF version >= 1600 /\ unset THEN left ELSE TRUE
    [] version >= 1003 /\ image.mem = "physical" -> version >= 1600 /\ unset /\ left
    [] OTHER                                     -> FALSE

(* Where the driver finds an image.  The versions that share one word for   *)
(* the descriptors are older than those im2d takes for that: what im2d      *)
(* calls the later RGA1 is here served like RGA2.                           *)
LegacyAddress(image, version) ==
  Address(image, IF version < 1600 THEN "RGA1" ELSE "RGA2")

Sharing(version, first) == IF version \in first..1599 THEN "RGA1" ELSE "RGA2"

(* A bug: the window of dst is given as it lies in memory. *)
LegacyWindow_Unturned(image, rect, quarter, mmu, addr) == Window(image, rect, mmu, addr)

(* The window of dst and src1 under a quarter turn has its sides swapped.   *)
LegacyWindow(image, rect, quarter, mmu, addr) ==
  [x |-> rect.x, y |-> rect.y,
   aw |-> IF quarter THEN image.h ELSE image.w,
   ah |-> IF quarter THEN image.w ELSE image.h,
   vw |-> image.ws, vh |-> image.hs, mmu |-> mmu, addr |-> addr]

(* What is asked replaces what the formats call for, and a full conversion  *)
(* leaves nothing else but the mark that goes with 709.                     *)
LegacyConversion(t) ==
  LET csc   == t.dst.csc
      from  == t.src.fmt
      to    == t.dst.fmt
      over  == t.pat.fmt
      y2r   == IF HasSrc1(t) THEN IsYuv(from) /\ IsRgb(over) /\ (IsRgb(to) \/ IsYuv(to))
               ELSE IsYuv(from) /\ IsRgb(to)
      r2y   == IF HasSrc1(t) THEN IsYuv(to) /\ IsRgb(over) /\ (IsRgb(from) \/ IsYuv(from))
               ELSE IsRgb(from) /\ IsYuv(to)
  IN  IF FullBits(csc) # {}
      THEN [y2r |-> {}, full |-> FullPart(csc),
            r2y |-> IF FullPart(csc) = {"rgb2yuv_709_limit"} THEN {"R2Y_709_LIMIT"} ELSE {}]
      ELSE IF csc # {}
      THEN [y2r |-> csc \cap Y2rModes, r2y |-> csc \cap R2yModes, full |-> {}]
      ELSE [y2r |-> IF y2r THEN {"Y2R_601_LIMIT"} ELSE {}, full |-> {},
            r2y |-> IF r2y THEN {"R2Y_601_LIMIT"} ELSE {}]

(* s are the settings of the effects; there is no blur. *)
LegacyEffects(t, s) == [EffectsOf(t.src, t.dst, s) EXCEPT !.copied = @ \ {"GAUSS"}]

LegacyBlitReq(t, s, version, stale) ==
  LET turn    == Turn(t.usage)
      quarter == turn.rot \in {"ROT_90", "ROT_270"}
      Placed(image, rect, turned) ==
        LegacyWindow(image, rect, turned, LegacyMmu(image, version, stale),
                     LegacyAddress(image, version))
      order == IF HasSrc1(t) THEN <<"src", "pat", "dst">> ELSE <<"src", "dst">>
  IN  [render  |-> "bitblt",
       src     |-> Placed(t.src, t.srect, FALSE),
       dst     |-> Placed(t.dst, t.drect, quarter),
       pat     |-> IF HasSrc1(t) THEN Placed(t.pat, t.prect, quarter) ELSE NoWindow,
       fds     |-> Fds(order, t, Sharing(version, 1004)),
       csc     |-> LegacyConversion(t),
       interp  |-> LegacyInterp(t),
       turn    |-> turn,
       effects |-> LegacyEffects(t, s),
       palette |-> "none",
       handles |-> t.src.mem = "handle"]

(* A fd of 0 that was cleared with the rest is an error, one of -1 is not.  *)
CheckLegacyFill(t, unset) ==
  Refuse(t.dst.mem = "none", IF unset THEN "nothing" ELSE "FAILED")

LegacyFillReq(t, version, left, unset) ==
  LET asked == t.dst.csc # {} /\ t.dst.csc \cap EveryBit = {}
  IN  [render  |-> "color_fill", src |-> NoWindow, pat |-> NoWindow,
       dst     |-> LegacyWindow(t.dst, t.drect, FALSE, LegacyFillMmu(t.dst, version, left, unset),
                                LegacyAddress(t.dst, version)),
       fds     |-> Fds(<<"dst">>, t, Sharing(version, 1003)),
       csc     |-> [y2r  |-> IF asked THEN t.dst.csc \cap Y2rModes ELSE {}, full |-> {},
                    r2y  |-> IF asked THEN t.dst.csc \cap R2yModes
                             ELSE IF IsYuv(t.dst.fmt) THEN {"R2Y_601_LIMIT"} ELSE {}],
       interp  |-> Unscaled, turn |-> Upright, effects |-> NoEffects, palette |-> "none",
       handles |-> t.dst.mem = "handle"]

(* The rectangle of lut is not looked at. *)
CheckPaletteRects(t) == CheckRect(t.src, t.srect) ?? CheckRect(t.dst, t.drect)

(* lut may be NULL; all that are there must be handles. *)
CheckLegacyPalette(t) == Refuse(~AllHandles(Images(t)), "FAILED") ?? CheckPaletteRects(t)

(* The table is sent as im2d sends it.  A gray image is not taken for one   *)
(* with eight bits to an index.                                             *)
LegacyPaletteMode(image) == IF image.fmt = "YCbCr_400" THEN "1 bit" ELSE PaletteMode(image)

LegacyPaletteImages(t, version) ==
  LET Placed(image, rect) ==
        LegacyWindow(image, rect, FALSE, LegacyMmu(image, version, FALSE),
                     LegacyAddress(image, version))
  IN  [src |-> Placed(t.src, t.srect), dst |-> Placed(t.dst, t.drect),
       pat |-> Placed(t.pat, t.prect),
       fds |-> Fds(<<"src", "dst", "pat">>, t, Sharing(version, 1004))]

LegacyTableReq(t, version) ==
  LET images == LegacyPaletteImages(t, version)
  IN  [BlankReq EXCEPT
         !.render = "update_palette_table", !.handles = TRUE,
         !.src = images.src, !.dst = images.dst, !.pat = images.pat, !.fds = images.fds,
         !.palette = LegacyPaletteMode(t.src)]

(* The last ioctl of RgaCollorPalette is given the address of the pointer   *)
(* to the request, and so the driver what lies on the stack there.          *)
StackReq == [BlankReq EXCEPT !.render = "stack"]
-----------------------------------------------------------------------------
(* A bug: the sides are taken for those of dst as it lies in memory. *)
Compat_Unturned(req) ==
  LET d == req.dst
      corner == CASE req.turn.rot = "ROT_90"  -> [d EXCEPT !.x = @ + d.aw - 1]
                  [] req.turn.rot = "ROT_180" -> [d EXCEPT !.x = @ + d.aw - 1, !.y = @ + d.ah - 1]
                  [] req.turn.rot = "ROT_270" -> [d EXCEPT !.y = @ + d.ah - 1]
                  [] req.turn.rot = "none"    -> d
  IN  [req EXCEPT !.dst = corner, !.handles = FALSE]

(* NormalRgaCompatModeConvertRga2: the older drivers count from the corner  *)
(* of dst that the first pixel of src is turned into, and know no handles.  *)
Compat(req) ==
  LET d == req.dst
      corner == CASE req.turn.rot = "ROT_90"  -> [d EXCEPT !.x = @ + d.ah - 1]
                  [] req.turn.rot = "ROT_180" -> [d EXCEPT !.x = @ + d.aw - 1, !.y = @ + d.ah - 1]
                  [] req.turn.rot = "ROT_270" -> [d EXCEPT !.y = @ + d.aw - 1]
                  [] req.turn.rot = "none"    -> d
  IN  [req EXCEPT !.dst = corner, !.handles = FALSE]

=============================================================================
