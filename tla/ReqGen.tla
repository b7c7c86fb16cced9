------------------------------- MODULE ReqGen -------------------------------
(* How a checked task becomes the request the driver gets                   *)
(* (generate_blit_req, generate_fill_req, generate_color_palette_req), and  *)
(* the further refusals on the way.  A request is                           *)
(*   [render, src, dst, pat, fds, csc, interp, turn, effects, palette,      *)
(*    handles]                                                              *)
(* where each image is the window [x, y, aw, ah, vw, vh, mmu, addr] the     *)
(* hardware reads or writes; the window of an image that is not there is    *)
(* NoWindow.                                                                *)
EXTENDS ReqEffects

NoWindow == [x |-> 0, y |-> 0, aw |-> 0, ah |-> 0, vw |-> 0, vh |-> 0, mmu |-> FALSE,
             addr |-> "none"]
-----------------------------------------------------------------------------
(* The color conversion of the task: the value rga_task_submit gives        *)
(* dstinfo.color_space_mode, as the set of the parts it combines.  A pair   *)
(* of colour spaces there is no conversion for yields the error status      *)
(* itself, -1, and so every bit.  FullMode lists the others: from, to and   *)
(* the mode.                                                                *)
EveryBit == {"every bit"}

FullMode ==
  {<<"RGB_FULL", "709_FULL", "rgb2yuv_709_full">>,
   <<"601_LIMIT", "601_FULL", "601_limit_2_601_full">>,
   <<"601_LIMIT", "709_LIMIT", "601_limit_2_709_limit">>,
   <<"601_LIMIT", "709_FULL", "601_limit_2_709_full">>,
   <<"601_FULL", "601_LIMIT", "601_full_2_601_limit">>,
   <<"601_FULL", "709_LIMIT", "601_full_2_709_limit">>,
   <<"601_FULL", "709_FULL", "601_full_2_709_full">>,
   <<"709_LIMIT", "RGB_FULL", "Y2R_709_LIMIT">>,
   <<"709_LIMIT", "601_LIMIT", "709_limit_2_601_limit">>,
   <<"709_LIMIT", "601_FULL", "709_limit_2_601_full">>,
   <<"709_LIMIT", "709_FULL", "709_limit_2_709_full">>,
   <<"709_FULL", "RGB_FULL", "yuv2rgb_709_full">>,
   <<"709_FULL", "601_LIMIT", "709_full_2_601_limit">>,
   <<"709_FULL", "601_FULL", "709_full_2_601_full">>,
   <<"709_FULL", "709_LIMIT", "709_full_2_709_limit">>,
   <<"RGB_FULL", "601_LIMIT", "R2Y_601_LIMIT">>,
   <<"RGB_FULL", "601_FULL", "R2Y_601_FULL">>,
   <<"601_LIMIT", "RGB_FULL", "Y2R_601_LIMIT">>,
   <<"601_FULL", "RGB_FULL", "Y2R_601_FULL">>}

R2y709(features) == IF "DST_FULL_CSC" \in features THEN "rgb2yuv_709_limit" ELSE "R2Y_709_LIMIT"

(* rga_get_csc_mode, from one colour space to another. *)
CscMode(from, to, features) ==
  LET rows  == FullMode \cup {<<"RGB_FULL", "709_LIMIT", R2y709(features)>>}
      modes == {row[3] : row \in {r \in rows : r[1] = from /\ r[2] = to}}
  IN  IF modes # {} \/ (from = to /\ from \in FullSpaces) THEN modes ELSE EveryBit

(* rga_get_default_csc_mode, for an image that names no colour space. *)
SpaceOf(image) ==
  IF image.csc # {} THEN Only(image.csc)
  ELSE IF IsRgb(image.fmt) THEN "RGB_FULL"
  ELSE IF IsYuv(image.fmt) THEN "601_LIMIT" ELSE "none"

Y2r(image) == image.csc \cap Y2rModes
R2y(image) == image.csc \cap R2yModes

(* What the caller asks of dst must fit the formats ... *)
CscLegality(t) ==
  LET patRgb == BufferValid(t.pat) /\ IsRgb(t.pat.fmt)
      full   == \E image \in {t.src, t.pat, t.dst} : image.csc \cap FullSpaces # {}
  IN  Refuse(
        CASE Y2r(t.dst) # {} /\ R2y(t.dst) # {} ->
               ~(IsYuv(t.src.fmt) /\ patRgb /\ IsYuv(t.dst.fmt))
          [] Y2r(t.dst) # {} /\ R2y(t.dst) = {} ->
               ~(IsYuv(t.src.fmt) /\ IsRgb(t.dst.fmt))
          [] Y2r(t.dst) = {} /\ R2y(t.dst) # {} ->
               ~(IsRgb(t.src.fmt) /\ IsYuv(t.dst.fmt))
          [] OTHER -> full /\ BufferValid(t.pat) /\ ~IsRgb(t.pat.fmt),
        "ILLEGAL_PARAM")

(* ... and is then combined. *)
Csc(t, features) ==
  LET threeChannel == BufferValid(t.pat) /\ IsRgb(t.pat.fmt)
      asked        == Y2r(t.dst) \cup R2y(t.dst)
      prefer709    == /\ R2y(t.dst) = {"R2Y_709_LIMIT"}
                      /\ "DST_FULL_CSC" \in features
                      /\ Y2r(t.dst) # {} \/ ~threeChannel
      full         == \E image \in {t.src, t.pat, t.dst} : image.csc \cap FullSpaces # {}
  IN  CASE asked # {} /\ prefer709  -> Y2r(t.dst) \cup {"rgb2yuv_709_limit"}
        [] asked # {} /\ ~prefer709 -> asked
        [] asked = {} /\ full       ->
             IF BufferValid(t.pat)
             THEN CscMode(SpaceOf(t.src), SpaceOf(t.pat), features)
                    \cup CscMode(SpaceOf(t.pat), SpaceOf(t.dst), features)
             ELSE CscMode(SpaceOf(t.src), SpaceOf(t.dst), features)
        [] asked = {} /\ ~full      -> {}

(* The full conversions, which are numbered 0x1 to 0xf: FullBit[i] holds    *)
(* those whose number has the i-th bit.                                     *)
FullBit ==
  <<{"rgb2yuv_601_full", "601_limit_2_709_limit", "709_limit_2_601_limit",
     "601_full_2_709_limit", "709_full_2_601_limit", "rgb2yuv_709_limit",
     "601_limit_2_601_full", "709_limit_2_709_full"},
    {"rgb2yuv_709_full", "601_limit_2_709_limit", "709_limit_2_601_full",
     "601_full_2_709_limit", "709_full_2_601_full", "rgb2yuv_709_limit",
     "601_full_2_601_limit", "709_limit_2_709_full"},
    {"601_limit_2_709_full", "709_limit_2_601_limit", "709_limit_2_601_full",
     "601_full_2_709_limit", "yuv2rgb_709_full", "601_limit_2_601_full",
     "601_full_2_601_limit", "709_limit_2_709_full"},
    {"601_full_2_709_full", "709_full_2_601_limit", "709_full_2_601_full",
     "rgb2yuv_709_limit", "yuv2rgb_709_full", "601_limit_2_601_full",
     "601_full_2_601_limit", "709_limit_2_709_full"}>>

FullConversions == UNION {FullBit[i] : i \in 1..4}

(* What full_csc_mask leaves of a word, and the conversion of that number:  *)
(* two of them or-ed are a third one.                                       *)
FullBits(csc) == {i \in 1..4 : csc \cap (FullBit[i] \cup EveryBit) # {}}

FullPart(csc) == {mode \in FullConversions : FullBits({mode}) = FullBits(csc)}

(* Those NormalRgaFullColorSpaceConvert has coefficients for.  Nobody sees  *)
(* 709_full_2_709_limit, 0x10, which does not fit the mask.                 *)
Coefficients == {"rgb2yuv_601_full", "rgb2yuv_709_full", "rgb2yuv_709_limit",
                 "709_limit_2_601_limit", "601_full_2_709_limit", "709_full_2_601_limit",
                 "709_full_2_601_full"}
Unseen == {"709_full_2_709_limit"}

CheckFullCsc(csc) == Refuse(FullBits(csc) # {} /\ FullPart(csc) \cap Coefficients = {}, "FAILED")

(* A bug: the conversion the formats call for is forgotten with a third image. *)
Conversion_TwoChannels(t, src1, csc) ==
  [y2r  |-> IF IsYuv(t.src.fmt) /\ IsRgb(t.dst.fmt) THEN {"Y2R_601_LIMIT"} ELSE csc \cap Y2rModes,
   r2y  |-> IF IsRgb(t.src.fmt) /\ IsYuv(t.dst.fmt) THEN {"R2Y_601_LIMIT"} ELSE csc \cap R2yModes,
   full |-> FullPart(csc)]

(* The conversion in the request; the formats decide what is not asked for. *)
Conversion(t, src1, csc) ==
  LET colored(f)  == IsRgb(f) \/ IsYuv(f)
      y2rByFormat == /\ IsYuv(t.src.fmt)
                     /\ IF src1 THEN IsRgb(t.pat.fmt) /\ colored(t.dst.fmt)
                                ELSE IsRgb(t.dst.fmt)
      r2yByFormat == /\ IsYuv(t.dst.fmt)
                     /\ IF src1 THEN IsRgb(t.pat.fmt) /\ colored(t.src.fmt)
                                ELSE IsRgb(t.src.fmt)
      y2r == csc \cap Y2rModes
      r2y == csc \cap R2yModes
  IN  [y2r  |-> IF y2r = {} /\ y2rByFormat THEN {"Y2R_601_LIMIT"} ELSE y2r,
       r2y  |-> IF FullPart(csc) = {"rgb2yuv_709_limit"} THEN {"R2Y_709_LIMIT"}
                ELSE IF r2y = {} /\ r2yByFormat THEN {"R2Y_601_LIMIT"} ELSE r2y,
       full |-> FullPart(csc)]
-----------------------------------------------------------------------------
(* The rotation of the request, the way srcinfo.rotation encodes it: a flip *)
(* combined with a rotation goes to the upper bits.  Two rotations at once, *)
(* or two flips, are no rotation and no flip.                               *)
Turn(usage) == [rot |-> Only(usage \cap Rotations), flip |-> Only(usage \cap Flips)]

(* rotation == HAL_TRANSFORM_ROT_90 || rotation == HAL_TRANSFORM_ROT_270: a *)
(* comparison of the whole value, so that a flip hides the quarter turn ... *)
QuarterTurnAlone(turn) == turn.rot \in {"ROT_90", "ROT_270"} /\ turn.flip = "none"

(* ... which the switch over rotation & 0x0f still sees. *)
QuarterTurn(turn) == turn.rot \in {"ROT_90", "ROT_270"}

(* checkRectForRga *)
CheckRect(image, rect) ==
  Refuse(\/ rect.x < 0 \/ rect.y < 0
         \/ image.w < 2 \/ image.h < 2
         \/ rect.x + image.w > image.ws
         \/ rect.y + image.h > image.hs
         \/ /\ IsYuv(image.fmt)
            /\ \/ image.ws % 4 # 0 \/ image.hs % 2 # 0
               \/ rect.x % 2 # 0 \/ rect.y % 2 # 0 \/ image.w % 2 # 0 \/ image.h % 2 # 0,
         "FAILED")

(* Handles for all the images or for none. *)
CheckHandles(images) ==
  Refuse(\E i, j \in images : i.mem = "handle" /\ j.mem # "handle", "FAILED")

(* The scaling is measured against src1 when there is one.  The tests for   *)
(* less than 1/16 and 1/8 compare with an integer zero and never refuse.    *)
Scaled(t, src1) ==
  LET to == IF src1 THEN t.pat ELSE t.dst
  IN  IF QuarterTurnAlone(Turn(t.usage)) THEN Swapped(to) ELSE to

CheckScale(t, src1, driver) ==
  LET most == IF driver \in {"RGA1", "RGA1_OLD"} THEN 8 ELSE 16
      to   == Scaled(t, src1)
  IN  Refuse(t.src.w > most * to.w \/ t.src.h > most * to.h, "FAILED")

(* The interpolation of each direction: what is not chosen by the caller is *)
(* chosen by the direction of the scaling and the width of the line buffer. *)
BicubicTooWide(t, to, bicubic) ==
  t.src.w > bicubic \/ (t.dst.w > bicubic /\ t.src.w > to.w)

(* A bug: the width of the destination is not looked at. *)
Interp_SourceOnly(t, src1, bicubic) ==
  LET to == Scaled(t, src1)
      Default(from, into, up) ==
        IF from > into THEN "AVERAGE" ELSE IF from < into THEN up ELSE "DEFAULT"
  IN  [horiz |-> Default(t.src.w, to.w, "BICUBIC"),
       verti |-> Default(t.src.h, to.h, IF t.src.w > bicubic THEN "LINEAR" ELSE "BICUBIC")]

Interp(t, src1, bicubic) ==
  LET to == Scaled(t, src1)
      Default(from, into, up) ==
        IF from > into THEN "AVERAGE" ELSE IF from < into THEN up ELSE "DEFAULT"
  IN  [horiz |-> IF t.interp.horiz # "DEFAULT" THEN t.interp.horiz
                 ELSE Default(t.src.w, to.w, "BICUBIC"),
       verti |-> IF t.interp.verti # "DEFAULT" THEN t.interp.verti
                 ELSE Default(t.src.h, to.h,
                        IF BicubicTooWide(t, to, bicubic) THEN "LINEAR" ELSE "BICUBIC")]

CheckInterp(t, src1, bicubic) ==
  LET to    == Scaled(t, src1)
      how   == Interp(t, src1, bicubic)
      downH == t.src.w > to.w
      downV == t.src.h > to.h
      up    == t.src.w < to.w \/ t.src.h < to.h
  IN   Refuse(/\ how.verti = "BICUBIC" /\ t.src.h < to.h
              /\ BicubicTooWide(t, to, bicubic), "FAILED")
    ?? Refuse(/\ \/ downV /\ how.verti = "LINEAR"
                 \/ downH /\ how.horiz = "LINEAR"
              /\ up, "FAILED")
    ?? Refuse(downV /\ how.verti = "LINEAR" /\ t.dst.w > 4096, "FAILED")
-----------------------------------------------------------------------------
(* The IOMMU is for memory the driver must map itself; a handle is mapped   *)
(* already.  The first RGA1 always translates what it reads and copies, but *)
(* its fill sets no flag.                                                   *)
MustMap(image) == image.mem \in {"fd", "virtual"}
Mmu(image, driver) == driver = "RGA1_OLD" \/ MustMap(image)
FillMmu(image, driver) == driver # "RGA1_OLD" /\ MustMap(image)

(* Where the window says its image is: a file descriptor or a handle goes   *)
(* to yrgb_addr, except on RGA1, and else the address of the first plane.   *)
ByFd(image) == image.mem \in {"fd", "handle"}

Address(image, driver) ==
  CASE ByFd(image) -> IF driver \in {"RGA1", "RGA1_OLD"} THEN "none" ELSE image.mem
    [] image.mem \in {"physical", "virtual"} -> "address"
    [] image.mem = "none" -> "none"

(* The later RGA1 finds the descriptors in one word, src in the lower half  *)
(* and dst in the upper; each image that has one writes the whole word, the *)
(* third image as if it were dst, so that only the last is seen.            *)
NoFds == [low |-> "none", high |-> "none"]

Fds(order, images, driver) ==
  LET found == {i \in DOMAIN order : ByFd(images[order[i]])}
      last  == order[CHOOSE i \in found : \A j \in found : j <= i]
  IN  IF driver # "RGA1" \/ found = {} THEN NoFds
      ELSE IF last = "src" THEN [NoFds EXCEPT !.low = last]
      ELSE [NoFds EXCEPT !.high = last]

Window(image, rect, mmu, addr) ==
  [x |-> rect.x, y |-> rect.y, aw |-> image.w, ah |-> image.h,
   vw |-> image.ws, vh |-> image.hs, mmu |-> mmu, addr |-> addr]

Copied(image, rect, driver) == Window(image, rect, Mmu(image, driver), Address(image, driver))

Turned(window) == [window EXCEPT !.aw = window.ah, !.ah = window.aw]

(* The windows of dst and src1 are given in the orientation of src. *)
Oriented(window, turn) == IF QuarterTurn(turn) THEN Turned(window) ELSE window

CheckBlit(t, src1, csc, e, driver) ==
     CheckHandles({t.src, t.dst} \cup IF src1 THEN {t.pat} ELSE {})
  ?? CheckRect(t.src, t.srect)
  ?? (IF src1 THEN CheckRect(t.pat, t.prect) ELSE "NOERROR")
  ?? CheckRect(t.dst, t.drect)
  ?? CheckScale(t, src1, driver)
  ?? CheckInterp(t, src1, e.bicubic)
  ?? CheckFullCsc(csc)

BlitReq(t, src1, csc, e, driver) ==
  LET turn == Turn(t.usage)
  IN  [render  |-> "bitblt",
       src     |-> Copied(t.src, t.srect, driver),
       dst     |-> Oriented(Copied(t.dst, t.drect, driver), turn),
       pat     |-> IF src1 THEN Oriented(Copied(t.pat, t.prect, driver), turn)
                   ELSE NoWindow,
       fds     |-> Fds(IF src1 THEN <<"src", "pat", "dst">> ELSE <<"src", "dst">>, t, driver),
       csc     |-> Conversion(t, src1, csc),
       interp  |-> Interp(t, src1, e.bicubic),
       turn    |-> turn,
       effects |-> EffectsOf(t.src, t.dst, Settings(t)),
       palette |-> "none",
       handles |-> t.src.mem = "handle"]

Unscaled == [horiz |-> "DEFAULT", verti |-> "DEFAULT"]
Upright == [rot |-> "none", flip |-> "none"]

(* generate_fill_req makes no check of its own.  The mode of the request is *)
(* one byte, which drops the full conversions.                              *)
FillReq(t, csc, driver) ==
  LET asked == csc # {} /\ csc \cap EveryBit = {}
  IN  [render  |-> "color_fill",
       src     |-> NoWindow,
       dst     |-> Window(t.dst, t.drect, FillMmu(t.dst, driver), Address(t.dst, driver)),
       pat     |-> NoWindow,
       fds     |-> Fds(<<"dst">>, t, driver),
       csc     |-> [y2r  |-> IF asked THEN csc \cap Y2rModes ELSE {},
                    r2y  |-> IF asked THEN csc \cap R2yModes
                             ELSE IF IsYuv(t.dst.fmt) THEN {"R2Y_601_LIMIT"} ELSE {},
                    full |-> {}],
       interp  |-> Unscaled, turn |-> Upright, effects |-> NoEffects, palette |-> "none",
       handles |-> t.dst.mem = "handle"]

(* generate_color_palette_req: handles for all three; the window of the     *)
(* table is not looked at.                                                  *)
AllHandles(images) == \A image \in images : image.mem = "handle"

CheckPalette(t) ==
     Refuse(~AllHandles({t.src, t.dst, t.pat}), "FAILED")
  ?? CheckRect(t.src, t.srect)
  ?? CheckRect(t.dst, t.drect)

(* How many bits an index has; what is not in the switch is left at one. *)
PaletteMode(image) ==
  CASE image.fmt = "BPP2"                  -> "2 bits"
    [] image.fmt = "BPP4"                  -> "4 bits"
    [] image.fmt \in {"BPP8", "YCbCr_400"} -> "8 bits"
    [] OTHER                               -> "1 bit"

PaletteImages(t, driver) ==
  [src |-> Copied(t.src, t.srect, driver),
   dst |-> Copied(t.dst, t.drect, driver),
   pat |-> Copied(t.pat, t.prect, driver),
   fds |-> Fds(<<"src", "dst", "pat">>, t, driver)]

PaletteReq(t, driver) ==
  LET images == PaletteImages(t, driver)
  IN
  [render  |-> "color_palette",
   src     |-> images.src, dst |-> images.dst, pat |-> images.pat, fds |-> images.fds,
   csc     |-> [y2r |-> {}, r2y |-> {}, full |-> {}],
   interp  |-> Unscaled, turn |-> Upright, effects |-> NoEffects,
   palette |-> PaletteMode(t.src), handles |-> TRUE]

(* The request the table is sent to the hardware with, while the palette    *)
(* request is still being made: the same, but for what it renders.          *)
TableReq(t, driver) == [PaletteReq(t, driver) EXCEPT !.render = "update_palette_table"]

(* What the driver gets when generate_blit_req finds no address for src: it *)
(* returns success without having written the request.                      *)
BlankReq ==
  [render  |-> "bitblt", src |-> NoWindow, dst |-> NoWindow, pat |-> NoWindow, fds |-> NoFds,
   csc     |-> [y2r |-> {}, r2y |-> {}, full |-> {}],
   interp  |-> Unscaled, turn |-> Upright, effects |-> NoEffects, palette |-> "none",
   handles |-> FALSE]
-----------------------------------------------------------------------------
(* rga_task_submit up to the request: the buffers, the rectangles and the   *)
(* formats, then the checks, then the generator the usage calls for.  The   *)
(* verdict on src is overwritten by the one on dst.  pat is only looked at  *)
(* by a blend or a palette.                                                 *)
UsesPat(t) == ("COLOR_PALETTE" \in t.usage \/ t.usage \cap BlendModes # {}) /\ BufferValid(t.pat)

Applied(t) ==
  [t EXCEPT !.src = ApplyRect(t.src, t.srect), !.dst = ApplyRect(t.dst, t.drect),
            !.pat = IF UsesPat(t) THEN ApplyRect(t.pat, t.prect) ELSE t.pat]

CheckBuffers(t) ==
     Refuse(~BufferValid(t.dst), "INVALID_PARAM")
  ?? Refuse(~Convertible(t.src.fmt) \/ ~Convertible(t.dst.fmt), "NOT_SUPPORTED")
  ?? Refuse(UsesPat(t) /\ ~Convertible(t.pat.fmt), "NOT_SUPPORTED")

CheckGauss(t) ==
  IF "GAUSS" \notin t.usage THEN "NOERROR"
  ELSE    Refuse(t.usage \cap (Rotations \cup Flips) # {}, "NOT_SUPPORTED")
       ?? Refuse(t.src.w # t.dst.w \/ t.src.h # t.dst.h, "INVALID_PARAM")
       ?? Refuse(t.kernel # 3, "NOT_SUPPORTED")

(* An asynchronous task must have somewhere to leave its fence. *)
CheckFence(t) == Refuse("ASYNC" \in t.usage /\ ~t.fence, "ILLEGAL_PARAM")

Kind(t) ==
  CASE "COLOR_FILL" \in t.usage                                      -> "fill"
    [] "COLOR_FILL" \notin t.usage /\ "COLOR_PALETTE" \in t.usage    -> "palette"
    [] {"COLOR_FILL", "COLOR_PALETTE"} \cap t.usage = {} /\ Blended(t)  -> "blit3"
    [] {"COLOR_FILL", "COLOR_PALETTE"} \cap t.usage = {} /\ ~Blended(t) -> "blit"

(* A blit of a source without an address skips the rest of the generator.   *)
Unaddressed(t) == Kind(t) \in {"blit", "blit3"} /\ ~BufferValid(t.src)

CheckBuild(t, e, driver) ==
  LET csc == Csc(t, e.feature)
  IN  CASE Kind(t) = "fill"    -> "NOERROR"
        [] Kind(t) = "palette" -> CheckPalette(t)
        [] Kind(t) \in {"blit", "blit3"} ->
             IF Unaddressed(t)
             THEN CheckHandles({t.src, t.dst} \cup IF Kind(t) = "blit3" THEN {t.pat} ELSE {})
             ELSE CheckBlit(t, Kind(t) = "blit3", csc, e, driver)

Build(t, e, driver) ==
  LET csc == Csc(t, e.feature)
  IN  CASE Kind(t) = "fill"    -> FillReq(t, csc, driver)
        [] Kind(t) = "palette" -> PaletteReq(t, driver)
        [] Kind(t) \in {"blit", "blit3"} ->
             IF Unaddressed(t) THEN BlankReq
             ELSE BlitReq(t, Kind(t) = "blit3", csc, e, driver)

SubmitStatus(t, e, driver) ==
  LET u == Applied(t)
  IN   CheckBuffers(t)
    ?? Check(u, e)
    ?? CscLegality(u)
    ?? CheckGauss(u)
    ?? CheckFence(u)
    ?? CheckBuild(u, e, driver)
=============================================================================
