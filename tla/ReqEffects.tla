----------------------------- MODULE ReqEffects -----------------------------
(* What a request asks of the hardware besides moving pixels: blending, a   *)
(* raster operation, a colour key, dithering and so on.  rga_task_submit    *)
(* makes settings of the flags of a task; the generators then write them,   *)
(* one after the other, into the few fields of the request they share.      *)
EXTENDS RgaCheck

(* switch over a masked usage: several flags at once are none of them. *)
Only(flags) == IF \E f \in flags : flags = {f} THEN CHOOSE f \in flags : TRUE ELSE "none"

Gray == {"Y4", "Y8"}
Alpha5551 == {"ARGB_5551", "RGBA_5551"}

(* The blend and the colour key of rga_info.  A colour key brings a blend   *)
(* of its own, unless there is one.                                         *)
BlendSettings(usage) ==
  LET mode  == Only(usage \cap BlendModes)
      keyed == "COLORKEY" \in usage
  IN  [blend  |-> IF mode = "none" /\ keyed THEN "BLEND_SRC" ELSE mode,
       premul |-> \/ mode = "none" /\ keyed
                  \/ "PRE_MUL" \in usage /\ usage \cap BlendModes # {},
       key    |-> keyed]

(* The structures that the generators only copy. *)
CopiedSettings(t) ==
  {f \in t.usage \cap {"MOSAIC", "OSD", "PRE_INTR", "GAUSS", "ALPHA_BIT_MAP"} :
     f = "ALPHA_BIT_MAP" => t.pat.fmt \in Alpha5551}

(* What is written in gray is dithered unless told not to be. *)
DitherSetting(dst) == dst.fmt \in Gray /\ dst.csc # {"RGB_TO_Y4"}

(* The members of the rga_info structures of src and dst. *)
Settings(t) ==
  LET b == BlendSettings(t.usage) IN
  [blend    |-> b.blend, premul |-> b.premul, key |-> b.key,
   rop      |-> "ROP" \in t.usage /\ t.rop,     \* a code of 0 is no operation
   quantize |-> "NN_QUANTIZE" \in t.usage,
   dither   |-> DitherSetting(t.dst),
   copied   |-> CopiedSettings(t)]
-----------------------------------------------------------------------------
(* The fields of the request: flags is alpha_rop_flag, mode alpha_rop_mode, *)
(* blend PD_mode, table what gr_color holds, rop rop_code and key           *)
(* src_trans_mode.  Each operator below is the setter of one effect.        *)
NoEffects == [flags |-> {}, mode |-> {}, blend |-> "none", table |-> "none", rop |-> FALSE,
              key |-> FALSE, copied |-> {}]

SetAlphaEn(e, mode) ==
  [e EXCEPT !.flags = @ \cup {"alpha", "PD", "cal"}, !.mode = @ \cup {"per pixel"}, !.blend = mode]

SetBlend(e, s) ==
  IF s.blend = "none" THEN e
  ELSE [SetAlphaEn(e, s.blend) EXCEPT !.flags = @ \cup (IF s.premul THEN {"real color"} ELSE {})]

(* A dst of 565 is dithered whenever src is RGB, one of 565 too: the test   *)
(* for that asks src to differ from one of two formats.                     *)
DitherEn(src, dst) == IsRgb(src.fmt) /\ dst.fmt = "RGB_565"

SetBitbltMode(e, dither) == IF dither THEN [e EXCEPT !.flags = @ \cup {"dither"}] ELSE e

SetQuantize(e, s) ==
  IF s.quantize THEN [e EXCEPT !.flags = @ \cup {"quantize"}, !.table = "quantize"] ELSE e

(* Dithering assigns the flags, and any gray takes the table. *)
SetGray(e, dst, s) ==
  [e EXCEPT !.flags = IF s.dither THEN {"alpha", "dither"} ELSE @,
            !.table = IF dst.fmt \in Gray THEN "gray" ELSE @]

(* The raster operation assigns the flags and the mode ... *)
SetRop(e, s) ==
  IF s.rop THEN [e EXCEPT !.rop = TRUE, !.flags = {"alpha", "rop"}, !.mode = {"per pixel"}] ELSE e

SetTransMode(e) == [e EXCEPT !.key = TRUE, !.mode = @ \cup {"zero"}]

(* ... and the colour key, the last of them, adds to both. *)
SetColorKey(e, s) ==
  IF s.key THEN SetTransMode([e EXCEPT !.flags = @ \cup {"real color"}]) ELSE e

SetCopied(e, s) == [e EXCEPT !.copied = s.copied]

(* What the generator has written before the raster operation. *)
Combined(src, dst, s) ==
  LET blended == SetBitbltMode(SetBlend(NoEffects, s), DitherEn(src, dst))
  IN  SetGray(SetQuantize(blended, s), dst, s)

(* A bug: the raster operation is written after the colour key. *)
EffectsOf_RopLast(src, dst, s) ==
  SetCopied(SetRop(SetColorKey(Combined(src, dst, s), s), s), s)

EffectsOf(src, dst, s) ==
  SetCopied(SetColorKey(SetRop(Combined(src, dst, s), s), s), s)
=============================================================================
