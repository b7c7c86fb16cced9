------------------------------ MODULE ImageCall ------------------------------
(* The image operations of im2d on one thread: each API function turns its  *)
(* arguments into a task, which is checked against the merged entry of the  *)
(* hardware and becomes a request for the driver, or is refused.            *)
EXTENDS HwInfo, ReqGen

CONSTANTS
  DriverOf,  \* the driver that serves each chip
  Srcs,      \* the images an operation may read
  Dsts,      \* and write
  Pats,      \* and blend with, or look colours up in
  Rects,     \* the rectangles the caller may give
  Shifts,    \* the offsets of imtranslate
  Factors,   \* the factors of imresize, [num, den]; num = 0 when not given
  Formats,   \* the formats imcvtcolor may be asked to take the images for
  Modes,     \* the colour conversions it may be asked for, as sets
  Interps,   \* the interpolations imresize may be asked for
  Kernels,   \* the sizes of the kernel of imgaussianBlur
  Lines,     \* the thicknesses of imrectangle
  Tasks      \* the tasks improcess may be asked for

Filters == {"DEFAULT", "LINEAR", "BICUBIC", "AVERAGE"}
Interpolations == [horiz : Filters, verti : Filters]

(* The arguments of rga_single_task_submit, with what matters of im_opt_t   *)
(* (rop: whether rop_code is positive); fence: whether there is somewhere   *)
(* to leave the release fence.                                              *)
ImageTask == [src : Buffers, dst : Buffers, pat : Buffers, srect : Rectangles,
              drect : Rectangles, prect : Rectangles, usage : SUBSET Usages,
              interp : Interpolations, kernel : Nat, rop : BOOLEAN, fence : BOOLEAN]

ASSUME ImageAssumption ==
  /\ DriverOf \in [Chips -> {"MULTI", "RGA2", "RGA1", "RGA1_OLD"}]
  /\ Srcs \subseteq Buffers /\ Dsts \subseteq Buffers /\ Pats \subseteq Buffers
  /\ Rects \subseteq Rectangles
  /\ Shifts \subseteq Int
  /\ Factors \subseteq [num : Nat, den : Nat \ {0}]
  /\ Formats \subseteq FormatNames
  /\ Modes \subseteq SUBSET (R2yModes \cup Y2rModes \cup Y4Modes \cup FullSpaces)
  /\ Interps \subseteq Interpolations
  /\ Kernels \subseteq Nat /\ Lines \subseteq Int
  /\ Tasks \subseteq ImageTask

VARIABLE call  \* the operation that was asked for, and what became of it

imageVars == <<hwVars, call>>

NoRect == [x |-> 0, y |-> 0, w |-> 0, h |-> 0]
NoImage == [w |-> 0, h |-> 0, ws |-> 0, hs |-> 0, fmt |-> "RGBA_8888", mem |-> "none",
            mode |-> "RASTER", csc |-> {}]
DefaultInterp == [horiz |-> "DEFAULT", verti |-> "DEFAULT"]

(* empty_structure: what the wrappers start from. *)
Plain(src, dst) ==
  [src |-> src, dst |-> dst, pat |-> NoImage, srect |-> NoRect, drect |-> NoRect,
   prect |-> NoRect, usage |-> {}, interp |-> DefaultInterp, kernel |-> 0, rop |-> FALSE,
   fence |-> FALSE]

NoReq == [BlankReq EXCEPT !.render = "none"]
Idle == [api |-> "none", task |-> Plain(NoImage, NoImage), status |-> "none", req |-> NoReq,
         table |-> NoReq]

driver == DriverOf[chip]

SameSize(src, dst) == src.w = dst.w /\ src.h = dst.h

(* Another operation: the session is open, and the last call returned. *)
Ready == probe = "ready" /\ call = Idle

(* What the hardware is told of the colours of a palette. *)
TableOf(task) ==
  IF Kind(task) = "palette" THEN TableReq(Applied(task), driver) ELSE NoReq

(* An API function that refuses nothing itself hands the task to            *)
(* rga_single_task_submit; the others are given the status they found.  The *)
(* driver is told the table of a palette while the request is being built,  *)
(* and may refuse it.                                                       *)
Submit(api, task, found) ==
  /\ UNCHANGED hwVars
  /\ LET Done(s) == [api |-> api, task |-> task, status |-> s, req |-> NoReq, table |-> NoReq]
     IN  \E status \in {found ?? SubmitStatus(task, info, driver)} :
           \/ status # "NOERROR" /\ call' = Done(status)
           \/ /\ status = "NOERROR"
              /\ call' = [Done(status) EXCEPT !.req = Build(Applied(task), info, driver),
                                              !.table = TableOf(task)]
           \/ status = "NOERROR" /\ Kind(task) = "palette" /\ call' = Done("FAILED")

(* The wrapper's sync argument and its release_fence_fd, which the wrappers *)
(* for C, and some for C++, give as NULL.                                   *)
Unfenced(task) == {task, [task EXCEPT !.usage = @ \cup {"ASYNC"}]}

Synced(task) ==
  Unfenced(task) \cup {[task EXCEPT !.usage = @ \cup {"ASYNC"}, !.fence = TRUE]}

Call(api, task, found) == \E t \in Synced(task) : Submit(api, t, found)
-----------------------------------------------------------------------------
ImageInit == HwInit /\ call = Idle

Probe == HwNext /\ UNCHANGED call

Imcopy ==
  /\ Ready
  /\ \E src \in Srcs, dst \in Dsts :
       Call("imcopy", Plain(src, dst), Refuse(~SameSize(src, dst), "INVALID_PARAM"))

(* A factor of its own makes the size of dst, evened down for YUV, and then *)
(* the task is checked before it is submitted to be checked again.          *)
Even(n) == n - (n % 2)

Factored(src, dst, fx, fy) ==
  LET Times(n, f) == IF f.num = 0 THEN n ELSE (n * f.num) \div f.den
      w == Times(src.w, fx)
      h == Times(src.h, fy)
  IN  IF fx.num = 0 /\ fy.num = 0 THEN dst
      ELSE IF IsYuv(dst.fmt) THEN [dst EXCEPT !.w = Even(w), !.h = Even(h)]
      ELSE [dst EXCEPT !.w = w, !.h = h]

CheckFactored(src, dst, fx, fy) ==
  IF fx.num = 0 /\ fy.num = 0 THEN "NOERROR"
  ELSE    Refuse(~Convertible(dst.fmt), "NOT_SUPPORTED")
       ?? IF IsYuv(dst.fmt) THEN CheckExternal(Plain(src, Factored(src, dst, fx, fy)), info)
          ELSE "NOERROR"

Resized(src, dst, fx, fy, interp) ==
  [Plain(src, Factored(src, dst, fx, fy)) EXCEPT !.interp = interp]

Imresize ==
  /\ Ready
  /\ \E src \in Srcs, dst \in Dsts, fx, fy \in Factors, interp \in Interps :
       Submit("imresize", Resized(src, dst, fx, fy, interp), CheckFactored(src, dst, fx, fy))

Imcvtcolor ==
  /\ Ready
  /\ \E src \in Srcs, dst \in Dsts, sfmt, dfmt \in Formats, mode \in Modes :
       Submit("imcvtcolor",
              Plain([src EXCEPT !.fmt = sfmt],
                    [dst EXCEPT !.fmt = dfmt, !.csc = IF @ = {} THEN mode ELSE @]), "NOERROR")

(* A bug: the size of the rectangle is not given to dst. *)
CropTask_Stretched(src, dst, rect) == [Plain(src, dst) EXCEPT !.srect = rect]

CropTask(src, dst, rect) ==
  [Plain(src, dst) EXCEPT !.srect = rect, !.drect = [NoRect EXCEPT !.w = rect.w, !.h = rect.h]]

Imcrop ==
  /\ Ready
  /\ \E src \in Srcs, dst \in Dsts, rect \in Rects :
       Submit("imcrop", CropTask(src, dst, rect), "NOERROR")

Part(x, y, w, h) == [x |-> x, y |-> y, w |-> w, h |-> h]

Translated(src, dst, x, y) ==
  [Plain(src, dst) EXCEPT !.srect = Part(0, 0, src.w - x, src.h - y),
                          !.drect = Part(x, y, src.w - x, src.h - y)]

Imtranslate ==
  /\ Ready
  /\ \E src \in Srcs, dst \in Dsts, x, y \in Shifts :
       Submit("imtranslate", Translated(src, dst, x, y),
              Refuse(~SameSize(src, dst), "INVALID_PARAM"))

WithFlag(src, dst, flag) == [Plain(src, dst) EXCEPT !.usage = {flag}]

Imrotate ==
  /\ Ready
  /\ \E src \in Srcs, dst \in Dsts, rotation \in Rotations :
       Submit("imrotate", WithFlag(src, dst, rotation), "NOERROR")

Imflip ==
  /\ Ready
  /\ \E src \in Srcs, dst \in Dsts, mode \in Flips :
       Submit("imflip", WithFlag(src, dst, mode), "NOERROR")

(* imblend composites with a zeroed image. *)
Over(srcA, srcB, dst, mode) == [Plain(srcA, dst) EXCEPT !.pat = srcB, !.usage = {mode}]

Imcomposite ==
  /\ Ready
  /\ \E srcA \in Srcs, srcB \in Pats \cup {NoImage}, dst \in Dsts, mode \in BlendModes :
       Submit("imcomposite", Over(srcA, srcB, dst, mode), "NOERROR")

OsdTask(osd, dst, rect) ==
  [Plain(dst, dst) EXCEPT !.pat = osd, !.srect = rect, !.drect = rect,
                          !.usage = {"BLEND_DST_OVER", "OSD"}]

Imosd ==
  /\ Ready
  /\ \E osd \in Pats, dst \in Dsts, rect \in Rects :
       Submit("imosd", OsdTask(osd, dst, rect), "NOERROR")

(* imcolorkey, imquantize and imrop differ in the flag they set.            *)
EffectFlags == {"COLORKEY", "NN_QUANTIZE", "ROP"}

EffectTask(src, dst, flag, rop) ==
  [Plain(src, dst) EXCEPT !.usage = {flag}, !.rop = (flag = "ROP" /\ rop)]

Imeffect ==
  /\ Ready
  /\ \E src \in Srcs, dst \in Dsts, flag \in EffectFlags, rop \in BOOLEAN :
       Submit("imeffect", EffectTask(src, dst, flag, rop), "NOERROR")

MosaicTask(image, rect) ==
  [Plain(image, image) EXCEPT !.srect = rect, !.drect = rect, !.usage = {"MOSAIC"}]

Immosaic ==
  /\ Ready
  /\ \E image \in Dsts, rect \in Rects : Submit("immosaic", MosaicTask(image, rect), "NOERROR")

ImgaussianBlur ==
  /\ Ready
  /\ \E src \in Srcs, dst \in Dsts, kernel \in Kernels :
       Submit("imgaussianBlur", [Plain(src, dst) EXCEPT !.usage = {"GAUSS"}, !.kernel = kernel],
              Refuse(~SameSize(src, dst), "INVALID_PARAM"))

PaletteTask(src, dst, lut) == [Plain(src, dst) EXCEPT !.pat = lut, !.usage = {"COLOR_PALETTE"}]

Impalette ==
  /\ Ready
  /\ \E src \in Srcs, dst \in Dsts, lut \in Pats :
       Submit("impalette", PaletteTask(src, dst, lut),
              Refuse(~SameSize(src, dst), "INVALID_PARAM"))

FillTask(dst, rect) == [Plain(NoImage, dst) EXCEPT !.drect = rect, !.usage = {"COLOR_FILL"}]

Imfill ==
  /\ Ready
  /\ \E dst \in Dsts, rect \in Rects : Call("imfill", FillTask(dst, rect), "NOERROR")

(* imrectangle fills the four sides, each by a call of its own; a negative  *)
(* thickness fills the whole.                                               *)
Sides(r, thickness) ==
  IF thickness < 0 THEN {r}
  ELSE LET inner == r.h - 2 * thickness IN
       {Part(r.x, r.y, r.w, thickness), Part(r.x, r.y + r.h - thickness, r.w, thickness),
        Part(r.x, r.y + thickness, thickness, inner),
        Part(r.x + r.w - thickness, r.y + thickness, thickness, inner)}

Imrectangle ==
  /\ Ready
  /\ \E dst \in Dsts, rect \in Rects, thickness \in Lines : \E side \in Sides(rect, thickness) :
       Call("imrectangle", FillTask(dst, side), "NOERROR")

(* improcess gives neither options nor a fence. *)
Improcess ==
  /\ Ready
  /\ \E t \in Tasks :
       Submit("improcess", [t EXCEPT !.interp = DefaultInterp, !.kernel = 0, !.rop = FALSE,
                                     !.fence = FALSE], "NOERROR")

(* rga_get_opt: what is read of the options, by the version they say they   *)
(* are of.  Up to 1.7.2 only the fields of that time are, not those of the  *)
(* interpolation and of the kernel; above 2.0.0 none is, and the task goes  *)
(* on with options that are all zero.                                       *)
ReadOpt(t, version) ==
  CASE version = "above 2.0.0" -> [t EXCEPT !.interp = DefaultInterp, !.kernel = 0, !.rop = FALSE]
    [] version = "up to 1.7.2" -> [t EXCEPT !.interp = DefaultInterp, !.kernel = 0]
    [] version = "current"     -> t

OptVersions == {"up to 1.7.2", "current", "above 2.0.0"}

ImprocessOpt ==
  /\ Ready
  /\ \E t \in Tasks, v \in OptVersions : Submit("improcessOpt", ReadOpt(t, v), "NOERROR")

Imcheck ==
  /\ Ready
  /\ \E t \in Tasks :
       /\ call' = [api |-> "imcheck", task |-> t, status |-> CheckExternal(t, info),
                   req |-> NoReq, table |-> NoReq]
       /\ UNCHANGED hwVars
-----------------------------------------------------------------------------
(* The same operations as tasks of a job: rga_task_submit makes and checks  *)
(* the request as before, gives it to the job, and is never told where to   *)
(* leave a fence.  The fills of a rectangle and of an array are given one   *)
(* by one, and those before a refused one stay in the job.                  *)
ImcopyTask ==
  /\ Ready
  /\ \E src \in Srcs, dst \in Dsts :
       Submit("imcopyTask", Plain(src, dst), Refuse(~SameSize(src, dst), "INVALID_PARAM"))

ImresizeTask ==
  /\ Ready
  /\ \E src \in Srcs, dst \in Dsts, fx, fy \in Factors, interp \in Interps :
       Submit("imresizeTask", Resized(src, dst, fx, fy, interp), CheckFactored(src, dst, fx, fy))

ImcropTask ==
  /\ Ready
  /\ \E src \in Srcs, dst \in Dsts, rect \in Rects :
       Submit("imcropTask", CropTask(src, dst, rect), "NOERROR")

(* Unlike imcvtcolor, whatever conversion dst asks for is overwritten. *)
ImcvtcolorTask ==
  /\ Ready
  /\ \E src \in Srcs, dst \in Dsts, sfmt, dfmt \in Formats, mode \in Modes :
       Submit("imcvtcolorTask",
              Plain([src EXCEPT !.fmt = sfmt], [dst EXCEPT !.fmt = dfmt, !.csc = mode]), "NOERROR")

ImtranslateTask ==
  /\ Ready
  /\ \E src \in Srcs, dst \in Dsts, x, y \in Shifts :
       Submit("imtranslateTask", Translated(src, dst, x, y),
              Refuse(~SameSize(src, dst), "INVALID_PARAM"))

ImrotateTask ==
  /\ Ready
  /\ \E src \in Srcs, dst \in Dsts, flag \in Rotations \cup Flips :
       Submit("imrotateTask", WithFlag(src, dst, flag), "NOERROR")

ImcompositeTask ==
  /\ Ready
  /\ \E srcA \in Srcs, srcB \in Pats \cup {NoImage}, dst \in Dsts, mode \in BlendModes :
       Submit("imcompositeTask", Over(srcA, srcB, dst, mode), "NOERROR")

ImosdTask ==
  /\ Ready
  /\ \E osd \in Pats, dst \in Dsts, rect \in Rects :
       Submit("imosdTask", OsdTask(osd, dst, rect), "NOERROR")

ImeffectTask ==
  /\ Ready
  /\ \E src \in Srcs, dst \in Dsts, flag \in EffectFlags, rop \in BOOLEAN :
       Submit("imeffectTask", EffectTask(src, dst, flag, rop), "NOERROR")

ImmosaicTask ==
  /\ Ready
  /\ \E image \in Dsts, rect \in Rects :
       Submit("immosaicTask", MosaicTask(image, rect), "NOERROR")

ImfillTask ==
  /\ Ready
  /\ \E dst \in Dsts, rect \in Rects : Submit("imfillTask", FillTask(dst, rect), "NOERROR")

ImrectangleTask ==
  /\ Ready
  /\ \E dst \in Dsts, rect \in Rects, thickness \in Lines : \E side \in Sides(rect, thickness) :
       Submit("imrectangleTask", FillTask(dst, side), "NOERROR")

ImpaletteTask ==
  /\ Ready
  /\ \E src \in Srcs, dst \in Dsts, lut \in Pats :
       Submit("impaletteTask", PaletteTask(src, dst, lut),
              Refuse(~SameSize(src, dst), "INVALID_PARAM"))

ImprocessTask ==
  /\ Ready
  /\ \E t \in Tasks, v \in OptVersions :
       Submit("improcessTask", [ReadOpt(t, v) EXCEPT !.fence = FALSE], "NOERROR")
-----------------------------------------------------------------------------
Return ==
  /\ call # Idle
  /\ call' = Idle
  /\ UNCHANGED hwVars

ImageNext ==
  \/ Probe \/ Return
  \/ Imcopy \/ Imresize \/ Imcvtcolor \/ Imcrop \/ Imtranslate \/ Imrotate \/ Imflip
  \/ Imcomposite \/ Imosd \/ Imeffect \/ Immosaic \/ ImgaussianBlur \/ Impalette \/ Imfill
  \/ Imrectangle \/ Improcess \/ ImprocessOpt \/ Imcheck
  \/ ImcopyTask \/ ImresizeTask \/ ImcropTask \/ ImcvtcolorTask \/ ImtranslateTask \/ ImrotateTask
  \/ ImcompositeTask \/ ImosdTask \/ ImeffectTask \/ ImmosaicTask \/ ImfillTask \/ ImrectangleTask
  \/ ImpaletteTask \/ ImprocessTask

ImageSpec == ImageInit /\ [][ImageNext]_imageVars
-----------------------------------------------------------------------------
Statuses == {"NOERROR", "ILLEGAL_PARAM", "INVALID_PARAM", "NOT_SUPPORTED", "FAILED"}

(* The entry, and the shape of what a call leaves behind. *)
ImageTypeOK ==
  /\ HwTypeOK
  /\ call.task \in ImageTask
  /\ call = Idle \/ call.status \in Statuses
  /\ call.req.render \in {"none", "bitblt", "color_fill", "color_palette"}
  /\ call.req.render # "none" => call.status = "NOERROR"

Sent == call.req.render # "none"

(* Requests that generate_blit_req or another generator really wrote.       *)
Written == Sent /\ call.req # BlankReq

Back(window) == IF QuarterTurn(call.req.turn) THEN Turned(window) ELSE window

Inside(window, res) ==
  /\ window.x >= 0 /\ window.x + window.aw <= window.vw
  /\ window.y >= 0 /\ window.y + window.ah <= window.vh
  /\ window.aw \in 2..res.w /\ window.ah \in 2..res.h

(* A request that reaches the driver reads and writes inside the buffers    *)
(* its images declare and within what the merged entry says the hardware    *)
(* can address, whatever API function made it, whichever rectangles were    *)
(* applied, and with the windows turned back to how they lie in memory      *)
(* (rga_check_info, checkRectForRga).  An operation that clears a rectangle *)
(* with an offset and no size is left out: nobody adds the two up.          *)
AcceptedInside ==
  Written =>
    LET req == call.req
    IN  /\ req.src # NoWindow => Inside(req.src, info.inRes)
        /\ \/ Inside(Back(req.dst), info.outRes)
           \/ req.render = "color_fill" /\ ~Sized(call.task.drect)
        /\ req.render = "bitblt" /\ req.pat # NoWindow => Inside(Back(req.pat), info.inRes)

(* The scaling the hardware is asked for, between the windows it is given,  *)
(* is within the limit the check was made against: the check swaps the      *)
(* sides of a quarter turn, the generator swaps the windows, in different   *)
(* files and by different tests (rga_check_limit, generate_blit_req).  Two  *)
(* rotations at once, which are one for the check and none for the          *)
(* generator, are left out.                                                 *)
OneRotation(usage) == \A r, s \in usage \cap Rotations : r = s

ScaleAsSeen ==
  (Written /\ call.req.render = "bitblt" /\ OneRotation(call.task.usage)) =>
    LET Within(a, b) == ~TooFar(a, b, info.scaleLimit)
    IN  Within(call.req.src.aw, call.req.dst.aw) /\ Within(call.req.src.ah, call.req.dst.ah)

(* imcheck is never stricter than the submission: what improcess would send *)
(* to the driver, imcheck lets through.  IM_CROP is left out, which only    *)
(* imcheck looks at, and so is a pat that no flag of the task uses.         *)
CheckAgrees ==
  (Sent /\ call.api = "improcess" /\ "CROP" \notin call.task.usage
        /\ (BufferValid(call.task.pat) => UsesPat(call.task))) =>
    CheckExternal(call.task, info) = "NOERROR"

(* The interpolation chosen for a caller who asks for none is one that      *)
(* generate_blit_req then accepts, for every scaling the check lets through *)
(* and every width of the line buffer.                                      *)
DefaultInterpAccepted ==
  (/\ call # Idle /\ call.task.interp = DefaultInterp
   /\ Kind(call.task) \in {"blit", "blit3"}
   /\ CheckBuffers(call.task) = "NOERROR"
   /\ Check(Applied(call.task), info) = "NOERROR") =>
    CheckInterp(Applied(call.task), Kind(call.task) = "blit3", info.bicubic) = "NOERROR"

(* A colour space that fits the format it is given for. *)
Agrees(image) ==
  \A m \in image.csc \cap FullSpaces : IF m = "RGB_FULL" THEN IsRgb(image.fmt) ELSE IsYuv(image.fmt)

(* The conversion of a copy is the one its formats call for: YUV is turned  *)
(* into RGB only when src is YUV, RGB into YUV only when dst is, and images *)
(* of different colours, or one of YUV and an RGB image it is blended with, *)
(* are never combined as they are, whichever of the three ways of asking    *)
(* for a conversion was used (rga_task_submit, rga_get_csc_mode,            *)
(* NormalRgaFullColorSpaceConvert).  A blend whose other image has neither  *)
(* colour space (alpha, indices) is left out: generate_blit_req then sets   *)
(* no conversion, whatever the colours of the two images it blends.         *)
ConversionMatches ==
  (/\ Written /\ Kind(call.task) \in {"blit", "blit3"}
   /\ \A image \in {call.task.src, call.task.dst, call.task.pat} : Agrees(image)
   /\ BufferValid(call.task.pat) => Kind(call.task) = "blit3") =>
    LET csc        == call.req.csc
        from       == call.task.src.fmt
        to         == call.task.dst.fmt
        blended    == Kind(call.task) = "blit3"
        pat        == call.task.pat.fmt
        colored(f) == IsRgb(f) \/ IsYuv(f)
    IN  /\ csc.y2r # {} => IsYuv(from)
        /\ csc.r2y # {} => IsYuv(to)
        /\ (IsYuv(from) /\ IsRgb(IF blended THEN pat ELSE to) /\ (blended => colored(to))) =>
             csc.y2r \cup csc.full # {}
        /\ (IsYuv(to) /\ IsRgb(IF blended THEN pat ELSE from) /\ (blended => colored(from))) =>
             csc.r2y \cup csc.full # {}

(* The operations that must not scale do not, although every one of them    *)
(* hands over rectangles that are applied to src and dst apart.  A crop of  *)
(* no size is one of the whole of src to the whole of dst.                  *)
Unscaled1to1 ==
  (/\ Written
   /\ \/ call.api \in {"imcopy", "imtranslate", "immosaic", "imgaussianBlur",
                      "imcopyTask", "imtranslateTask", "immosaicTask"}
      \/ call.api \in {"imcrop", "imcropTask"} /\ Sized(call.task.srect)) =>
    call.req.src.aw = call.req.dst.aw /\ call.req.src.ah = call.req.dst.ah

(* The fields of a request that several effects share hold all of them: the *)
(* generator writes the blend, the dithering, the quantization, the raster  *)
(* operation and the colour key one after the other, some by assignment,    *)
(* and what an earlier one wrote must outlast the later ones.  It does not, *)
(* by design, where a raster operation takes the place of the blend and the *)
(* quantization, or the dithering of gray does (generate_blit_req,          *)
(* NormalRgaNNQuantizeMode, NormalRgaDitherMode).                           *)
EffectsKept ==
  (Written /\ call.req.render = "bitblt") =>
    LET t        == call.task
        e        == call.req.effects
        rop      == "ROP" \in t.usage /\ t.rop
        replaced == rop \/ (t.dst.fmt \in Gray /\ t.dst.csc # {"RGB_TO_Y4"})
    IN  /\ rop => e.rop /\ "rop" \in e.flags /\ "per pixel" \in e.mode
        /\ "COLORKEY" \in t.usage =>
             e.key /\ "real color" \in e.flags /\ "zero" \in e.mode /\ e.blend # "none"
        /\ \A b \in BlendModes : t.usage \cap BlendModes = {b} =>
             /\ e.blend = b /\ "per pixel" \in e.mode
             /\ replaced \/ {"alpha", "PD", "cal"} \subseteq e.flags
             /\ "PRE_MUL" \in t.usage => replaced \/ "real color" \in e.flags
        /\ "NN_QUANTIZE" \in t.usage =>
             /\ replaced \/ "quantize" \in e.flags
             /\ e.table = "quantize" \/ t.dst.fmt \in Gray
        /\ t.usage \cap {"MOSAIC", "OSD", "PRE_INTR", "GAUSS"} \subseteq e.copied

(* On hardware that im2d neither knows nor guesses every operation is       *)
(* refused, also by the calls that follow the failed opening of the session *)
(* and find it open, with the error entry in it and none of what had been   *)
(* merged of the cores before the unknown one (rga_get_info).               *)
UnknownRefused == (~AllKnown /\ ~Guessed) => call = Idle \/ call.status # "NOERROR"
=============================================================================
