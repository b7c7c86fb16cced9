--------------------------- MODULE ImageCall_proofs ---------------------------
(* Proofs about ImageCall: for any chips, tables, images, rectangles and    *)
(* tasks, what the checks let through is inside the buffers and the limits. *)
EXTENDS ImageCall, Query, TLAPS

LEMMA AndThen ==
  ASSUME NEW first, NEW second
  PROVE  (first ?? second) = "NOERROR" <=> first = "NOERROR" /\ second = "NOERROR"
  BY DEF ??
-----------------------------------------------------------------------------
(* What rga_check_info lets through. *)
LEMMA CheckInfoFacts ==
  ASSUME NEW image \in Buffers, NEW rect \in Rectangles, NEW res \in Res,
         CheckInfo(image, rect, res) = "NOERROR"
  PROVE  /\ image.w >= 2 /\ image.h >= 2
         /\ image.w <= res.w /\ image.h <= res.h
         /\ rect.x >= 0 /\ rect.y >= 0 /\ rect.w >= 0 /\ rect.h >= 0
         /\ rect.x + rect.w <= image.ws /\ rect.y + rect.h <= image.hs
  <1>1. DOMAIN rect = {"x", "y", "w", "h"}
    BY DEF Rectangles
  <1>2. /\ ~(image.w < 2 \/ image.h < 2)
        /\ ~(\E side \in DOMAIN rect : rect[side] < 0)
        /\ ~(rect.w + rect.x > image.ws \/ rect.h + rect.y > image.hs)
        /\ ~(\/ image.w > res.w \/ image.h > res.h
             \/ rect.w > res.w \/ rect.h > res.h)
    BY AndThen DEF CheckInfo, Refuse
  <1>3. /\ image.w \in Int /\ image.h \in Int /\ image.ws \in Int /\ image.hs \in Int
        /\ rect.x \in Int /\ rect.y \in Int /\ rect.w \in Int /\ rect.h \in Int
        /\ res.w \in Int /\ res.h \in Int
    BY DEF Buffers, Rectangles, Res
  <1>4. rect.x >= 0 /\ rect.y >= 0 /\ rect.w >= 0 /\ rect.h >= 0
    BY <1>1, <1>2, <1>3
  <1> QED
    BY <1>2, <1>3, <1>4

(* What checkRectForRga lets through. *)
LEMMA CheckRectFacts ==
  ASSUME NEW image \in Buffers, NEW rect \in Rectangles,
         CheckRect(image, rect) = "NOERROR"
  PROVE  /\ rect.x >= 0 /\ rect.x + image.w <= image.ws
         /\ rect.y >= 0 /\ rect.y + image.h <= image.hs
  BY DEF CheckRect, Refuse, Buffers, Rectangles

LEMMA CheckImageFacts ==
  ASSUME NEW image, NEW rect, NEW res, NEW classes, NEW stride, NEW usage, NEW isRead,
         CheckImage(image, rect, res, classes, stride, usage, isRead) = "NOERROR"
  PROVE  CheckInfo(image, rect, res) = "NOERROR"
  BY AndThen DEF CheckImage

(* The parts of rga_check. *)
LEMMA CheckFacts ==
  ASSUME NEW t, NEW e, Check(t, e) = "NOERROR"
  PROVE  /\ CheckInfo(t.dst, t.drect, e.outRes) = "NOERROR"
         /\ "COLOR_FILL" \notin t.usage =>
              /\ CheckInfo(t.src, t.srect, e.inRes) = "NOERROR"
              /\ CheckLimit(t.src, t.dst, e.scaleLimit, t.usage) = "NOERROR"
         /\ Blended(t) => CheckInfo(t.pat, t.prect, e.inRes) = "NOERROR"
  <1> DEFINE reads == "COLOR_FILL" \notin t.usage
             srcOk == CheckImage(t.src, t.srect, e.inRes, e.inFmt, e.byteStride, t.usage, TRUE)
             patOk == CheckImage(t.pat, t.prect, e.inRes, e.inFmt, e.byteStride, t.usage, TRUE)
             dstOk == CheckImage(t.dst, t.drect, e.outRes, e.outFmt, e.byteStride, t.usage, FALSE)
             limitOk == CheckLimit(t.src, t.dst, e.scaleLimit, t.usage)
  <1>1. /\ (IF reads THEN srcOk ELSE "NOERROR") = "NOERROR"
        /\ (IF Blended(t)
            THEN Refuse(e.version \cap {"RGA_1", "RGA_1_PLUS"} # {}, "NOT_SUPPORTED") ?? patOk
            ELSE "NOERROR") = "NOERROR"
        /\ dstOk = "NOERROR"
        /\ (IF reads THEN limitOk ELSE "NOERROR") = "NOERROR"
    BY DEF Check, ??
  <1>2. reads => srcOk = "NOERROR" /\ limitOk = "NOERROR"
    BY <1>1
  <1>3. Blended(t) => patOk = "NOERROR"
    BY <1>1 DEF ??
  <1> QED
    BY <1>1, <1>2, <1>3, CheckImageFacts
-----------------------------------------------------------------------------
(* From the arguments to the request.                                       *)

LEMMA ApplyRectFacts ==
  ASSUME NEW image \in Buffers, NEW rect \in Rectangles
  PROVE  /\ ApplyRect(image, rect) \in Buffers
         /\ ApplyRect(image, rect).ws = image.ws
         /\ ApplyRect(image, rect).hs = image.hs
         /\ ApplyRect(image, rect).mem = image.mem
         /\ Sized(rect) => /\ ApplyRect(image, rect).w = rect.w
                           /\ ApplyRect(image, rect).h = rect.h
  BY DEF ApplyRect, Buffers, Rectangles

LEMMA AppliedFacts ==
  ASSUME NEW t \in ImageTask
  PROVE  /\ Applied(t) \in ImageTask
         /\ Applied(t).usage = t.usage /\ Applied(t).pat.mem = t.pat.mem
         /\ Applied(t).drect = t.drect
         /\ Applied(t).dst = ApplyRect(t.dst, t.drect)
  <1>1. /\ t.src \in Buffers /\ t.dst \in Buffers /\ t.pat \in Buffers
        /\ t.srect \in Rectangles /\ t.drect \in Rectangles /\ t.prect \in Rectangles
    BY DEF ImageTask
  <1>2. /\ ApplyRect(t.src, t.srect) \in Buffers
        /\ ApplyRect(t.dst, t.drect) \in Buffers
        /\ ApplyRect(t.pat, t.prect) \in Buffers
        /\ ApplyRect(t.pat, t.prect).mem = t.pat.mem
    BY <1>1, ApplyRectFacts
  <1> QED
    BY <1>1, <1>2 DEF Applied, ImageTask

LEMMA SubmitStatusFacts ==
  ASSUME NEW t, NEW e, NEW d, SubmitStatus(t, e, d) = "NOERROR"
  PROVE  Check(Applied(t), e) = "NOERROR" /\ CheckBuild(Applied(t), e, d) = "NOERROR"
  BY DEF SubmitStatus, ??

(* The four kinds are disjoint and there is no fifth.                       *)
LEMMA KindFacts ==
  ASSUME NEW t \in ImageTask
  PROVE  /\ Kind(t) \in {"fill", "palette", "blit3", "blit"}
         /\ Kind(t) = "fill" <=> "COLOR_FILL" \in t.usage
         /\ Kind(t) = "blit3" => Blended(t)
  BY DEF Kind

(* A window is the sizes and strides of its image at the rectangle's offset. *)
LEMMA WindowFacts ==
  ASSUME NEW image \in Buffers, NEW rect \in Rectangles, NEW res \in Res, NEW mmu, NEW addr,
         CheckInfo(image, rect, res) = "NOERROR",
         CheckRect(image, rect) = "NOERROR" \/ (image.w = rect.w /\ image.h = rect.h)
  PROVE  Inside(Window(image, rect, mmu, addr), res)
  <1>1. /\ image.w \in Int /\ image.h \in Int /\ res.w \in Int /\ res.h \in Int
        /\ rect.x \in Int /\ rect.y \in Int
    BY DEF Buffers, Rectangles, Res
  <1>2. /\ rect.x >= 0 /\ rect.x + image.w <= image.ws
        /\ rect.y >= 0 /\ rect.y + image.h <= image.hs
    BY CheckInfoFacts, CheckRectFacts
  <1>3. image.w \in 2..res.w /\ image.h \in 2..res.h
    BY <1>1, CheckInfoFacts
  <1> QED
    BY <1>2, <1>3 DEF Inside, Window

(* Turning the window of dst or src1 back gives the window as it was made.  *)
LEMMA TurnedBack ==
  ASSUME NEW image, NEW rect, NEW mmu, NEW addr, NEW turn
  PROVE  LET oriented == Oriented(Window(image, rect, mmu, addr), turn)
         IN  (IF QuarterTurn(turn) THEN Turned(oriented) ELSE oriented)
               = Window(image, rect, mmu, addr)
  BY DEF Oriented, Turned, Window

(* AcceptedInside, of the request that is built.                            *)
TurnedFrom(window, turn) == IF QuarterTurn(turn) THEN Turned(window) ELSE window

RequestInside(req, t, e) ==
  /\ req.src # NoWindow => Inside(req.src, e.inRes)
  /\ \/ Inside(TurnedFrom(req.dst, req.turn), e.outRes)
     \/ req.render = "color_fill" /\ ~Sized(t.drect)
  /\ req.render = "bitblt" /\ req.pat # NoWindow =>
       Inside(TurnedFrom(req.pat, req.turn), e.inRes)

LEMMA BuildInside ==
  ASSUME NEW t \in ImageTask, NEW e \in Entry, NEW d,
         SubmitStatus(t, e, d) = "NOERROR", ~Unaddressed(Applied(t))
  PROVE  RequestInside(Build(Applied(t), e, d), t, e)
  <1> DEFINE u == Applied(t)
  <1>1. /\ u \in ImageTask /\ u.usage = t.usage /\ u.drect = t.drect
        /\ u.dst = ApplyRect(t.dst, t.drect)
    BY AppliedFacts
  <1> HIDE DEF u
  <1>2. /\ u.src \in Buffers /\ u.dst \in Buffers /\ u.pat \in Buffers
        /\ u.srect \in Rectangles /\ u.drect \in Rectangles /\ u.prect \in Rectangles
        /\ t.dst \in Buffers /\ t.drect \in Rectangles /\ e.inRes \in Res /\ e.outRes \in Res
    BY <1>1 DEF ImageTask, Entry
  <1>3. Check(u, e) = "NOERROR" /\ CheckBuild(u, e, d) = "NOERROR" /\ ~Unaddressed(u)
    BY SubmitStatusFacts DEF u
  <1>4. CheckInfo(u.dst, u.drect, e.outRes) = "NOERROR"
    BY <1>3, CheckFacts
  <1>5. CASE Kind(u) = "fill"
    <2>1. Build(u, e, d) = FillReq(u, Csc(u, e.feature), d)
      BY <1>5 DEF Build
    <2>2. /\ FillReq(u, Csc(u, e.feature), d).src = NoWindow
          /\ FillReq(u, Csc(u, e.feature), d).render = "color_fill"
          /\ FillReq(u, Csc(u, e.feature), d).dst = Window(u.dst, u.drect, FillMmu(u.dst, d), Address(u.dst, d))
          /\ FillReq(u, Csc(u, e.feature), d).turn = Upright
      BY DEF FillReq
    <2>3. Sized(t.drect) => u.dst.w = u.drect.w /\ u.dst.h = u.drect.h
      BY <1>1, <1>2 DEF ApplyRect, Buffers
    <2>4. Sized(t.drect) => Inside(Window(u.dst, u.drect, FillMmu(u.dst, d), Address(u.dst, d)), e.outRes)
      BY <1>2, <1>4, <2>3, WindowFacts
    <2>5. ~QuarterTurn(Upright)
      BY DEF QuarterTurn, Upright
    <2> QED
      BY <2>1, <2>2, <2>4, <2>5 DEF RequestInside, TurnedFrom, u
  <1>6. CASE Kind(u) = "palette"
    <2>1. Build(u, e, d) = PaletteReq(u, d)
      BY <1>6 DEF Build
    <2>2. /\ PaletteReq(u, d).render = "color_palette"
          /\ PaletteReq(u, d).src = Copied(u.src, u.srect, d)
          /\ PaletteReq(u, d).dst = Copied(u.dst, u.drect, d)
          /\ PaletteReq(u, d).turn = Upright
      BY DEF PaletteReq, PaletteImages
    <2>3. CheckRect(u.src, u.srect) = "NOERROR" /\ CheckRect(u.dst, u.drect) = "NOERROR"
      BY <1>3, <1>6 DEF CheckBuild, CheckPalette, AllHandles, ??
    <2>4. CheckInfo(u.src, u.srect, e.inRes) = "NOERROR"
      BY <1>1, <1>3, <1>6, KindFacts, CheckFacts
    <2>5. /\ Inside(Copied(u.src, u.srect, d), e.inRes)
          /\ Inside(Copied(u.dst, u.drect, d), e.outRes)
      BY <1>2, <1>4, <2>3, <2>4, WindowFacts DEF Copied
    <2>6. ~QuarterTurn(Upright)
      BY DEF QuarterTurn, Upright
    <2> QED
      BY <2>1, <2>2, <2>5, <2>6 DEF RequestInside, TurnedFrom, u
  <1>7. ASSUME NEW src1 \in BOOLEAN, src1 <=> Kind(u) = "blit3", Kind(u) \in {"blit", "blit3"}
        PROVE  RequestInside(Build(u, e, d), t, e)
    <2> DEFINE req  == BlitReq(u, src1, Csc(u, e.feature), e, d)
               turn == Turn(u.usage)
    <2>1. Build(u, e, d) = req
      BY <1>3, <1>7 DEF Build
    <2>2. /\ req.src = Copied(u.src, u.srect, d)
          /\ req.dst = Oriented(Copied(u.dst, u.drect, d), turn)
          /\ src1 => req.pat = Oriented(Copied(u.pat, u.prect, d), turn)
          /\ ~src1 => req.pat = NoWindow
          /\ req.turn = turn
      BY DEF BlitReq
    <2>3. CheckBlit(u, src1, Csc(u, e.feature), e, d) = "NOERROR"
      BY <1>3, <1>7 DEF CheckBuild
    <2>4. /\ CheckRect(u.src, u.srect) = "NOERROR" /\ CheckRect(u.dst, u.drect) = "NOERROR"
          /\ src1 => CheckRect(u.pat, u.prect) = "NOERROR"
      BY <2>3 DEF CheckBlit, ??
    <2>5. /\ CheckInfo(u.src, u.srect, e.inRes) = "NOERROR"
          /\ src1 => CheckInfo(u.pat, u.prect, e.inRes) = "NOERROR"
      BY <1>1, <1>3, <1>7, KindFacts, CheckFacts
    <2>6. /\ Inside(Copied(u.src, u.srect, d), e.inRes)
          /\ Inside(Copied(u.dst, u.drect, d), e.outRes)
          /\ src1 => Inside(Copied(u.pat, u.prect, d), e.inRes)
      BY <1>2, <1>4, <2>4, <2>5, WindowFacts DEF Copied
    <2>7. /\ TurnedFrom(req.dst, turn) = Copied(u.dst, u.drect, d)
          /\ src1 => TurnedFrom(req.pat, turn) = Copied(u.pat, u.prect, d)
      BY <2>2, TurnedBack DEF TurnedFrom, Copied
    <2> HIDE DEF req
    <2> QED
      BY <1>7, <2>1, <2>2, <2>6, <2>7 DEF RequestInside
  <1> QED
    BY <1>1, <1>5, <1>6, <1>7, KindFacts DEF u

(* With one rotation the check and the generator see the same quarter turn. *)
LEMMA QuarterTurnFacts ==
  ASSUME NEW usage, OneRotation(usage)
  PROVE  QuarterTurn(Turn(usage)) <=> usage \cap {"ROT_90", "ROT_270"} # {}
  <1> DEFINE turns == usage \cap Rotations
  <1>1. QuarterTurn(Turn(usage)) <=> Only(turns) \in {"ROT_90", "ROT_270"}
    BY DEF QuarterTurn, Turn
  <1>2. CASE turns = {}
    BY <1>1, <1>2 DEF Only, Rotations
  <1>3. ASSUME NEW r \in turns PROVE QuarterTurn(Turn(usage)) <=> usage \cap {"ROT_90", "ROT_270"} # {}
    <2>1. turns = {r}
      BY <1>3 DEF OneRotation
    <2>2. Only(turns) = r
      BY <2>1 DEF Only
    <2> QED
      BY <1>1, <2>1, <2>2 DEF Rotations
  <1> QED
    BY <1>2, <1>3

RequestScaled(req, t, e) ==
  (req.render = "bitblt" /\ OneRotation(t.usage)) =>
    /\ ~TooFar(req.src.aw, req.dst.aw, e.scaleLimit)
    /\ ~TooFar(req.src.ah, req.dst.ah, e.scaleLimit)

LEMMA BuildScaled ==
  ASSUME NEW t \in ImageTask, NEW e \in Entry, NEW d,
         SubmitStatus(t, e, d) = "NOERROR", ~Unaddressed(Applied(t))
  PROVE  RequestScaled(Build(Applied(t), e, d), t, e)
  <1> DEFINE u == Applied(t)
  <1>1. u \in ImageTask /\ u.usage = t.usage
    BY AppliedFacts
  <1> HIDE DEF u
  <1>2. Check(u, e) = "NOERROR" /\ ~Unaddressed(u)
    BY SubmitStatusFacts DEF u
  <1>3. CASE Kind(u) \in {"fill", "palette"}
    BY <1>3 DEF Build, FillReq, PaletteReq, PaletteImages, RequestScaled, u
  <1>4. CASE Kind(u) \in {"blit", "blit3"}
    <2> SUFFICES ASSUME OneRotation(t.usage)
                 PROVE  LET req == Build(u, e, d)
                        IN  /\ ~TooFar(req.src.aw, req.dst.aw, e.scaleLimit)
                            /\ ~TooFar(req.src.ah, req.dst.ah, e.scaleLimit)
      BY DEF RequestScaled, u
    <2> DEFINE req  == Build(u, e, d)
               turn == Turn(t.usage)
    <2>1. /\ req.src = Copied(u.src, u.srect, d)
          /\ req.dst = Oriented(Copied(u.dst, u.drect, d), turn)
      BY <1>1, <1>2, <1>4 DEF Build, BlitReq
    <2>2. /\ req.src.aw = u.src.w /\ req.src.ah = u.src.h
          /\ QuarterTurn(turn) => req.dst.aw = u.dst.h /\ req.dst.ah = u.dst.w
          /\ ~QuarterTurn(turn) => req.dst.aw = u.dst.w /\ req.dst.ah = u.dst.h
      BY <2>1 DEF Window, Copied, Oriented, Turned
    <2>3. CheckLimit(u.src, u.dst, e.scaleLimit, t.usage) = "NOERROR"
      BY <1>1, <1>2, <1>4, KindFacts, CheckFacts
    <2>4. u.dst \in Buffers
      BY <1>1 DEF ImageTask
    <2>5. /\ QuarterTurn(turn) => /\ ~TooFar(u.src.w, u.dst.h, e.scaleLimit)
                                  /\ ~TooFar(u.src.h, u.dst.w, e.scaleLimit)
          /\ ~QuarterTurn(turn) => /\ ~TooFar(u.src.w, u.dst.w, e.scaleLimit)
                                   /\ ~TooFar(u.src.h, u.dst.h, e.scaleLimit)
      BY <2>3, <2>4, QuarterTurnFacts DEF CheckLimit, Refuse, Swapped, Buffers
    <2> HIDE DEF req, turn
    <2>6. ~TooFar(req.src.aw, req.dst.aw, e.scaleLimit) /\ ~TooFar(req.src.ah, req.dst.ah, e.scaleLimit)
      BY <2>2, <2>5
    <2> QED
      BY <2>6 DEF req
  <1> QED
    BY <1>1, <1>3, <1>4, KindFacts DEF u
-----------------------------------------------------------------------------
(* Every check returns a status.                                            *)
LEMMA CheckStatus ==
  ASSUME NEW t, NEW e
  PROVE  Check(t, e) \in Statuses
  <1>1. \A image, rect, res : CheckInfo(image, rect, res) \in Statuses
    BY DEF CheckInfo, Refuse, ??, Statuses
  <1>2. \A image, rect, classes, usage : CheckFormat(image, rect, classes, usage) \in Statuses
    BY DEF CheckFormat, YuvLegality, Refuse, ??, Statuses
  <1>3. \A image, stride, isRead : CheckAlign(image, stride, isRead) \in Statuses
    BY DEF CheckAlign, Refuse, ??, Statuses
  <1>4. \A image, rect, res, classes, stride, usage, isRead :
           CheckImage(image, rect, res, classes, stride, usage, isRead) \in Statuses
    BY <1>1, <1>2, <1>3 DEF CheckImage, ??
  <1>5. \A src, dst, limit, usage : CheckLimit(src, dst, limit, usage) \in Statuses
    BY DEF CheckLimit, Refuse, Statuses
  <1>6. \A pat, dst, patEnable : CheckBlend(pat, dst, patEnable) \in Statuses
    BY DEF CheckBlend, Refuse, Statuses
  <1>7. \A version, usage : CheckRotate(version, usage) \in Statuses
    BY DEF CheckRotate, Refuse, Statuses
  <1>8. \A src, pat, dst, patEnable, usage, features :
           CheckFeature(src, pat, dst, patEnable, usage, features) \in Statuses
    BY DEF CheckFeature, Refuse, ??, Statuses
  <1>9. \A bad : Refuse(bad, "NOT_SUPPORTED") \in Statuses /\ "NOERROR" \in Statuses
    BY DEF Refuse, Statuses
  <1> QED
    BY <1>4, <1>5, <1>6, <1>7, <1>8, <1>9 DEF Check, ??

LEMMA CheckExternalStatus ==
  ASSUME NEW t, NEW e
  PROVE  CheckExternal(t, e) \in Statuses
  <1>1. \A bad : Refuse(bad, "NOT_SUPPORTED") \in Statuses
    BY DEF Refuse, Statuses
  <1> QED
    BY <1>1, CheckStatus DEF CheckExternal, ??

LEMMA CheckBuildStatus ==
  ASSUME NEW t \in ImageTask, NEW e, NEW d
  PROVE  CheckBuild(t, e, d) \in Statuses
  <1>1. \A images : CheckHandles(images) \in Statuses
    BY DEF CheckHandles, Refuse, Statuses
  <1>2. \A image, rect : CheckRect(image, rect) \in Statuses
    BY DEF CheckRect, Refuse, Statuses
  <1>3. \A src1 : CheckScale(t, src1, d) \in Statuses
    BY DEF CheckScale, Refuse, Statuses
  <1>4. \A src1 : CheckInterp(t, src1, e.bicubic) \in Statuses
    BY DEF CheckInterp, Refuse, ??, Statuses
  <1>5. \A csc : CheckFullCsc(csc) \in Statuses
    BY DEF CheckFullCsc, Refuse, Statuses
  <1>6. \A src1, csc : CheckBlit(t, src1, csc, e, d) \in Statuses
    BY <1>1, <1>2, <1>3, <1>4, <1>5 DEF CheckBlit, ??, Statuses
  <1>7. CheckPalette(t) \in Statuses
    BY <1>2 DEF CheckPalette, Refuse, ??, Statuses
  <1> QED
    BY <1>1, <1>6, <1>7, KindFacts DEF CheckBuild, Statuses

LEMMA SubmitStatusStatus ==
  ASSUME NEW t \in ImageTask, NEW e, NEW d
  PROVE  SubmitStatus(t, e, d) \in Statuses
  <1>1. CheckBuffers(t) \in Statuses
    BY DEF CheckBuffers, Refuse, ??, Statuses
  <1>2. CheckGauss(Applied(t)) \in Statuses /\ CheckFence(Applied(t)) \in Statuses
    BY DEF CheckGauss, CheckFence, Refuse, ??, Statuses
  <1>3. CscLegality(Applied(t)) \in Statuses
    BY DEF CscLegality, Refuse, Statuses
  <1>4. CheckBuild(Applied(t), e, d) \in Statuses
    BY AppliedFacts, CheckBuildStatus
  <1> QED
    BY <1>1, <1>2, <1>3, <1>4, CheckStatus DEF SubmitStatus, ??

(* The error entry has no resolution, which nothing is as small as.         *)
LEMMA ErrorEntryRefuses ==
  ASSUME NEW t \in ImageTask
  PROVE  Check(t, VErr) # "NOERROR"
  <1>1. VErr.outRes = NoRes /\ NoRes \in Res
    BY DEF VErr, Zero, NoRes, Res
  <1>2. t.dst \in Buffers /\ t.drect \in Rectangles
    BY DEF ImageTask
  <1>3. SUFFICES ASSUME Check(t, VErr) = "NOERROR" PROVE FALSE
    OBVIOUS
  <1>4. CheckInfo(t.dst, t.drect, NoRes) = "NOERROR"
    BY <1>1, <1>3, CheckFacts
  <1>5. t.dst.w >= 2 /\ t.dst.w <= NoRes.w
    BY <1>1, <1>2, <1>4, CheckInfoFacts
  <1> QED
    BY <1>2, <1>5 DEF NoRes, Buffers

LEMMA ErrorEntryRefusesAll ==
  ASSUME NEW t \in ImageTask, NEW d
  PROVE  SubmitStatus(t, VErr, d) # "NOERROR" /\ CheckExternal(t, VErr) # "NOERROR"
  <1>1. SubmitStatus(t, VErr, d) # "NOERROR"
    BY AppliedFacts, SubmitStatusFacts, ErrorEntryRefuses
  <1> DEFINE drect == IF "CROP" \in t.usage
                      THEN [t.drect EXCEPT !.w = t.srect.w, !.h = t.srect.h] ELSE t.drect
             u == [t EXCEPT !.src = ApplyRect(t.src, t.srect), !.dst = ApplyRect(t.dst, drect),
                            !.drect = drect,
                            !.pat = IF BufferValid(t.pat) THEN ApplyRect(t.pat, t.prect) ELSE t.pat]
  <1>2. /\ t.src \in Buffers /\ t.dst \in Buffers /\ t.pat \in Buffers
        /\ t.srect \in Rectangles /\ t.drect \in Rectangles /\ t.prect \in Rectangles
    BY DEF ImageTask
  <1>3. drect \in Rectangles
    BY <1>2 DEF Rectangles
  <1> HIDE DEF drect
  <1>4. /\ ApplyRect(t.src, t.srect) \in Buffers /\ ApplyRect(t.dst, drect) \in Buffers
        /\ ApplyRect(t.pat, t.prect) \in Buffers
    BY <1>2, <1>3, ApplyRectFacts
  <1>5. u \in ImageTask
    BY <1>2, <1>3, <1>4 DEF ImageTask
  <1>6. Check(u, VErr) # "NOERROR"
    BY <1>5, ErrorEntryRefuses
  <1>7. CheckExternal(t, VErr) = "NOERROR" => Check(u, VErr) = "NOERROR"
    BY DEF CheckExternal, ??, drect
  <1> QED
    BY <1>1, <1>6, <1>7
-----------------------------------------------------------------------------
(* The session.                                                             *)

(* What a session knows of a chip with an unknown core, and what of the     *)
(* others once it is open.                                                  *)
ProbeInv ==
  /\ probe = "merging" => \A i \in 1..merged : Known(chip[i])
  /\ probe # "merging" /\ ~AllKnown /\ ~Guessed => info = VErr

CallInv == call # Idle => probe = "ready"

(* What a call has sent is the request of its task, which passed.           *)
RequestFrom ==
  Sent => /\ call.task \in ImageTask /\ probe = "ready"
          /\ SubmitStatus(call.task, info, driver) = "NOERROR"
          /\ call.req = Build(Applied(call.task), info, driver)

(* The operations that must not scale, and what keeps them from it: the     *)
(* sizes once the rectangles are applied, which the wrapper compared or     *)
(* made the same.                                                           *)
MustNotScale(api, t) ==
  \/ api \in {"imcopy", "imtranslate", "immosaic", "imgaussianBlur",
             "imcopyTask", "imtranslateTask", "immosaicTask"}
  \/ api \in {"imcrop", "imcropTask"} /\ Sized(t.srect)

EvenlyApplied(t) ==
  /\ SameSize(Applied(t).src, Applied(t).dst)
  /\ Kind(t) \in {"blit", "blit3"} /\ t.usage \cap Rotations = {}

Shaped(api, t, found) == found = "NOERROR" /\ MustNotScale(api, t) => EvenlyApplied(t)

ShapedSent == Sent => Shaped(call.api, call.task, "NOERROR")

Inv ==
  /\ ImageTypeOK /\ ProbeInv /\ CallInv /\ RequestFrom /\ ShapedSent
  /\ AcceptedInside /\ ScaleAsSeen /\ UnknownRefused

LEMMA MergeType ==
  ASSUME NEW e \in Entry, NEW f \in Entry
  PROVE  Merge(e, f) \in Entry
  <1>1. \A r, s \in Res : LargerRes(r, s) \in Res
    BY DEF LargerRes
  <1>2. \A a, b \in Nat : Larger(a, b) \in Nat
    BY DEF Larger
  <1> QED
    BY <1>1, <1>2 DEF Merge, Entry

LEMMA ConstantFacts ==
  /\ Zero \in Entry /\ VErr \in Entry
  /\ NoImage \in Buffers /\ NoRect \in Rectangles /\ DefaultInterp \in Interpolations
  /\ Idle.task \in ImageTask /\ Idle.req.render = "none" /\ NoReq.render = "none"
  <1>1. Zero \in Entry /\ VErr \in Entry
    <2>1. NoRes \in Res
      BY DEF NoRes, Res
    <2>2. {} \in SUBSET STRING /\ {} \in SUBSET Versions /\ {"RGA_V_ERR"} \in SUBSET Versions
      BY DEF Versions
    <2>3. Zero \in Entry
      BY <2>1, <2>2 DEF Zero, Entry
    <2> QED
      BY <2>2, <2>3 DEF VErr, Entry
  <1>2. /\ NoImage \in Buffers /\ NoRect \in Rectangles /\ DefaultInterp \in Interpolations
    <2>1. NoImage \in Buffers
      BY DEF NoImage, Buffers, FormatNames
    <2>2. NoRect \in Rectangles
      BY DEF NoRect, Rectangles
    <2>3. DefaultInterp \in Interpolations
      BY DEF DefaultInterp, Interpolations, Filters
    <2> QED
      BY <2>1, <2>2, <2>3
  <1>3. NoReq.render = "none"
    BY DEF NoReq, BlankReq
  <1> QED
    BY <1>1, <1>2, <1>3 DEF Idle, Plain, ImageTask

LEMMA PlainType ==
  ASSUME NEW src \in Buffers, NEW dst \in Buffers
  PROVE  Plain(src, dst) \in ImageTask
  BY ConstantFacts DEF Plain, ImageTask

LEMMA ProbeStep ==
  ASSUME HwTypeOK, ProbeInv, HwNext
  PROVE  HwTypeOK' /\ ProbeInv' /\ probe # "ready"
  <1>1. /\ chip \in Chips /\ chip \in Seq(Core) /\ chip # <<>>
        /\ merged \in 0..Len(chip) /\ Len(chip) \in Nat /\ info \in Entry
    BY HwAssumption DEF HwTypeOK
  <1>2. CASE MergeCore
    <2>1. info' \in Entry
      BY <1>1, <1>2, HwAssumption, MergeType DEF MergeCore, Known
    <2>2. \A i \in 1..merged' : Known(chip[i])
      BY <1>1, <1>2 DEF MergeCore, ProbeInv
    <2> QED
      BY <1>1, <1>2, <2>1, <2>2 DEF MergeCore, HwTypeOK, ProbeInv, Known
  <1>3. CASE InfoComplete
    <2>1. AllKnown
      BY <1>1, <1>3 DEF InfoComplete, ProbeInv, AllKnown
    <2> QED
      BY <1>1, <1>3, <2>1 DEF InfoComplete, HwTypeOK, ProbeInv, AllKnown, Known
  <1>4. CASE TryCompatible
    <2>1. info' \in Entry
      BY <1>1, <1>4, HwAssumption, ConstantFacts DEF TryCompatible, Guessed
    <2> QED
      BY <1>1, <1>4, <2>1 DEF TryCompatible, HwTypeOK, ProbeInv, AllKnown, Known, Guessed
  <1>5. CASE UseErrorEntry
    BY <1>1, <1>5 DEF UseErrorEntry, HwTypeOK, ProbeInv, AllKnown, Known, Guessed
  <1> QED
    BY <1>2, <1>3, <1>4, <1>5 DEF HwNext
-----------------------------------------------------------------------------
(* The operations: each submits a task of the right type, of even sizes     *)
(* where it must not scale, or refuses it with a status of its own.         *)

Submits ==
  \E api : \E t \in ImageTask, found \in Statuses :
    Ready /\ Submit(api, t, found) /\ Shaped(api, t, found)

LEMMA SubmitsIntro ==
  ASSUME NEW api, NEW t \in ImageTask, NEW found \in Statuses, Ready, Submit(api, t, found),
         Shaped(api, t, found)
  PROVE  Submits
  BY DEF Submits

LEMMA RefuseStatus ==
  ASSUME NEW bad
  PROVE  Refuse(bad, "INVALID_PARAM") \in Statuses /\ "NOERROR" \in Statuses
  BY DEF Refuse, Statuses

LEMMA SyncedType ==
  ASSUME NEW t \in ImageTask
  PROVE  Synced(t) \subseteq ImageTask
  <1>1. [t EXCEPT !.fence = TRUE] \in ImageTask /\ "ASYNC" \in Usages
    BY DEF ImageTask, Usages, Effects
  <1>2. \A u \in ImageTask : [u EXCEPT !.usage = @ \cup {"ASYNC"}] \in ImageTask
    BY <1>1 DEF ImageTask
  <1>3. [t EXCEPT !.usage = @ \cup {"ASYNC"}, !.fence = TRUE] \in ImageTask
    BY <1>1 DEF ImageTask
  <1> QED
    BY <1>2, <1>3 DEF Synced, Unfenced

(* Neither the flag nor the fence of an asynchronous call says what is done.*)
LEMMA SyncedShape ==
  ASSUME NEW api, NEW t \in ImageTask, NEW found, NEW u \in Synced(t), Shaped(api, t, found)
  PROVE  Shaped(api, u, found)
  <1>1. /\ u.src = t.src /\ u.dst = t.dst /\ u.pat = t.pat
        /\ u.srect = t.srect /\ u.drect = t.drect
        /\ u.usage \in {t.usage, t.usage \cup {"ASYNC"}}
    BY DEF Synced, Unfenced, ImageTask
  <1>2. u \in ImageTask
    BY SyncedType
  <1>3. Applied(u).src = Applied(t).src /\ Applied(u).dst = Applied(t).dst
    BY <1>1, <1>2 DEF Applied, ImageTask
  <1>4. Kind(u) = Kind(t)
    BY <1>1 DEF Kind, Blended, BlendModes
  <1>5. u.usage \cap Rotations = t.usage \cap Rotations
    BY <1>1 DEF Rotations
  <1> QED
    BY <1>1, <1>3, <1>4, <1>5 DEF Shaped, MustNotScale, EvenlyApplied

LEMMA CallSubmits ==
  ASSUME NEW api, NEW t \in ImageTask, NEW found \in Statuses, Ready, Call(api, t, found),
         Shaped(api, t, found)
  PROVE  Submits
  BY SyncedType, SyncedShape, SubmitsIntro DEF Call

(* The flags the operations set. *)
LEMMA FlagUsages ==
  /\ \A flag \in Rotations \cup Flips \cup BlendModes \cup EffectFlags : {flag} \in SUBSET Usages
  /\ {"MOSAIC"} \in SUBSET Usages /\ {"GAUSS"} \in SUBSET Usages
  /\ {"COLOR_FILL"} \in SUBSET Usages /\ {"COLOR_PALETTE"} \in SUBSET Usages
  /\ {"BLEND_DST_OVER", "OSD"} \in SUBSET Usages
  BY DEF Usages, BlendModes, Effects, EffectFlags

LEMMA WithRects ==
  ASSUME NEW t \in ImageTask, NEW srect \in Rectangles, NEW drect \in Rectangles,
         NEW usage \in SUBSET Usages
  PROVE  /\ [t EXCEPT !.srect = srect, !.drect = drect] \in ImageTask
         /\ [t EXCEPT !.srect = srect, !.drect = drect, !.usage = usage] \in ImageTask
         /\ [t EXCEPT !.drect = drect, !.usage = usage] \in ImageTask
  BY DEF ImageTask

LEMMA WithPat ==
  ASSUME NEW t \in ImageTask, NEW pat \in Buffers, NEW usage \in SUBSET Usages,
         NEW rect \in Rectangles
  PROVE  /\ [t EXCEPT !.pat = pat, !.usage = usage] \in ImageTask
         /\ [t EXCEPT !.pat = pat, !.srect = rect, !.drect = rect, !.usage = usage] \in ImageTask
  BY DEF ImageTask

LEMMA WithUsage ==
  ASSUME NEW t \in ImageTask, NEW usage \in SUBSET Usages, NEW kernel \in Nat, NEW rop \in BOOLEAN
  PROVE  /\ [t EXCEPT !.usage = usage] \in ImageTask
         /\ [t EXCEPT !.usage = usage, !.kernel = kernel] \in ImageTask
         /\ [t EXCEPT !.usage = usage, !.rop = rop] \in ImageTask
  BY DEF ImageTask

LEMMA FactoredType ==
  ASSUME NEW src \in Buffers, NEW dst \in Buffers, NEW fx \in Factors, NEW fy \in Factors
  PROVE  Factored(src, dst, fx, fy) \in Buffers /\ CheckFactored(src, dst, fx, fy) \in Statuses
  <1>1. fx.num \in Nat /\ fx.den \in Nat \ {0} /\ fy.num \in Nat /\ fy.den \in Nat \ {0}
    BY ImageAssumption
  <1> DEFINE Times(n, f) == IF f.num = 0 THEN n ELSE (n * f.num) \div f.den
  <1>2. Times(src.w, fx) \in Int /\ Times(src.h, fy) \in Int
    BY <1>1 DEF Buffers
  <1>3. Even(Times(src.w, fx)) \in Int /\ Even(Times(src.h, fy)) \in Int
    BY <1>2 DEF Even
  <1> HIDE DEF Times
  <1>4. \A w, h \in Int : [dst EXCEPT !.w = w, !.h = h] \in Buffers
    BY DEF Buffers
  <1>5. /\ [dst EXCEPT !.w = Times(src.w, fx), !.h = Times(src.h, fy)] \in Buffers
        /\ [dst EXCEPT !.w = Even(Times(src.w, fx)), !.h = Even(Times(src.h, fy))] \in Buffers
    BY <1>2, <1>3, <1>4
  <1>6. Factored(src, dst, fx, fy) \in Buffers
    BY <1>5 DEF Factored, Times
  <1> QED
    BY <1>6, CheckExternalStatus DEF CheckFactored, Refuse, ??, Statuses

(* The tasks the operations make. *)
LEMMA TwoImageTasks ==
  ASSUME NEW src \in Buffers, NEW dst \in Buffers, NEW rect \in Rectangles
  PROVE  /\ Plain(src, dst) \in ImageTask
         /\ CropTask(src, dst, rect) \in ImageTask
         /\ \A flag \in Rotations \cup Flips : WithFlag(src, dst, flag) \in ImageTask
         /\ \A flag \in EffectFlags, rop \in BOOLEAN : EffectTask(src, dst, flag, rop) \in ImageTask
         /\ MosaicTask(dst, rect) \in ImageTask
         /\ FillTask(dst, rect) \in ImageTask
  <1>1. Plain(src, dst) \in ImageTask /\ Plain(dst, dst) \in ImageTask
        /\ Plain(NoImage, dst) \in ImageTask
    BY PlainType, ConstantFacts
  <1>2. [NoRect EXCEPT !.w = rect.w, !.h = rect.h] \in Rectangles
    BY ConstantFacts DEF Rectangles
  <1>3. CropTask(src, dst, rect) \in ImageTask
    BY <1>1, <1>2, WithRects, FlagUsages DEF CropTask
  <1>4. \A flag \in Rotations \cup Flips : WithFlag(src, dst, flag) \in ImageTask
    BY <1>1, WithUsage, FlagUsages DEF WithFlag
  <1>5. \A flag \in EffectFlags, rop \in BOOLEAN : EffectTask(src, dst, flag, rop) \in ImageTask
    <2> TAKE flag \in EffectFlags, rop \in BOOLEAN
    <2>1. (flag = "ROP" /\ rop) \in BOOLEAN /\ {flag} \in SUBSET Usages
      BY FlagUsages
    <2> QED
      BY <1>1, <2>1, WithUsage DEF EffectTask
  <1>6. MosaicTask(dst, rect) \in ImageTask
    BY <1>1, WithRects, FlagUsages DEF MosaicTask
  <1>7. FillTask(dst, rect) \in ImageTask
    BY <1>1, WithRects, FlagUsages DEF FillTask
  <1> QED
    BY <1>1, <1>3, <1>4, <1>5, <1>6, <1>7

LEMMA ThreeImageTasks ==
  ASSUME NEW src \in Buffers, NEW pat \in Buffers, NEW dst \in Buffers, NEW rect \in Rectangles
  PROVE  /\ \A mode \in BlendModes : Over(src, pat, dst, mode) \in ImageTask
         /\ OsdTask(pat, dst, rect) \in ImageTask
         /\ PaletteTask(src, dst, pat) \in ImageTask
  <1>1. Plain(src, dst) \in ImageTask /\ Plain(dst, dst) \in ImageTask
    BY PlainType
  <1> QED
    BY <1>1, WithPat, FlagUsages DEF Over, OsdTask, PaletteTask

LEMMA TranslatedType ==
  ASSUME NEW src \in Buffers, NEW dst \in Buffers, NEW x \in Int, NEW y \in Int
  PROVE  Translated(src, dst, x, y) \in ImageTask
  <1>1. src.w - x \in Int /\ src.h - y \in Int
    BY DEF Buffers
  <1>2. /\ Part(0, 0, src.w - x, src.h - y) \in Rectangles
        /\ Part(x, y, src.w - x, src.h - y) \in Rectangles
    BY <1>1 DEF Part, Rectangles
  <1> QED
    BY <1>2, PlainType, WithRects DEF Translated

LEMMA SidesType ==
  ASSUME NEW rect \in Rectangles, NEW thickness \in Int
  PROVE  Sides(rect, thickness) \subseteq Rectangles
  <1>1. rect.x \in Int /\ rect.y \in Int /\ rect.w \in Int /\ rect.h \in Int
    BY DEF Rectangles
  <1>2. \A x, y, w, h \in Int : Part(x, y, w, h) \in Rectangles
    BY DEF Part, Rectangles
  <1> DEFINE inner == rect.h - 2 * thickness
  <1>3. /\ inner \in Int /\ rect.y + rect.h - thickness \in Int /\ rect.y + thickness \in Int
        /\ rect.x + rect.w - thickness \in Int
    BY <1>1
  <1> HIDE DEF inner
  <1>4. /\ Part(rect.x, rect.y, rect.w, thickness) \in Rectangles
        /\ Part(rect.x, rect.y + rect.h - thickness, rect.w, thickness) \in Rectangles
        /\ Part(rect.x, rect.y + thickness, thickness, inner) \in Rectangles
        /\ Part(rect.x + rect.w - thickness, rect.y + thickness, thickness, inner) \in Rectangles
    BY <1>1, <1>2, <1>3
  <1> QED
    BY <1>4 DEF Sides, inner

(* What the operations are given. *)
LEMMA Given ==
  /\ Srcs \subseteq Buffers /\ Dsts \subseteq Buffers /\ Pats \subseteq Buffers
  /\ NoImage \in Buffers /\ NoRect \in Rectangles
  /\ Rects \subseteq Rectangles /\ Shifts \subseteq Int /\ Lines \subseteq Int
  /\ Interps \subseteq Interpolations /\ Kernels \subseteq Nat /\ Tasks \subseteq ImageTask
  BY ImageAssumption, ConstantFacts

(* The operations that may scale. *)
MayScale ==
  {"imresize", "imresizeTask", "imcvtcolor", "imcvtcolorTask", "imrotate", "imflip", "imrotateTask",
   "imcomposite", "imcompositeTask", "imosd", "imosdTask", "imeffect", "imeffectTask",
   "impalette", "impaletteTask", "imfill", "imfillTask", "imrectangle", "imrectangleTask",
   "improcess", "improcessOpt", "improcessTask"}

LEMMA MayScaleShape ==
  ASSUME NEW api \in MayScale, NEW t, NEW found
  PROVE  Shaped(api, t, found)
  BY DEF MayScale, Shaped, MustNotScale

(* What may be submitted by an operation that may scale, in either form.    *)
LEMMA ScalingSubmits ==
  ASSUME NEW api \in MayScale, NEW t \in ImageTask, NEW found \in Statuses, Ready,
         Submit(api, t, found) \/ Call(api, t, found)
  PROVE  Submits
  BY MayScaleShape, SubmitsIntro, CallSubmits

(* Rectangles of the same size keep images of the same size even, and make  *)
(* any two so if they have a size.                                          *)
LEMMA EvenIntro ==
  ASSUME NEW t \in ImageTask, t.srect.w = t.drect.w, t.srect.h = t.drect.h,
         SameSize(t.src, t.dst) \/ Sized(t.srect),
         t.usage = {} \/ t.usage = {"MOSAIC"} \/ t.usage = {"GAUSS"}
  PROVE  EvenlyApplied(t)
  <1>1. /\ Applied(t).src = ApplyRect(t.src, t.srect)
        /\ Applied(t).dst = ApplyRect(t.dst, t.drect)
    BY DEF Applied, ImageTask
  <1>2. \A image \in Buffers, rect \in Rectangles :
          /\ Sized(rect) => ApplyRect(image, rect).w = rect.w /\ ApplyRect(image, rect).h = rect.h
          /\ ~Sized(rect) => ApplyRect(image, rect) = image
    BY ApplyRectFacts DEF ApplyRect
  <1>3. /\ t.src \in Buffers /\ t.dst \in Buffers /\ t.srect \in Rectangles /\ t.drect \in Rectangles
        /\ Sized(t.srect) <=> Sized(t.drect)
    BY DEF ImageTask, Sized
  <1>4. SameSize(Applied(t).src, Applied(t).dst)
    BY <1>1, <1>2, <1>3 DEF SameSize
  <1>5. Kind(t) \in {"blit", "blit3"} /\ t.usage \cap Rotations = {}
    BY KindFacts DEF Kind, Rotations
  <1> QED
    BY <1>4, <1>5 DEF EvenlyApplied

LEMMA SameSizeFound ==
  ASSUME NEW src, NEW dst, Refuse(~SameSize(src, dst), "INVALID_PARAM") = "NOERROR"
  PROVE  SameSize(src, dst)
  BY DEF Refuse

LEMMA CopyShape ==
  ASSUME NEW src \in Buffers, NEW dst \in Buffers, NEW api
  PROVE  Shaped(api, Plain(src, dst), Refuse(~SameSize(src, dst), "INVALID_PARAM"))
  <1> SUFFICES ASSUME SameSize(src, dst) PROVE EvenlyApplied(Plain(src, dst))
    BY SameSizeFound DEF Shaped
  <1> QED
    BY PlainType, EvenIntro DEF Plain, NoRect

LEMMA CopySubmits == Imcopy \/ ImcopyTask => Submits
  BY Given, PlainType, CopyShape, RefuseStatus, CallSubmits, SubmitsIntro DEF Imcopy, ImcopyTask

LEMMA ResizeSubmits == Imresize \/ ImresizeTask => Submits
  <1> SUFFICES ASSUME NEW api \in {"imresize", "imresizeTask"}, Ready, NEW src \in Srcs,
                      NEW dst \in Dsts, NEW fx \in Factors, NEW fy \in Factors, NEW interp \in Interps,
                      Submit(api, Resized(src, dst, fx, fy, interp), CheckFactored(src, dst, fx, fy))
               PROVE  Submits
    BY DEF Imresize, ImresizeTask
  <1>1. src \in Buffers /\ dst \in Buffers /\ interp \in Interpolations
    BY Given
  <1>2. Plain(src, Factored(src, dst, fx, fy)) \in ImageTask
    BY <1>1, FactoredType, PlainType
  <1>3. Resized(src, dst, fx, fy, interp) \in ImageTask
    BY <1>1, <1>2 DEF Resized, ImageTask
  <1> QED
    BY <1>1, <1>3, FactoredType, ScalingSubmits DEF MayScale

LEMMA CvtcolorSubmits == Imcvtcolor \/ ImcvtcolorTask => Submits
  <1> SUFFICES ASSUME NEW api \in {"imcvtcolor", "imcvtcolorTask"}, Ready, NEW src \in Srcs,
                      NEW dst \in Dsts, NEW sfmt \in Formats, NEW dfmt \in Formats,
                      NEW mode \in Modes, NEW csc \in {mode, dst.csc},
                      Submit(api, Plain([src EXCEPT !.fmt = sfmt],
                                        [dst EXCEPT !.fmt = dfmt, !.csc = csc]), "NOERROR")
               PROVE  Submits
    BY DEF Imcvtcolor, ImcvtcolorTask
  <1>1. /\ src \in Buffers /\ dst \in Buffers /\ sfmt \in FormatNames /\ dfmt \in FormatNames
        /\ mode \in SUBSET (R2yModes \cup Y2rModes \cup Y4Modes \cup FullSpaces)
    BY ImageAssumption
  <1>2. /\ [src EXCEPT !.fmt = sfmt] \in Buffers
        /\ [dst EXCEPT !.fmt = dfmt, !.csc = csc] \in Buffers
    BY <1>1 DEF Buffers
  <1>3. api \in MayScale /\ "NOERROR" \in Statuses
    BY RefuseStatus DEF MayScale
  <1> QED
    BY <1>2, <1>3, PlainType, ScalingSubmits

LEMMA CropShape ==
  ASSUME NEW src \in Buffers, NEW dst \in Buffers, NEW rect \in Rectangles,
         NEW api \in {"imcrop", "imcropTask"}
  PROVE  Shaped(api, CropTask(src, dst, rect), "NOERROR")
  <1>1. CropTask(src, dst, rect) \in ImageTask
    BY TwoImageTasks
  <1>2. /\ CropTask(src, dst, rect).srect = rect /\ CropTask(src, dst, rect).usage = {}
        /\ CropTask(src, dst, rect).drect = [NoRect EXCEPT !.w = rect.w, !.h = rect.h]
    BY DEF CropTask, Plain
  <1>3. MustNotScale(api, CropTask(src, dst, rect)) => Sized(rect)
    BY <1>2 DEF MustNotScale
  <1> QED
    BY <1>1, <1>2, <1>3, EvenIntro DEF Shaped, NoRect

LEMMA CropSubmits == Imcrop \/ ImcropTask => Submits
  BY Given, TwoImageTasks, CropShape, RefuseStatus, SubmitsIntro DEF Imcrop, ImcropTask

LEMMA TranslateShape ==
  ASSUME NEW src \in Buffers, NEW dst \in Buffers, NEW x \in Int, NEW y \in Int, NEW api
  PROVE  Shaped(api, Translated(src, dst, x, y), Refuse(~SameSize(src, dst), "INVALID_PARAM"))
  <1> SUFFICES ASSUME SameSize(src, dst) PROVE EvenlyApplied(Translated(src, dst, x, y))
    BY SameSizeFound DEF Shaped
  <1> DEFINE t == Translated(src, dst, x, y)
  <1>1. t \in ImageTask
    BY TranslatedType
  <1>2. /\ t.src = src /\ t.dst = dst /\ t.usage = {}
        /\ t.srect.w = t.drect.w /\ t.srect.h = t.drect.h
    BY DEF Translated, Plain, Part
  <1> HIDE DEF t
  <1>3. EvenlyApplied(t)
    BY <1>1, <1>2, EvenIntro
  <1> QED
    BY <1>3 DEF t

LEMMA TranslateSubmits == Imtranslate \/ ImtranslateTask => Submits
  BY Given, TranslatedType, TranslateShape, RefuseStatus, SubmitsIntro
  DEF Imtranslate, ImtranslateTask

LEMMA TurnSubmits == Imrotate \/ Imflip \/ ImrotateTask => Submits
  <1> SUFFICES ASSUME NEW api \in {"imrotate", "imflip", "imrotateTask"}, Ready, NEW src \in Srcs,
                      NEW dst \in Dsts, NEW flag \in Rotations \cup Flips,
                      Submit(api, WithFlag(src, dst, flag), "NOERROR")
               PROVE  Submits
    BY DEF Imrotate, Imflip, ImrotateTask
  <1>1. api \in MayScale
    BY DEF MayScale
  <1> QED
    BY <1>1, Given, TwoImageTasks, RefuseStatus, ScalingSubmits

LEMMA CompositeSubmits == Imcomposite \/ ImcompositeTask => Submits
  <1> SUFFICES ASSUME NEW api \in {"imcomposite", "imcompositeTask"}, Ready, NEW src \in Srcs,
                      NEW pat \in Pats \cup {NoImage}, NEW dst \in Dsts, NEW mode \in BlendModes,
                      Submit(api, Over(src, pat, dst, mode), "NOERROR")
               PROVE  Submits
    BY DEF Imcomposite, ImcompositeTask
  <1>1. api \in MayScale
    BY DEF MayScale
  <1> QED
    BY <1>1, Given, ThreeImageTasks, RefuseStatus, ScalingSubmits

LEMMA OsdSubmits == Imosd \/ ImosdTask => Submits
  <1>1. {"imosd", "imosdTask"} \subseteq MayScale
    BY DEF MayScale
  <1> QED
    BY <1>1, Given, ThreeImageTasks, RefuseStatus, ScalingSubmits DEF Imosd, ImosdTask

LEMMA EffectSubmits == Imeffect \/ ImeffectTask => Submits
  <1>1. {"imeffect", "imeffectTask"} \subseteq MayScale
    BY DEF MayScale
  <1> QED
    BY <1>1, Given, TwoImageTasks, RefuseStatus, ScalingSubmits DEF Imeffect, ImeffectTask

LEMMA MosaicShape ==
  ASSUME NEW image \in Buffers, NEW rect \in Rectangles, NEW api
  PROVE  Shaped(api, MosaicTask(image, rect), "NOERROR")
  <1>1. MosaicTask(image, rect) \in ImageTask
    BY TwoImageTasks
  <1> QED
    BY <1>1, EvenIntro DEF Shaped, MosaicTask, Plain, SameSize

LEMMA MosaicSubmits == Immosaic \/ ImmosaicTask => Submits
  BY Given, TwoImageTasks, MosaicShape, RefuseStatus, SubmitsIntro DEF Immosaic, ImmosaicTask

LEMMA GaussianBlurSubmits == ImgaussianBlur => Submits
  <1> SUFFICES ASSUME Ready, NEW src \in Srcs, NEW dst \in Dsts, NEW kernel \in Kernels, NEW t,
                      t = [Plain(src, dst) EXCEPT !.usage = {"GAUSS"}, !.kernel = kernel],
                      Submit("imgaussianBlur", t, Refuse(~SameSize(src, dst), "INVALID_PARAM"))
               PROVE  Submits
    BY DEF ImgaussianBlur
  <1>1. t \in ImageTask
    BY Given, PlainType, WithUsage, FlagUsages
  <1>2. /\ t.src = src /\ t.dst = dst /\ t.srect = NoRect /\ t.drect = NoRect
        /\ t.usage = {"GAUSS"}
    BY DEF Plain
  <1>3. SameSize(src, dst) => EvenlyApplied(t)
    BY <1>1, <1>2, EvenIntro
  <1> QED
    BY <1>1, <1>3, SameSizeFound, RefuseStatus, SubmitsIntro DEF Shaped

LEMMA PaletteSubmits == Impalette \/ ImpaletteTask => Submits
  <1>1. {"impalette", "impaletteTask"} \subseteq MayScale
    BY DEF MayScale
  <1> QED
    BY <1>1, Given, ThreeImageTasks, RefuseStatus, ScalingSubmits DEF Impalette, ImpaletteTask

LEMMA FillSubmits == Imfill \/ ImfillTask => Submits
  <1>1. {"imfill", "imfillTask"} \subseteq MayScale
    BY DEF MayScale
  <1> QED
    BY <1>1, Given, TwoImageTasks, RefuseStatus, ScalingSubmits DEF Imfill, ImfillTask

LEMMA RectangleSubmits == Imrectangle \/ ImrectangleTask => Submits
  <1> SUFFICES ASSUME NEW api \in {"imrectangle", "imrectangleTask"}, Ready, NEW dst \in Dsts,
                      NEW rect \in Rects, NEW thickness \in Lines, NEW side \in Sides(rect, thickness),
                      \/ Call(api, FillTask(dst, side), "NOERROR")
                      \/ Submit(api, FillTask(dst, side), "NOERROR")
               PROVE  Submits
    BY DEF Imrectangle, ImrectangleTask
  <1>1. dst \in Buffers /\ side \in Rectangles
    BY Given, SidesType
  <1>2. api \in MayScale
    BY DEF MayScale
  <1> QED
    BY <1>1, <1>2, TwoImageTasks, RefuseStatus, ScalingSubmits

LEMMA ProcessSubmits == Improcess \/ ImprocessOpt \/ ImprocessTask => Submits
  <1>1. \A t \in ImageTask :
          /\ [t EXCEPT !.fence = FALSE] \in ImageTask
          /\ [t EXCEPT !.interp = DefaultInterp, !.kernel = 0, !.rop = FALSE, !.fence = FALSE]
               \in ImageTask
    BY ConstantFacts DEF ImageTask
  <1>2. \A t \in ImageTask, v \in OptVersions : ReadOpt(t, v) \in ImageTask
    BY ConstantFacts DEF ImageTask, ReadOpt, OptVersions
  <1>3. {"improcess", "improcessOpt", "improcessTask"} \subseteq MayScale
    BY DEF MayScale
  <1> QED
    BY <1>1, <1>2, <1>3, Given, RefuseStatus, ScalingSubmits DEF Improcess, ImprocessOpt, ImprocessTask

(* A step is a step of the session, a return, a check that is only asked    *)
(* for, or an operation.                                                    *)
LEMMA StepCases ==
  ASSUME ImageNext
  PROVE  Probe \/ Return \/ Imcheck \/ Submits
  BY CopySubmits, ResizeSubmits, CvtcolorSubmits, CropSubmits, TranslateSubmits, TurnSubmits,
     CompositeSubmits, OsdSubmits, EffectSubmits, MosaicSubmits, GaussianBlurSubmits,
     PaletteSubmits, FillSubmits, RectangleSubmits, ProcessSubmits DEF ImageNext
-----------------------------------------------------------------------------
(* What a call leaves behind when no request was made.                      *)
LEMMA NothingSent ==
  ASSUME HwTypeOK', ProbeInv', probe' = "ready", call'.task \in ImageTask,
         call'.status \in Statuses, call'.req = NoReq,
         (~AllKnown /\ ~Guessed)' => call'.status # "NOERROR"
  PROVE  Inv'
  <1>1. ~Sent' /\ ~Written'
    BY ConstantFacts DEF Sent, Written
  <1> QED
    BY <1>1, ConstantFacts DEF Inv, ImageTypeOK, CallInv, RequestFrom, ShapedSent, AcceptedInside,
       ScaleAsSeen, UnknownRefused

(* What an operation leaves behind when the request went to the driver.     *)
LEMMA RequestSent ==
  ASSUME ImageTypeOK, ProbeInv, NEW api, NEW t \in ImageTask, NEW table, probe = "ready",
         UNCHANGED hwVars, SubmitStatus(t, info, driver) = "NOERROR", Shaped(api, t, "NOERROR"),
         call' = [api |-> api, task |-> t, status |-> "NOERROR",
                  req |-> Build(Applied(t), info, driver), table |-> table]
  PROVE  Inv'
  <1> DEFINE req == Build(Applied(t), info, driver)
  <1>1. /\ call'.req = req /\ call'.task = t /\ call'.status = "NOERROR"
        /\ info' = info /\ info \in Entry /\ probe' = "ready" /\ chip' = chip
    BY DEF hwVars, ImageTypeOK, HwTypeOK
  <1>2. ~AllKnown /\ ~Guessed => FALSE
    <2>1. ~AllKnown /\ ~Guessed => info = VErr
      BY DEF ProbeInv
    <2> QED
      BY <2>1, ErrorEntryRefusesAll
  <1>3. HwTypeOK' /\ ProbeInv'
    BY DEF hwVars, ImageTypeOK, HwTypeOK, ProbeInv, AllKnown, Known, Guessed
  <1>4. (~AllKnown /\ ~Guessed)' => FALSE
    BY <1>1, <1>2 DEF AllKnown, Known, Guessed
  <1>5. req.render \in {"bitblt", "color_fill", "color_palette"}
    BY AppliedFacts, KindFacts DEF Build, BlitReq, FillReq, PaletteReq, PaletteImages, BlankReq
  <1>6. Unaddressed(Applied(t)) => req = BlankReq
    BY DEF Build, Unaddressed
  <1>7. ~Unaddressed(Applied(t)) => RequestInside(req, t, info) /\ RequestScaled(req, t, info)
    BY <1>1, BuildInside, BuildScaled
  <1> HIDE DEF req
  <1>8. AcceptedInside'
    <2> SUFFICES ASSUME Written' PROVE AcceptedInside'
      BY DEF AcceptedInside
    <2>1. RequestInside(req, t, info)
      BY <1>1, <1>6, <1>7 DEF Written
    <2>2. \A window : Back(window)' = TurnedFrom(window, req.turn)
      BY <1>1 DEF Back, TurnedFrom
    <2> QED
      BY <1>1, <2>1, <2>2 DEF AcceptedInside, RequestInside, Back, TurnedFrom
  <1>9. ScaleAsSeen'
    <2> SUFFICES ASSUME Written' PROVE ScaleAsSeen'
      BY DEF ScaleAsSeen
    <2>1. RequestScaled(req, t, info)
      BY <1>1, <1>6, <1>7 DEF Written
    <2> QED
      BY <1>1, <2>1 DEF ScaleAsSeen, RequestScaled
  <1>10. ImageTypeOK'
    BY <1>1, <1>3, <1>5 DEF ImageTypeOK, Statuses
  <1>11. RequestFrom' /\ ShapedSent'
    BY <1>1 DEF RequestFrom, ShapedSent, Shaped, MustNotScale, driver, req
  <1> QED
    BY <1>1, <1>3, <1>4, <1>8, <1>9, <1>10, <1>11 DEF Inv, CallInv, UnknownRefused

LEMMA SubmitStep ==
  ASSUME Inv, Submits
  PROVE  Inv'
  <1> PICK api : \E t \in ImageTask, found \in Statuses :
                   Ready /\ Submit(api, t, found) /\ Shaped(api, t, found)
    BY DEF Submits
  <1> PICK t \in ImageTask, found \in Statuses :
        Ready /\ Submit(api, t, found) /\ Shaped(api, t, found)
    OBVIOUS
  <1> DEFINE status == found ?? SubmitStatus(t, info, driver)
  <1>1. /\ ImageTypeOK /\ ProbeInv /\ HwTypeOK /\ probe = "ready" /\ UNCHANGED hwVars
    BY DEF Inv, ImageTypeOK, Ready, Submit
  <1>2. status \in Statuses
    BY SubmitStatusStatus DEF ??
  <1>3. status = "NOERROR" => SubmitStatus(t, info, driver) = "NOERROR" /\ Shaped(api, t, "NOERROR")
    BY AndThen
  <1>4. HwTypeOK' /\ ProbeInv' /\ probe' = "ready"
    BY <1>1 DEF hwVars, HwTypeOK, ProbeInv, AllKnown, Known, Guessed
  <1>5. (~AllKnown /\ ~Guessed)' => status # "NOERROR"
    <2>1. (~AllKnown /\ ~Guessed)' => ~AllKnown /\ ~Guessed
      BY <1>1 DEF hwVars, AllKnown, Known, Guessed
    <2>2. ~AllKnown /\ ~Guessed => info = VErr
      BY <1>1 DEF ProbeInv
    <2> QED
      BY <1>3, <2>1, <2>2, ErrorEntryRefusesAll
  <1>6. CASE /\ status = "NOERROR"
             /\ call' = [api |-> api, task |-> t, status |-> "NOERROR",
                         req |-> Build(Applied(t), info, driver),
                         table |-> TableOf(t)]
    BY <1>1, <1>3, <1>6, RequestSent
  <1>7. ASSUME NEW s \in Statuses, s # "NOERROR",
               call' = [api |-> api, task |-> t, status |-> s, req |-> NoReq, table |-> NoReq]
        PROVE  Inv'
    BY <1>4, <1>7, NothingSent
  <1>8. \/ /\ status # "NOERROR"
           /\ call' = [api |-> api, task |-> t, status |-> status, req |-> NoReq, table |-> NoReq]
        \/ /\ status = "NOERROR"
           /\ call' = [api |-> api, task |-> t, status |-> "NOERROR",
                       req |-> Build(Applied(t), info, driver),
                       table |-> TableOf(t)]
        \/ call' = [api |-> api, task |-> t, status |-> "FAILED", req |-> NoReq, table |-> NoReq]
    BY DEF Submit
  <1>9. "FAILED" \in Statuses
    BY DEF Statuses
  <1> HIDE DEF status
  <1> QED
    BY <1>2, <1>6, <1>7, <1>8, <1>9

LEMMA CheckStep ==
  ASSUME Inv, Imcheck
  PROVE  Inv'
  <1> PICK t \in Tasks :
        /\ call' = [api |-> "imcheck", task |-> t, status |-> CheckExternal(t, info),
                    req |-> NoReq, table |-> NoReq]
        /\ UNCHANGED hwVars
    BY DEF Imcheck
  <1>1. /\ t \in ImageTask /\ HwTypeOK /\ ProbeInv /\ probe = "ready"
    BY ImageAssumption DEF Inv, ImageTypeOK, Imcheck, Ready
  <1>2. HwTypeOK' /\ ProbeInv' /\ probe' = "ready"
    BY <1>1 DEF hwVars, HwTypeOK, ProbeInv, AllKnown, Known, Guessed
  <1>3. (~AllKnown /\ ~Guessed)' => CheckExternal(t, info) # "NOERROR"
    <2>1. (~AllKnown /\ ~Guessed)' => ~AllKnown /\ ~Guessed
      BY DEF hwVars, AllKnown, Known, Guessed
    <2>2. ~AllKnown /\ ~Guessed => info = VErr
      BY <1>1 DEF ProbeInv
    <2> QED
      BY <1>1, <2>1, <2>2, ErrorEntryRefusesAll
  <1> QED
    BY <1>1, <1>2, <1>3, CheckExternalStatus, NothingSent

(* Between calls nothing has been sent. *)
LEMMA IdleInv ==
  ASSUME HwTypeOK, ProbeInv, call = Idle
  PROVE  Inv
  <1>1. ~Sent /\ ~Written
    BY ConstantFacts DEF Sent, Written
  <1> QED
    BY <1>1, ConstantFacts
    DEF Inv, ImageTypeOK, CallInv, RequestFrom, ShapedSent, AcceptedInside, ScaleAsSeen, UnknownRefused

(* The same of the state a step leads to. *)
LEMMA IdleInvNext ==
  ASSUME HwTypeOK', ProbeInv', call' = Idle
  PROVE  Inv'
  <1>1. ~Sent' /\ ~Written'
    BY ConstantFacts DEF Sent, Written
  <1> QED
    BY <1>1, ConstantFacts
    DEF Inv, ImageTypeOK, CallInv, RequestFrom, ShapedSent, AcceptedInside, ScaleAsSeen, UnknownRefused
-----------------------------------------------------------------------------
LEMMA InitInv ==
  ASSUME ImageInit
  PROVE  Inv
  <1>1. /\ chip \in Chips /\ merged = 0 /\ info = Zero /\ probe = "merging" /\ call = Idle
    BY DEF ImageInit, HwInit
  <1>2. Len(chip) \in Nat
    BY <1>1, HwAssumption
  <1>3. HwTypeOK
    BY <1>1, <1>2, ConstantFacts DEF HwTypeOK
  <1>4. ProbeInv
    BY <1>1 DEF ProbeInv
  <1> QED
    BY <1>1, <1>3, <1>4, IdleInv

LEMMA NextInv ==
  ASSUME Inv, [ImageNext]_imageVars
  PROVE  Inv'
  <1>1. CASE Probe
    <2>1. HwTypeOK' /\ ProbeInv' /\ probe # "ready"
      BY <1>1, ProbeStep DEF Probe, Inv, ImageTypeOK
    <2>2. call' = Idle
      BY <1>1, <2>1 DEF Probe, Inv, CallInv
    <2> QED
      BY <2>1, <2>2, IdleInvNext
  <1>2. CASE Return
    <2>1. HwTypeOK' /\ ProbeInv' /\ call' = Idle
      BY <1>2 DEF Return, Inv, ImageTypeOK, hwVars, HwTypeOK, ProbeInv, AllKnown, Known, Guessed
    <2> QED
      BY <2>1, IdleInvNext
  <1>3. CASE Imcheck
    BY <1>3, CheckStep
  <1>4. CASE Submits
    BY <1>4, SubmitStep
  <1>5. CASE UNCHANGED imageVars
    BY <1>5 DEF imageVars, hwVars, Inv, ImageTypeOK, HwTypeOK, ProbeInv, CallInv, RequestFrom,
       ShapedSent, driver, AcceptedInside, ScaleAsSeen, UnknownRefused, AllKnown, Known, Guessed, Written, Sent, Back
  <1> QED
    BY <1>1, <1>2, <1>3, <1>4, <1>5, StepCases
-----------------------------------------------------------------------------
(* What holds of a request because of the task it was made of.              *)

(* The interpolation chosen when none is asked for is one that is accepted. *)
LEMMA DefaultInterpFacts ==
  ASSUME NEW t \in ImageTask, t.interp = DefaultInterp, NEW src1 \in BOOLEAN, NEW bicubic \in Nat
  PROVE  CheckInterp(t, src1, bicubic) = "NOERROR"
  <1> DEFINE to  == Scaled(t, src1)
             how == Interp(t, src1, bicubic)
             wide == BicubicTooWide(t, to, bicubic)
  <1>1. /\ t.src.w \in Int /\ t.src.h \in Int /\ t.dst.w \in Int
        /\ to.w \in Int /\ to.h \in Int
    <2>1. t.src \in Buffers /\ t.dst \in Buffers /\ t.pat \in Buffers
      BY DEF ImageTask
    <2>2. \A image \in Buffers : Swapped(image) \in Buffers
      BY DEF Swapped, Buffers
    <2>3. to \in Buffers
      BY <2>1, <2>2 DEF Scaled
    <2> QED
      BY <2>1, <2>3 DEF Buffers
  <1>2. /\ t.src.w > to.w => how.horiz = "AVERAGE"
        /\ t.src.h > to.h => how.verti = "AVERAGE"
        /\ t.src.h < to.h => how.verti = IF wide THEN "LINEAR" ELSE "BICUBIC"
    BY <1>1 DEF Interp, DefaultInterp
  <1> HIDE DEF to, how, wide
  <1> QED
    BY <1>1, <1>2 DEF CheckInterp, Refuse, ??, to, how, wide

(* A pat that is used is applied by both, and one that is not by neither:   *)
(* imcheck looks at the task that is submitted.                             *)
LEMMA ExternalFacts ==
  ASSUME NEW t \in ImageTask, NEW e, NEW d, SubmitStatus(t, e, d) = "NOERROR",
         "CROP" \notin t.usage, BufferValid(t.pat) => UsesPat(t)
  PROVE  CheckExternal(t, e) = "NOERROR"
  <1>1. CheckBuffers(t) = "NOERROR" /\ Check(Applied(t), e) = "NOERROR"
    BY DEF SubmitStatus, ??
  <1>2. /\ Convertible(t.src.fmt) /\ Convertible(t.dst.fmt)
        /\ BufferValid(t.pat) => Convertible(t.pat.fmt)
    BY <1>1 DEF CheckBuffers, Refuse, ??
  <1>3. BufferValid(t.pat) <=> UsesPat(t)
    BY DEF UsesPat
  <1>4. [t EXCEPT !.src = ApplyRect(t.src, t.srect), !.dst = ApplyRect(t.dst, t.drect),
                  !.drect = t.drect,
                  !.pat = IF BufferValid(t.pat) THEN ApplyRect(t.pat, t.prect) ELSE t.pat]
          = Applied(t)
    BY <1>3 DEF Applied, ImageTask
  <1> QED
    BY <1>1, <1>2, <1>4 DEF CheckExternal, Refuse, ??

(* The settings that go with a task, and one operation of each kind.        *)
LEMMA OnlyFacts ==
  ASSUME NEW flags
  PROVE  /\ \A f : flags = {f} => Only(flags) = f
         /\ Only(flags) # "none" => flags # {}
  BY DEF Only

LEMMA EffectFields ==
  ASSUME NEW src, NEW dst, NEW s
  PROVE  LET e       == EffectsOf(src, dst, s)
             blended == s.blend # "none"
             gray    == dst.fmt \in Gray
         IN  /\ s.rop => e.rop
             /\ s.key => e.key
             /\ e.blend = s.blend
             /\ s.rop => "rop" \in e.flags /\ "per pixel" \in e.mode
             /\ s.key => "real color" \in e.flags /\ "zero" \in e.mode
             /\ blended => "per pixel" \in e.mode
             /\ ~s.rop /\ ~s.dither =>
                  /\ blended => "alpha" \in e.flags /\ "PD" \in e.flags /\ "cal" \in e.flags
                  /\ blended /\ s.premul => "real color" \in e.flags
                  /\ s.quantize => "quantize" \in e.flags
             /\ s.quantize => e.table = "quantize" \/ gray
             /\ e.copied = s.copied
  <1> DEFINE e1 == SetBlend(NoEffects, s)
             e2 == SetBitbltMode(e1, DitherEn(src, dst))
             e3 == SetQuantize(e2, s)
             e4 == SetGray(e3, dst, s)
             e5 == SetRop(e4, s)
             e6 == SetColorKey(e5, s)
  <1>1. /\ DOMAIN e1 = DOMAIN NoEffects
        /\ e1.blend = s.blend
        /\ s.blend # "none" => {"alpha", "PD", "cal"} \subseteq e1.flags /\ "per pixel" \in e1.mode
        /\ s.blend # "none" /\ s.premul => "real color" \in e1.flags
    BY DEF SetBlend, SetAlphaEn, NoEffects
  <1> HIDE DEF e1
  <1>2. /\ DOMAIN e2 = DOMAIN NoEffects
        /\ e2.blend = e1.blend /\ e2.mode = e1.mode
        /\ e1.flags \subseteq e2.flags
    BY <1>1 DEF SetBitbltMode, NoEffects
  <1> HIDE DEF e2
  <1>3. /\ DOMAIN e3 = DOMAIN NoEffects
        /\ e3.blend = e2.blend /\ e3.mode = e2.mode
        /\ e2.flags \subseteq e3.flags
        /\ s.quantize => "quantize" \in e3.flags /\ e3.table = "quantize"
    BY <1>2 DEF SetQuantize, NoEffects
  <1> HIDE DEF e3
  <1>4. /\ DOMAIN e4 = DOMAIN NoEffects
        /\ e4.blend = e3.blend /\ e4.mode = e3.mode
        /\ ~s.dither => e4.flags = e3.flags
        /\ dst.fmt \notin Gray => e4.table = e3.table
    BY <1>3 DEF SetGray, NoEffects
  <1> HIDE DEF e4
  <1>5. /\ DOMAIN e5 = DOMAIN NoEffects
        /\ e5.blend = e4.blend /\ e5.table = e4.table
        /\ s.rop => e5.rop /\ "rop" \in e5.flags /\ "per pixel" \in e5.mode
        /\ ~s.rop => e5.flags = e4.flags /\ e5.mode = e4.mode
    BY <1>4, <1>3, <1>2, <1>1 DEF SetRop, NoEffects
  <1> HIDE DEF e5
  <1>6. /\ DOMAIN e6 = DOMAIN NoEffects
        /\ e6.rop = e5.rop /\ e6.blend = e5.blend /\ e6.table = e5.table
        /\ e5.flags \subseteq e6.flags /\ e5.mode \subseteq e6.mode
        /\ s.key => e6.key /\ "real color" \in e6.flags /\ "zero" \in e6.mode
    BY <1>5 DEF SetColorKey, SetTransMode, NoEffects
  <1> HIDE DEF e6
  <1>7. /\ EffectsOf(src, dst, s) = [e6 EXCEPT !.copied = s.copied]
        /\ "copied" \in DOMAIN e6
    BY <1>6 DEF EffectsOf, Combined, SetCopied, NoEffects, e1, e2, e3, e4, e5, e6
  <1>8. LET e == EffectsOf(src, dst, s)
        IN  /\ e.rop = e6.rop /\ e.key = e6.key /\ e.blend = e6.blend /\ e.flags = e6.flags
            /\ e.mode = e6.mode /\ e.table = e6.table /\ e.copied = s.copied
    BY <1>6, <1>7 DEF NoEffects
  <1>9. ~s.rop /\ ~s.dither => e2.flags \subseteq e6.flags /\ e3.flags \subseteq e6.flags
                                /\ e1.flags \subseteq e6.flags
    BY <1>2, <1>3, <1>4, <1>5, <1>6
  <1>10. e4.mode = e1.mode /\ e6.blend = s.blend /\ e6.table = e4.table
    BY <1>1, <1>2, <1>3, <1>4, <1>5, <1>6
  <1>11. s.blend # "none" => "per pixel" \in e6.mode
    BY <1>1, <1>5, <1>6, <1>10
  <1> QED
    BY <1>1, <1>3, <1>4, <1>5, <1>6, <1>8, <1>9, <1>10, <1>11

(* The images of an applied task keep their formats and colour spaces. *)
LEMMA AppliedKeeps ==
  ASSUME NEW t \in ImageTask
  PROVE  LET u == Applied(t) IN
         /\ u.src.fmt = t.src.fmt /\ u.dst.fmt = t.dst.fmt /\ u.pat.fmt = t.pat.fmt
         /\ u.src.csc = t.src.csc /\ u.dst.csc = t.dst.csc /\ u.pat.csc = t.pat.csc
         /\ u.src.mem = t.src.mem /\ u.dst.mem = t.dst.mem /\ u.pat.mem = t.pat.mem
         /\ u.usage = t.usage /\ u.rop = t.rop /\ u.interp = t.interp
         /\ u.src = ApplyRect(t.src, t.srect) /\ u.dst = ApplyRect(t.dst, t.drect)
         /\ Kind(u) = Kind(t)
  <1>1. t.src \in Buffers /\ t.dst \in Buffers /\ t.pat \in Buffers
    BY DEF ImageTask
  <1>2. \A image \in Buffers : \A rect :
          /\ ApplyRect(image, rect).fmt = image.fmt
          /\ ApplyRect(image, rect).csc = image.csc
          /\ ApplyRect(image, rect).mem = image.mem
    BY DEF ApplyRect, Buffers
  <1>3. LET u == Applied(t) IN
         /\ u.usage = t.usage /\ u.rop = t.rop /\ u.interp = t.interp
         /\ u.src = ApplyRect(t.src, t.srect) /\ u.dst = ApplyRect(t.dst, t.drect)
         /\ u.pat \in {t.pat, ApplyRect(t.pat, t.prect)}
    BY DEF Applied, ImageTask
  <1>4. Applied(t).pat.mem = t.pat.mem
    BY <1>1, <1>2, <1>3
  <1>5. Kind(Applied(t)) = Kind(t)
    BY <1>3, <1>4 DEF Kind, Blended, BufferValid
  <1> QED
    BY <1>1, <1>2, <1>3, <1>5

(* A request that a copy has written is that of generate_blit_req, and what *)
(* copies is a copy.                                                        *)
LEMMA CopyWritten ==
  ASSUME RequestFrom, Written, Kind(call.task) \in {"blit", "blit3"}
  PROVE  LET t == call.task IN
         /\ t \in ImageTask
         /\ call.req = BlitReq(Applied(t), Kind(t) = "blit3", Csc(Applied(t), info.feature), info, driver)
  <1> DEFINE t == call.task
             u == Applied(t)
  <1>1. /\ t \in ImageTask /\ call.req = Build(u, info, driver) /\ call.req # BlankReq
        /\ Kind(u) = Kind(t) /\ Kind(t) \in {"blit3", "blit"}
    BY AppliedKeeps DEF RequestFrom, Written
  <1> HIDE DEF t, u
  <1>2. ~Unaddressed(u)
    BY <1>1 DEF Build
  <1>3. call.req = BlitReq(u, Kind(u) = "blit3", Csc(u, info.feature), info, driver)
    BY <1>1, <1>2 DEF Build
  <1> QED
    BY <1>1, <1>3 DEF t, u

LEMMA BlitWritten ==
  ASSUME RequestFrom, Written, call.req.render = "bitblt"
  PROVE  LET t == call.task IN
         /\ t \in ImageTask /\ Kind(t) \in {"blit", "blit3"}
         /\ call.req = BlitReq(Applied(t), Kind(t) = "blit3", Csc(Applied(t), info.feature), info, driver)
  <1> DEFINE t == call.task
             u == Applied(t)
  <1>1. /\ t \in ImageTask /\ call.req = Build(u, info, driver)
        /\ Kind(u) = Kind(t) /\ Kind(t) \in {"fill", "palette", "blit3", "blit"}
    BY AppliedKeeps, KindFacts DEF RequestFrom, Written
  <1> HIDE DEF t, u
  <1>2. Kind(t) \in {"blit", "blit3"}
    BY <1>1 DEF Build, FillReq, PaletteReq, PaletteImages
  <1> QED
    BY <1>1, <1>2, CopyWritten DEF t, u

LEMMA EffectsOfRequest ==
  ASSUME RequestFrom
  PROVE  EffectsKept
  <1> SUFFICES ASSUME Written, call.req.render = "bitblt" PROVE EffectsKept
    BY DEF EffectsKept
  <1> DEFINE t == call.task
             u == Applied(t)
             s == Settings(u)
             e == call.req.effects
             rop      == "ROP" \in t.usage /\ t.rop
             gray     == t.dst.fmt \in Gray
             dithered == gray /\ t.dst.csc # {"RGB_TO_Y4"}
             mode     == Only(t.usage \cap BlendModes)
  <1>1. /\ t \in ImageTask /\ u.usage = t.usage /\ u.dst.fmt = t.dst.fmt /\ u.dst.csc = t.dst.csc
        /\ u.rop = t.rop
    BY BlitWritten, AppliedKeeps
  <1>2. e = EffectsOf(u.src, u.dst, s)
    BY BlitWritten DEF BlitReq
  <1>3. /\ s.rop = rop /\ s.dither = dithered /\ s.key = ("COLORKEY" \in t.usage)
        /\ s.quantize = ("NN_QUANTIZE" \in t.usage)
        /\ s.copied = CopiedSettings(u)
        /\ s.blend = IF mode = "none" /\ "COLORKEY" \in t.usage THEN "BLEND_SRC" ELSE mode
        /\ s.premul = (\/ mode = "none" /\ "COLORKEY" \in t.usage
                       \/ "PRE_MUL" \in t.usage /\ t.usage \cap BlendModes # {})
    BY <1>1 DEF Settings, BlendSettings, DitherSetting
  <1> HIDE DEF e, s, u, t
  <1>4. /\ rop => e.rop
        /\ s.key => e.key
        /\ e.blend = s.blend
        /\ rop => "rop" \in e.flags /\ "per pixel" \in e.mode
        /\ s.key => "real color" \in e.flags /\ "zero" \in e.mode
        /\ s.blend # "none" => "per pixel" \in e.mode
        /\ ~rop /\ ~dithered =>
             /\ s.blend # "none" => {"alpha", "PD", "cal"} \subseteq e.flags
             /\ s.blend # "none" /\ s.premul => "real color" \in e.flags
             /\ s.quantize => "quantize" \in e.flags
        /\ s.quantize => e.table = "quantize" \/ gray
        /\ e.copied = s.copied
    <2> HIDE DEF rop, dithered, gray
    <2>1. u.dst.fmt \in Gray <=> gray
      BY <1>1 DEF gray
    <2>2. (s.rop <=> rop) /\ (s.dither <=> dithered)
      BY <1>3
    <2> DEFINE p == u.src
               q == u.dst
    <2>3. e = EffectsOf(p, q, s) /\ (q.fmt \in Gray <=> gray)
      BY <1>2, <2>1
    <2> HIDE DEF p, q
    <2>4. s.rop => e.rop
      BY ONLY <2>3, EffectFields, Zenon
    <2>8. s.key => e.key
      BY ONLY <2>3, EffectFields, Zenon
    <2>9. e.blend = s.blend
      <3>1. EffectsOf(p, q, s).blend = s.blend
        BY ONLY EffectFields, ZenonT(60)
      <3> QED
        BY ONLY <2>3, <3>1
    <2>7. /\ s.rop => "rop" \in e.flags /\ "per pixel" \in e.mode
          /\ s.key => "real color" \in e.flags /\ "zero" \in e.mode
          /\ s.blend # "none" => "per pixel" \in e.mode
      BY ONLY <2>3, EffectFields
    <2>5. ~s.rop /\ ~s.dither =>
             /\ s.blend # "none" => "alpha" \in e.flags /\ "PD" \in e.flags /\ "cal" \in e.flags
             /\ s.blend # "none" /\ s.premul => "real color" \in e.flags
             /\ s.quantize => "quantize" \in e.flags
      BY ONLY <2>3, EffectFields
    <2>6. s.quantize => e.table = "quantize" \/ gray
      BY ONLY <2>3, EffectFields, Zenon
    <2>10. e.copied = s.copied
      <3>1. EffectsOf(p, q, s).copied = s.copied
        BY ONLY EffectFields, ZenonT(60)
      <3> QED
        BY ONLY <2>3, <3>1
    <2> QED
      BY <2>2, <2>4, <2>5, <2>6, <2>7, <2>8, <2>9, <2>10
  <1>5. \A b \in BlendModes : t.usage \cap BlendModes = {b} => mode = b /\ b # "none"
    BY OnlyFacts DEF BlendModes
  <1>6. t.usage \cap {"MOSAIC", "OSD", "PRE_INTR", "GAUSS"} \subseteq e.copied
    BY <1>1, <1>3, <1>4 DEF CopiedSettings
  <1>7. "COLORKEY" \in t.usage =>
           e.key /\ "real color" \in e.flags /\ "zero" \in e.mode /\ e.blend # "none"
    BY <1>3, <1>4
  <1>8. ASSUME NEW b \in BlendModes, t.usage \cap BlendModes = {b}
        PROVE  /\ e.blend = b /\ "per pixel" \in e.mode
               /\ (rop \/ dithered) \/ {"alpha", "PD", "cal"} \subseteq e.flags
               /\ "PRE_MUL" \in t.usage => (rop \/ dithered) \/ "real color" \in e.flags
    BY <1>3, <1>4, <1>5, <1>8
  <1>9. "NN_QUANTIZE" \in t.usage =>
             /\ (rop \/ dithered) \/ "quantize" \in e.flags
             /\ e.table = "quantize" \/ gray
    BY <1>3, <1>4
  <1> QED
    BY <1>4, <1>6, <1>7, <1>8, <1>9 DEF EffectsKept, t, e

(* The conversion from one colour space to another turns RGB into YUV only  *)
(* from RGB to YUV, and so the other way round.                             *)
YuvSpaces == {"601_LIMIT", "601_FULL", "709_LIMIT", "709_FULL"}

LEMMA FullModeFacts ==
  ASSUME NEW row \in FullMode
  PROVE  /\ row[3] \in Y2rModes => row[1] \in YuvSpaces /\ row[2] = "RGB_FULL"
         /\ row[3] \in R2yModes => row[1] = "RGB_FULL" /\ row[2] \in YuvSpaces
         /\ row[3] \in FullBit[1] => row[2] \in YuvSpaces
  BY DEF FullMode, FullBit, Y2rModes, R2yModes, YuvSpaces

LEMMA CscModeFacts ==
  ASSUME NEW from, NEW to, NEW features, NEW m \in CscMode(from, to, features)
  PROVE  /\ m \in Y2rModes => from \in YuvSpaces /\ to = "RGB_FULL"
         /\ m \in R2yModes => from = "RGB_FULL" /\ to \in YuvSpaces
         /\ m \in FullBit[1] => to \in YuvSpaces
  <1> DEFINE asked == <<"RGB_FULL", "709_LIMIT", R2y709(features)>>
  <1>1. m = "every bit" \/ \E row \in FullMode \cup {asked} : row[1] = from /\ row[2] = to /\ m = row[3]
    BY DEF CscMode, EveryBit
  <1>2. CASE m = "every bit"
    BY <1>2 DEF Y2rModes, R2yModes, FullBit
  <1>3. CASE \E row \in FullMode : row[1] = from /\ row[2] = to /\ m = row[3]
    BY <1>3, FullModeFacts
  <1>4. CASE from = "RGB_FULL" /\ to = "709_LIMIT" /\ m = R2y709(features)
    BY <1>4 DEF R2y709, Y2rModes, YuvSpaces
  <1>5. asked[1] = "RGB_FULL" /\ asked[2] = "709_LIMIT" /\ asked[3] = R2y709(features)
    OBVIOUS
  <1> HIDE DEF asked
  <1> QED
    BY <1>1, <1>2, <1>3, <1>4, <1>5

(* A format is RGB or YUV or has no colours.                                *)
LEMMA ColorsApart == \A fmt : ~(IsRgb(fmt) /\ IsYuv(fmt))
  BY DEF IsRgb, IsYuv

(* An image whose colour space fits its format is of the colours of that.   *)
FitsSpace(image) ==
  \A m \in image.csc \cap FullSpaces : IF m = "RGB_FULL" THEN IsRgb(image.fmt) ELSE IsYuv(image.fmt)

LEMMA SpaceFits ==
  ASSUME NEW image, FitsSpace(image)
  PROVE  /\ SpaceOf(image) = "RGB_FULL" => IsRgb(image.fmt)
         /\ SpaceOf(image) \in YuvSpaces => IsYuv(image.fmt)
  <1>1. CASE image.csc = {}
    BY <1>1 DEF SpaceOf, YuvSpaces
  <1>2. CASE image.csc # {}
    <2>1. SpaceOf(image) = Only(image.csc)
      BY <1>2 DEF SpaceOf
    <2>2. Only(image.csc) # "none" => Only(image.csc) \in image.csc
      BY DEF Only
    <2>3. SpaceOf(image) \in YuvSpaces \cup {"RGB_FULL"} => SpaceOf(image) \in image.csc \cap FullSpaces
      BY <2>1, <2>2 DEF YuvSpaces, FullSpaces
    <2> QED
      BY <2>3 DEF FitsSpace, YuvSpaces
  <1> QED
    BY <1>1, <1>2

(* What the conversion of a task that passed turns into what.               *)
LEMMA CscFacts ==
  ASSUME NEW t, NEW features, CscLegality(t) = "NOERROR",
         FitsSpace(t.src), FitsSpace(t.dst), FitsSpace(t.pat)
  PROVE  /\ Csc(t, features) \cap Y2rModes # {} => IsYuv(t.src.fmt)
         /\ Csc(t, features) \cap (R2yModes \cup FullBit[1]) # {} => IsYuv(t.dst.fmt)
  <1> DEFINE csc   == Csc(t, features)
             turns == R2yModes \cup FullBit[1]
             asked == Y2r(t.dst) \cup R2y(t.dst)
             full  == \E image \in {t.src, t.pat, t.dst} : image.csc \cap FullSpaces # {}
             s == SpaceOf(t.src)
             p == SpaceOf(t.pat)
             d == SpaceOf(t.dst)
  <1>1. /\ "rgb2yuv_709_limit" \notin Y2rModes /\ Y2rModes \cap turns = {}
        /\ R2yModes \cap FullBit[1] = {}
    BY DEF Y2rModes, R2yModes, FullBit
  <1>2. CASE asked # {}
    <2>1. /\ csc \subseteq Y2r(t.dst) \cup R2y(t.dst) \cup {"rgb2yuv_709_limit"}
          /\ "rgb2yuv_709_limit" \in csc => R2y(t.dst) # {}
      <3>1. "rgb2yuv_709_limit" \notin asked
        BY DEF Y2r, R2y, Y2rModes, R2yModes
      <3> QED
        BY <1>2, <3>1 DEF Csc
    <2>2. /\ csc \cap Y2rModes # {} => Y2r(t.dst) # {}
          /\ csc \cap turns # {} => R2y(t.dst) # {}
      BY <1>1, <2>1 DEF Y2r, R2y
    <2>3. (Y2r(t.dst) # {} => IsYuv(t.src.fmt)) /\ (R2y(t.dst) # {} => IsYuv(t.dst.fmt))
      BY DEF CscLegality, Refuse
    <2> QED
      BY <2>2, <2>3
  <1>3. CASE asked = {} /\ ~full
    BY <1>3 DEF Csc
  <1>4. CASE asked = {} /\ full /\ ~BufferValid(t.pat)
    <2>1. csc = CscMode(s, d, features)
      BY <1>4 DEF Csc
    <2> QED
      BY <2>1, CscModeFacts, SpaceFits
  <1>5. CASE asked = {} /\ full /\ BufferValid(t.pat)
    <2>1. csc = CscMode(s, p, features) \cup CscMode(p, d, features)
      BY <1>5 DEF Csc
    <2>2. IsRgb(t.pat.fmt)
      BY <1>5 DEF CscLegality, Refuse
    <2>3. p \notin YuvSpaces
      BY <2>2, SpaceFits, ColorsApart
    <2>4. \A m \in CscMode(p, d, features) : m \notin Y2rModes
      BY <2>3, CscModeFacts
    <2>5. \A m \in CscMode(s, p, features) : m \notin turns
      BY <2>3, CscModeFacts
    <2> QED
      BY <2>1, <2>4, <2>5, CscModeFacts, SpaceFits
  <1> QED
    BY <1>2, <1>3, <1>4, <1>5

LEMMA ConversionOfRequest ==
  ASSUME RequestFrom
  PROVE  ConversionMatches
  <1> SUFFICES ASSUME Written, Kind(call.task) \in {"blit", "blit3"},
                      \A image \in {call.task.src, call.task.dst, call.task.pat} : Agrees(image)
               PROVE  ConversionMatches
    BY DEF ConversionMatches
  <1> DEFINE t    == call.task
             u    == Applied(t)
             src1 == Kind(t) = "blit3"
             csc  == Csc(u, info.feature)
             c    == call.req.csc
  <1>1. /\ t \in ImageTask
        /\ u.src.fmt = t.src.fmt /\ u.dst.fmt = t.dst.fmt /\ u.pat.fmt = t.pat.fmt
        /\ u.src.csc = t.src.csc /\ u.dst.csc = t.dst.csc /\ u.pat.csc = t.pat.csc
    BY CopyWritten, AppliedKeeps
  <1>2. c = Conversion(u, src1, csc)
    BY CopyWritten DEF BlitReq
  <1>3. CscLegality(u) = "NOERROR"
    BY DEF RequestFrom, Written, SubmitStatus, ??
  <1>4. FitsSpace(u.src) /\ FitsSpace(u.dst) /\ FitsSpace(u.pat)
    BY <1>1 DEF FitsSpace, Agrees
  <1>5. /\ csc \cap Y2rModes # {} => IsYuv(t.src.fmt)
        /\ csc \cap (R2yModes \cup FullBit[1]) # {} => IsYuv(t.dst.fmt)
    BY <1>1, <1>3, <1>4, CscFacts
  <1>9. ASSUME FullPart(csc) = {"rgb2yuv_709_limit"} PROVE IsYuv(t.dst.fmt)
    <2>1. 1 \in FullBits(csc) /\ 3 \notin FullBits(csc)
      <3>1. 1 \in FullBits({"rgb2yuv_709_limit"}) /\ 3 \notin FullBits({"rgb2yuv_709_limit"})
        <4>1. "rgb2yuv_709_limit" \in FullBit[1] /\ "rgb2yuv_709_limit" \notin FullBit[3] \cup EveryBit
          BY DEF FullBit, EveryBit
        <4>2. /\ {"rgb2yuv_709_limit"} \cap (FullBit[1] \cup EveryBit) # {}
              /\ {"rgb2yuv_709_limit"} \cap (FullBit[3] \cup EveryBit) = {}
          <5> HIDE DEF csc
          <5> QED
            BY <4>1
        <4> QED
          BY <4>2 DEF FullBits
      <3> QED
        BY <1>9, <3>1 DEF FullPart
    <2>2. csc \cap FullBit[1] # {}
      BY <2>1 DEF FullBits
    <2> QED
      BY <1>5, <2>2
  <1> HIDE DEF csc
  <1>6. /\ c.y2r # {} => IsYuv(t.src.fmt)
        /\ c.r2y # {} => IsYuv(t.dst.fmt)
    BY <1>1, <1>2, <1>5, <1>9 DEF Conversion
  <1>7. ASSUME IsYuv(t.src.fmt), IsRgb(IF src1 THEN t.pat.fmt ELSE t.dst.fmt),
               src1 => IsRgb(t.dst.fmt) \/ IsYuv(t.dst.fmt)
        PROVE  c.y2r # {}
    BY <1>1, <1>2, <1>7 DEF Conversion
  <1>8. ASSUME IsYuv(t.dst.fmt), IsRgb(IF src1 THEN t.pat.fmt ELSE t.src.fmt),
               src1 => IsRgb(t.src.fmt) \/ IsYuv(t.src.fmt)
        PROVE  c.r2y # {}
    BY <1>1, <1>2, <1>8 DEF Conversion
  <1> QED
    BY <1>6, <1>7, <1>8 DEF ConversionMatches

LEMMA EvenRequest ==
  ASSUME RequestFrom, ShapedSent
  PROVE  Unscaled1to1
  <1> SUFFICES ASSUME Written, MustNotScale(call.api, call.task) PROVE Unscaled1to1
    BY DEF Unscaled1to1, MustNotScale
  <1> DEFINE t == call.task
             u == Applied(t)
  <1>1. EvenlyApplied(t)
    BY DEF ShapedSent, Shaped, Written
  <1>2. /\ call.req.src = Copied(u.src, u.srect, driver)
        /\ call.req.dst = Oriented(Copied(u.dst, u.drect, driver), Turn(u.usage))
        /\ t \in ImageTask
    BY <1>1, CopyWritten DEF EvenlyApplied, BlitReq
  <1>3. ~QuarterTurn(Turn(u.usage))
    <2>1. u.usage \cap Rotations = {}
      BY <1>1, <1>2, AppliedKeeps DEF EvenlyApplied
    <2> QED
      BY <2>1 DEF QuarterTurn, Turn, Only
  <1>4. SameSize(u.src, u.dst)
    BY <1>1 DEF EvenlyApplied
  <1> QED
    BY <1>2, <1>3, <1>4 DEF SameSize, Oriented, Copied, Window, Unscaled1to1

-----------------------------------------------------------------------------
LEMMA ImageInv == ImageSpec => []Inv
  BY InitInv, NextInv, PTL DEF ImageSpec

(* The entry and what a call leaves behind have their types, and only a     *)
(* call that succeeds has sent a request.                                   *)
THEOREM ImageTypeCorrect == ImageSpec => []ImageTypeOK
  <1>1. Inv => ImageTypeOK
    BY DEF Inv
  <1> QED
    BY <1>1, ImageInv, PTL

(* For any images, rectangles, tables and chips: every request that reaches *)
(* the driver reads and writes inside the buffers its images declare and    *)
(* within the resolutions of the merged entry.                              *)
THEOREM ImageAcceptedInside == ImageSpec => []AcceptedInside
  <1>1. Inv => AcceptedInside
    BY DEF Inv
  <1> QED
    BY <1>1, ImageInv, PTL

(* For any images and limits: the scaling the hardware is asked for, with   *)
(* the sides as it sees them, is within the limit that was checked.         *)
THEOREM ImageScaleAsSeen == ImageSpec => []ScaleAsSeen
  <1>1. Inv => ScaleAsSeen
    BY DEF Inv
  <1> QED
    BY <1>1, ImageInv, PTL

(* A chip that im2d neither knows nor guesses has every operation refused.  *)
THEOREM ImageUnknownRefused == ImageSpec => []UnknownRefused
  <1>1. Inv => UnknownRefused
    BY DEF Inv
  <1> QED
    BY <1>1, ImageInv, PTL

(* For any images and tasks: what improcess sends to the driver, imcheck    *)
(* lets through.                                                            *)
THEOREM ImageCheckAgrees == ImageSpec => []CheckAgrees
  <1>1. Inv => CheckAgrees
    BY ExternalFacts DEF Inv, RequestFrom, CheckAgrees
  <1> QED
    BY <1>1, ImageInv, PTL

(* For any images, scalings and width of the line buffer: the interpolation *)
(* chosen for a caller who asks for none is accepted.                       *)
THEOREM ImageDefaultInterpAccepted == ImageSpec => []DefaultInterpAccepted
  <1>1. Inv => DefaultInterpAccepted
    <2> SUFFICES ASSUME Inv, call.task.interp = DefaultInterp
                 PROVE  CheckInterp(Applied(call.task), Kind(call.task) = "blit3", info.bicubic) = "NOERROR"
      BY DEF DefaultInterpAccepted
    <2>1. call.task \in ImageTask /\ info.bicubic \in Nat
      BY DEF Inv, ImageTypeOK, HwTypeOK, Entry
    <2>2. Applied(call.task) \in ImageTask /\ Applied(call.task).interp = DefaultInterp
      BY <2>1, AppliedFacts, AppliedKeeps
    <2> QED
      BY <2>1, <2>2, DefaultInterpFacts
  <1> QED
    BY <1>1, ImageInv, PTL

(* For any images and colour spaces: YUV is turned into RGB only when src   *)
(* is YUV, RGB into YUV only when dst is, and images of different colours   *)
(* are not combined as they are.                                            *)
THEOREM ImageConversionMatches == ImageSpec => []ConversionMatches
  <1>1. Inv => ConversionMatches
    BY ConversionOfRequest DEF Inv
  <1> QED
    BY <1>1, ImageInv, PTL

(* For any images and rectangles: the operations that must not scale do not.*)
THEOREM ImageUnscaled1to1 == ImageSpec => []Unscaled1to1
  <1>1. Inv => Unscaled1to1
    BY EvenRequest DEF Inv
  <1> QED
    BY <1>1, ImageInv, PTL

(* For any task: the fields several effects share hold all of them.         *)
THEOREM ImageEffectsKept == ImageSpec => []EffectsKept
  <1>1. Inv => EffectsKept
    BY EffectsOfRequest DEF Inv
  <1> QED
    BY <1>1, ImageInv, PTL
-----------------------------------------------------------------------------
(* What merging has made of the entries of the cores so far.                *)
MergedFirst(n) ==
  /\ \A f : f \in info.inFmt <=> \E i \in 1..n : f \in EntryOf(i).inFmt
  /\ \A f : f \in info.outFmt <=> \E i \in 1..n : f \in EntryOf(i).outFmt
  /\ \A f : f \in info.feature <=> \E i \in 1..n : f \in EntryOf(i).feature
  /\ n = 0 => info = Zero
  /\ n > 0 => \E i \in 1..n : info.inRes = EntryOf(i).inRes
  /\ n > 0 => \E i \in 1..n : info.outRes = EntryOf(i).outRes
  /\ n > 0 => \E i \in 1..n : info.scaleLimit = EntryOf(i).scaleLimit
  /\ n > 0 => \E i \in 1..n : info.byteStride = EntryOf(i).byteStride
  /\ \A i \in 1..n : EntryOf(i).byteStride <= info.byteStride

MergeInv ==
  /\ probe = "merging" => \A i \in 1..merged : Known(chip[i])
  /\ probe # "merging" /\ AllKnown => merged = Len(chip)
  /\ probe = "merging" \/ AllKnown => MergedFirst(merged)
  /\ NamedEntry(info)

(* Merging keeps an entry that querystring can tell.                        *)
LEMMA MergeNamed ==
  ASSUME NEW e \in Entry, NEW f \in Entry, NamedEntry(e), NamedEntry(f)
  PROVE  NamedEntry(Merge(e, f))
  <1> DEFINE m == Merge(e, f)
  <1>1. /\ m.inFmt = e.inFmt \cup f.inFmt /\ m.outFmt = e.outFmt \cup f.outFmt
        /\ m.feature = e.feature \cup f.feature
        /\ m.inRes \in {e.inRes, f.inRes} /\ m.outRes \in {e.outRes, f.outRes}
    BY DEF Merge, LargerRes
  <1> HIDE DEF m
  <1>2. NamedEntry(m)
    BY <1>1 DEF NamedEntry
  <1> QED
    BY <1>2 DEF m

LEMMA ErrorNamed == NamedEntry(Zero) /\ NamedEntry(VErr)
  <1>1. ResolutionTold(NoRes) = {}
    BY DEF ResolutionTold, NoRes
  <1> QED
    BY <1>1 DEF NamedEntry, Zero, VErr

(* One more core. *)
LEMMA MergeOne ==
  ASSUME HwTypeOK, MergeInv, MergeCore
  PROVE  MergedFirst(merged)'
  <1> DEFINE n == merged
             e == EntryOf(n + 1)
  <1>1. /\ n \in Nat /\ n' = n + 1 /\ chip' = chip /\ probe = "merging"
        /\ chip[n + 1].id \in DOMAIN CoreTable /\ info \in Entry /\ Known(chip[n + 1])
        /\ info' = Merge(info, e)
    BY HwAssumption DEF MergeCore, HwTypeOK, Known, EntryOf
  <1>2. e \in Entry /\ e.inRes.w > 0 /\ e.inRes.h > 0 /\ e.outRes.w > 0 /\ e.outRes.h > 0 /\ e.byteStride > 0
    BY <1>1, HwAssumption, TableAssumption DEF EntryOf
  <1>3. /\ info'.inFmt = info.inFmt \cup e.inFmt /\ info'.outFmt = info.outFmt \cup e.outFmt
        /\ info'.feature = info.feature \cup e.feature
        /\ info'.inRes = LargerRes(info.inRes, e.inRes)
        /\ info'.outRes = LargerRes(info.outRes, e.outRes)
        /\ info'.byteStride = Larger(info.byteStride, e.byteStride)
        /\ info'.scaleLimit = Larger(info.scaleLimit, e.scaleLimit)
    BY <1>1 DEF Merge
  <1>4. /\ info'.inRes \in {info.inRes, e.inRes} /\ info'.outRes \in {info.outRes, e.outRes}
        /\ info'.byteStride \in {info.byteStride, e.byteStride}
        /\ info.byteStride <= info'.byteStride /\ e.byteStride <= info'.byteStride
        /\ info'.scaleLimit \in {info.scaleLimit, e.scaleLimit}
        /\ info.byteStride \in Nat /\ e.byteStride \in Nat
    BY <1>1, <1>2, <1>3 DEF LargerRes, Larger, Entry
  <1>5. n = 0 => /\ info'.inRes = e.inRes /\ info'.outRes = e.outRes
                 /\ info'.byteStride = e.byteStride /\ info'.scaleLimit = e.scaleLimit
    <2> SUFFICES ASSUME n = 0
                 PROVE  /\ info'.inRes = e.inRes /\ info'.outRes = e.outRes
                        /\ info'.byteStride = e.byteStride /\ info'.scaleLimit = e.scaleLimit
      OBVIOUS
    <2>1. info = Zero
      BY <1>1 DEF MergeInv, MergedFirst
    <2>2. /\ info.inRes.w = 0 /\ info.inRes.h = 0 /\ info.outRes.w = 0 /\ info.outRes.h = 0
          /\ info.byteStride = 0 /\ info.scaleLimit = 0
      BY <2>1 DEF Zero, NoRes
    <2>3. \A a \in Nat : Larger(0, a) = a
      BY DEF Larger
    <2>4. e.scaleLimit \in Nat /\ e.byteStride \in Nat
      BY <1>2 DEF Entry
    <2>5. /\ LargerRes(info.inRes, e.inRes) = e.inRes
          /\ LargerRes(info.outRes, e.outRes) = e.outRes
      BY <1>2, <2>2 DEF LargerRes
    <2> QED
      BY <1>3, <2>2, <2>3, <2>4, <2>5
  <1>6. \A i : EntryOf(i)' = EntryOf(i)
    BY <1>1 DEF EntryOf
  <1>7. \A i : i \in 1..n' <=> i \in 1..n \/ i = n + 1
    BY <1>1
  <1>8. MergedFirst(n)
    BY <1>1 DEF MergeInv
  <1> HIDE DEF e
  <1>9. /\ \A f : f \in info'.inFmt <=> \E i \in 1..n' : f \in EntryOf(i).inFmt
        /\ \A f : f \in info'.outFmt <=> \E i \in 1..n' : f \in EntryOf(i).outFmt
        /\ \A f : f \in info'.feature <=> \E i \in 1..n' : f \in EntryOf(i).feature
    BY <1>3, <1>7, <1>8 DEF MergedFirst, e
  <1>10. n + 1 \in 1..n' /\ (n > 0 \/ n = 0) /\ e = EntryOf(n + 1)
    BY <1>1, <1>7 DEF e
  <1>11. /\ \E i \in 1..n' : info'.inRes = EntryOf(i).inRes
         /\ \E i \in 1..n' : info'.outRes = EntryOf(i).outRes
         /\ \E i \in 1..n' : info'.scaleLimit = EntryOf(i).scaleLimit
         /\ \E i \in 1..n' : info'.byteStride = EntryOf(i).byteStride
    <2>1. CASE n = 0
      BY <1>5, <1>10, <2>1
    <2>2. CASE n > 0
      BY <1>4, <1>7, <1>8, <1>10, <2>2 DEF MergedFirst
    <2> QED
      BY <1>10, <2>1, <2>2
  <1>12. \A i \in 1..n' : EntryOf(i).byteStride <= info'.byteStride
    <2> TAKE i \in 1..n'
    <2>1. CASE i = n + 1
      BY <1>4, <1>10, <2>1
    <2>2. CASE i \in 1..n
      <3>1. EntryOf(i) \in Entry
        BY <1>1, <2>2, HwAssumption DEF MergeInv, Known, EntryOf
      <3>2. EntryOf(i).byteStride \in Nat /\ info'.byteStride \in Nat
        BY <1>4, <3>1 DEF Entry
      <3> QED
        BY <1>4, <1>8, <2>2, <3>2 DEF MergedFirst
    <2> QED
      BY <1>7, <2>1, <2>2
  <1> QED
    BY <1>1, <1>6, <1>9, <1>11, <1>12 DEF MergedFirst

LEMMA MergeInit == ImageInit => MergeInv
  <1> SUFFICES ASSUME ImageInit PROVE MergeInv
    OBVIOUS
  <1>1. chip \in Chips /\ merged = 0 /\ info = Zero /\ probe = "merging"
    BY DEF ImageInit, HwInit
  <1>2. /\ info.inFmt = {} /\ info.outFmt = {} /\ info.feature = {}
    BY <1>1 DEF Zero
  <1> QED
    BY <1>1, <1>2, ErrorNamed DEF MergeInv, MergedFirst

LEMMA MergeStep ==
  ASSUME HwTypeOK, MergeInv, [ImageNext]_imageVars
  PROVE  MergeInv'
  <1>0. /\ chip \in Chips /\ chip \in Seq(Core) /\ chip # <<>>
        /\ merged \in 0..Len(chip) /\ Len(chip) \in Nat /\ info \in Entry
    BY HwAssumption DEF HwTypeOK
  <1>1. CASE UNCHANGED hwVars
    BY <1>1 DEF hwVars, MergeInv, MergedFirst, AllKnown, Known, EntryOf
  <1>2. CASE MergeCore
    <2>1. MergedFirst(merged)'
      BY <1>2, MergeOne
    <2>2. /\ probe = "merging" /\ probe' = "merging" /\ merged' = merged + 1 /\ chip' = chip
          /\ Known(chip[merged + 1]) /\ info' = Merge(info, EntryOf(merged + 1))
      BY <1>2 DEF MergeCore, EntryOf
    <2>3. NamedEntry(info')
      BY <1>0, <2>2, HwAssumption, QueryAssumption, MergeNamed DEF Known, EntryOf, MergeInv
    <2>4. \A i \in 1..merged' : Known(chip[i])
      BY <1>0, <2>2 DEF MergeInv
    <2>5. \A i : Known(chip'[i]) <=> Known(chip[i])
      BY <2>2
    <2> QED
      BY <2>1, <2>2, <2>3, <2>4, <2>5 DEF MergeInv, NamedEntry
  <1>3. CASE InfoComplete
    <2>1. MergedFirst(merged)
      BY <1>3 DEF InfoComplete, MergeInv
    <2>2. MergedFirst(merged)'
      BY <1>3, <2>1 DEF InfoComplete, MergedFirst, EntryOf
    <2> QED
      BY <1>3, <2>2 DEF InfoComplete, MergeInv
  <1>4. CASE TryCompatible
    <2>1. ~AllKnown /\ ~AllKnown'
      BY <1>0, <1>4 DEF TryCompatible, AllKnown, Known
    <2>2. NamedEntry(info')
      BY <1>4, QueryAssumption, ErrorNamed DEF TryCompatible, Guessed
    <2> QED
      BY <1>4, <2>1, <2>2 DEF TryCompatible, MergeInv, NamedEntry
  <1>5. CASE UseErrorEntry
    BY <1>5 DEF UseErrorEntry, MergeInv, MergedFirst, AllKnown, Known, EntryOf
  <1>6. ImageNext => HwNext \/ UNCHANGED hwVars
    BY StepCases DEF Probe, Return, Imcheck, Submits, Submit
  <1> QED
    BY <1>1, <1>2, <1>3, <1>4, <1>5, <1>6 DEF HwNext, imageVars, hwVars

LEMMA ImageMergeInv == ImageSpec => []MergeInv
  <1>1. Inv => HwTypeOK
    BY DEF Inv, ImageTypeOK
  <1> QED
    BY <1>1, MergeInit, MergeStep, ImageInv, PTL DEF ImageSpec

(* For any chips and tables: the entry the checks are made against is       *)
(* backed by the cores it was merged from.                                  *)
THEOREM ImageInfoBacked == ImageSpec => []InfoBacked
  <1>1. HwTypeOK /\ MergeInv => InfoBacked
    <2> SUFFICES ASSUME HwTypeOK, MergeInv, probe = "ready", AllKnown PROVE InfoBacked
      BY DEF InfoBacked
    <2>1. /\ chip \in Seq(Core) /\ chip # <<>> /\ merged = Len(chip) /\ MergedFirst(merged)
      BY HwAssumption DEF HwTypeOK, MergeInv
    <2>2. DOMAIN chip = 1..merged /\ merged > 0 /\ merged \in Nat
      BY <2>1
    <2>3. /\ info.inFmt = UNION {EntryOf(i).inFmt : i \in DOMAIN chip}
          /\ info.outFmt = UNION {EntryOf(i).outFmt : i \in DOMAIN chip}
          /\ info.feature = UNION {EntryOf(i).feature : i \in DOMAIN chip}
      BY <2>1, <2>2 DEF MergedFirst
    <2>4. \A i \in DOMAIN chip : info.byteStride % EntryOf(i).byteStride = 0
      <3> TAKE i \in DOMAIN chip
      <3>1. PICK j \in 1..merged : info.byteStride = EntryOf(j).byteStride
        BY <2>1, <2>2 DEF MergedFirst
      <3>2. EntryOf(i).byteStride <= EntryOf(j).byteStride
        BY <2>1, <2>2, <3>1 DEF MergedFirst
      <3>3. chip[i].id \in DOMAIN CoreTable /\ chip[j].id \in DOMAIN CoreTable
        BY <2>2, <3>1 DEF AllKnown, Known
      <3> QED
        BY <3>1, <3>2, <3>3, TableAssumption DEF EntryOf
    <2> QED
      BY <2>1, <2>2, <2>3, <2>4 DEF InfoBacked, MergedFirst
  <1>2. Inv => HwTypeOK
    BY DEF Inv, ImageTypeOK
  <1> QED
    BY <1>1, <1>2, ImageInv, ImageMergeInv, PTL

(* For any chips and tables: a program that asks is told of the formats and *)
(* features that have a name exactly those the checks accept, and no        *)
(* resolution or scale that they would refuse.                              *)
THEOREM ImageQueryHonest == ImageSpec => []QueryHonest
  <1>1. HwTypeOK /\ MergeInv => QueryHonest
    <2> SUFFICES ASSUME HwTypeOK, MergeInv, probe = "ready" PROVE QueryHonest
      BY DEF QueryHonest
    <2>1. Told.inputs = info.inFmt \cap NamedFormats
      BY DEF Told, InputFormatsTold
    <2>2. Told.outputs = info.outFmt \cap NamedFormats
      <3>1. Told.outputs = OutputFormatsTold
        BY DEF Told
      <3>2. \A f : f \in OutputFormatsTold <=> f \in info.outFmt \cap NamedFormats
        BY DEF OutputFormatsTold, MergeInv, NamedEntry
      <3> QED
        BY <3>1, <3>2
    <2>3. Told.features \subseteq info.feature /\ info.feature \ Told.features \subseteq {"SECURE"}
      BY DEF Told, FeaturesTold, MergeInv, NamedEntry
    <2>4. /\ \A r \in Told.maxInput : r.w <= info.inRes.w /\ r.h <= info.inRes.h
          /\ \A r \in Told.maxOutput : r.w <= info.outRes.w /\ r.h <= info.outRes.h
      BY DEF Told, MergeInv, NamedEntry
    <2>5. ASSUME AllKnown, NEW n \in Told.scaleLimit
          PROVE  \E i \in DOMAIN chip : EntryOf(i).scaleLimit = n
      <3>1. /\ chip \in Seq(Core) /\ chip # <<>> /\ merged = Len(chip) /\ MergedFirst(merged)
        BY <2>5, HwAssumption DEF HwTypeOK, MergeInv
      <3>2. DOMAIN chip = 1..merged /\ merged > 0
        BY <3>1
      <3>3. n = info.scaleLimit
        BY <2>5 DEF Told, ScaleLimitTold
      <3> QED
        BY <3>1, <3>2, <3>3 DEF MergedFirst
    <2> QED
      BY <2>1, <2>2, <2>3, <2>4, <2>5 DEF QueryHonest
  <1>2. Inv => HwTypeOK
    BY DEF Inv, ImageTypeOK
  <1> QED
    BY <1>1, <1>2, ImageInv, ImageMergeInv, PTL
=============================================================================
