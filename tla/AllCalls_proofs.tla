--------------------------- MODULE AllCalls_proofs ---------------------------
(* Proofs about AllCalls: a program that also uses the older API sees im2d  *)
(* behave as before, both interfaces tell the older drivers the right       *)
(* corner of a rotated image, and their generators agree.                   *)
EXTENDS AllCalls, ImageCall_proofs

LEMMA InitImage == AllInit => ImageInit
  BY DEF AllInit

LEMMA StepImage == [AllNext]_allVars => [ImageNext]_imageVars
  BY DEF AllNext, allVars, Im2d, RgaBlit, RgaCollorFill, RgaCollorPalette, RgaReturn, Made

(* The calls of the older API change nothing im2d sees, so that whatever    *)
(* holds of ImageSpec holds beside them.                                    *)
LEMMA AllImage == AllSpec => ImageSpec
  BY InitImage, StepImage, PTL DEF AllSpec, ImageSpec
-----------------------------------------------------------------------------
(* Where the requests come from. *)
FromIm2d ==
  Written /\ call.req.render = "bitblt" =>
    \E src1, csc, e, d : call.req = BlitReq(Applied(call.task), src1, csc, e, d)

FromRgaBlit ==
  legacy.req.render = "bitblt" =>
    \E s, v, stale : legacy.req = LegacyBlitReq(AllStrided(legacy.task), s, v, stale)

LEMMA IdleFromIm2d ==
  ASSUME call.req = NoReq
  PROVE  FromIm2d
  BY ConstantFacts DEF FromIm2d, Written, Sent

LEMMA IdleFromIm2dNext ==
  ASSUME call'.req = NoReq
  PROVE  FromIm2d'
  BY ConstantFacts DEF FromIm2d, Written, Sent

LEMMA BuildFromIm2d ==
  ASSUME NEW t \in ImageTask, NEW e, NEW d, Build(t, e, d).render = "bitblt",
         Build(t, e, d) # BlankReq
  PROVE  \E src1, csc, f, c : Build(t, e, d) = BlitReq(t, src1, csc, f, c)
  <1>1. CASE Kind(t) = "fill"
    BY <1>1 DEF Build, FillReq
  <1>2. CASE Kind(t) = "palette"
    BY <1>2 DEF Build, PaletteReq, PaletteImages
  <1>3. CASE Kind(t) \in {"blit", "blit3"}
    <2>1. ~Unaddressed(t)
      BY <1>3 DEF Build
    <2> QED
      BY <1>3, <2>1 DEF Build
  <1> QED
    BY <1>1, <1>2, <1>3, KindFacts

LEMMA SubmitFromIm2d ==
  ASSUME Submits
  PROVE  FromIm2d'
  <1> PICK api : \E t \in ImageTask, found \in Statuses : Ready /\ Submit(api, t, found)
    BY DEF Submits
  <1> PICK t \in ImageTask, found \in Statuses : Ready /\ Submit(api, t, found)
    OBVIOUS
  <1> DEFINE req == Build(Applied(t), info, driver)
  <1>1. call'.req = NoReq \/ (call'.req = req /\ call'.task = t)
    <2> DEFINE status == found ?? SubmitStatus(t, info, driver)
    <2>1. \/ call' = [api |-> api, task |-> t, status |-> status, req |-> NoReq, table |-> NoReq]
          \/ call' = [api |-> api, task |-> t, status |-> status, req |-> req,
                      table |-> TableOf(t)]
          \/ call' = [api |-> api, task |-> t, status |-> "FAILED", req |-> NoReq, table |-> NoReq]
      BY DEF Submit
    <2> HIDE DEF req
    <2> QED
      BY <2>1
  <1>2. CASE call'.req = NoReq
    BY <1>2, IdleFromIm2dNext
  <1>3. CASE call'.req = req /\ call'.task = t
    <2> SUFFICES ASSUME Written', req.render = "bitblt"
                 PROVE  \E src1, csc, e, d : req = BlitReq(Applied(t), src1, csc, e, d)
      BY <1>3 DEF FromIm2d
    <2>1. req # BlankReq /\ Applied(t) \in ImageTask
      BY <1>3, AppliedFacts DEF Written
    <2> QED
      BY <2>1, BuildFromIm2d
  <1> QED
    BY <1>1, <1>2, <1>3

LEMMA ImageStepFromIm2d ==
  ASSUME FromIm2d, [ImageNext]_imageVars
  PROVE  FromIm2d'
  <1>1. CASE UNCHANGED call
    BY <1>1 DEF FromIm2d, Written, Sent
  <1>2. CASE Return \/ Imcheck
    <2>1. call'.req = NoReq
      BY <1>2 DEF Return, Imcheck, Idle
    <2> QED
      BY <2>1, IdleFromIm2dNext
  <1>3. CASE Submits
    BY <1>3, SubmitFromIm2d
  <1> QED
    BY <1>1, <1>2, <1>3, StepCases DEF Probe, imageVars

LEMMA MadeFacts ==
  ASSUME NEW op, NEW asked, NEW status, NEW req, NEW table, Made(op, asked, status, req, table)
  PROVE  legacy'.req = NoReq \/ (legacy'.req = req /\ legacy'.task = asked.task)
  <1> DEFINE With(s, r, t) == [op |-> op, task |-> asked.task, twin |-> asked.twin, status |-> s,
                               req |-> r, table |-> t]
  <1>1. \A s, r, t : With(s, r, t).req = r /\ With(s, r, t).task = asked.task
    OBVIOUS
  <1>2. \/ legacy' = With(status, req, table)
        \/ legacy' = With("refused by the driver", NoReq, NoReq)
        \/ legacy' = With(status, NoReq, NoReq)
    BY DEF Made
  <1> HIDE DEF With
  <1>3. CASE legacy' = With(status, req, table)
    BY <1>1, <1>3
  <1>4. CASE legacy' = With("refused by the driver", NoReq, NoReq)
    BY <1>1, <1>4, ZenonT(60)
  <1>5. CASE legacy' = With(status, NoReq, NoReq)
    BY <1>1, <1>5
  <1> QED
    BY <1>2, <1>3, <1>4, <1>5

LEMMA LegacyStepFromRgaBlit ==
  ASSUME FromRgaBlit, [AllNext]_allVars
  PROVE  FromRgaBlit'
  <1>1. CASE UNCHANGED legacy
    BY <1>1 DEF FromRgaBlit
  <1>2. CASE legacy' = NoCall
    BY <1>2, ConstantFacts DEF FromRgaBlit, NoCall
  <1>3. CASE RgaBlit
    <2> PICK asked \in Asked({"blit", "blit3"}), stale \in BOOLEAN :
          LET t == AllStrided(asked.task)
          IN  Made("RgaBlit", asked, CheckLegacyBlit(t, version),
                   LegacyBlitReq(t, asked.settings, version, stale), NoReq)
      BY <1>3 DEF RgaBlit
    <2> DEFINE req == LegacyBlitReq(AllStrided(asked.task), asked.settings, version, stale)
    <2>1. legacy'.req = NoReq \/ (legacy'.req = req /\ legacy'.task = asked.task)
      BY MadeFacts
    <2> QED
      BY <2>1, ConstantFacts DEF FromRgaBlit
  <1>4. CASE RgaCollorFill
    <2> PICK asked \in Asked({"fill"}), left \in BOOLEAN, unset \in BOOLEAN :
          LET t == AllStrided(asked.task)
          IN  Made("RgaCollorFill", asked, CheckLegacyFill(t, unset),
                   LegacyFillReq(t, version, left, unset), NoReq)
      BY <1>4 DEF RgaCollorFill
    <2> DEFINE req == LegacyFillReq(AllStrided(asked.task), version, left, unset)
    <2>1. legacy'.req = NoReq \/ legacy'.req = req
      BY MadeFacts
    <2>2. req.render = "color_fill"
      BY DEF LegacyFillReq
    <2> QED
      BY <2>1, <2>2, ConstantFacts DEF FromRgaBlit
  <1>5. CASE RgaCollorPalette
    <2>1. legacy'.req = NoReq \/ legacy'.req = StackReq
      <3> PICK asked \in Asked({"palette"}) :
            LET t == PaletteStrided(asked.task)
            IN  Made("RgaCollorPalette", asked, CheckLegacyPalette(t), StackReq,
                     IF HasSrc1(t) THEN LegacyTableReq(t, version) ELSE NoReq)
        BY <1>5 DEF RgaCollorPalette
      <3> QED
        BY MadeFacts
    <2>2. StackReq.render = "stack"
      BY DEF StackReq, BlankReq
    <2> QED
      BY <2>1, <2>2, ConstantFacts DEF FromRgaBlit
  <1> QED
    BY <1>1, <1>2, <1>3, <1>4, <1>5 DEF AllNext, allVars, Im2d, RgaReturn
-----------------------------------------------------------------------------
(* The corner of either generator's request. *)
LEMMA CornerBlit ==
  ASSUME NEW t, NEW src1, NEW csc, NEW e, NEW d
  PROVE  LET c == Compat(BlitReq(t, src1, csc, e, d)).dst
         IN  c.x = CornerOf(t).x /\ c.y = CornerOf(t).y
  <1> DEFINE rot == Turn(t.usage).rot
  <1>1. rot \in {"ROT_90", "ROT_180", "ROT_270", "none"}
    BY DEF Turn, Only, Rotations
  <1> QED
    BY <1>1 DEF Compat, BlitReq, Oriented, QuarterTurn, Turned, Copied, Window, CornerOf

LEMMA CornerLegacy ==
  ASSUME NEW t, NEW s, NEW v, NEW stale
  PROVE  LET c == Compat(LegacyBlitReq(AllStrided(t), s, v, stale)).dst
         IN  c.x = CornerOf(t).x /\ c.y = CornerOf(t).y
  <1> DEFINE rot == Turn(t.usage).rot
  <1>1. rot \in {"ROT_90", "ROT_180", "ROT_270", "none"}
    BY DEF Turn, Only, Rotations
  <1>2. /\ AllStrided(t).usage = t.usage /\ AllStrided(t).drect = t.drect
        /\ AllStrided(t).dst.w = t.dst.w /\ AllStrided(t).dst.h = t.dst.h
    BY DEF AllStrided, Strided
  <1> QED
    BY <1>1, <1>2 DEF Compat, LegacyBlitReq, LegacyWindow, CornerOf

LEMMA CornersOf ==
  ASSUME FromIm2d, FromRgaBlit
  PROVE  TurnedCorner
  <1>1. Written /\ call.req.render = "bitblt" =>
          LET c == Compat(call.req).dst
          IN  c.x = CornerOf(Applied(call.task)).x /\ c.y = CornerOf(Applied(call.task)).y
    BY CornerBlit DEF FromIm2d
  <1>2. legacy.req.render = "bitblt" =>
          LET c == Compat(legacy.req).dst
          IN  c.x = CornerOf(legacy.task).x /\ c.y = CornerOf(legacy.task).y
    BY CornerLegacy DEF FromRgaBlit
  <1>3. \A t, c : c.x = CornerOf(t).x /\ c.y = CornerOf(t).y
                   => [x |-> c.x, y |-> c.y] = CornerOf(t)
    BY DEF CornerOf
  <1> QED
    BY <1>1, <1>2, <1>3 DEF TurnedCorner

(* For any images, rectangles and rotations, and for whatever either        *)
(* generator was given: the older drivers start a rotated dst at the corner *)
(* in memory the first pixel of src is turned into.                         *)
THEOREM AllTurnedCorner == AllSpec => []TurnedCorner
  <1>1. AllInit => FromIm2d /\ FromRgaBlit
    BY ConstantFacts DEF AllInit, ImageInit, Idle, NoCall, FromIm2d, FromRgaBlit, Written, Sent
  <1>2. FromIm2d /\ FromRgaBlit /\ [AllNext]_allVars => (FromIm2d /\ FromRgaBlit)'
    BY StepImage, ImageStepFromIm2d, LegacyStepFromRgaBlit
  <1>3. FromIm2d /\ FromRgaBlit => TurnedCorner
    BY CornersOf
  <1> QED
    BY <1>1, <1>2, <1>3, PTL DEF AllSpec
-----------------------------------------------------------------------------
(* The two generators.  w is the task of the older call for the task u that *)
(* im2d has applied the rectangles to: the same images and rectangles, the  *)
(* conversion in dst, and a third image only if it is used.                 *)
SameTask(w, u, src1, csc) ==
  /\ {"src", "dst", "pat"} \subseteq DOMAIN w
  /\ w.src = u.src /\ w.dst = [u.dst EXCEPT !.csc = csc]
  /\ w.pat = IF src1 THEN u.pat ELSE NoImage
  /\ w.srect = u.srect /\ w.drect = u.drect /\ w.prect = u.prect
  /\ w.usage = u.usage /\ w.interp = u.interp

LEMMA TwinSame ==
  ASSUME NEW t \in ImageTask
  PROVE  SameTask(Twin(t), Applied(t), Kind(t) \in {"blit3", "palette"},
                  Csc(Applied(t), info.feature))
  <1> DEFINE u == Applied(t)
             csc == Csc(u, info.feature)
  <1>1. u \in ImageTask
    BY AppliedFacts
  <1> HIDE DEF u, csc
  <1>2. Twin(t) = [u EXCEPT !.dst.csc = csc,
                            !.pat = IF Kind(t) \in {"blit3", "palette"} THEN @ ELSE NoImage]
    BY DEF Twin, u, csc
  <1>3. SameTask(Twin(t), u, Kind(t) \in {"blit3", "palette"}, csc)
    BY <1>1, <1>2 DEF SameTask, ImageTask
  <1> QED
    BY <1>3 DEF u, csc

(* A vertical stride that is there is kept.                                 *)
LEMMA StridedSame ==
  ASSUME NEW u \in ImageTask, NEW w, NEW src1 \in BOOLEAN, NEW csc, SameTask(w, u, src1, csc),
         u.src.hs # 0, u.dst.hs # 0, src1 => u.pat.hs # 0
  PROVE  SameTask(AllStrided(w), u, src1, csc)
  <1>1. Strided(w.src) = w.src /\ Strided(w.dst) = w.dst
    BY DEF SameTask, Strided, ImageTask, Buffers
  <1>2. Strided(w.pat) = w.pat
    <2>1. Strided(NoImage) = NoImage
      BY DEF Strided, NoImage
    <2> QED
      BY <2>1 DEF SameTask, Strided
  <1> QED
    BY <1>1, <1>2 DEF SameTask, AllStrided

LEMMA PaletteStridedSame ==
  ASSUME NEW u \in ImageTask, NEW w, NEW src1 \in BOOLEAN, NEW csc, SameTask(w, u, src1, csc),
         u.src.hs # 0, u.dst.hs # 0
  PROVE  SameTask(PaletteStrided(w), u, src1, csc)
  <1>1. Strided(w.src) = w.src /\ Strided(w.dst) = w.dst
    BY DEF SameTask, Strided, ImageTask, Buffers
  <1> QED
    BY <1>1 DEF SameTask, PaletteStrided

LEMMA SrcOneSame ==
  ASSUME NEW u, NEW w, NEW src1 \in BOOLEAN, NEW csc, SameTask(w, u, src1, csc),
         src1 => BufferValid(u.pat)
  PROVE  HasSrc1(w) = src1
  <1>1. NoImage.mem = "none" /\ NoImage.w = 0
    BY DEF NoImage
  <1> QED
    BY <1>1 DEF SameTask, HasSrc1, BufferValid

LEMMA SameHandles ==
  ASSUME NEW u \in ImageTask, NEW w, NEW src1 \in BOOLEAN, NEW csc, SameTask(w, u, src1, csc),
         HasSrc1(w) = src1,
         CheckHandles({u.src, u.dst} \cup IF src1 THEN {u.pat} ELSE {}) = "NOERROR"
  PROVE  CheckHandles(Images(w)) = "NOERROR"
  <1>1. w.src = u.src /\ w.dst.mem = u.dst.mem /\ (src1 => w.pat = u.pat)
    BY DEF SameTask, ImageTask, Buffers
  <1> QED
    BY <1>1 DEF CheckHandles, Refuse, Images

LEMMA SameMemory ==
  ASSUME NEW u \in ImageTask, NEW w, NEW src1 \in BOOLEAN, NEW csc, SameTask(w, u, src1, csc),
         HasSrc1(w) = src1, BufferValid(u.src), BufferValid(u.dst), src1 => BufferValid(u.pat)
  PROVE  CheckMemory(w) = "NOERROR"
  <1>1. w.src = u.src /\ w.dst.mem = u.dst.mem /\ (src1 => w.pat = u.pat)
    BY DEF SameTask, ImageTask, Buffers
  <1> QED
    BY <1>1 DEF CheckMemory, Refuse, Images, BufferValid

LEMMA SameRect ==
  ASSUME NEW image \in Buffers, NEW csc, NEW rect
  PROVE  CheckRect([image EXCEPT !.csc = csc], rect) = CheckRect(image, rect)
  BY DEF CheckRect, Buffers

(* What the scaling is measured against: the same sides.                    *)
LEMMA ScaledSides ==
  ASSUME NEW u \in ImageTask, NEW w, NEW src1 \in BOOLEAN, NEW csc, SameTask(w, u, src1, csc)
  PROVE  /\ Scaled(w, src1).w = Scaled(u, src1).w /\ Scaled(w, src1).h = Scaled(u, src1).h
         /\ Scaled(u, src1).w \in Int /\ Scaled(u, src1).h \in Int
  <1> DEFINE turned == QuarterTurnAlone(Turn(u.usage))
  <1>1. \A a, b \in Buffers : a.w = b.w /\ a.h = b.h =>
          /\ Swapped(a).w = Swapped(b).w /\ Swapped(a).h = Swapped(b).h
          /\ Swapped(b).w \in Int /\ Swapped(b).h \in Int
    BY DEF Swapped, Buffers
  <1> DEFINE into == IF src1 THEN w.pat ELSE w.dst
             onto == IF src1 THEN u.pat ELSE u.dst
  <1>2. into.w = onto.w /\ into.h = onto.h /\ onto \in Buffers
        /\ DOMAIN into = {"w", "h", "ws", "hs", "fmt", "mem", "mode", "csc"}
    BY DEF SameTask, ImageTask, Buffers
  <1>3. /\ Swapped(into).w = into.h /\ Swapped(into).h = into.w
        /\ Swapped(onto).w = onto.h /\ Swapped(onto).h = onto.w
    <2> HIDE DEF into, onto
    <2> QED
      BY <1>2 DEF Swapped, Buffers
  <1>4. /\ Scaled(w, src1) = (IF turned THEN Swapped(into) ELSE into)
        /\ Scaled(u, src1) = (IF turned THEN Swapped(onto) ELSE onto)
    BY DEF Scaled, SameTask
  <1> HIDE DEF into, onto, turned
  <1>5. onto.w \in Int /\ onto.h \in Int
    BY <1>2 DEF Buffers
  <1> QED
    BY <1>2, <1>3, <1>4, <1>5

LEMMA Multiples ==
  ASSUME NEW limit \in Nat, NEW most \in Nat, limit <= most, NEW a \in Int, NEW b \in Int,
         b >= 0, a <= limit * b
  PROVE  a <= most * b
  <1>1. (most - limit) * b >= 0
    OBVIOUS
  <1>2. (most - limit) * b = most * b - limit * b
    OBVIOUS
  <1> QED
    BY <1>1, <1>2

(* What im2d's limit lets through is within any larger one, measured the    *)
(* way the generators do.                                                   *)
LEMMA WithinLimit ==
  ASSUME NEW u \in ImageTask, NEW src1 \in BOOLEAN, NEW limit \in Nat, NEW most \in Nat,
         limit <= most,
         CheckLimit(u.src, u.dst, limit, u.usage) = "NOERROR",
         u.src.w >= 0, u.src.h >= 0, u.dst.w >= 0, u.dst.h >= 0,
         src1 => u.pat.w = u.dst.w /\ u.pat.h = u.dst.h,
         OneRotation(u.usage), QuarterTurn(Turn(u.usage)) => QuarterTurnAlone(Turn(u.usage))
  PROVE  LET to == Scaled(u, src1)
         IN  /\ u.src.w <= most * to.w /\ u.src.h <= most * to.h
             /\ to.w <= most * u.src.w /\ to.h <= most * u.src.h
  <1> DEFINE to == Scaled(u, src1)
             turned == u.usage \cap {"ROT_90", "ROT_270"} # {}
             d == IF turned THEN Swapped(u.dst) ELSE u.dst
  <1>0. /\ u.src.w \in Int /\ u.src.h \in Int /\ u.dst.w \in Int /\ u.dst.h \in Int
        /\ u.src \in Buffers /\ u.dst \in Buffers /\ u.pat \in Buffers
    BY DEF ImageTask, Buffers
  <1>1. QuarterTurnAlone(Turn(u.usage)) <=> turned
    BY QuarterTurnFacts DEF QuarterTurnAlone, QuarterTurn
  <1>2. \A image \in Buffers : Swapped(image).w = image.h /\ Swapped(image).h = image.w
    BY DEF Swapped, Buffers
  <1>3. to.w = d.w /\ to.h = d.h /\ d.w \in Int /\ d.h \in Int /\ d.w >= 0 /\ d.h >= 0
    <2>1. to = (IF turned THEN Swapped(IF src1 THEN u.pat ELSE u.dst)
                ELSE IF src1 THEN u.pat ELSE u.dst)
      BY <1>1 DEF Scaled
    <2> HIDE DEF to, turned
    <2> QED
      BY <1>0, <1>2, <2>1
  <1>4. ~TooFar(u.src.w, d.w, limit) /\ ~TooFar(u.src.h, d.h, limit)
    BY DEF CheckLimit, Refuse
  <1> HIDE DEF to, d, turned
  <1>5. /\ u.src.w <= limit * d.w /\ d.w <= limit * u.src.w
        /\ u.src.h <= limit * d.h /\ d.h <= limit * u.src.h
    BY <1>0, <1>3, <1>4 DEF TooFar
  <1>6. /\ u.src.w <= most * d.w /\ d.w <= most * u.src.w
        /\ u.src.h <= most * d.h /\ d.h <= most * u.src.h
    BY <1>0, <1>3, <1>5, Multiples
  <1> QED
    BY <1>3, <1>6 DEF to

LEMMA SameScale ==
  ASSUME NEW u \in ImageTask, NEW w, NEW src1 \in BOOLEAN, NEW csc, SameTask(w, u, src1, csc),
         HasSrc1(w) = src1, NEW v \in Nat, NEW limit \in Nat, limit <= LegacyLimit(v),
         CheckLimit(u.src, u.dst, limit, u.usage) = "NOERROR",
         u.src.w >= 0, u.src.h >= 0, u.dst.w >= 0, u.dst.h >= 0,
         src1 => u.pat.w = u.dst.w /\ u.pat.h = u.dst.h,
         OneRotation(u.usage), QuarterTurn(Turn(u.usage)) => QuarterTurnAlone(Turn(u.usage)),
         ~(src1 /\ v = 2000 /\ (\/ u.src.w > 8 * Scaled(w, src1).w
                                \/ u.src.h > 8 * Scaled(w, src1).h))
  PROVE  LegacyScale(w, v) = "NOERROR"
  <1> DEFINE to == Scaled(w, src1)
             Held(most) == /\ u.src.w <= most * to.w /\ u.src.h <= most * to.h
                           /\ to.w <= most * u.src.w /\ to.h <= most * u.src.h
  <1>1. /\ to.w = Scaled(u, src1).w /\ to.h = Scaled(u, src1).h
        /\ to.w \in Int /\ to.h \in Int
        /\ u.src.w \in Int /\ u.src.h \in Int
    <2>1. u.src.w \in Int /\ u.src.h \in Int
      BY DEF ImageTask, Buffers
    <2> QED
      BY <2>1, ScaledSides
  <1>2. \A most \in Nat : limit <= most => Held(most)
    BY <1>1, WithinLimit
  <1>3. /\ Held(16) /\ (v < 2000 => Held(8)) /\ (v < 1003 => Held(2))
    BY <1>2 DEF LegacyLimit
  <1>4. w.src = u.src
    BY DEF SameTask
  <1>5. CASE src1
    <2>0. ~(v = 2000 /\ (u.src.w > 8 * to.w \/ u.src.h > 8 * to.h))
      <3>1. src1 = TRUE
        BY <1>5
      <3> DEFINE far == u.src.w > 8 * to.w \/ u.src.h > 8 * to.h
      <3>2. ~(src1 /\ v = 2000 /\ far)
        OBVIOUS
      <3> HIDE DEF to, far
      <3>3. ~(v = 2000 /\ far)
        BY <3>1, <3>2
      <3> QED
        BY <3>3 DEF far
    <2>1. ~(v <= 2000 /\ (u.src.w > 8 * to.w \/ u.src.h > 8 * to.h))
      <3> HIDE DEF to
      <3> QED
        BY <1>1, <1>3, <2>0
    <2>2. ~(u.src.w > 16 * to.w \/ u.src.h > 16 * to.h)
      BY <1>1, <1>3
    <2>3. HasSrc1(w) /\ Scaled(w, HasSrc1(w)) = to
      BY <1>5
    <2>4. /\ ~(v <= 2000 /\ (w.src.w > 8 * to.w \/ w.src.h > 8 * to.h))
          /\ ~(w.src.w > 16 * to.w \/ w.src.h > 16 * to.h)
      BY <1>4, <2>1, <2>2
    <2> DEFINE Kept(s) == Refuse(v <= 2000 /\ (w.src.w > 8 * s.w \/ w.src.h > 8 * s.h), "FAILED")
                          ?? Refuse(w.src.w > 16 * s.w \/ w.src.h > 16 * s.h, "FAILED")
    <2>5. LegacyScale(w, v) = Kept(Scaled(w, HasSrc1(w)))
      <3> HIDE DEF to, Held
      <3> QED
        BY <2>3 DEF LegacyScale
    <2>6. Kept(to) = "NOERROR"
      <3> HIDE DEF to, Held
      <3> QED
        BY <2>4 DEF Refuse, ??
    <2> HIDE DEF to, Held, Kept
    <2> QED
      BY <2>3, <2>5, <2>6
  <1>6. CASE ~src1
    <2>1. \A most \in {2, 8, 16} : Held(most) =>
            ~(u.src.w > most * to.w \/ u.src.h > most * to.h
              \/ to.w > most * u.src.w \/ to.h > most * u.src.h)
      BY <1>1
    <2>2. ~HasSrc1(w) /\ Scaled(w, HasSrc1(w)) = to
      BY <1>6
    <2> HIDE DEF to, Held
    <2> QED
      BY <1>3, <1>4, <2>1, <2>2 DEF LegacyScale, Refuse, ??
  <1> QED
    BY <1>5, <1>6

LEMMA RefuseFacts ==
  ASSUME NEW bad, NEW status, status # "NOERROR", Refuse(bad, status) = "NOERROR"
  PROVE  ~bad
  BY DEF Refuse

(* What the checks of an interpolation let through. *)
LEMMA InterpHolds ==
  ASSUME NEW u, NEW src1, NEW bicubic, CheckInterp(u, src1, bicubic) = "NOERROR"
  PROVE  LET to  == Scaled(u, src1)
             how == Interp(u, src1, bicubic)
         IN  /\ ~(how.verti = "BICUBIC" /\ u.src.h < to.h /\ BicubicTooWide(u, to, bicubic))
             /\ ~(/\ \/ u.src.h > to.h /\ how.verti = "LINEAR"
                     \/ u.src.w > to.w /\ how.horiz = "LINEAR"
                  /\ u.src.w < to.w \/ u.src.h < to.h)
  <1> DEFINE to   == Scaled(u, src1)
             how  == Interp(u, src1, bicubic)
             wide == /\ how.verti = "BICUBIC" /\ u.src.h < to.h
                     /\ BicubicTooWide(u, to, bicubic)
             both == /\ \/ u.src.h > to.h /\ how.verti = "LINEAR"
                        \/ u.src.w > to.w /\ how.horiz = "LINEAR"
                     /\ u.src.w < to.w \/ u.src.h < to.h
             down == u.src.h > to.h /\ how.verti = "LINEAR" /\ u.dst.w > 4096
  <1>1. CheckInterp(u, src1, bicubic)
          = (Refuse(wide, "FAILED") ?? Refuse(both, "FAILED") ?? Refuse(down, "FAILED"))
    BY DEF CheckInterp
  <1>2. ~wide /\ ~both
    <2> HIDE DEF wide, both, down
    <2>1. Refuse(wide, "FAILED") = "NOERROR" /\ Refuse(both, "FAILED") = "NOERROR"
      BY <1>1, AndThen
    <2> QED
      BY <2>1, RefuseFacts
  <1> QED
    BY <1>2

LEMMA SameInterp ==
  ASSUME NEW u \in ImageTask, NEW w, NEW src1 \in BOOLEAN, NEW csc, SameTask(w, u, src1, csc),
         HasSrc1(w) = src1, NEW bicubic \in Nat,
         CheckInterp(u, src1, bicubic) = "NOERROR",
         u.interp = DefaultInterp \/ bicubic <= 1996
  PROVE  CheckLegacyInterp(w) = "NOERROR"
  <1> DEFINE to   == Scaled(u, src1)
             how  == LegacyInterp(w)
             new  == Interp(u, src1, bicubic)
             Wide(n) == u.src.w > n \/ (u.dst.w > n /\ u.src.w > to.w)
             Down(from, into) == from > into
             Choice(n, from, into) ==
               IF from > into THEN "AVERAGE" ELSE IF from < into
               THEN (IF Wide(n) THEN "LINEAR" ELSE "BICUBIC") ELSE "DEFAULT"
             Plainly(from, into) ==
               IF from > into THEN "AVERAGE" ELSE IF from < into THEN "BICUBIC" ELSE "DEFAULT"
  <1>1. /\ Scaled(w, src1).w = to.w /\ Scaled(w, src1).h = to.h
        /\ to.w \in Int /\ to.h \in Int
        /\ w.src = u.src /\ w.interp = u.interp /\ w.dst.w = u.dst.w
        /\ u.src.w \in Int /\ u.src.h \in Int /\ u.dst.w \in Int
        /\ u.interp \in Interpolations
    <2>1. w.dst.w = u.dst.w
      BY DEF SameTask, ImageTask, Buffers
    <2> QED
      BY <2>1, ScaledSides DEF SameTask, ImageTask, Buffers
  <1>2. /\ how.horiz = (IF u.interp.horiz # "DEFAULT" THEN u.interp.horiz
                        ELSE Plainly(u.src.w, to.w))
        /\ how.verti = (IF u.interp.verti # "DEFAULT" THEN u.interp.verti
                        ELSE Choice(1996, u.src.h, to.h))
        /\ new.horiz = (IF u.interp.horiz # "DEFAULT" THEN u.interp.horiz
                        ELSE Plainly(u.src.w, to.w))
        /\ new.verti = (IF u.interp.verti # "DEFAULT" THEN u.interp.verti
                        ELSE Choice(bicubic, u.src.h, to.h))
    BY <1>1 DEF LegacyInterp, Interp, BicubicTooWide
  <1>3. \A n : BicubicTooWide(w, Scaled(w, src1), n) = Wide(n)
    BY <1>1 DEF BicubicTooWide
  <1>4. \A n : BicubicTooWide(u, to, n) = Wide(n)
    BY DEF BicubicTooWide
  <1>5. /\ ~(new.verti = "BICUBIC" /\ u.src.h < to.h /\ Wide(bicubic))
        /\ ~(/\ \/ u.src.h > to.h /\ new.verti = "LINEAR"
                \/ u.src.w > to.w /\ new.horiz = "LINEAR"
             /\ u.src.w < to.w \/ u.src.h < to.h)
    <2>1. BicubicTooWide(u, to, bicubic) = Wide(bicubic)
      BY <1>4
    <2> HIDE DEF Wide
    <2> QED
      BY <2>1, InterpHolds
  <1>6. DefaultInterp.horiz = "DEFAULT" /\ DefaultInterp.verti = "DEFAULT"
    BY DEF DefaultInterp
  <1>7. /\ ~(how.verti = "BICUBIC" /\ u.src.h < to.h /\ Wide(1996))
        /\ ~(/\ \/ u.src.h > to.h /\ how.verti = "LINEAR"
                \/ u.src.w > to.w /\ how.horiz = "LINEAR"
             /\ u.src.w < to.w \/ u.src.h < to.h)
    <2> HIDE DEF to, how, new
    <2>1. CASE u.interp = DefaultInterp
      BY <1>1, <1>2, <1>6, <2>1
    <2>2. CASE bicubic <= 1996
      <3>1. Wide(1996) => Wide(bicubic)
        BY <1>1, <2>2
      <3> QED
        BY <1>1, <1>2, <1>5, <3>1
    <2> QED
      BY <2>1, <2>2
  <1> HIDE DEF to, how, new, Wide
  <1> QED
    BY <1>1, <1>3, <1>7 DEF CheckLegacyInterp, Refuse, ??, how

LEMMA SameCsc ==
  ASSUME NEW csc, CheckFullCsc(csc) = "NOERROR",
         FullBits(csc) # {} => csc \subseteq FullConversions
  PROVE  CheckLegacyCsc(csc) = "NOERROR"
  BY DEF CheckFullCsc, CheckLegacyCsc, Refuse

(* What the two interfaces do not read differently of a task: Comparable.   *)
Compared(w, v, bicubic) ==
  /\ ~(HasSrc1(w) /\ v = 2000 /\ (\/ w.src.w > 8 * Scaled(w, HasSrc1(w)).w
                                  \/ w.src.h > 8 * Scaled(w, HasSrc1(w)).h))
  /\ FullBits(w.dst.csc) # {} => w.dst.csc \subseteq FullConversions
  /\ OneRotation(w.usage) /\ (QuarterTurn(Turn(w.usage)) => QuarterTurnAlone(Turn(w.usage)))
  /\ w.interp = DefaultInterp \/ bicubic <= 1996

(* The sizes of what rga_check lets through.                                *)
LEMMA CheckSizes ==
  ASSUME NEW u \in ImageTask, NEW e \in Entry, Check(u, e) = "NOERROR",
         "COLOR_FILL" \notin u.usage
  PROVE  /\ u.src.w >= 2 /\ u.src.h >= 2 /\ u.dst.w >= 2 /\ u.dst.h >= 2
         /\ CheckLimit(u.src, u.dst, e.scaleLimit, u.usage) = "NOERROR"
         /\ Blended(u) => u.pat.w = u.dst.w /\ u.pat.h = u.dst.h
  <1>1. /\ u.src \in Buffers /\ u.dst \in Buffers /\ u.srect \in Rectangles /\ u.drect \in Rectangles
        /\ e.inRes \in Res /\ e.outRes \in Res
    BY DEF ImageTask, Entry
  <1>2. /\ CheckInfo(u.dst, u.drect, e.outRes) = "NOERROR"
        /\ CheckInfo(u.src, u.srect, e.inRes) = "NOERROR"
        /\ CheckLimit(u.src, u.dst, e.scaleLimit, u.usage) = "NOERROR"
    BY CheckFacts
  <1>3. ASSUME Blended(u) PROVE u.pat.w = u.dst.w /\ u.pat.h = u.dst.h
    <2>1. (IF u.usage \cap BlendModes # {} THEN CheckBlend(u.pat, u.dst, Blended(u)) ELSE "NOERROR")
             = "NOERROR"
      BY DEF Check, ??
    <2>2. u.usage \cap BlendModes # {} /\ Blended(u) = TRUE
      BY <1>3 DEF Blended
    <2>3. CheckBlend(u.pat, u.dst, TRUE) = "NOERROR"
      BY <2>1, <2>2
    <2> QED
      BY <2>3 DEF CheckBlend, Refuse
  <1> QED
    BY <1>1, <1>2, <1>3, CheckInfoFacts

(* A stride an image was checked against is not 0.                          *)
LEMMA RectStrided ==
  ASSUME NEW image \in Buffers, NEW rect \in Rectangles, CheckRect(image, rect) = "NOERROR"
  PROVE  image.hs # 0
  BY DEF CheckRect, Refuse, Buffers, Rectangles

(* What generate_blit_req accepts.                                          *)
LEMMA CheckBlitFacts ==
  ASSUME NEW u, NEW src1, NEW csc, NEW e, NEW d, CheckBlit(u, src1, csc, e, d) = "NOERROR"
  PROVE  /\ CheckHandles({u.src, u.dst} \cup IF src1 THEN {u.pat} ELSE {}) = "NOERROR"
         /\ CheckRect(u.src, u.srect) = "NOERROR" /\ CheckRect(u.dst, u.drect) = "NOERROR"
         /\ src1 => CheckRect(u.pat, u.prect) = "NOERROR"
         /\ CheckInterp(u, src1, e.bicubic) = "NOERROR"
         /\ CheckFullCsc(csc) = "NOERROR"
  <1> DEFINE handles == CheckHandles({u.src, u.dst} \cup IF src1 THEN {u.pat} ELSE {})
             pat     == CheckRect(u.pat, u.prect)
             scale   == CheckScale(u, src1, d)
             interp  == CheckInterp(u, src1, e.bicubic)
  <1>1. CheckBlit(u, src1, csc, e, d)
          = (handles ?? CheckRect(u.src, u.srect) ?? (IF src1 THEN pat ELSE "NOERROR")
             ?? CheckRect(u.dst, u.drect) ?? scale ?? interp ?? CheckFullCsc(csc))
    BY DEF CheckBlit
  <1> HIDE DEF handles, pat, scale, interp
  <1>2. /\ handles = "NOERROR" /\ CheckRect(u.src, u.srect) = "NOERROR"
        /\ (IF src1 THEN pat ELSE "NOERROR") = "NOERROR"
        /\ CheckRect(u.dst, u.drect) = "NOERROR"
        /\ interp = "NOERROR" /\ CheckFullCsc(csc) = "NOERROR"
    BY <1>1, AndThen
  <1>3. src1 => pat = "NOERROR"
    BY <1>2
  <1> QED
    BY <1>2, <1>3 DEF handles, pat, interp

(* RgaBlit does not refuse what im2d sends.                                 *)
LEMMA BlitAccepted ==
  ASSUME NEW u \in ImageTask, NEW w, NEW src1 \in BOOLEAN, NEW csc, SameTask(w, u, src1, csc),
         NEW e \in Entry, NEW d, NEW v \in Nat, e.scaleLimit <= LegacyLimit(v),
         Check(u, e) = "NOERROR", "COLOR_FILL" \notin u.usage, src1 => Blended(u),
         BufferValid(u.src), BufferValid(u.dst), HasSrc1(w) = src1,
         CheckBlit(u, src1, csc, e, d) = "NOERROR", Compared(w, v, e.bicubic)
  PROVE  CheckLegacyBlit(w, v) = "NOERROR"
  <1>1. /\ CheckHandles({u.src, u.dst} \cup IF src1 THEN {u.pat} ELSE {}) = "NOERROR"
        /\ CheckRect(u.src, u.srect) = "NOERROR" /\ CheckRect(u.dst, u.drect) = "NOERROR"
        /\ src1 => CheckRect(u.pat, u.prect) = "NOERROR"
        /\ CheckInterp(u, src1, e.bicubic) = "NOERROR"
        /\ CheckFullCsc(csc) = "NOERROR"
    BY CheckBlitFacts
  <1>2. src1 => BufferValid(u.pat)
    BY DEF Blended
  <1>3. CheckHandles(Images(w)) = "NOERROR"
    BY <1>1, SameHandles
  <1>4. CheckMemory(w) = "NOERROR"
    BY <1>2, SameMemory
  <1>5. CheckRect(w.src, w.srect) = "NOERROR"
    BY <1>1 DEF SameTask
  <1>6. CheckRect(w.dst, w.drect) = "NOERROR"
    <2>1. u.dst \in Buffers
      BY DEF ImageTask
    <2> QED
      BY <1>1, <2>1, SameRect DEF SameTask
  <1>7. src1 => CheckRect(w.pat, w.prect) = "NOERROR"
    BY <1>1 DEF SameTask
  <1>8. /\ e.scaleLimit \in Nat /\ e.bicubic \in Nat
        /\ u.src.w \in Int /\ u.src.h \in Int /\ u.dst.w \in Int /\ u.dst.h \in Int
    BY DEF Entry, ImageTask, Buffers
  <1>9. /\ CheckLimit(u.src, u.dst, e.scaleLimit, u.usage) = "NOERROR"
        /\ u.src.w >= 0 /\ u.src.h >= 0 /\ u.dst.w >= 0 /\ u.dst.h >= 0
        /\ src1 => u.pat.w = u.dst.w /\ u.pat.h = u.dst.h
    BY <1>8, CheckSizes
  <1>10. /\ w.usage = u.usage /\ w.src = u.src /\ w.interp = u.interp /\ w.dst.csc = csc
    BY DEF SameTask, ImageTask, Buffers
  <1>11. /\ OneRotation(u.usage) /\ (QuarterTurn(Turn(u.usage)) => QuarterTurnAlone(Turn(u.usage)))
         /\ u.interp = DefaultInterp \/ e.bicubic <= 1996
         /\ FullBits(csc) # {} => csc \subseteq FullConversions
    BY <1>10 DEF Compared
  <1>12. ~(src1 /\ v = 2000 /\ (\/ u.src.w > 8 * Scaled(w, src1).w
                                \/ u.src.h > 8 * Scaled(w, src1).h))
    <2>1. Scaled(w, HasSrc1(w)) = Scaled(w, src1)
      OBVIOUS
    <2> DEFINE far(s) == u.src.w > 8 * s.w \/ u.src.h > 8 * s.h
    <2>2. ~(HasSrc1(w) /\ v = 2000 /\ far(Scaled(w, HasSrc1(w))))
      BY <1>10 DEF Compared
    <2> HIDE DEF far
    <2>3. ~(src1 /\ v = 2000 /\ far(Scaled(w, src1)))
      BY <2>1, <2>2
    <2> QED
      BY <2>3 DEF far
  <1>13. LegacyScale(w, v) = "NOERROR"
    BY <1>8, <1>9, <1>11, <1>12, SameScale
  <1>14. CheckLegacyInterp(w) = "NOERROR"
    BY <1>1, <1>8, <1>11, SameInterp
  <1>15. CheckLegacyCsc(w.dst.csc) = "NOERROR"
    BY <1>1, <1>10, <1>11, SameCsc
  <1>16. (IF HasSrc1(w) THEN CheckRect(w.pat, w.prect) ELSE "NOERROR") = "NOERROR"
    BY <1>7
  <1>17. \A a : ("NOERROR" ?? a) = a
    BY DEF ??
  <1> QED
    BY <1>3, <1>4, <1>5, <1>6, <1>13, <1>14, <1>15, <1>16, <1>17 DEF CheckLegacyBlit

-----------------------------------------------------------------------------
(* The requests.  A version of the library's own counting fits the driver   *)
(* im2d has found: VersionAssumption.                                       *)
Fits(d, v) ==
  /\ v \in Nat
  /\ d \in {"RGA2", "MULTI"} => v >= 2000
  /\ d = "RGA1" => v \in 1004..1999

(* Where an image is, but for how the oldest drivers find it. *)
PlaceOn(d, window) ==
  [window EXCEPT !.mmu = FALSE, !.addr = IF d \in {"RGA2", "MULTI"} THEN @ ELSE "any"]

(* What the property asks of the two requests but for their conversions.    *)
Alike(old, new, w, d) ==
  /\ old.render = new.render /\ old.turn = new.turn /\ old.handles = new.handles
  /\ PlaceOn(d, old.src) = PlaceOn(d, new.src)
  /\ PlaceOn(d, old.dst) = PlaceOn(d, new.dst)
  /\ PlaceOn(d, old.pat) = PlaceOn(d, new.pat)
  /\ d \in {"RGA2", "MULTI"} => old.fds = new.fds
  /\ old.palette = new.palette \/ w.src.fmt = "YCbCr_400"
  /\ old.effects = [new.effects EXCEPT !.copied = @ \ {"GAUSS"}]
  /\ old.render # "color_fill" /\ d # "RGA1_OLD" =>
       /\ w.src.mem # "physical" => old.src.mmu = new.src.mmu
       /\ w.dst.mem # "physical" => old.dst.mmu = new.dst.mmu
       /\ w.pat.mem # "physical" => old.pat.mmu = new.pat.mmu

LEMMA SameAddress ==
  ASSUME NEW image \in Buffers, NEW d \in {"RGA2", "MULTI"}, NEW v, Fits(d, v)
  PROVE  LegacyAddress(image, v) = Address(image, d)
  <1>1. LegacyAddress(image, v) = Address(image, "RGA2")
    BY DEF Fits, LegacyAddress
  <1>2. image.mem \in {"none", "handle", "physical", "fd", "virtual"}
    BY DEF Buffers
  <1> QED
    BY <1>1, <1>2 DEF Address, ByFd

LEMMA SamePlace ==
  ASSUME NEW d, NEW w, NEW u,
         DOMAIN w = {"x", "y", "aw", "ah", "vw", "vh", "mmu", "addr"}, DOMAIN u = DOMAIN w,
         w.x = u.x, w.y = u.y, w.aw = u.aw, w.ah = u.ah, w.vw = u.vw, w.vh = u.vh,
         d \in {"RGA2", "MULTI"} => w.addr = u.addr
  PROVE  PlaceOn(d, w) = PlaceOn(d, u)
  <1> DEFINE f == [w EXCEPT !.mmu = FALSE, !.addr = IF d \in {"RGA2", "MULTI"} THEN @ ELSE "any"]
             g == [u EXCEPT !.mmu = FALSE, !.addr = IF d \in {"RGA2", "MULTI"} THEN @ ELSE "any"]
  <1>1. DOMAIN f = DOMAIN w /\ DOMAIN g = DOMAIN w
    OBVIOUS
  <1>2. f = [k \in DOMAIN f |-> f[k]] /\ g = [k \in DOMAIN g |-> g[k]]
    OBVIOUS
  <1>3. \A k \in DOMAIN w : f[k] = g[k]
    OBVIOUS
  <1>4. f = g
    <2> HIDE DEF f, g
    <2> QED
      BY <1>1, <1>2, <1>3
  <1> QED
    BY <1>4 DEF PlaceOn

LEMMA SameWindow ==
  ASSUME NEW image \in Buffers, NEW rect, NEW d, NEW v, Fits(d, v), NEW mmu
  PROVE  /\ PlaceOn(d, LegacyWindow(image, rect, FALSE, mmu, LegacyAddress(image, v)))
              = PlaceOn(d, Copied(image, rect, d))
         /\ PlaceOn(d, LegacyWindow(image, rect, TRUE, mmu, LegacyAddress(image, v)))
              = PlaceOn(d, Turned(Copied(image, rect, d)))
  <1> DEFINE a  == LegacyAddress(image, v)
             b  == Address(image, d)
             l  == LegacyWindow(image, rect, FALSE, mmu, a)
             lt == LegacyWindow(image, rect, TRUE, mmu, a)
             c  == Copied(image, rect, d)
             ct == Turned(c)
  <1>1. d \in {"RGA2", "MULTI"} => a = b
    BY SameAddress
  <1>2. /\ DOMAIN l = {"x", "y", "aw", "ah", "vw", "vh", "mmu", "addr"}
        /\ l.x = rect.x /\ l.y = rect.y /\ l.aw = image.w /\ l.ah = image.h
        /\ l.vw = image.ws /\ l.vh = image.hs /\ l.addr = a
    BY DEF LegacyWindow
  <1>3. /\ DOMAIN lt = {"x", "y", "aw", "ah", "vw", "vh", "mmu", "addr"}
        /\ lt.x = rect.x /\ lt.y = rect.y /\ lt.aw = image.h /\ lt.ah = image.w
        /\ lt.vw = image.ws /\ lt.vh = image.hs /\ lt.addr = a
    BY DEF LegacyWindow
  <1>4. /\ DOMAIN c = {"x", "y", "aw", "ah", "vw", "vh", "mmu", "addr"}
        /\ c.x = rect.x /\ c.y = rect.y /\ c.aw = image.w /\ c.ah = image.h
        /\ c.vw = image.ws /\ c.vh = image.hs /\ c.addr = b
    BY DEF Copied, Window
  <1> HIDE DEF a, b, c, l, lt
  <1>5. /\ DOMAIN ct = DOMAIN c /\ ct.x = c.x /\ ct.y = c.y /\ ct.aw = c.ah /\ ct.ah = c.aw
        /\ ct.vw = c.vw /\ ct.vh = c.vh /\ ct.addr = c.addr
    BY <1>4 DEF Turned
  <1> HIDE DEF ct
  <1>6. PlaceOn(d, l) = PlaceOn(d, c)
    BY <1>1, <1>2, <1>4, SamePlace
  <1>7. PlaceOn(d, lt) = PlaceOn(d, ct)
    BY <1>1, <1>3, <1>4, <1>5, SamePlace
  <1> QED
    BY <1>6, <1>7 DEF a, c, ct, l, lt

LEMMA SameMmu ==
  ASSUME NEW image \in Buffers, NEW d, NEW v, Fits(d, v), d \in {"RGA2", "MULTI", "RGA1"},
         NEW stale, image.mem # "physical"
  PROVE  LegacyMmu(image, v, stale) = Mmu(image, d)
  <1>1. ~(v <= 1003) /\ d # "RGA1_OLD"
    BY DEF Fits
  <1>2. CASE image.mem \in {"fd", "virtual"}
    BY <1>1, <1>2 DEF LegacyMmu, Mmu, MustMap
  <1>3. CASE image.mem \notin {"fd", "virtual"}
    BY <1>1, <1>3 DEF LegacyMmu, Mmu, MustMap
  <1> QED
    BY <1>2, <1>3

(* The images of a palette, which are given by handles. *)
PalettePlaced(image, rect, v) ==
  LegacyWindow(image, rect, FALSE, LegacyMmu(image, v, FALSE), LegacyAddress(image, v))

LEMMA SamePlaced ==
  ASSUME NEW image \in Buffers, NEW rect, NEW d, NEW v, Fits(d, v)
  PROVE  /\ PlaceOn(d, PalettePlaced(image, rect, v)) = PlaceOn(d, Copied(image, rect, d))
         /\ image.mem = "handle" /\ d \in {"RGA2", "MULTI", "RGA1"} =>
              PalettePlaced(image, rect, v).mmu = Copied(image, rect, d).mmu
  <1> DEFINE mmu   == LegacyMmu(image, v, FALSE)
             stale == FALSE
  <1>1. PalettePlaced(image, rect, v) = LegacyWindow(image, rect, FALSE, mmu, LegacyAddress(image, v))
    BY DEF PalettePlaced
  <1>2. image.mem = "handle" /\ d \in {"RGA2", "MULTI", "RGA1"} => mmu = Mmu(image, d)
    <2>1. mmu = LegacyMmu(image, v, stale)
      OBVIOUS
    <2> HIDE DEF mmu, stale
    <2> QED
      BY <2>1, SameMmu
  <1> HIDE DEF mmu
  <1>3. PlaceOn(d, LegacyWindow(image, rect, FALSE, mmu, LegacyAddress(image, v)))
          = PlaceOn(d, Copied(image, rect, d))
    BY SameWindow
  <1>4. /\ LegacyWindow(image, rect, FALSE, mmu, LegacyAddress(image, v)).mmu = mmu
        /\ Copied(image, rect, d).mmu = Mmu(image, d)
    BY DEF LegacyWindow, Copied, Window
  <1>5. PlaceOn(d, PalettePlaced(image, rect, v)) = PlaceOn(d, Copied(image, rect, d))
    BY <1>1, <1>3
  <1> QED
    BY <1>1, <1>2, <1>4, <1>5

LEMMA SamePlacedDst ==
  ASSUME NEW image \in Buffers, NEW csc, NEW rect, NEW v
  PROVE  PalettePlaced([image EXCEPT !.csc = csc], rect, v) = PalettePlaced(image, rect, v)
  <1> DEFINE dst == [image EXCEPT !.csc = csc]
  <1>1. /\ dst.w = image.w /\ dst.h = image.h /\ dst.ws = image.ws /\ dst.hs = image.hs
        /\ dst.mem = image.mem
    BY DEF Buffers
  <1> HIDE DEF dst
  <1>2. LegacyMmu(dst, v, FALSE) = LegacyMmu(image, v, FALSE)
    BY <1>1 DEF LegacyMmu
  <1>3. LegacyAddress(dst, v) = LegacyAddress(image, v)
    BY <1>1 DEF LegacyAddress, Address, ByFd
  <1>4. PalettePlaced(dst, rect, v) = PalettePlaced(image, rect, v)
    BY <1>1, <1>2, <1>3 DEF PalettePlaced, LegacyWindow
  <1> QED
    BY <1>4 DEF dst

LEMMA NoSharing ==
  ASSUME NEW d \in {"RGA2", "MULTI"}, NEW v, Fits(d, v), NEW first, NEW order, NEW t, NEW u,
         NEW other
  PROVE  Fds(order, t, Sharing(v, first)) = Fds(other, u, d)
  <1>1. Sharing(v, first) = "RGA2"
    BY DEF Sharing, Fits
  <1>2. \A s, images, by : by # "RGA1" => Fds(s, images, by) = NoFds
    BY DEF Fds
  <1> QED
    BY <1>1, <1>2

(* What dst is converted to moves nothing.                                  *)
LEMMA SameDst ==
  ASSUME NEW image \in Buffers, NEW csc, NEW rect, NEW quarter, NEW v, NEW stale
  PROVE  LET dst == [image EXCEPT !.csc = csc]
         IN  LegacyWindow(dst, rect, quarter, LegacyMmu(dst, v, stale), LegacyAddress(dst, v))
               = LegacyWindow(image, rect, quarter, LegacyMmu(image, v, stale),
                              LegacyAddress(image, v))
  <1> DEFINE dst == [image EXCEPT !.csc = csc]
  <1>1. /\ dst.w = image.w /\ dst.h = image.h /\ dst.ws = image.ws /\ dst.hs = image.hs
        /\ dst.mem = image.mem
    BY DEF Buffers
  <1> HIDE DEF dst
  <1>2. LegacyMmu(dst, v, stale) = LegacyMmu(image, v, stale)
    BY <1>1 DEF LegacyMmu
  <1>3. LegacyAddress(dst, v) = LegacyAddress(image, v)
    BY <1>1 DEF LegacyAddress, Address, ByFd
  <1>4. LegacyWindow(dst, rect, quarter, LegacyMmu(dst, v, stale), LegacyAddress(dst, v))
          = LegacyWindow(image, rect, quarter, LegacyMmu(image, v, stale), LegacyAddress(image, v))
    BY <1>1, <1>2, <1>3 DEF LegacyWindow
  <1> QED
    BY <1>4 DEF dst

LEMMA SameEffects ==
  ASSUME NEW src, NEW dst, NEW image, NEW s, dst.fmt = image.fmt
  PROVE  EffectsOf(src, dst, s) = EffectsOf(src, image, s)
  <1>1. DitherEn(src, dst) = DitherEn(src, image)
    BY DEF DitherEn
  <1>2. \A e : SetGray(e, dst, s) = SetGray(e, image, s)
    BY DEF SetGray
  <1>3. Combined(src, dst, s) = Combined(src, image, s)
    BY <1>1, <1>2 DEF Combined
  <1> QED
    BY <1>3 DEF EffectsOf

LEMMA SettingsSame ==
  ASSUME NEW t \in ImageTask
  PROVE  Settings(Applied(t)) = Settings(t)
  <1>1. LET u == Applied(t)
        IN  /\ u.usage = t.usage /\ u.rop = t.rop /\ u.pat.fmt = t.pat.fmt
            /\ u.dst.fmt = t.dst.fmt /\ u.dst.csc = t.dst.csc
    BY AppliedKeeps
  <1>2. DitherSetting(Applied(t).dst) = DitherSetting(t.dst)
    BY <1>1 DEF DitherSetting
  <1>3. CopiedSettings(Applied(t)) = CopiedSettings(t)
    BY <1>1 DEF CopiedSettings
  <1> QED
    BY <1>1, <1>2, <1>3 DEF Settings

(* A window under a turn is swapped by both.                                *)
LEMMA TurnedWindow ==
  ASSUME NEW image \in Buffers, NEW rect, NEW turn, NEW d, NEW v, Fits(d, v), NEW mmu
  PROVE  PlaceOn(d, LegacyWindow(image, rect, turn.rot \in {"ROT_90", "ROT_270"}, mmu,
                                 LegacyAddress(image, v)))
           = PlaceOn(d, Oriented(Copied(image, rect, d), turn))
  <1> DEFINE quarter == turn.rot \in {"ROT_90", "ROT_270"}
  <1>1. CASE quarter
    <2>1. quarter = TRUE
      BY <1>1
    <2>2. Oriented(Copied(image, rect, d), turn) = Turned(Copied(image, rect, d))
      BY <1>1 DEF Oriented, QuarterTurn
    <2> HIDE DEF quarter
    <2>3. PlaceOn(d, LegacyWindow(image, rect, quarter, mmu, LegacyAddress(image, v)))
            = PlaceOn(d, Turned(Copied(image, rect, d)))
      BY <2>1, SameWindow
    <2> QED
      BY <2>2, <2>3 DEF quarter
  <1>2. CASE ~quarter
    <2>1. quarter = FALSE
      BY <1>2
    <2>2. Oriented(Copied(image, rect, d), turn) = Copied(image, rect, d)
      BY <1>2 DEF Oriented, QuarterTurn
    <2> HIDE DEF quarter
    <2>3. PlaceOn(d, LegacyWindow(image, rect, quarter, mmu, LegacyAddress(image, v)))
            = PlaceOn(d, Copied(image, rect, d))
      BY <2>1, SameWindow
    <2> QED
      BY <2>2, <2>3 DEF quarter
  <1> QED
    BY <1>1, <1>2

(* Turning a window does not change how it is mapped.                       *)
LEMMA OrientedMmu ==
  ASSUME NEW image, NEW rect, NEW turn, NEW d
  PROVE  Oriented(Copied(image, rect, d), turn).mmu = Mmu(image, d)
  <1>1. Copied(image, rect, d).mmu = Mmu(image, d)
    BY DEF Copied, Window
  <1>2. \A window : DOMAIN window = {"x", "y", "aw", "ah", "vw", "vh", "mmu", "addr"}
                     => Turned(window).mmu = window.mmu
    BY DEF Turned
  <1>3. DOMAIN Copied(image, rect, d) = {"x", "y", "aw", "ah", "vw", "vh", "mmu", "addr"}
    BY DEF Copied, Window
  <1> QED
    BY <1>1, <1>2, <1>3 DEF Oriented

LEMMA SameBlit ==
  ASSUME NEW u \in ImageTask, NEW w, NEW src1 \in BOOLEAN, NEW csc, SameTask(w, u, src1, csc),
         HasSrc1(w) = src1, NEW e, NEW v, NEW d \in {"MULTI", "RGA2", "RGA1", "RGA1_OLD"},
         Fits(d, v), NEW stale
  PROVE  Alike(LegacyBlitReq(w, Settings(u), v, stale), BlitReq(u, src1, csc, e, d), w, d)
  <1> DEFINE old     == LegacyBlitReq(w, Settings(u), v, stale)
             new     == BlitReq(u, src1, csc, e, d)
             turn    == Turn(u.usage)
             quarter == turn.rot \in {"ROT_90", "ROT_270"}
             Placed(image, rect, turned) ==
               LegacyWindow(image, rect, turned, LegacyMmu(image, v, stale), LegacyAddress(image, v))
  <1>1. /\ w.src = u.src /\ w.srect = u.srect /\ w.drect = u.drect /\ w.prect = u.prect
        /\ w.usage = u.usage /\ w.dst = [u.dst EXCEPT !.csc = csc]
        /\ w.dst.fmt = u.dst.fmt /\ w.dst.mem = u.dst.mem
        /\ u.src \in Buffers /\ u.dst \in Buffers /\ u.pat \in Buffers
    BY DEF SameTask, ImageTask, Buffers
  <1>2. /\ old.render = "bitblt" /\ old.turn = Turn(w.usage)
        /\ old.handles = (w.src.mem = "handle") /\ old.palette = "none"
        /\ old.src = Placed(w.src, w.srect, FALSE)
        /\ old.dst = Placed(w.dst, w.drect, Turn(w.usage).rot \in {"ROT_90", "ROT_270"})
        /\ old.pat = (IF HasSrc1(w) THEN Placed(w.pat, w.prect, Turn(w.usage).rot \in {"ROT_90", "ROT_270"})
                      ELSE NoWindow)
        /\ old.fds = Fds(IF HasSrc1(w) THEN <<"src", "pat", "dst">> ELSE <<"src", "dst">>, w,
                         Sharing(v, 1004))
        /\ old.effects = LegacyEffects(w, Settings(u))
    BY DEF LegacyBlitReq
  <1>3. /\ new.render = "bitblt" /\ new.turn = turn
        /\ new.handles = (u.src.mem = "handle") /\ new.palette = "none"
        /\ new.src = Copied(u.src, u.srect, d)
        /\ new.dst = Oriented(Copied(u.dst, u.drect, d), turn)
        /\ new.pat = (IF src1 THEN Oriented(Copied(u.pat, u.prect, d), turn) ELSE NoWindow)
        /\ new.fds = Fds(IF src1 THEN <<"src", "pat", "dst">> ELSE <<"src", "dst">>, u, d)
        /\ new.effects = EffectsOf(u.src, u.dst, Settings(u))
    BY DEF BlitReq
  <1> HIDE DEF old, new
  <1>4. old.dst = Placed(u.dst, u.drect, quarter)
    BY <1>1, <1>2, SameDst
  <1>5. src1 => w.pat = u.pat
    BY DEF SameTask
  <1> HIDE DEF turn
  <1>6. PlaceOn(d, old.src) = PlaceOn(d, new.src)
    <2>1. old.src = Placed(u.src, u.srect, FALSE)
      BY <1>1, <1>2
    <2> DEFINE mmu == LegacyMmu(u.src, v, stale)
    <2> HIDE DEF mmu
    <2>3. u.src \in Buffers
      BY <1>1
    <2>4. PlaceOn(d, LegacyWindow(u.src, u.srect, FALSE, mmu, LegacyAddress(u.src, v)))
            = PlaceOn(d, Copied(u.src, u.srect, d))
      BY <2>3, SameWindow
    <2>2. PlaceOn(d, Placed(u.src, u.srect, FALSE)) = PlaceOn(d, Copied(u.src, u.srect, d))
      BY <2>4 DEF mmu
    <2> HIDE DEF Placed
    <2> QED
      BY <1>3, <2>1, <2>2
  <1>7. \A image \in Buffers : \A rect :
           PlaceOn(d, Placed(image, rect, quarter)) = PlaceOn(d, Oriented(Copied(image, rect, d), turn))
    BY TurnedWindow
  <1>8. /\ PlaceOn(d, old.dst) = PlaceOn(d, new.dst)
        /\ PlaceOn(d, old.pat) = PlaceOn(d, new.pat)
    <2>1. src1 => old.pat = Placed(u.pat, u.prect, quarter)
      BY <1>1, <1>2, <1>5 DEF turn
    <2>2. ~src1 => old.pat = NoWindow /\ new.pat = NoWindow
      BY <1>2, <1>3
    <2>3. src1 => new.pat = Oriented(Copied(u.pat, u.prect, d), turn)
      BY <1>3
    <2> HIDE DEF Placed, quarter
    <2>4. PlaceOn(d, old.dst) = PlaceOn(d, new.dst)
      BY <1>1, <1>3, <1>4, <1>7
    <2>5. CASE src1
      BY <1>1, <1>7, <2>1, <2>3, <2>4, <2>5
    <2>6. CASE ~src1
      BY <2>2, <2>4, <2>6
    <2> QED
      BY <2>5, <2>6
  <1>9. d \in {"RGA2", "MULTI"} => old.fds = new.fds
    BY <1>2, <1>3, NoSharing
  <1>10. old.effects = [new.effects EXCEPT !.copied = @ \ {"GAUSS"}]
    <2>1. EffectsOf(u.src, w.dst, Settings(u)) = EffectsOf(u.src, u.dst, Settings(u))
      <3>1. w.dst.fmt = u.dst.fmt
        BY <1>1
      <3> QED
        BY <3>1, SameEffects
    <2> DEFINE all == EffectsOf(w.src, w.dst, Settings(u))
    <2>2. old.effects = [all EXCEPT !.copied = @ \ {"GAUSS"}]
      BY <1>2 DEF LegacyEffects
    <2>3. all = new.effects
      BY <1>1, <1>3, <2>1
    <2> HIDE DEF all
    <2> QED
      BY <2>2, <2>3
  <1>11. ASSUME d # "RGA1_OLD"
         PROVE  /\ w.src.mem # "physical" => old.src.mmu = new.src.mmu
                /\ w.dst.mem # "physical" => old.dst.mmu = new.dst.mmu
                /\ w.pat.mem # "physical" => old.pat.mmu = new.pat.mmu
    <2>1. \A image, rect, turned : Placed(image, rect, turned).mmu = LegacyMmu(image, v, stale)
      BY DEF LegacyWindow
    <2>2. \A image \in Buffers : image.mem # "physical" => LegacyMmu(image, v, stale) = Mmu(image, d)
      BY <1>11, SameMmu
    <2>3. new.src.mmu = Mmu(u.src, d)
      BY <1>3 DEF Copied, Window
    <2>4. new.dst.mmu = Mmu(u.dst, d) /\ (src1 => new.pat.mmu = Mmu(u.pat, d))
      BY <1>3, OrientedMmu
    <2>5. /\ old.src.mmu = LegacyMmu(u.src, v, stale) /\ old.dst.mmu = LegacyMmu(u.dst, v, stale)
          /\ src1 => old.pat.mmu = LegacyMmu(u.pat, v, stale)
      <3>1. /\ old.src = Placed(u.src, u.srect, FALSE)
            /\ src1 => old.pat = Placed(u.pat, u.prect, quarter)
        BY <1>1, <1>2, <1>5 DEF turn
      <3>2. /\ Placed(u.src, u.srect, FALSE).mmu = LegacyMmu(u.src, v, stale)
            /\ Placed(u.pat, u.prect, quarter).mmu = LegacyMmu(u.pat, v, stale)
            /\ Placed(u.dst, u.drect, quarter).mmu = LegacyMmu(u.dst, v, stale)
        BY <2>1
      <3> HIDE DEF Placed, quarter
      <3> QED
        BY <1>4, <3>1, <3>2
    <2>6. ~src1 => old.pat = new.pat
      BY <1>2, <1>3
    <2> QED
      BY <1>1, <1>5, <2>2, <2>3, <2>4, <2>5, <2>6
  <1>12. old.turn = new.turn /\ old.handles = new.handles
    BY <1>1, <1>2, <1>3 DEF turn
  <1>13. old.render = new.render /\ old.palette = new.palette
    BY <1>2, <1>3
  <1>14. Alike(old, new, w, d)
    BY <1>6, <1>7, <1>8, <1>9, <1>10, <1>11, <1>12, <1>13 DEF Alike
  <1> QED
    BY <1>14 DEF old, new

-----------------------------------------------------------------------------
(* The conversions.                                                         *)
LEMMA FullModeRows ==
  ASSUME NEW row \in FullMode
  PROVE  /\ row[1] \in FullSpaces /\ row[2] \in FullSpaces
         /\ row[1] \in YuvSpaces /\ row[2] = "RGB_FULL" => row[3] \in Y2rModes \cup FullConversions
         /\ row[1] = "RGB_FULL" /\ row[2] \in YuvSpaces => row[3] \in R2yModes \cup FullConversions
  BY DEF FullMode, FullSpaces, Y2rModes, R2yModes, YuvSpaces, FullConversions, FullBit

(* A conversion between two spaces that is not a full one is a plain one    *)
(* from one colour to the other, if the colours differ.                     *)
LEMMA ModeBetween ==
  ASSUME NEW from, NEW to, NEW features, FullBits(CscMode(from, to, features)) = {}
  PROVE  /\ from \in FullSpaces /\ to \in FullSpaces
         /\ from \in YuvSpaces /\ to = "RGB_FULL" => CscMode(from, to, features) \cap Y2rModes # {}
         /\ from = "RGB_FULL" /\ to \in YuvSpaces => CscMode(from, to, features) \cap R2yModes # {}
  <1> DEFINE asked == <<"RGB_FULL", "709_LIMIT", R2y709(features)>>
             rows  == FullMode \cup {asked}
             modes == {row[3] : row \in {r \in rows : r[1] = from /\ r[2] = to}}
             m     == CscMode(from, to, features)
  <1>1. m = IF modes # {} \/ (from = to /\ from \in FullSpaces) THEN modes ELSE EveryBit
    BY DEF CscMode
  <1>3. m # EveryBit
    <2>1. EveryBit \cap (FullBit[1] \cup EveryBit) # {}
      BY DEF EveryBit
    <2>2. 1 \in FullBits(EveryBit)
      BY <2>1 DEF FullBits
    <2> QED
      BY <2>2 DEF m
  <1>4. m \cap FullConversions = {}
    BY DEF FullBits, FullConversions
  <1>5. asked[1] = "RGB_FULL" /\ asked[2] = "709_LIMIT" /\ asked[3] = R2y709(features)
    OBVIOUS
  <1>6. asked[3] \in R2yModes \cup FullConversions
    BY <1>5 DEF R2y709, R2yModes, FullConversions, FullBit
  <1>7. "RGB_FULL" \in FullSpaces /\ "709_LIMIT" \in FullSpaces /\ "RGB_FULL" \notin YuvSpaces
    BY DEF FullSpaces, YuvSpaces
  <1> HIDE DEF asked, m
  <1>8. \A row \in rows :
          /\ row[1] \in FullSpaces /\ row[2] \in FullSpaces
          /\ row[1] \in YuvSpaces /\ row[2] = "RGB_FULL" => row[3] \in Y2rModes \cup FullConversions
          /\ row[1] = "RGB_FULL" /\ row[2] \in YuvSpaces => row[3] \in R2yModes \cup FullConversions
    BY <1>5, <1>6, <1>7, FullModeRows
  <1> HIDE DEF rows
  <1>9. modes # {} \/ (from = to /\ from \in FullSpaces)
    BY <1>1, <1>3
  <1>10. from \in FullSpaces /\ to \in FullSpaces
    BY <1>8, <1>9
  <1>11. m = modes
    BY <1>1, <1>9
  <1>12. ASSUME from \in YuvSpaces, to = "RGB_FULL" PROVE m \cap Y2rModes # {}
    <2>1. modes # {}
      BY <1>7, <1>9, <1>12
    <2> PICK row \in rows : row[1] = from /\ row[2] = to
      BY <2>1
    <2>2. row[3] \in m
      BY <1>11
    <2> QED
      BY <1>4, <1>8, <1>12, <2>2
  <1>13. ASSUME from = "RGB_FULL", to \in YuvSpaces PROVE m \cap R2yModes # {}
    <2>1. modes # {}
      BY <1>7, <1>9, <1>13
    <2> PICK row \in rows : row[1] = from /\ row[2] = to
      BY <2>1
    <2>2. row[3] \in m
      BY <1>11
    <2> QED
      BY <1>4, <1>8, <1>13, <2>2
  <1> QED
    BY <1>10, <1>12, <1>13 DEF m

(* The conversion im2d hands over holds the one the formats call for, if    *)
(* the colour spaces of the images fit their formats.                       *)
LEMMA AskedConverts ==
  ASSUME NEW u, NEW features, CscLegality(u) = "NOERROR", FitsSpace(u.src), FitsSpace(u.dst),
         Csc(u, features) # {}, FullBits(Csc(u, features)) = {}
  PROVE  /\ IsYuv(u.src.fmt) /\ IsRgb(u.dst.fmt) => Csc(u, features) \cap Y2rModes # {}
         /\ IsRgb(u.src.fmt) /\ IsYuv(u.dst.fmt) => Csc(u, features) \cap R2yModes # {}
  <1> DEFINE csc   == Csc(u, features)
             asked == Y2r(u.dst) \cup R2y(u.dst)
             full  == \E image \in {u.src, u.pat, u.dst} : image.csc \cap FullSpaces # {}
             s == SpaceOf(u.src)
             p == SpaceOf(u.pat)
             d == SpaceOf(u.dst)
  <1>1. "rgb2yuv_709_limit" \in FullBit[1]
    BY DEF FullBit
  <1>2. CASE asked # {}
    <2>1. csc = asked
      <3>1. csc = asked \/ csc = Y2r(u.dst) \cup {"rgb2yuv_709_limit"}
        BY <1>2 DEF Csc
      <3> QED
        BY <1>1, <3>1 DEF FullBits
    <2>2. /\ Y2r(u.dst) \subseteq csc \cap Y2rModes /\ R2y(u.dst) \subseteq csc \cap R2yModes
      BY <2>1 DEF Y2r, R2y
    <2>3. /\ Y2r(u.dst) # {} /\ R2y(u.dst) = {} => IsYuv(u.src.fmt) /\ IsRgb(u.dst.fmt)
          /\ Y2r(u.dst) = {} /\ R2y(u.dst) # {} => IsRgb(u.src.fmt) /\ IsYuv(u.dst.fmt)
      BY DEF CscLegality, Refuse
    <2>4. Y2r(u.dst) # {} \/ R2y(u.dst) # {}
      BY <1>2
    <2> QED
      BY <2>2, <2>3, <2>4, ColorsApart
  <1>3. CASE asked = {} /\ ~full
    BY <1>3 DEF Csc
  <1>4. CASE asked = {} /\ full
    <2>1. \A space : space \in FullSpaces <=> space = "RGB_FULL" \/ space \in YuvSpaces
      BY DEF FullSpaces, YuvSpaces
    <2>2. /\ s = "RGB_FULL" => IsRgb(u.src.fmt)
          /\ s \in YuvSpaces => IsYuv(u.src.fmt)
          /\ d = "RGB_FULL" => IsRgb(u.dst.fmt)
          /\ d \in YuvSpaces => IsYuv(u.dst.fmt)
      BY SpaceFits
    <2>3. \A a, b : FullBits(a \cup b) = {} => FullBits(a) = {} /\ FullBits(b) = {}
      BY DEF FullBits
    <2>4. CASE ~BufferValid(u.pat)
      <3>1. csc = CscMode(s, d, features)
        BY <1>4, <2>4 DEF Csc
      <3>2. FullBits(CscMode(s, d, features)) = {}
        BY <3>1
      <3> HIDE DEF s, d
      <3>3. /\ s \in FullSpaces /\ d \in FullSpaces
            /\ s \in YuvSpaces /\ d = "RGB_FULL" => csc \cap Y2rModes # {}
            /\ s = "RGB_FULL" /\ d \in YuvSpaces => csc \cap R2yModes # {}
        BY <3>1, <3>2, ModeBetween
      <3> QED
        BY <2>1, <2>2, <3>3, ColorsApart
    <2>5. CASE BufferValid(u.pat)
      <3> DEFINE a == CscMode(s, p, features)
                 b == CscMode(p, d, features)
      <3>1. csc = a \cup b
        BY <1>4, <2>5 DEF Csc
      <3>2. FullBits(a) = {} /\ FullBits(b) = {}
        <4> HIDE DEF a, b
        <4> QED
          BY <2>3, <3>1
      <3> HIDE DEF s, d, p
      <3>3. /\ s \in FullSpaces /\ p \in FullSpaces
            /\ s \in YuvSpaces /\ p = "RGB_FULL" => a \cap Y2rModes # {}
            /\ s = "RGB_FULL" /\ p \in YuvSpaces => a \cap R2yModes # {}
        BY <3>2, ModeBetween
      <3>4. /\ p \in FullSpaces /\ d \in FullSpaces
            /\ p \in YuvSpaces /\ d = "RGB_FULL" => b \cap Y2rModes # {}
            /\ p = "RGB_FULL" /\ d \in YuvSpaces => b \cap R2yModes # {}
        BY <3>2, ModeBetween
      <3> HIDE DEF a, b
      <3> QED
        BY <2>1, <2>2, <3>1, <3>3, <3>4, ColorsApart
    <2> QED
      BY <2>4, <2>5
  <1> QED
    BY <1>2, <1>3, <1>4

LEMMA SameConversion ==
  ASSUME NEW u \in ImageTask, NEW w, NEW src1 \in BOOLEAN, NEW features,
         SameTask(w, u, src1, Csc(u, features)), HasSrc1(w) = src1, CscLegality(u) = "NOERROR",
         \/ Csc(u, features) = {}
         \/ /\ ~src1 /\ FullBits(Csc(u, features)) = {}
            /\ FitsSpace(u.src) /\ FitsSpace(u.dst)
  PROVE  LegacyConversion(w) = Conversion(u, src1, Csc(u, features))
  <1> DEFINE csc == Csc(u, features)
  <1>1. /\ w.src.fmt = u.src.fmt /\ w.dst.fmt = u.dst.fmt /\ (src1 => w.pat.fmt = u.pat.fmt)
        /\ w.dst.csc = csc
    BY DEF SameTask, ImageTask, Buffers
  <1>2. FullBits({}) = {}
    BY DEF FullBits
  <1>5. ASSUME NEW c, FullBits(c) = {} PROVE FullPart(c) = {}
    <2>1. \A mode \in FullConversions : FullBits({mode}) # {}
      BY DEF FullBits, FullConversions
    <2> QED
      BY <1>5, <2>1 DEF FullPart
  <1>3. CASE csc = {}
    <2>1. LegacyConversion(w)
            = [y2r  |-> IF \/ src1 /\ IsYuv(u.src.fmt) /\ IsRgb(u.pat.fmt)
                              /\ (IsRgb(u.dst.fmt) \/ IsYuv(u.dst.fmt))
                           \/ ~src1 /\ IsYuv(u.src.fmt) /\ IsRgb(u.dst.fmt)
                        THEN {"Y2R_601_LIMIT"} ELSE {},
               full |-> {},
               r2y  |-> IF \/ src1 /\ IsYuv(u.dst.fmt) /\ IsRgb(u.pat.fmt)
                              /\ (IsRgb(u.src.fmt) \/ IsYuv(u.src.fmt))
                           \/ ~src1 /\ IsRgb(u.src.fmt) /\ IsYuv(u.dst.fmt)
                        THEN {"R2Y_601_LIMIT"} ELSE {}]
      <3> HIDE DEF csc
      <3> QED
        BY <1>1, <1>2, <1>3 DEF LegacyConversion
    <2>2. Conversion(u, src1, csc)
            = [y2r  |-> IF \/ src1 /\ IsYuv(u.src.fmt) /\ IsRgb(u.pat.fmt)
                              /\ (IsRgb(u.dst.fmt) \/ IsYuv(u.dst.fmt))
                           \/ ~src1 /\ IsYuv(u.src.fmt) /\ IsRgb(u.dst.fmt)
                        THEN {"Y2R_601_LIMIT"} ELSE {},
               full |-> {},
               r2y  |-> IF \/ src1 /\ IsYuv(u.dst.fmt) /\ IsRgb(u.pat.fmt)
                              /\ (IsRgb(u.src.fmt) \/ IsYuv(u.src.fmt))
                           \/ ~src1 /\ IsRgb(u.src.fmt) /\ IsYuv(u.dst.fmt)
                        THEN {"R2Y_601_LIMIT"} ELSE {}]
      <3> HIDE DEF csc
      <3>1. FullPart(csc) = {}
        BY <1>2, <1>3, <1>5
      <3> QED
        BY <1>3, <3>1 DEF Conversion
    <2> QED
      BY <2>1, <2>2
  <1>4. CASE csc # {}
    <2>1. ~src1 /\ FullBits(csc) = {}
      BY <1>4
    <2>2. /\ IsYuv(u.src.fmt) /\ IsRgb(u.dst.fmt) => csc \cap Y2rModes # {}
          /\ IsRgb(u.src.fmt) /\ IsYuv(u.dst.fmt) => csc \cap R2yModes # {}
      BY <1>4, AskedConverts
    <2>3. FullPart(csc) = {}
      BY <1>5, <2>1
    <2> HIDE DEF csc
    <2>4. LegacyConversion(w) = [y2r |-> csc \cap Y2rModes, r2y |-> csc \cap R2yModes, full |-> {}]
      BY <1>1, <1>4, <2>1 DEF LegacyConversion
    <2>5. Conversion(u, src1, csc) = [y2r |-> csc \cap Y2rModes, r2y |-> csc \cap R2yModes, full |-> {}]
      BY <2>1, <2>2, <2>3 DEF Conversion
    <2> QED
      BY <2>4, <2>5 DEF csc
  <1> QED
    BY <1>3, <1>4

-----------------------------------------------------------------------------
(* RgaCollorFill.                                                           *)
LEMMA SameFill ==
  ASSUME NEW u \in ImageTask, NEW csc, NEW x, x.dst = [u.dst EXCEPT !.csc = csc],
         x.drect = u.drect, NEW v, NEW d, Fits(d, v), NEW left, NEW unset
  PROVE  LET old == LegacyFillReq(x, v, left, unset)
             new == FillReq(u, csc, d)
         IN  Alike(old, new, x, d) /\ old.csc = new.csc
  <1> DEFINE old == LegacyFillReq(x, v, left, unset)
             new == FillReq(u, csc, d)
             l   == LegacyWindow(x.dst, x.drect, FALSE, LegacyFillMmu(x.dst, v, left, unset),
                                 LegacyAddress(x.dst, v))
             c   == Window(u.dst, u.drect, FillMmu(u.dst, d), Address(u.dst, d))
  <1>1. /\ x.dst.w = u.dst.w /\ x.dst.h = u.dst.h /\ x.dst.ws = u.dst.ws /\ x.dst.hs = u.dst.hs
        /\ x.dst.mem = u.dst.mem /\ x.dst.fmt = u.dst.fmt /\ x.dst.csc = csc
        /\ u.dst \in Buffers
    BY DEF ImageTask, Buffers
  <1>2. d \in {"RGA2", "MULTI"} => LegacyAddress(x.dst, v) = Address(u.dst, d)
    <2>1. LegacyAddress(x.dst, v) = LegacyAddress(u.dst, v)
      <3>1. \A a, b : a.mem = b.mem => LegacyAddress(a, v) = LegacyAddress(b, v)
        BY DEF LegacyAddress, Address, ByFd
      <3> QED
        BY <1>1, <3>1
    <2> QED
      BY <1>1, <2>1, SameAddress
  <1>3. /\ DOMAIN l = {"x", "y", "aw", "ah", "vw", "vh", "mmu", "addr"}
        /\ l.x = x.drect.x /\ l.y = x.drect.y /\ l.aw = x.dst.w /\ l.ah = x.dst.h
        /\ l.vw = x.dst.ws /\ l.vh = x.dst.hs /\ l.addr = LegacyAddress(x.dst, v)
    BY DEF LegacyWindow
  <1>4. /\ DOMAIN c = {"x", "y", "aw", "ah", "vw", "vh", "mmu", "addr"}
        /\ c.x = u.drect.x /\ c.y = u.drect.y /\ c.aw = u.dst.w /\ c.ah = u.dst.h
        /\ c.vw = u.dst.ws /\ c.vh = u.dst.hs /\ c.addr = Address(u.dst, d)
    BY DEF Window
  <1> HIDE DEF l, c
  <1>5. PlaceOn(d, l) = PlaceOn(d, c)
    BY <1>1, <1>2, <1>3, <1>4, SamePlace
  <1>6. /\ old.render = "color_fill" /\ old.turn = Upright /\ old.handles = (x.dst.mem = "handle")
        /\ old.src = NoWindow /\ old.pat = NoWindow /\ old.dst = l
        /\ old.fds = Fds(<<"dst">>, x, Sharing(v, 1003))
        /\ old.palette = "none" /\ old.effects = NoEffects
    BY DEF LegacyFillReq, l
  <1>7. /\ new.render = "color_fill" /\ new.turn = Upright /\ new.handles = (u.dst.mem = "handle")
        /\ new.src = NoWindow /\ new.pat = NoWindow /\ new.dst = c
        /\ new.fds = Fds(<<"dst">>, u, d)
        /\ new.palette = "none" /\ new.effects = NoEffects
    BY DEF FillReq, c
  <1>8. old.csc = new.csc
    BY <1>1 DEF LegacyFillReq, FillReq
  <1>9. NoEffects = [NoEffects EXCEPT !.copied = @ \ {"GAUSS"}]
    BY DEF NoEffects
  <1> HIDE DEF old, new
  <1>10. d \in {"RGA2", "MULTI"} => old.fds = new.fds
    BY <1>6, <1>7, NoSharing
  <1>11. old.handles = new.handles
    BY <1>1, <1>6, <1>7
  <1>12. Alike(old, new, x, d)
    BY <1>5, <1>6, <1>7, <1>9, <1>10, <1>11 DEF Alike
  <1> QED
    BY <1>8, <1>12 DEF old, new

(* RgaCollorPalette, and the table it sends.                                *)
LEMMA SamePalette ==
  ASSUME NEW u \in ImageTask, NEW csc, NEW x, x.src = u.src, x.dst = [u.dst EXCEPT !.csc = csc],
         x.pat = u.pat, x.srect = u.srect, x.drect = u.drect, x.prect = u.prect,
         CheckPalette(u) = "NOERROR",
         NEW v, NEW d \in {"MULTI", "RGA2", "RGA1", "RGA1_OLD"}, Fits(d, v)
  PROVE  LET old == LegacyTableReq(x, v)
             new == TableReq(u, d)
         IN  /\ CheckLegacyPalette(x) = "NOERROR" /\ HasSrc1(x)
             /\ Alike(old, new, x, d) /\ old.csc = new.csc
  <1> DEFINE old == LegacyTableReq(x, v)
             new == TableReq(u, d)
             Placed(image, rect) == PalettePlaced(image, rect, v)
  <1>1. /\ x.dst.mem = u.dst.mem
        /\ u.src \in Buffers /\ u.dst \in Buffers /\ u.pat \in Buffers
        /\ u.srect \in Rectangles /\ u.drect \in Rectangles
    BY DEF ImageTask, Buffers
  <1>2. /\ AllHandles({u.src, u.dst, u.pat})
        /\ CheckRect(u.src, u.srect) = "NOERROR" /\ CheckRect(u.dst, u.drect) = "NOERROR"
    BY AndThen DEF CheckPalette, Refuse
  <1>3. u.src.mem = "handle" /\ u.dst.mem = "handle" /\ u.pat.mem = "handle"
    BY <1>2 DEF AllHandles
  <1>4. HasSrc1(x)
    BY <1>3 DEF HasSrc1
  <1>5. CheckLegacyPalette(x) = "NOERROR"
    <2>1. AllHandles(Images(x))
      BY <1>1, <1>3 DEF AllHandles, Images
    <2>2. CheckRect(x.dst, x.drect) = "NOERROR" /\ CheckRect(x.src, x.srect) = "NOERROR"
      BY <1>1, <1>2, SameRect
    <2> QED
      BY <2>1, <2>2 DEF CheckLegacyPalette, CheckPaletteRects, Refuse, ??
  <1>6. /\ old.render = "update_palette_table" /\ old.handles = TRUE
        /\ old.src = Placed(x.src, x.srect) /\ old.dst = Placed(x.dst, x.drect)
        /\ old.pat = Placed(x.pat, x.prect)
        /\ old.fds = Fds(<<"src", "dst", "pat">>, x, Sharing(v, 1004))
        /\ old.palette = LegacyPaletteMode(x.src)
        /\ old.turn = Upright /\ old.effects = NoEffects
        /\ old.csc = [y2r |-> {}, r2y |-> {}, full |-> {}]
    BY DEF LegacyTableReq, LegacyPaletteImages, BlankReq, PalettePlaced
  <1>7. /\ new.render = "update_palette_table" /\ new.handles = TRUE
        /\ new.src = Copied(u.src, u.srect, d) /\ new.dst = Copied(u.dst, u.drect, d)
        /\ new.pat = Copied(u.pat, u.prect, d)
        /\ new.fds = Fds(<<"src", "dst", "pat">>, u, d)
        /\ new.palette = PaletteMode(u.src)
        /\ new.turn = Upright /\ new.effects = NoEffects
        /\ new.csc = [y2r |-> {}, r2y |-> {}, full |-> {}]
    BY DEF TableReq, PaletteReq, PaletteImages
  <1>8. NoEffects = [NoEffects EXCEPT !.copied = @ \ {"GAUSS"}]
    BY DEF NoEffects
  <1>9. Placed(x.dst, x.drect) = Placed(u.dst, u.drect)
    BY <1>1, SamePlacedDst
  <1>10. \A image \in Buffers : \A rect : PlaceOn(d, Placed(image, rect)) = PlaceOn(d, Copied(image, rect, d))
    BY SamePlaced
  <1>11. \A image \in Buffers : \A rect :
            image.mem = "handle" /\ d # "RGA1_OLD" =>
              Placed(image, rect).mmu = Copied(image, rect, d).mmu
    BY SamePlaced
  <1>12. LegacyPaletteMode(x.src) = PaletteMode(u.src) \/ x.src.fmt = "YCbCr_400"
    BY DEF LegacyPaletteMode, PaletteMode
  <1> HIDE DEF old, new, Placed
  <1>13. /\ old.src = Placed(u.src, u.srect) /\ old.dst = Placed(u.dst, u.drect)
         /\ old.pat = Placed(u.pat, u.prect)
    BY <1>6, <1>9
  <1>14. /\ PlaceOn(d, old.src) = PlaceOn(d, new.src) /\ PlaceOn(d, old.dst) = PlaceOn(d, new.dst)
         /\ PlaceOn(d, old.pat) = PlaceOn(d, new.pat)
    BY <1>1, <1>7, <1>10, <1>13
  <1>15. d \in {"RGA2", "MULTI"} => old.fds = new.fds
    BY <1>6, <1>7, NoSharing
  <1>16. d # "RGA1_OLD" => /\ old.src.mmu = new.src.mmu /\ old.dst.mmu = new.dst.mmu
                           /\ old.pat.mmu = new.pat.mmu
    BY <1>1, <1>3, <1>7, <1>11, <1>13
  <1>17. /\ old.render = new.render /\ old.turn = new.turn /\ old.handles = new.handles
         /\ old.palette = new.palette \/ x.src.fmt = "YCbCr_400"
         /\ old.csc = new.csc /\ old.effects = NoEffects /\ new.effects = NoEffects
    <2>1. old.handles = new.handles
      BY <1>6, <1>7
    <2>2. old.render = new.render /\ old.turn = new.turn
      BY <1>6, <1>7
    <2>3. old.palette = new.palette \/ x.src.fmt = "YCbCr_400"
      BY <1>6, <1>7, <1>12
    <2>4. old.csc = new.csc /\ old.effects = NoEffects /\ new.effects = NoEffects
      BY <1>6, <1>7
    <2> QED
      BY <2>1, <2>2, <2>3, <2>4
  <1>18. old.effects = [new.effects EXCEPT !.copied = @ \ {"GAUSS"}]
    BY <1>8, <1>17
  <1>19. Alike(old, new, x, d)
    BY <1>14, <1>15, <1>16, <1>17, <1>18 DEF Alike
  <1> QED
    BY <1>4, <1>5, <1>17, <1>19 DEF old, new
-----------------------------------------------------------------------------
(* What the checks were made with: the table is that of the task, and the   *)
(* limit of the scaling one that the older API grants as well.              *)
TableFrom == Sent => call.table = TableOf(call.task)

LimitInv == info.scaleLimit <= LegacyLimit(version)

LEMMA VersionFits ==
  ASSUME HwTypeOK
  PROVE  /\ Fits(driver, version) /\ driver \in {"MULTI", "RGA2", "RGA1", "RGA1_OLD"}
         /\ version \in Nat
  <1>1. chip \in Chips
    BY DEF HwTypeOK
  <1>2. LegacyVersion[chip] \in Nat /\ (DriverOf[chip] = "MULTI" => LegacyVersion[chip] = 3200)
    BY <1>1, LegacyAssumption
  <1>3. /\ DriverOf[chip] = "RGA2" => LegacyVersion[chip] >= 2000
        /\ DriverOf[chip] = "RGA1" => LegacyVersion[chip] \in 1004..1999
    BY <1>1, VersionAssumption
  <1>4. DriverOf[chip] \in {"MULTI", "RGA2", "RGA1", "RGA1_OLD"}
    BY <1>1, ImageAssumption
  <1> QED
    BY <1>2, <1>3, <1>4 DEF Fits, driver, version

LEMMA LimitStep ==
  ASSUME HwTypeOK, LimitInv, [ImageNext]_imageVars
  PROVE  LimitInv'
  <1>1. /\ chip \in Chips /\ chip \in Seq(Core) /\ chip # <<>>
        /\ merged \in 0..Len(chip) /\ Len(chip) \in Nat /\ info \in Entry
    BY HwAssumption DEF HwTypeOK
  <1>2. LegacyVersion[chip] \in Nat /\ LegacyLimit(LegacyVersion[chip]) \in Nat
    BY <1>1, LegacyAssumption DEF LegacyLimit
  <1>3. \A e \in EntriesOf(chip) : e.scaleLimit <= LegacyLimit(LegacyVersion[chip])
    BY <1>1, VersionAssumption
  <1>4. CASE UNCHANGED hwVars
    BY <1>4 DEF hwVars, LimitInv, version
  <1>5. CASE MergeCore
    <2> DEFINE e == CoreTable[chip[merged + 1].id]
    <2>1. /\ merged + 1 \in DOMAIN chip /\ chip[merged + 1].id \in DOMAIN CoreTable
          /\ chip' = chip /\ info' = Merge(info, e)
      BY <1>1, <1>5 DEF MergeCore, Known
    <2>2. e \in EntriesOf(chip)
      BY <2>1 DEF EntriesOf
    <2>3. e.scaleLimit <= LegacyLimit(LegacyVersion[chip])
      BY <1>3, <2>2
    <2>4. info'.scaleLimit \in {info.scaleLimit, e.scaleLimit}
      BY <2>1 DEF Merge, Larger
    <2> QED
      BY <2>1, <2>3, <2>4 DEF LimitInv, version
  <1>6. CASE InfoComplete \/ UseErrorEntry
    BY <1>6 DEF InfoComplete, UseErrorEntry, LimitInv, version
  <1>7. CASE TryCompatible
    <2>1. chip' = chip
      BY <1>7 DEF TryCompatible
    <2>2. CASE Guessed /\ info' = CompatTable[chip[1].prefix]
      <3>1. info' \in EntriesOf(chip)
        BY <2>2 DEF EntriesOf, Guessed
      <3> QED
        BY <1>3, <2>1, <3>1 DEF LimitInv, version
    <2>3. CASE info' = VErr
      <3>1. VErr.scaleLimit = 0
        BY DEF VErr, Zero
      <3> QED
        BY <1>2, <2>1, <2>3, <3>1 DEF LimitInv, version
    <2> QED
      BY <1>7, <2>2, <2>3 DEF TryCompatible
  <1>8. ImageNext => HwNext \/ UNCHANGED hwVars
    BY StepCases DEF Probe, Return, Imcheck, Submits, Submit
  <1> QED
    BY <1>4, <1>5, <1>6, <1>7, <1>8 DEF HwNext, imageVars, hwVars

LEMMA TableStep ==
  ASSUME Inv, TableFrom, [ImageNext]_imageVars
  PROVE  TableFrom'
  <1>1. CASE UNCHANGED imageVars
    BY <1>1 DEF imageVars, hwVars, TableFrom, Sent, TableOf, driver
  <1>2. CASE Probe
    <2>1. probe # "ready"
      BY <1>2, ProbeStep DEF Probe, Inv, ImageTypeOK
    <2>2. call' = Idle
      BY <1>2, <2>1 DEF Probe, Inv, CallInv
    <2> QED
      BY <2>2, ConstantFacts DEF TableFrom, Sent
  <1>3. CASE Return \/ Imcheck
    <2>1. call'.req.render = "none"
      BY <1>3, ConstantFacts DEF Return, Imcheck
    <2> QED
      BY <2>1 DEF TableFrom, Sent
  <1>4. CASE Submits
    <2> PICK api : \E t \in ImageTask, found \in Statuses : Ready /\ Submit(api, t, found)
      BY <1>4 DEF Submits
    <2> PICK t \in ImageTask, found \in Statuses : Ready /\ Submit(api, t, found)
      OBVIOUS
    <2> DEFINE table == TableOf(t)
               Past(task) == (IF Kind(task) = "palette" THEN TableReq(Applied(task), driver) ELSE NoReq)
    <2>1. UNCHANGED hwVars
      BY DEF Submit
    <2>2. call'.req = NoReq \/ (call'.task = t /\ call'.table = table)
      <3> DEFINE status == found ?? SubmitStatus(t, info, driver)
                 req == Build(Applied(t), info, driver)
      <3>1. \/ call' = [api |-> api, task |-> t, status |-> status, req |-> NoReq, table |-> NoReq]
            \/ call' = [api |-> api, task |-> t, status |-> status, req |-> req, table |-> table]
            \/ call' = [api |-> api, task |-> t, status |-> "FAILED", req |-> NoReq, table |-> NoReq]
        BY DEF Submit
      <3> HIDE DEF req, table
      <3> QED
        BY <3>1
    <2>4. CASE call'.req = NoReq
      BY <2>4, ConstantFacts DEF TableFrom, Sent
    <2>5. CASE call'.task = t /\ call'.table = table
      <3>1. driver' = driver
        BY <2>1 DEF driver, hwVars
      <3>2. table = Past(t)
        BY DEF TableOf
      <3>3. TableOf(call.task)' = Past(call'.task)
        BY <3>1 DEF TableOf
      <3> HIDE DEF Past, table
      <3>4. call'.table = TableOf(call.task)'
        BY <2>5, <3>2, <3>3
      <3> QED
        BY <3>4 DEF TableFrom
    <2> QED
      BY <2>2, <2>4, <2>5
  <1> QED
    BY <1>1, <1>2, <1>3, <1>4, StepCases

-----------------------------------------------------------------------------
(* Where the answer to a twin comes from.                                   *)
TwinSent ==
  (legacy.twin /\ legacy.status # "refused by the driver") =>
    LET t == call.task
        w == AllStrided(legacy.task)
        p == PaletteStrided(legacy.task)
        s == Settings(t)
    IN  /\ Written /\ legacy.task = Twin(t)
        /\ \/ /\ legacy.op = "RgaBlit" /\ Kind(t) \in {"blit", "blit3"}
              /\ legacy.status = CheckLegacyBlit(w, version)
              /\ legacy.status = "NOERROR" =>
                   \E stale : legacy.req = LegacyBlitReq(w, s, version, stale)
           \/ /\ legacy.op = "RgaCollorFill" /\ Kind(t) = "fill"
              /\ \E unset : legacy.status = CheckLegacyFill(w, unset)
              /\ legacy.status = "NOERROR" =>
                   \E left, unset : legacy.req = LegacyFillReq(w, version, left, unset)
           \/ /\ legacy.op = "RgaCollorPalette" /\ Kind(t) = "palette"
              /\ legacy.status = CheckLegacyPalette(p)
              /\ legacy.status = "NOERROR" =>
                   legacy.table = IF HasSrc1(p) THEN LegacyTableReq(p, version) ELSE NoReq

LEMMA MadeOf ==
  ASSUME NEW op, NEW asked, NEW status, NEW req, NEW table, Made(op, asked, status, req, table)
  PROVE  /\ legacy'.op = op /\ legacy'.task = asked.task /\ legacy'.twin = asked.twin
         /\ UNCHANGED imageVars
         /\ \/ legacy'.status = "refused by the driver"
            \/ /\ legacy'.status = status
               /\ status = "NOERROR" => legacy'.req = req /\ legacy'.table = table
  <1> DEFINE With(s, r, t) == [op |-> op, task |-> asked.task, twin |-> asked.twin, status |-> s,
                               req |-> r, table |-> t]
  <1>1. \A s, r, t : /\ With(s, r, t).op = op /\ With(s, r, t).task = asked.task
                     /\ With(s, r, t).twin = asked.twin /\ With(s, r, t).status = s
                     /\ With(s, r, t).req = r /\ With(s, r, t).table = t
    OBVIOUS
  <1>2. \/ status = "NOERROR" /\ legacy' = With(status, req, table)
        \/ legacy' = With("refused by the driver", NoReq, NoReq)
        \/ status # "NOERROR" /\ legacy' = With(status, NoReq, NoReq)
    BY DEF Made
  <1>3. UNCHANGED imageVars
    BY DEF Made
  <1> HIDE DEF With
  <1>4. ASSUME NEW s, NEW r, NEW t, legacy' = With(s, r, t)
        PROVE  /\ legacy'.op = op /\ legacy'.task = asked.task /\ legacy'.twin = asked.twin
               /\ legacy'.status = s /\ legacy'.req = r /\ legacy'.table = t
    BY <1>1, <1>4
  <1>5. CASE status = "NOERROR" /\ legacy' = With(status, req, table)
    <2>1. legacy' = With(status, req, table)
      BY <1>5
    <2> QED
      BY <1>3, <1>4, <2>1
  <1>6. CASE legacy' = With("refused by the driver", NoReq, NoReq)
    BY <1>3, <1>4, <1>6
  <1>7. CASE status # "NOERROR" /\ legacy' = With(status, NoReq, NoReq)
    <2>1. legacy' = With(status, NoReq, NoReq)
      BY <1>7
    <2> QED
      BY <1>3, <1>4, <1>7, <2>1
  <1> QED
    BY <1>2, <1>5, <1>6, <1>7

(* What is asked of the older API after an operation of im2d.               *)
LEMMA AskedTwin ==
  ASSUME NEW kinds, NEW asked \in Asked(kinds), asked.twin
  PROVE  /\ Written /\ Kind(call.task) \in kinds
         /\ asked.task = Twin(call.task) /\ asked.settings = Settings(call.task)
  <1> DEFINE Own(t) == [task |-> t, twin |-> FALSE, settings |-> Settings(t)]
             two == [task |-> Twin(call.task), twin |-> TRUE, settings |-> Settings(call.task)]
  <1>1. \A t : Own(t).twin = FALSE
    OBVIOUS
  <1>2. two.task = Twin(call.task) /\ two.settings = Settings(call.task)
    OBVIOUS
  <1>3. (\E t : asked = Own(t)) \/ (Written /\ Kind(call.task) \in kinds /\ asked = two)
    BY DEF Asked
  <1> HIDE DEF Own, two
  <1> QED
    BY <1>1, <1>2, <1>3

LEMMA SameCall ==
  ASSUME UNCHANGED imageVars
  PROVE  /\ (Written' <=> Written) /\ version' = version /\ call' = call
         /\ Twin(call.task)' = Twin(call.task)
  BY DEF imageVars, hwVars, Written, Sent, version, Twin

LEMMA TwinStep ==
  ASSUME TwinSent, [AllNext]_allVars
  PROVE  TwinSent'
  <1>1. CASE UNCHANGED allVars
    <2>1. UNCHANGED imageVars /\ legacy' = legacy
      BY <1>1 DEF allVars
    <2> QED
      BY <2>1, SameCall DEF TwinSent
  <1>2. CASE legacy' = NoCall
    BY <1>2 DEF TwinSent, NoCall
  <1>3. CASE RgaBlit
    <2> PICK asked \in Asked({"blit", "blit3"}), stale \in BOOLEAN :
          LET t == AllStrided(asked.task)
          IN  Made("RgaBlit", asked, CheckLegacyBlit(t, version),
                   LegacyBlitReq(t, asked.settings, version, stale), NoReq)
      BY <1>3 DEF RgaBlit
    <2> DEFINE t == AllStrided(asked.task)
               status == CheckLegacyBlit(t, version)
               req == LegacyBlitReq(t, asked.settings, version, stale)
    <2>0. Made("RgaBlit", asked, status, req, NoReq)
      OBVIOUS
    <2>1. /\ legacy'.op = "RgaBlit" /\ legacy'.task = asked.task /\ legacy'.twin = asked.twin
          /\ UNCHANGED imageVars
          /\ \/ legacy'.status = "refused by the driver"
             \/ legacy'.status = status /\ (status = "NOERROR" => legacy'.req = req)
      <3> HIDE DEF status, req
      <3> QED
        BY <2>0, MadeOf
    <2> SUFFICES ASSUME asked.twin, legacy'.status = status, status = "NOERROR" => legacy'.req = req
                 PROVE  TwinSent'
      BY <2>1 DEF TwinSent
    <2>2. /\ Written /\ Kind(call.task) \in {"blit", "blit3"}
          /\ asked.task = Twin(call.task) /\ asked.settings = Settings(call.task)
      BY AskedTwin
    <2> QED
      BY <2>1, <2>2, SameCall DEF TwinSent
  <1>4. CASE RgaCollorFill
    <2> PICK asked \in Asked({"fill"}), left \in BOOLEAN, unset \in BOOLEAN :
          LET t == AllStrided(asked.task)
          IN  Made("RgaCollorFill", asked, CheckLegacyFill(t, unset),
                   LegacyFillReq(t, version, left, unset), NoReq)
      BY <1>4 DEF RgaCollorFill
    <2> DEFINE t == AllStrided(asked.task)
               status == CheckLegacyFill(t, unset)
               req == LegacyFillReq(t, version, left, unset)
    <2>0. Made("RgaCollorFill", asked, status, req, NoReq)
      OBVIOUS
    <2>1. /\ legacy'.op = "RgaCollorFill" /\ legacy'.task = asked.task /\ legacy'.twin = asked.twin
          /\ UNCHANGED imageVars
          /\ \/ legacy'.status = "refused by the driver"
             \/ legacy'.status = status /\ (status = "NOERROR" => legacy'.req = req)
      <3> HIDE DEF status, req
      <3> QED
        BY <2>0, MadeOf
    <2> SUFFICES ASSUME asked.twin, legacy'.status = status, status = "NOERROR" => legacy'.req = req
                 PROVE  TwinSent'
      BY <2>1 DEF TwinSent
    <2>2. Written /\ Kind(call.task) = "fill" /\ asked.task = Twin(call.task)
      BY AskedTwin
    <2> QED
      BY <2>1, <2>2, SameCall DEF TwinSent
  <1>5. CASE RgaCollorPalette
    <2> PICK asked \in Asked({"palette"}) :
          LET t == PaletteStrided(asked.task)
          IN  Made("RgaCollorPalette", asked, CheckLegacyPalette(t), StackReq,
                   IF HasSrc1(t) THEN LegacyTableReq(t, version) ELSE NoReq)
      BY <1>5 DEF RgaCollorPalette
    <2> DEFINE t == PaletteStrided(asked.task)
               status == CheckLegacyPalette(t)
               table == IF HasSrc1(t) THEN LegacyTableReq(t, version) ELSE NoReq
    <2>0. Made("RgaCollorPalette", asked, status, StackReq, table)
      OBVIOUS
    <2>1. /\ legacy'.op = "RgaCollorPalette" /\ legacy'.task = asked.task
          /\ legacy'.twin = asked.twin /\ UNCHANGED imageVars
          /\ \/ legacy'.status = "refused by the driver"
             \/ legacy'.status = status /\ (status = "NOERROR" => legacy'.table = table)
      <3> HIDE DEF status, table
      <3> QED
        BY <2>0, MadeOf
    <2> SUFFICES ASSUME asked.twin, legacy'.status = status,
                        status = "NOERROR" => legacy'.table = table
                 PROVE  TwinSent'
      BY <2>1 DEF TwinSent
    <2>2. Written /\ Kind(call.task) = "palette" /\ asked.task = Twin(call.task)
      BY AskedTwin
    <2> QED
      BY <2>1, <2>2, SameCall DEF TwinSent
  <1> QED
    BY <1>1, <1>2, <1>3, <1>4, <1>5 DEF AllNext, Im2d, RgaReturn

-----------------------------------------------------------------------------
LEMMA AlikeAgree ==
  ASSUME NEW old, NEW new,
         old = (IF legacy.op = "RgaCollorPalette" THEN legacy.table ELSE legacy.req),
         new = (IF legacy.op = "RgaCollorPalette" THEN call.table ELSE call.req),
         Comparable => legacy.status = "NOERROR",
         legacy.status = "NOERROR" => Alike(old, new, legacy.task, driver),
         legacy.status = "NOERROR" =>
           ((\/ legacy.task.dst.csc = {} \/ legacy.op = "RgaCollorPalette"
             \/ /\ ~HasSrc1(legacy.task) /\ FullBits(legacy.task.dst.csc) = {}
                /\ Agrees(call.task.src) /\ Agrees(call.task.dst)) => old.csc = new.csc)
  PROVE  GeneratorsAgree
  <1>1. CASE legacy.status # "NOERROR"
    BY <1>1 DEF GeneratorsAgree
  <1>2. CASE legacy.status = "NOERROR"
    <2>1. Alike(old, new, legacy.task, driver)
      BY <1>2
    <2>2. \A image \in {"src", "dst", "pat"} :
            old.render # "color_fill" /\ driver # "RGA1_OLD" /\ legacy.task[image].mem # "physical"
              => old[image].mmu = new[image].mmu
      BY <2>1 DEF Alike
    <2> QED
      BY <1>2, <2>1, <2>2 DEF GeneratorsAgree, Alike, PlaceOn
  <1> QED
    BY <1>1, <1>2

LEMMA ComparedTwin ==
  ASSUME Comparable
  PROVE  Compared(legacy.task, version, info.bicubic)
  BY DEF Comparable, Compared

(* What is compared is not what a missing stride is put in for.             *)
LEMMA ComparedStrided ==
  ASSUME NEW u \in ImageTask, NEW w, NEW src1 \in BOOLEAN, NEW csc, SameTask(w, u, src1, csc),
         SameTask(AllStrided(w), u, src1, csc), HasSrc1(w) = src1, HasSrc1(AllStrided(w)) = src1,
         NEW v, NEW bicubic, Compared(w, v, bicubic)
  PROVE  Compared(AllStrided(w), v, bicubic)
  <1> DEFINE x == AllStrided(w)
             Far(s) == u.src.w > 8 * s.w \/ u.src.h > 8 * s.h
  <1>1. /\ w.src = u.src /\ x.src = u.src /\ w.dst.csc = csc /\ x.dst.csc = csc
        /\ w.usage = u.usage /\ x.usage = u.usage /\ w.interp = u.interp /\ x.interp = u.interp
    BY DEF SameTask, ImageTask, Buffers
  <1> HIDE DEF x
  <1>2. SameTask(x, u, src1, csc) /\ HasSrc1(x) = src1
    BY DEF x
  <1>3. /\ Scaled(w, src1).w = Scaled(u, src1).w /\ Scaled(w, src1).h = Scaled(u, src1).h
        /\ Scaled(x, src1).w = Scaled(u, src1).w /\ Scaled(x, src1).h = Scaled(u, src1).h
    BY <1>2, ScaledSides
  <1>4. Far(Scaled(w, src1)) <=> Far(Scaled(x, src1))
    BY <1>3
  <1>5. ~(src1 /\ v = 2000 /\ Far(Scaled(w, src1)))
    <2>1. ~(HasSrc1(w) /\ v = 2000 /\ Far(Scaled(w, HasSrc1(w))))
      BY <1>1 DEF Compared
    <2> HIDE DEF Far
    <2> QED
      BY <2>1
  <1>6. ~(HasSrc1(x) /\ v = 2000 /\ Far(Scaled(x, HasSrc1(x))))
    <2> HIDE DEF Far
    <2> QED
      BY <1>2, <1>4, <1>5
  <1>7. Compared(x, v, bicubic)
    BY <1>1, <1>6 DEF Compared
  <1> QED
    BY <1>7 DEF x

LEMMA BlitAgrees ==
  ASSUME ImageTypeOK, RequestFrom, LimitInv, Written, legacy.task = Twin(call.task),
         legacy.op = "RgaBlit", Kind(call.task) \in {"blit", "blit3"},
         legacy.status = CheckLegacyBlit(AllStrided(legacy.task), version),
         legacy.status = "NOERROR" =>
           \E stale : legacy.req = LegacyBlitReq(AllStrided(legacy.task), Settings(call.task),
                                                 version, stale)
  PROVE  GeneratorsAgree
  <1> DEFINE t    == call.task
             u    == Applied(t)
             src1 == Kind(t) = "blit3"
             csc  == Csc(u, info.feature)
             w    == legacy.task
             x    == AllStrided(w)
             old  == legacy.req
             new  == call.req
  <1>1. /\ t \in ImageTask /\ u \in ImageTask /\ info \in Entry
        /\ new = BlitReq(u, src1, csc, info, driver)
    BY CopyWritten, AppliedFacts DEF ImageTypeOK, HwTypeOK
  <1>2. /\ CheckBuffers(t) = "NOERROR" /\ Check(u, info) = "NOERROR"
        /\ CscLegality(u) = "NOERROR" /\ CheckBuild(u, info, driver) = "NOERROR"
    BY DEF RequestFrom, Written, SubmitStatus, ??
  <1>3. Kind(u) = Kind(t) /\ u.usage = t.usage /\ u.dst.mem = t.dst.mem
    BY <1>1, AppliedKeeps
  <1>4. ~Unaddressed(u)
    <2>1. Unaddressed(u) => new = BlankReq
      BY <1>3 DEF RequestFrom, Written, Build
    <2> QED
      BY <2>1 DEF Written
  <1>5. BufferValid(u.src) /\ BufferValid(u.dst)
    <2>1. BufferValid(t.dst)
      BY <1>2, AndThen DEF CheckBuffers, Refuse
    <2> QED
      BY <1>3, <1>4, <2>1 DEF Unaddressed, BufferValid
  <1>6. "COLOR_FILL" \notin u.usage /\ (src1 => Blended(u))
    BY <1>1, <1>3, KindFacts
  <1>7. CheckBlit(u, src1, csc, info, driver) = "NOERROR"
    BY <1>2, <1>3, <1>4 DEF CheckBuild
  <1>8. /\ CheckRect(u.src, u.srect) = "NOERROR" /\ CheckRect(u.dst, u.drect) = "NOERROR"
        /\ src1 => CheckRect(u.pat, u.prect) = "NOERROR"
    <2> HIDE DEF u, src1, csc
    <2> QED
      BY <1>7, CheckBlitFacts
  <1>9. u.src.hs # 0 /\ u.dst.hs # 0 /\ (src1 => u.pat.hs # 0)
    BY <1>1, <1>8, RectStrided DEF ImageTask
  <1>10. SameTask(w, u, src1, csc)
    <2>1. (Kind(t) \in {"blit3", "palette"}) = src1
      OBVIOUS
    <2>2. SameTask(Twin(t), u, Kind(t) \in {"blit3", "palette"}, csc)
      BY <1>1, TwinSame
    <2> QED
      BY <2>1, <2>2
  <1>11. SameTask(x, u, src1, csc)
    BY <1>1, <1>9, <1>10, StridedSame
  <1>12. HasSrc1(w) = src1 /\ HasSrc1(x) = src1
    BY <1>6, <1>10, <1>11, SrcOneSame DEF Blended
  <1>13. HwTypeOK /\ Fits(driver, version) /\ driver \in {"MULTI", "RGA2", "RGA1", "RGA1_OLD"}
         /\ version \in Nat
    BY VersionFits DEF ImageTypeOK
  <1>14. Comparable => legacy.status = "NOERROR"
    <2> SUFFICES ASSUME Comparable PROVE CheckLegacyBlit(x, version) = "NOERROR"
      OBVIOUS
    <2>1. Compared(w, version, info.bicubic)
      BY ComparedTwin
    <2>0. src1 \in BOOLEAN
      OBVIOUS
    <2> HIDE DEF t, u, src1, csc, w
    <2>2. Compared(x, version, info.bicubic)
      BY <1>1, <1>10, <1>11, <1>12, <2>0, <2>1, ComparedStrided
    <2>3. info.scaleLimit <= LegacyLimit(version)
      BY DEF LimitInv
    <2> HIDE DEF x
    <2> QED
      BY <1>1, <1>2, <1>5, <1>6, <1>7, <1>11, <1>12, <1>13, <2>0, <2>2, <2>3, BlitAccepted
  <1>15. ASSUME legacy.status = "NOERROR"
         PROVE  /\ Alike(old, new, w, driver)
                /\ \/ w.dst.csc = {}
                   \/ /\ ~HasSrc1(w) /\ FullBits(w.dst.csc) = {}
                      /\ Agrees(t.src) /\ Agrees(t.dst)
                   => old.csc = new.csc
    <2> PICK stale : legacy.req = LegacyBlitReq(x, Settings(t), version, stale)
      BY <1>15
    <2>1. old = LegacyBlitReq(x, Settings(u), version, stale)
      BY <1>1, SettingsSame
    <2>2. /\ x.src.mem = w.src.mem /\ x.dst.mem = w.dst.mem /\ x.pat.mem = w.pat.mem
          /\ x.src.fmt = w.src.fmt
      <3>1. Strided(NoImage) = NoImage
        BY DEF Strided, NoImage
      <3>2. x.pat.mem = w.pat.mem
        BY <1>10, <1>11 DEF SameTask
      <3> QED
        BY <1>10, <1>11, <3>2 DEF SameTask
    <2>3. Alike(old, new, w, driver)
      <3>0. src1 \in BOOLEAN
        OBVIOUS
      <3> HIDE DEF t, u, src1, csc, w, x, new
      <3>1. Alike(LegacyBlitReq(x, Settings(u), version, stale),
                  BlitReq(u, src1, csc, info, driver), x, driver)
        BY <1>1, <1>11, <1>12, <1>13, <3>0, SameBlit
      <3> HIDE DEF old
      <3> QED
        BY <1>1, <2>1, <2>2, <3>1 DEF Alike
    <2>4. old.csc = LegacyConversion(x) /\ new.csc = Conversion(u, src1, csc)
      BY <1>1, <2>1 DEF LegacyBlitReq, BlitReq
    <2>5. w.dst.csc = csc /\ (~HasSrc1(w) <=> ~src1)
      BY <1>1, <1>10, <1>12 DEF SameTask, ImageTask, Buffers
    <2>6. /\ Agrees(t.src) => FitsSpace(u.src)
          /\ Agrees(t.dst) => FitsSpace(u.dst)
      BY <1>1, AppliedKeeps DEF Agrees, FitsSpace
    <2> HIDE DEF t, u, src1, csc, w, x, new, old
    <2>7. SameTask(x, u, src1, Csc(u, info.feature)) /\ csc = Csc(u, info.feature) /\ src1 \in BOOLEAN
      BY <1>11 DEF csc, src1
    <2>8. \/ csc = {}
          \/ /\ ~src1 /\ FullBits(csc) = {}
             /\ FitsSpace(u.src) /\ FitsSpace(u.dst)
          => LegacyConversion(x) = Conversion(u, src1, csc)
      BY <1>1, <1>2, <1>12, <2>7, SameConversion
    <2> QED
      BY <2>3, <2>4, <2>5, <2>6, <2>8
  <1> HIDE DEF old, new, w
  <1> QED
    BY <1>14, <1>15, AlikeAgree DEF old, new, w

LEMMA FillAgrees ==
  ASSUME ImageTypeOK, RequestFrom, Written, legacy.task = Twin(call.task),
         legacy.op = "RgaCollorFill", Kind(call.task) = "fill",
         \E unset : legacy.status = CheckLegacyFill(AllStrided(legacy.task), unset),
         legacy.status = "NOERROR" =>
           \E left, unset : legacy.req = LegacyFillReq(AllStrided(legacy.task), version, left, unset)
  PROVE  GeneratorsAgree
  <1> DEFINE t    == call.task
             u    == Applied(t)
             csc  == Csc(u, info.feature)
             w    == legacy.task
             x    == AllStrided(w)
             old  == legacy.req
             new  == call.req
  <1>1. /\ t \in ImageTask /\ u \in ImageTask /\ info \in Entry /\ call.req = Build(u, info, driver)
        /\ Kind(u) = Kind(t) /\ u.dst.mem = t.dst.mem
    BY AppliedFacts, AppliedKeeps DEF ImageTypeOK, HwTypeOK, RequestFrom, Written
  <1>2. new = FillReq(u, csc, driver)
    BY <1>1 DEF Build
  <1>3. CheckBuffers(t) = "NOERROR" /\ Check(u, info) = "NOERROR"
    BY DEF RequestFrom, Written, SubmitStatus, ??
  <1>4. BufferValid(u.dst)
    <2>1. BufferValid(t.dst)
      BY <1>3, AndThen DEF CheckBuffers, Refuse
    <2> QED
      BY <1>1, <2>1 DEF BufferValid
  <1>5. u.dst \in Buffers /\ u.dst.hs # 0
    <2>1. /\ u.dst \in Buffers /\ u.drect \in Rectangles /\ info.outRes \in Res
      BY <1>1 DEF ImageTask, Entry
    <2>2. CheckInfo(u.dst, u.drect, info.outRes) = "NOERROR"
      BY <1>3, CheckFacts
    <2>3. ~(u.dst.hs < u.dst.h)
      BY <2>2, AndThen DEF CheckInfo, Refuse
    <2>4. u.dst.h >= 2
      BY <2>1, <2>2, CheckInfoFacts
    <2> QED
      BY <2>1, <2>3, <2>4 DEF Buffers
  <1>6. SameTask(w, u, FALSE, csc) /\ x.dst = w.dst /\ x.drect = w.drect
    <2>1. SameTask(Twin(t), u, Kind(t) \in {"blit3", "palette"}, csc)
      BY <1>1, TwinSame
    <2>2. SameTask(w, u, FALSE, csc)
      BY <2>1 DEF SameTask
    <2>3. w.dst.hs # 0
      BY <1>5, <2>2 DEF SameTask, Buffers
    <2>4. x.dst = Strided(w.dst) /\ x.drect = w.drect
      BY <2>2 DEF AllStrided, SameTask
    <2> QED
      BY <2>2, <2>3, <2>4 DEF Strided
  <1>7. x.dst = [u.dst EXCEPT !.csc = csc] /\ x.drect = u.drect /\ x.dst.mem # "none"
    BY <1>4, <1>5, <1>6 DEF SameTask, Buffers, BufferValid
  <1>8. HwTypeOK /\ Fits(driver, version)
    BY VersionFits DEF ImageTypeOK
  <1>9. legacy.status = "NOERROR"
    BY <1>7 DEF CheckLegacyFill, Refuse
  <1>10. Alike(old, new, w, driver) /\ old.csc = new.csc
    <2> PICK left, unset : legacy.req = LegacyFillReq(x, version, left, unset)
      BY <1>9
    <2> HIDE DEF t, u, csc, w, x
    <2>1. LET o == LegacyFillReq(x, version, left, unset)
              n == FillReq(u, csc, driver)
          IN  Alike(o, n, x, driver) /\ o.csc = n.csc
      BY <1>1, <1>7, <1>8, SameFill
    <2>2. old = LegacyFillReq(x, version, left, unset)
      BY DEF x, w
    <2>3. old.render = "color_fill"
      BY <2>2 DEF LegacyFillReq
    <2>4. x.src.fmt = w.src.fmt
      <3>1. w.src \in Buffers /\ x.src = Strided(w.src)
        BY <1>1, <1>6 DEF SameTask, ImageTask, AllStrided, x
      <3> QED
        BY <3>1 DEF Strided, Buffers
    <2> HIDE DEF old, new
    <2> QED
      BY <1>2, <2>1, <2>2, <2>3, <2>4 DEF Alike
  <1> HIDE DEF old, new, w
  <1> QED
    BY <1>9, <1>10, AlikeAgree DEF old, new, w

LEMMA PaletteAgrees ==
  ASSUME ImageTypeOK, RequestFrom, TableFrom, Written, legacy.task = Twin(call.task),
         legacy.op = "RgaCollorPalette", Kind(call.task) = "palette",
         legacy.status = CheckLegacyPalette(PaletteStrided(legacy.task)),
         legacy.status = "NOERROR" =>
           legacy.table = IF HasSrc1(PaletteStrided(legacy.task))
                          THEN LegacyTableReq(PaletteStrided(legacy.task), version) ELSE NoReq
  PROVE  GeneratorsAgree
  <1> DEFINE t    == call.task
             u    == Applied(t)
             csc  == Csc(u, info.feature)
             w    == legacy.task
             x    == PaletteStrided(w)
             old  == legacy.table
             new  == call.table
  <1>1. /\ t \in ImageTask /\ u \in ImageTask /\ Kind(u) = Kind(t)
    BY AppliedFacts, AppliedKeeps DEF RequestFrom, Written
  <1>2. new = TableReq(u, driver)
    BY DEF TableFrom, Written, TableOf
  <1>3. CheckPalette(u) = "NOERROR"
    <2>1. CheckBuild(u, info, driver) = "NOERROR"
      BY SubmitStatusFacts DEF RequestFrom, Written
    <2> QED
      BY <1>1, <2>1 DEF CheckBuild
  <1>4. u.src.hs # 0 /\ u.dst.hs # 0
    <2>1. CheckRect(u.src, u.srect) = "NOERROR" /\ CheckRect(u.dst, u.drect) = "NOERROR"
      BY <1>3, AndThen DEF CheckPalette
    <2> QED
      BY <1>1, <2>1, RectStrided DEF ImageTask
  <1>5. SameTask(w, u, TRUE, csc)
    <2>1. SameTask(Twin(t), u, Kind(t) \in {"blit3", "palette"}, csc)
      BY <1>1, TwinSame
    <2> QED
      BY <2>1 DEF SameTask
  <1>6. SameTask(x, u, TRUE, csc)
    <2> DEFINE src1 == TRUE
    <2>1. SameTask(w, u, src1, csc) /\ src1 \in BOOLEAN
      BY <1>5
    <2> HIDE DEF src1, w, u, csc
    <2>2. SameTask(PaletteStrided(w), u, src1, csc)
      BY <1>1, <1>4, <2>1, PaletteStridedSame
    <2> QED
      BY <2>2 DEF src1
  <1>7. /\ x.src = u.src /\ x.dst = [u.dst EXCEPT !.csc = csc] /\ x.pat = u.pat
        /\ x.srect = u.srect /\ x.drect = u.drect /\ x.prect = u.prect
        /\ w.src = x.src /\ w.dst = x.dst /\ w.pat = x.pat
    BY <1>5, <1>6 DEF SameTask
  <1>8. HwTypeOK /\ Fits(driver, version) /\ driver \in {"MULTI", "RGA2", "RGA1", "RGA1_OLD"}
    BY VersionFits DEF ImageTypeOK
  <1>9. /\ CheckLegacyPalette(x) = "NOERROR" /\ HasSrc1(x)
        /\ Alike(LegacyTableReq(x, version), TableReq(u, driver), x, driver)
        /\ LegacyTableReq(x, version).csc = TableReq(u, driver).csc
    <2> HIDE DEF u, csc, w, x
    <2> QED
      BY <1>1, <1>3, <1>7, <1>8, SamePalette
  <1>10. legacy.status = "NOERROR" /\ old = LegacyTableReq(x, version)
    BY <1>9
  <1>11. Alike(old, new, w, driver) /\ old.csc = new.csc
    <2> HIDE DEF u, csc, w, x, old, new
    <2> QED
      BY <1>2, <1>7, <1>9, <1>10 DEF Alike
  <1> HIDE DEF old, new, w
  <1> QED
    BY <1>10, <1>11, AlikeAgree DEF old, new, w

(* For any chips, images, rectangles and tasks, and whatever the caller     *)
(* left in the fields that RgaBlit reads again: the two generators, written *)
(* apart, tell the driver the same, and the older one refuses nothing that  *)
(* im2d sends.                                                              *)
THEOREM AllGeneratorsAgree == AllSpec => []GeneratorsAgree
  <1>1. AllInit => LimitInv /\ TableFrom /\ TwinSent
    <2> SUFFICES ASSUME AllInit PROVE LimitInv /\ TableFrom /\ TwinSent
      OBVIOUS
    <2>1. chip \in Chips /\ info.scaleLimit = 0 /\ call = Idle /\ legacy = NoCall
      BY DEF AllInit, ImageInit, HwInit, Zero
    <2>2. LegacyLimit(version) \in Nat
      BY DEF LegacyLimit
    <2> QED
      BY <2>1, <2>2, ConstantFacts DEF LimitInv, TableFrom, Sent, TwinSent, NoCall
  <1>2. Inv /\ LimitInv /\ TableFrom /\ TwinSent /\ [AllNext]_allVars
          => (LimitInv /\ TableFrom /\ TwinSent)'
    BY StepImage, LimitStep, TableStep, TwinStep DEF Inv, ImageTypeOK
  <1>3. Inv /\ LimitInv /\ TableFrom /\ TwinSent => GeneratorsAgree
    <2> SUFFICES ASSUME Inv, LimitInv, TableFrom, TwinSent,
                        legacy.twin, legacy.status # "refused by the driver"
                 PROVE  GeneratorsAgree
      BY DEF GeneratorsAgree
    <2>1. ImageTypeOK /\ RequestFrom /\ Written /\ legacy.task = Twin(call.task)
      BY DEF Inv, TwinSent
    <2>2. CASE legacy.op = "RgaBlit"
      BY <2>1, <2>2, BlitAgrees DEF TwinSent
    <2>3. CASE legacy.op = "RgaCollorFill"
      BY <2>1, <2>3, FillAgrees DEF TwinSent
    <2>4. CASE legacy.op = "RgaCollorPalette"
      BY <2>1, <2>4, PaletteAgrees DEF TwinSent
    <2> QED
      BY <2>2, <2>3, <2>4 DEF TwinSent
  <1>4. AllSpec => []Inv
    BY AllImage, ImageInv, PTL
  <1> QED
    BY <1>1, <1>2, <1>3, <1>4, PTL DEF AllSpec
=============================================================================
