------------------------------ MODULE AllCalls ------------------------------
(* Both interfaces of the library side by side: an operation of im2d, or    *)
(* the call of the older API that a program would make for the same task.   *)
EXTENDS ImageCall, LegacyReq

CONSTANTS
  LegacyVersion,  \* rgaContext.mVersion of each chip, in thousandths
  LegacyTasks     \* what programs of the older API ask for

ASSUME LegacyAssumption ==
  /\ LegacyVersion \in [Chips -> Nat]
  /\ \A c \in Chips : DriverOf[c] = "MULTI" <=> LegacyVersion[c] = 3200
  /\ {[t EXCEPT !.dst.csc = {}] : t \in LegacyTasks} \subseteq ImageTask

(* What im2d may take for the limits of a chip: the entries of its cores,   *)
(* and the one its version string suggests.                                 *)
EntriesOf(c) ==
  {CoreTable[core.id] : core \in {c[i] : i \in {j \in DOMAIN c : c[j].id \in DOMAIN CoreTable}}}
    \cup {CompatTable[p] : p \in {c[1].prefix} \cap DOMAIN CompatTable}

(* How far any version lets RgaBlit scale either way. *)
LegacyLimit(v) == IF v < 1003 THEN 2 ELSE IF v < 2000 THEN 8 ELSE 16

(* Both interfaces read the same version string, one as a number and one by *)
(* its parts: to im2d a major below 2 is an RGA1, and a minor below 6 an    *)
(* old one.  Its entries have no limit that the other does not grant: those *)
(* of 1.3 and 1.6 have 8, those since 2.0 at most 16, and there is none for *)
(* the versions below 1.003.                                                *)
ASSUME VersionAssumption ==
  \A c \in Chips :
    /\ DriverOf[c] = "RGA2" => LegacyVersion[c] >= 2000
    /\ DriverOf[c] = "RGA1" => LegacyVersion[c] \in 1004..1999
    /\ \A e \in EntriesOf(c) : e.scaleLimit <= LegacyLimit(LegacyVersion[c])

VARIABLE legacy  \* the last call of the older API, if any

allVars == <<imageVars, legacy>>

version == LegacyVersion[chip]

NoCall == [op |-> "none", task |-> Plain(NoImage, NoImage), twin |-> FALSE,
           status |-> "none", req |-> NoReq, table |-> NoReq]

(* The task of an im2d operation as a program of the older API gives it:    *)
(* images of the size of their rectangles, the conversion in dst, and a     *)
(* third image only if it is used.                                          *)
Twin(t) ==
  LET u == Applied(t)
  IN  [u EXCEPT !.dst.csc = Csc(u, info.feature),
                !.pat = IF Kind(t) \in {"blit3", "palette"} THEN @ ELSE NoImage]

(* The calls a program may make now, on tasks of its own or on the twin of  *)
(* the operation im2d has just sent.  What rga_task_submit makes of the     *)
(* flags, the program sets itself.                                          *)
Asked(kinds) ==
  IF Ready
  THEN {[task |-> t, twin |-> FALSE, settings |-> Settings(t)] :
          t \in {u \in LegacyTasks : Kind(u) \in kinds}}
  ELSE IF Written /\ Kind(call.task) \in kinds
  THEN {[task |-> Twin(call.task), twin |-> TRUE, settings |-> Settings(call.task)]}
  ELSE {}

Made(op, asked, status, req, table) ==
  LET Done(s, r, t) == [op |-> op, task |-> asked.task, twin |-> asked.twin, status |-> s,
                        req |-> r, table |-> t]
  IN  /\ \/ status = "NOERROR" /\ legacy' = Done(status, req, table)
         \/ status = "NOERROR" /\ legacy' = Done("refused by the driver", NoReq, NoReq)
         \/ status # "NOERROR" /\ legacy' = Done(status, NoReq, NoReq)
      /\ UNCHANGED imageVars
-----------------------------------------------------------------------------
AllInit == ImageInit /\ legacy = NoCall

Im2d == (legacy = NoCall \/ call # Idle) /\ ImageNext /\ legacy' = NoCall

RgaBlit ==
  /\ legacy = NoCall
  /\ \E asked \in Asked({"blit", "blit3"}), stale \in BOOLEAN :
       LET t == AllStrided(asked.task)
       IN  Made("RgaBlit", asked, CheckLegacyBlit(t, version),
                LegacyBlitReq(t, asked.settings, version, stale), NoReq)

RgaCollorFill ==
  /\ legacy = NoCall
  /\ \E asked \in Asked({"fill"}), left, unset \in BOOLEAN :
       LET t == AllStrided(asked.task)
       IN  Made("RgaCollorFill", asked, CheckLegacyFill(t, unset),
                LegacyFillReq(t, version, left, unset), NoReq)

RgaCollorPalette ==
  /\ legacy = NoCall
  /\ \E asked \in Asked({"palette"}) :
       LET t == PaletteStrided(asked.task)
       IN  Made("RgaCollorPalette", asked, CheckLegacyPalette(t), StackReq,
                IF HasSrc1(t) THEN LegacyTableReq(t, version) ELSE NoReq)

RgaReturn == legacy # NoCall /\ legacy' = NoCall /\ UNCHANGED imageVars

AllNext == Im2d \/ RgaBlit \/ RgaCollorFill \/ RgaCollorPalette \/ RgaReturn

AllSpec == AllInit /\ [][AllNext]_allVars
-----------------------------------------------------------------------------
(* What the two interfaces read differently, so that no one answer can be   *)
(* expected of them: a downscaling by 9 to 16 of a blend on the version     *)
(* 2.0; a full conversion and another kind of one at once; the rotations    *)
(* whose sides the checks of im2d swap and the measuring of the scale does  *)
(* not, two at once or one with a flip; and an interpolation chosen by the  *)
(* caller where the line buffer of the hardware is wider than the one       *)
(* RgaBlit knows.                                                           *)
Comparable ==
  LET t    == legacy.task
      to   == Scaled(t, HasSrc1(t))
      turn == Turn(t.usage)
  IN  /\ ~(HasSrc1(t) /\ version = 2000 /\ (t.src.w > 8 * to.w \/ t.src.h > 8 * to.h))
      /\ FullBits(t.dst.csc) # {} => t.dst.csc \subseteq FullConversions
      /\ OneRotation(t.usage) /\ (QuarterTurn(turn) => QuarterTurnAlone(turn))
      /\ t.interp = DefaultInterp \/ info.bicubic <= 1996

(* What im2d sends to the driver the older API sends too: its generators do *)
(* not refuse the same task, and the request (of a palette, the one that    *)
(* sends the table) has the same windows, the same rotation, the same kind  *)
(* of addresses, found the same way on the drivers since RGA2, the same     *)
(* effects but for the blur, and, where the two look at the same flags and  *)
(* the colour spaces fit the formats, the same mappings and conversions.    *)
(* The generators were copied from each other and changed apart             *)
(* (generate_blit_req, generate_fill_req, generate_color_palette_req).      *)
GeneratorsAgree ==
  (legacy.twin /\ legacy.status # "refused by the driver") =>
    LET palette == legacy.op = "RgaCollorPalette"
        old     == IF palette THEN legacy.table ELSE legacy.req
        new     == IF palette THEN call.table ELSE call.req
        asked   == legacy.task.dst.csc
        Place(window) ==
          [window EXCEPT !.mmu = FALSE, !.addr = IF driver \in {"RGA2", "MULTI"} THEN @ ELSE "any"]
    IN  /\ Comparable => legacy.status = "NOERROR"
        /\ legacy.status = "NOERROR" =>
             /\ old.render = new.render /\ old.turn = new.turn /\ old.handles = new.handles
             /\ Place(old.src) = Place(new.src) /\ Place(old.dst) = Place(new.dst)
             /\ Place(old.pat) = Place(new.pat)
             /\ driver \in {"RGA2", "MULTI"} => old.fds = new.fds
             /\ old.palette = new.palette \/ legacy.task.src.fmt = "YCbCr_400"
             /\ old.effects = [new.effects EXCEPT !.copied = @ \ {"GAUSS"}]
             /\ old.render # "color_fill" /\ driver # "RGA1_OLD" =>
                  \A image \in {"src", "dst", "pat"} :
                    legacy.task[image].mem # "physical" => old[image].mmu = new[image].mmu
             /\ (\/ asked = {} \/ palette
                 \/ /\ ~HasSrc1(legacy.task) /\ FullBits(asked) = {}
                    /\ Agrees(call.task.src) /\ Agrees(call.task.dst)) => old.csc = new.csc

(* What the older drivers are told to be the origin of a rotated dst is the *)
(* corner of the rectangle in memory that the first pixel of src is turned  *)
(* into: the generators swap the sides of the window in one file, and       *)
(* NormalRgaCompatModeConvertRga2 adds them to the offset in another.       *)
CornerOf(t) ==
  LET r == t.drect
      rot == Turn(t.usage).rot
  IN  [x |-> IF rot \in {"ROT_90", "ROT_180"} THEN r.x + t.dst.w - 1 ELSE r.x,
       y |-> IF rot \in {"ROT_180", "ROT_270"} THEN r.y + t.dst.h - 1 ELSE r.y]

TurnedCorner ==
  LET Corner(req) == [x |-> Compat(req).dst.x, y |-> Compat(req).dst.y]
  IN  driver # "MULTI" =>
        /\ Written /\ call.req.render = "bitblt" =>
             Corner(call.req) = CornerOf(Applied(call.task))
        /\ legacy.req.render = "bitblt" => Corner(legacy.req) = CornerOf(legacy.task)
=============================================================================
