------------------------- MODULE TaskSubmit_proofs -------------------------
(* Proofs about TaskSubmit: for any threads, calls, kernels and drivers,    *)
(* and any number of rectangles, descriptors, signals and refused merges.   *)
EXTENDS TaskSubmit, TLAPS

USE SubmitAssumption

(* A task is on its way, and its fence is not yet among those kept. *)
InFlight(c) ==
  c.at \in {"ioctl", "close", "release"} \/ (c.at \in {"merge", "modern", "legacy"} /\ c.level = "inner")

Merging(c) == c.at \in {"merge", "modern", "legacy"}

(* How far a call can be. *)
Shape(c) ==
  /\ c.at # "start" => c.op \in Calls
  /\ c.at \in {"loop", "ioctl", "close", "release"} => (c.op.form = "one" => c.i = 0)
  /\ c.at \in {"start", "loop", "ioctl", "close"} \/ Merging(c) => c.status = "none"
  /\ c.at = "release" => c.status \in {"none", "FAILED"}
  /\ c.at = "end" => c.status \in {"SUCCESS", "FAILED"}
  /\ c.at = "over" => c.status = "SUCCESS"
  /\ InFlight(c) => c.n > 0
  /\ Merging(c) => Fenced(c) /\ c.op.form # "one" /\ c.rel \in Fds /\ Kept(c) \in Fds
  /\ Merging(c) /\ c.level = "outer" => c.op.form = "nested" /\ c.n > 0
  /\ c.op.form # "nested" => c.j = 0

(* Where the table is. *)
TableOf(c) ==
  /\ c.table # NoAddr => c.op.gauss /\ c.n > 0 /\ c.at \notin {"start", "loop"}
  /\ c.op.gauss /\ c.at \in {"ioctl", "close", "release"} => c.table \in Addrs

Tables == TableLives /\ \A t \in Threads : TableOf(call[t])

(* The acquire fence is open up to the step that closes it. *)
Gone(c) ==
  /\ c.op.async /\ host.driver = "MULTI" /\ c.status # "FAILED"
  /\ c.at \in (IF host.userClose THEN {} ELSE {"close"}) \cup {"release", "end", "over"}

Acquired(t) ==
  LET c == call[t] IN
  /\ c.acq # -1 <=> c.op.acquire /\ c.at # "start"
  /\ c.acq # -1 => c.acq > 0
  /\ c.acq # -1 /\ ~Gone(c) => fds[c.acq] = Fence({<<t, 0>>})
  /\ \A f \in Fds : fds[f] = Fence({<<t, 0>>}) => f = c.acq /\ c.acq # -1 /\ ~Gone(c)

(* A descriptor a call holds as a fence is one of its own submissions'. *)
Holds(t, f) ==
  f > 0 => /\ fds[f].kind = "fence"
           /\ fds[f].of # {}
           /\ fds[f].of \subseteq {t} \X (Nat \ {0})

Held(t) ==
  call[t].at # "over" =>
    Holds(t, call[t].inner) /\ Holds(t, call[t].outer) /\ Holds(t, call[t].rel)

Descriptors ==
  /\ fds[0] = Stdin
  /\ \A t \in Threads : Acquired(t) /\ Held(t)

(* Descriptor f of a table F is one fence of submissions lo to hi. *)
Span(F, t, f, lo, hi) == f \in Fds /\ F[f] = Fence({<<t, k>> : k \in lo..hi})

(* Which submissions the fences stand for that a call has kept. *)
Covered(F, t, c) ==
  LET last == IF InFlight(c) THEN c.n - 1 ELSE c.n   \* the last one kept
  IN  /\ c.at = "close" \/ (c.at = "release" /\ c.status = "none") \/ (Merging(c) /\ InFlight(c))
           => Span(F, t, c.rel, c.n, c.n)
      /\ c.at = "loop" \/ InFlight(c) =>
           /\ c.i <= last
           /\ IF c.i = 0 THEN c.inner = -1 ELSE Span(F, t, c.inner, last - c.i + 1, last)
           /\ IF c.j = 0 THEN c.outer = -1 /\ c.i = last ELSE Span(F, t, c.outer, 1, last - c.i)
      /\ Merging(c) /\ c.level = "outer" =>
           \E m \in 0..c.n : Span(F, t, c.outer, 1, m) /\ Span(F, t, c.rel, m + 1, c.n)
      /\ c.at = "end" /\ c.status = "SUCCESS" /\ c.n > 0 => Span(F, t, c.rel, 1, c.n)

(* The interface remembered is the kernel's, so that the one merge that is  *)
(* left at "legacy" is understood.                                          *)
Interface == uapi \in {"UNKNOWN", host.sync}

Promised(c) == Fenced(c) /\ host.driver = "MULTI" /\ c.refused = 0

Covers(t) ==
  Promised(call[t]) =>
    Covered(fds, t, call[t]) /\ (call[t].at = "legacy" => host.sync = "LEGACY")

Shapes == \A t \in Threads : Shape(call[t])

IInv == TypeOK /\ Shapes /\ Tables /\ Descriptors /\ Interface /\ \A t \in Threads : Covers(t)
-----------------------------------------------------------------------------
(* A state of a call stays one when a local of its type is set. *)
LEMMA LocalSet ==
  ASSUME NEW c \in CallState
  PROVE  /\ \A x \in {"start", "loop", "ioctl", "close", "release", "merge",
                        "modern", "legacy", "end", "over"} : [c EXCEPT !.at = x] \in CallState
         /\ \A x \in {"inner", "outer"} : [c EXCEPT !.level = x] \in CallState
         /\ \A x \in {"none", "SUCCESS", "FAILED"} : [c EXCEPT !.status = x] \in CallState
         /\ \A x \in {"UNKNOWN", "MODERN", "LEGACY"} : [c EXCEPT !.api = x] \in CallState
         /\ \A x \in Calls : [c EXCEPT !.op = x] \in CallState
         /\ \A x \in Nat : [c EXCEPT !.i = x] \in CallState
         /\ \A x \in Nat : [c EXCEPT !.j = x] \in CallState
         /\ \A x \in Nat : [c EXCEPT !.n = x] \in CallState
         /\ \A x \in Nat : [c EXCEPT !.tries = x] \in CallState
         /\ \A x \in Nat : [c EXCEPT !.refused = x] \in CallState
         /\ \A x \in Fds \cup {-1} : [c EXCEPT !.inner = x] \in CallState
         /\ \A x \in Fds \cup {-1} : [c EXCEPT !.outer = x] \in CallState
         /\ \A x \in Fds \cup {-1} : [c EXCEPT !.rel = x] \in CallState
         /\ \A x \in Fds \cup {-1} : [c EXCEPT !.acq = x] \in CallState
         /\ \A x \in Addrs \cup {NoAddr} : [c EXCEPT !.table = x] \in CallState
<1>1. \A x \in {"start", "loop", "ioctl", "close", "release", "merge",
  "modern", "legacy", "end", "over"} : [c EXCEPT !.at = x] \in CallState
  BY DEF CallState
<1>2. \A x \in {"inner", "outer"} : [c EXCEPT !.level = x] \in CallState
  BY DEF CallState
<1>3. \A x \in {"none", "SUCCESS", "FAILED"} : [c EXCEPT !.status = x] \in CallState
  BY DEF CallState
<1>4. \A x \in {"UNKNOWN", "MODERN", "LEGACY"} : [c EXCEPT !.api = x] \in CallState
  BY DEF CallState
<1>5. \A x \in Calls : [c EXCEPT !.op = x] \in CallState
  BY DEF CallState
<1>6. \A x \in Nat : [c EXCEPT !.i = x] \in CallState
  BY DEF CallState
<1>7. \A x \in Nat : [c EXCEPT !.j = x] \in CallState
  BY DEF CallState
<1>8. \A x \in Nat : [c EXCEPT !.n = x] \in CallState
  BY DEF CallState
<1>9. \A x \in Nat : [c EXCEPT !.tries = x] \in CallState
  BY DEF CallState
<1>10. \A x \in Nat : [c EXCEPT !.refused = x] \in CallState
  BY DEF CallState
<1>11. \A x \in Fds \cup {-1} : [c EXCEPT !.inner = x] \in CallState
  BY DEF CallState
<1>12. \A x \in Fds \cup {-1} : [c EXCEPT !.outer = x] \in CallState
  BY DEF CallState
<1>13. \A x \in Fds \cup {-1} : [c EXCEPT !.rel = x] \in CallState
  BY DEF CallState
<1>14. \A x \in Fds \cup {-1} : [c EXCEPT !.acq = x] \in CallState
  BY DEF CallState
<1>15. \A x \in Addrs \cup {NoAddr} : [c EXCEPT !.table = x] \in CallState
  BY DEF CallState
<1> QED
  BY <1>1, <1>2, <1>3, <1>4, <1>5, <1>6, <1>7, <1>8, <1>9, <1>10, <1>11, <1>12, <1>13, <1>14, <1>15

(* The loops: where they go on, and what they leave as it was. *)

LEMMA NextGroupType ==
  ASSUME NEW c \in CallState, NEW tmp \in Fds \cup {-1}
  PROVE  NextGroup(c, tmp) \in CallState
<1>1. c.j + 1 \in Nat /\ c.rel \in Fds \cup {-1} /\ -1 \in Fds \cup {-1}
  BY DEF CallState
<1>2. [c EXCEPT !.at = "loop", !.i = 0, !.inner = -1, !.j = @ + 1, !.outer = tmp] \in CallState
  BY <1>1, LocalSet
<1>3. [c EXCEPT !.at = "end", !.status = "SUCCESS", !.j = @ + 1, !.outer = tmp,
                !.rel = IF c.op.fence THEN tmp ELSE @] \in CallState
  BY <1>1, LocalSet
<1> QED
  BY <1>2, <1>3 DEF NextGroup

LEMMA GroupBackType ==
  ASSUME NEW c \in CallState
  PROVE  GroupBack(c) \in CallState
<1>1. Keep(c, c.outer) \in Fds \cup {-1}
  BY DEF Keep, CallState
<1>2. [c EXCEPT !.at = "merge", !.level = "outer"] \in CallState
  BY LocalSet
<1> QED
  BY <1>1, <1>2, NextGroupType DEF GroupBack

LEMMA GroupDoneType ==
  ASSUME NEW c \in CallState
  PROVE  GroupDone(c) \in CallState
<1> DEFINE left == [c EXCEPT !.rel = IF c.op.form # "one" /\ c.op.fence THEN c.inner ELSE @]
<1>1. c.inner \in Fds \cup {-1} /\ c.rel \in Fds \cup {-1}
  BY DEF CallState
<1>2. left \in CallState
  BY <1>1, LocalSet
<1> HIDE DEF left
<1>3. [left EXCEPT !.at = "end", !.status = "SUCCESS"] \in CallState
  BY <1>2, LocalSet
<1>4. GroupBack(left) \in CallState
  BY <1>2, GroupBackType
<1> QED
  BY <1>3, <1>4 DEF GroupDone, left

LEMMA NextTaskType ==
  ASSUME NEW c \in CallState, NEW tmp \in Fds \cup {-1}
  PROVE  NextTask(c, tmp) \in CallState
<1> DEFINE d == [c EXCEPT !.at = "loop", !.i = @ + 1, !.inner = tmp]
<1>1. c.i + 1 \in Nat
  BY DEF CallState
<1>2. d \in CallState
  BY <1>1, LocalSet
<1> HIDE DEF d
<1>3. GroupDone(d) \in CallState
  BY <1>2, GroupDoneType
<1> QED
  BY <1>2, <1>3 DEF NextTask, d

LEMMA TaskBackType ==
  ASSUME NEW c \in CallState
  PROVE  TaskBack(c) \in CallState
<1>1. Keep(c, c.inner) \in Fds \cup {-1}
  BY DEF Keep, CallState
<1>2. [c EXCEPT !.at = "merge", !.level = "inner"] \in CallState
  BY LocalSet
<1> QED
  BY <1>1, <1>2, NextTaskType DEF TaskBack

LEMMA ContinueType ==
  ASSUME NEW c \in CallState, NEW tmp \in Fds \cup {-1}
  PROVE  Continue(c, tmp) \in CallState
BY NextTaskType, NextGroupType DEF Continue

LEMMA NotCalledType == NotCalled \in CallState
BY DEF CallState, NotCalled, Fds

LEMMA EnteredType ==
  ASSUME NEW op \in Calls
  PROVE  Entered(op) \in CallState
<1> DEFINE c == [NotCalled EXCEPT !.at = "loop", !.op = op]
<1>1. c \in CallState
  BY NotCalledType, LocalSet
<1> HIDE DEF c
<1>2. GroupDone(c) \in CallState
  BY <1>1, GroupDoneType
<1> QED
  BY <1>1, <1>2 DEF Entered, c
-----------------------------------------------------------------------------
(* What the loops do to the locals of a call. *)

Same(c, d) ==
  /\ d.op = c.op /\ d.n = c.n /\ d.table = c.table /\ d.acq = c.acq
  /\ d.refused = c.refused /\ d.api = c.api

(* A group ends with rel as its fence; the groups together have tmp. *)
GroupLeft(c, rel, tmp, d) ==
  /\ d.outer = tmp /\ d.j = c.j + 1
  /\ \/ /\ c.j + 1 < c.op.groups
        /\ d.at = "loop" /\ d.status = c.status /\ d.i = 0 /\ d.inner = -1 /\ d.rel = rel
     \/ /\ ~(c.j + 1 < c.op.groups)
        /\ d.at = "end" /\ d.status = "SUCCESS" /\ d.i = c.i /\ d.inner = c.inner
        /\ d.rel = IF c.op.fence THEN tmp ELSE rel

LEMMA NextGroupLeaves ==
  ASSUME NEW c \in CallState, NEW tmp \in Fds \cup {-1}, NEW d, d = NextGroup(c, tmp)
  PROVE  Same(c, d) /\ GroupLeft(c, c.rel, tmp, d)
BY DEF NextGroup, CallState, Same, GroupLeft

Mergeable(c, rel, kept) == Fenced(c) /\ c.op.form # "one" /\ rel >= 0 /\ kept >= 0

Either(c, rel, kept) == IF Fenced(c) /\ c.op.form # "one" /\ rel >= 0 THEN rel ELSE kept

GroupsBack(c, rel, d) ==
  \/ /\ Mergeable(c, rel, c.outer)
     /\ d.at = "merge" /\ d.level = "outer" /\ d.status = c.status /\ d.rel = rel
     /\ d.i = c.i /\ d.j = c.j /\ d.inner = c.inner /\ d.outer = c.outer
  \/ /\ ~Mergeable(c, rel, c.outer)
     /\ GroupLeft(c, rel, Either(c, rel, c.outer), d)

LEMMA GroupBackLeaves ==
  ASSUME NEW c \in CallState, NEW d, d = GroupBack(c)
  PROVE  Same(c, d) /\ GroupsBack(c, c.rel, d)
<1>1. CASE Merges(c, c.outer)
  <2>1. d = [c EXCEPT !.at = "merge", !.level = "outer"]
    BY <1>1 DEF GroupBack
  <2> QED
    BY <1>1, <2>1 DEF CallState, Same, GroupsBack, Merges, Mergeable
<1>2. CASE ~Merges(c, c.outer)
  <2>1. d = NextGroup(c, Keep(c, c.outer))
    BY <1>2 DEF GroupBack
  <2>2. Keep(c, c.outer) \in Fds \cup {-1}
    BY DEF Keep, CallState
  <2>3. Same(c, d) /\ GroupLeft(c, c.rel, Keep(c, c.outer), d)
    BY <2>1, <2>2, NextGroupLeaves
  <2> QED
    BY <1>2, <2>3 DEF GroupsBack, Merges, Mergeable, Keep, Either
<1> QED
  BY <1>1, <1>2

LastRel(c, inner) == IF c.op.form # "one" /\ c.op.fence THEN inner ELSE c.rel

GroupEnds(c, d) ==
  \/ /\ c.op.form # "nested"
     /\ d.at = "end" /\ d.status = "SUCCESS" /\ d.rel = LastRel(c, c.inner)
     /\ d.i = c.i /\ d.j = c.j /\ d.inner = c.inner /\ d.outer = c.outer
  \/ /\ c.op.form = "nested"
     /\ GroupsBack(c, LastRel(c, c.inner), d)

LEMMA GroupDoneLeaves ==
  ASSUME NEW c \in CallState, NEW d, d = GroupDone(c)
  PROVE  Same(c, d) /\ GroupEnds(c, d)
<1> DEFINE left == [c EXCEPT !.rel = IF c.op.form # "one" /\ c.op.fence THEN c.inner ELSE @]
<1>1. /\ left \in CallState
      /\ Same(c, left)
      /\ left.rel = LastRel(c, c.inner)
      /\ left.at = c.at /\ left.status = c.status /\ left.i = c.i /\ left.j = c.j
      /\ left.inner = c.inner /\ left.outer = c.outer
  <2>1. c.inner \in Fds \cup {-1} /\ c.rel \in Fds \cup {-1}
    BY DEF CallState
  <2>2. left \in CallState
    BY <2>1, LocalSet
  <2> QED
    BY <2>2 DEF CallState, Same, LastRel
<1>2. d = IF c.op.form = "nested" THEN GroupBack(left)
          ELSE [left EXCEPT !.at = "end", !.status = "SUCCESS"]
  BY DEF GroupDone
<1> HIDE DEF left
<1>3. CASE c.op.form = "nested"
  <2>1. Same(left, d) /\ GroupsBack(left, left.rel, d)
    BY <1>1, <1>2, <1>3, GroupBackLeaves
  <2> QED
    BY <1>1, <1>3, <2>1 DEF Same, GroupEnds, GroupsBack, GroupLeft, Mergeable, Either, Fenced
<1>4. CASE c.op.form # "nested"
  <2>1. d = [left EXCEPT !.at = "end", !.status = "SUCCESS"]
    BY <1>2, <1>4
  <2>2. /\ d.op = left.op /\ d.n = left.n /\ d.table = left.table /\ d.acq = left.acq
        /\ d.refused = left.refused /\ d.api = left.api /\ d.rel = left.rel
        /\ d.at = "end" /\ d.status = "SUCCESS" /\ d.i = left.i /\ d.j = left.j
        /\ d.inner = left.inner /\ d.outer = left.outer
    BY <1>1, <2>1 DEF CallState
  <2> QED
    BY <1>1, <1>4, <2>2 DEF Same, GroupEnds
<1> QED
  BY <1>3, <1>4

(* A task ends and its group has tmp. *)
TaskLeft(c, tmp, d) ==
  \/ /\ c.i + 1 < c.op.sides
     /\ d.at = "loop" /\ d.status = c.status /\ d.rel = c.rel /\ d.level = c.level
     /\ d.i = c.i + 1 /\ d.j = c.j /\ d.inner = tmp /\ d.outer = c.outer
  \/ /\ ~(c.i + 1 < c.op.sides)
     /\ GroupEnds([c EXCEPT !.at = "loop", !.i = @ + 1, !.inner = tmp], d)

LEMMA NextTaskLeaves ==
  ASSUME NEW c \in CallState, NEW tmp \in Fds \cup {-1}, NEW d, d = NextTask(c, tmp)
  PROVE  Same(c, d) /\ TaskLeft(c, tmp, d)
<1> DEFINE e == [c EXCEPT !.at = "loop", !.i = @ + 1, !.inner = tmp]
<1>1. e \in CallState
  <2>1. c.i + 1 \in Nat
    BY DEF CallState
  <2> QED
    BY <2>1, LocalSet
<1>2. /\ Same(c, e) /\ e.at = "loop" /\ e.status = c.status /\ e.rel = c.rel
      /\ e.level = c.level /\ e.i = c.i + 1 /\ e.j = c.j /\ e.inner = tmp /\ e.outer = c.outer
  BY DEF CallState, Same
<1>3. d = IF e.i < e.op.sides THEN e ELSE GroupDone(e)
  BY DEF NextTask
<1>4. TaskLeft(c, tmp, d) <=>
        \/ /\ c.i + 1 < c.op.sides
           /\ d.at = "loop" /\ d.status = c.status /\ d.rel = c.rel /\ d.level = c.level
           /\ d.i = c.i + 1 /\ d.j = c.j /\ d.inner = tmp /\ d.outer = c.outer
        \/ ~(c.i + 1 < c.op.sides) /\ GroupEnds(e, d)
  BY DEF TaskLeft
<1> HIDE DEF e
<1>5. CASE e.i < e.op.sides
  <2>1. d = e
    BY <1>3, <1>5
  <2> QED
    BY <1>2, <1>4, <1>5, <2>1 DEF Same
<1>6. CASE ~(e.i < e.op.sides)
  <2>1. Same(e, d) /\ GroupEnds(e, d)
    BY <1>1, <1>3, <1>6, GroupDoneLeaves
  <2> QED
    BY <1>2, <1>4, <1>6, <2>1 DEF Same
<1> QED
  BY <1>5, <1>6
-----------------------------------------------------------------------------
(* Types, and how far a call can be. *)

LEMMA OpFacts ==
  ASSUME NEW op \in Calls
  PROVE  /\ op.groups \in Nat \ {0} /\ op.sides \in Nat
         /\ op.form \in {"one", "array", "nested"}
         /\ op.async \in BOOLEAN /\ op.fence \in BOOLEAN
         /\ op.acquire \in BOOLEAN /\ op.gauss \in BOOLEAN
         /\ op.form = "one" => op.groups = 1 /\ op.sides = 1
         /\ op.form = "nested" => op.sides > 0
         /\ op.form # "one" => ~op.acquire /\ ~op.gauss
BY DEF CallForm

Ready(c) ==
  /\ c.op \in Calls /\ c.status = "none"
  /\ c.op.form = "one" => c.i = 0
  /\ c.op.form # "nested" => c.j = 0

LEMMA GroupsBackShape ==
  ASSUME NEW c \in CallState, Ready(c), c.op.form = "nested", c.n > 0,
         NEW rel \in Fds \cup {-1},
         NEW d \in CallState, Same(c, d), GroupsBack(c, rel, d)
  PROVE  Shape(d) /\ d.at \in {"loop", "merge", "end"}
<1>1. /\ c.outer \in Fds \cup {-1} /\ c.i \in Nat /\ c.n \in Nat
      /\ Fenced(d) <=> Fenced(c)
  BY DEF CallState, Same, Fenced
<1>2. CASE Mergeable(c, rel, c.outer)
  BY <1>1, <1>2 DEF GroupsBack, GroupLeft, Same, Shape, Ready, Merging, InFlight, Mergeable, Kept, Fds
<1>3. CASE ~Mergeable(c, rel, c.outer)
  BY <1>1, <1>3 DEF GroupsBack, GroupLeft, Same, Shape, Ready, Merging, InFlight
<1> QED
  BY <1>2, <1>3

LEMMA GroupEndsShape ==
  ASSUME NEW c \in CallState, Ready(c), c.op.form = "nested" => c.n > 0,
         NEW d \in CallState, Same(c, d), GroupEnds(c, d)
  PROVE  Shape(d) /\ d.at \in {"loop", "merge", "end"}
<1>1. LastRel(c, c.inner) \in Fds \cup {-1}
  BY DEF CallState, LastRel
<1>2. CASE c.op.form = "nested"
  BY <1>1, <1>2, GroupsBackShape DEF GroupEnds
<1>3. CASE c.op.form # "nested"
  BY <1>3 DEF GroupEnds, Same, Shape, Ready, Merging, InFlight
<1> QED
  BY <1>2, <1>3

LEMMA TaskLeftShape ==
  ASSUME NEW c \in CallState, Ready(c), c.n > 0, NEW tmp \in Fds \cup {-1},
         NEW d \in CallState, Same(c, d), TaskLeft(c, tmp, d)
  PROVE  Shape(d) /\ d.at \in {"loop", "merge", "end"}
<1> DEFINE e == [c EXCEPT !.at = "loop", !.i = @ + 1, !.inner = tmp]
<1>1. CASE c.i + 1 < c.op.sides
  <2>1. c.op.form # "one"
    BY <1>1, OpFacts DEF Ready
  <2> QED
    BY <1>1, <2>1 DEF TaskLeft, Same, Shape, Ready, Merging, InFlight
<1>2. CASE ~(c.i + 1 < c.op.sides)
  <2>1. e \in CallState
    <3>1. c.i + 1 \in Nat
      BY DEF CallState
    <3> QED
      BY <3>1, LocalSet
  <2>2. Same(c, e) /\ e.status = c.status /\ e.j = c.j /\ e.i = c.i + 1
    BY DEF CallState, Same
  <2>3. GroupEnds(e, d)
    BY <1>2 DEF TaskLeft
  <2> HIDE DEF e
  <2>4. CASE c.op.form = "nested"
    <3>1. Ready(e) /\ e.n > 0 /\ Same(e, d)
      BY <2>2, <2>4 DEF Ready, Same
    <3> QED
      BY <2>1, <2>3, <3>1, GroupEndsShape
  <2>5. CASE c.op.form # "nested"
    BY <2>2, <2>3, <2>5 DEF GroupEnds, Same, Shape, Ready, Merging, InFlight
  <2> QED
    BY <2>4, <2>5
<1> QED
  BY <1>1, <1>2

LEMMA TaskBackLeaves ==
  ASSUME NEW c \in CallState, NEW d, d = TaskBack(c)
  PROVE  /\ Same(c, d)
         /\ \/ /\ Mergeable(c, c.rel, c.inner)
               /\ d.at = "merge" /\ d.level = "inner" /\ d.status = c.status /\ d.rel = c.rel
               /\ d.i = c.i /\ d.j = c.j /\ d.inner = c.inner /\ d.outer = c.outer
            \/ /\ ~Mergeable(c, c.rel, c.inner)
               /\ TaskLeft(c, Either(c, c.rel, c.inner), d)
<1>1. CASE Merges(c, c.inner)
  <2>1. d = [c EXCEPT !.at = "merge", !.level = "inner"]
    BY <1>1 DEF TaskBack
  <2> QED
    BY <1>1, <2>1 DEF CallState, Same, Merges, Mergeable
<1>2. CASE ~Merges(c, c.inner)
  <2>1. d = NextTask(c, Keep(c, c.inner))
    BY <1>2 DEF TaskBack
  <2>2. Keep(c, c.inner) \in Fds \cup {-1} /\ Keep(c, c.inner) = Either(c, c.rel, c.inner)
    BY DEF Keep, Either, CallState
  <2>3. Same(c, d) /\ TaskLeft(c, Keep(c, c.inner), d)
    BY <2>1, <2>2, NextTaskLeaves
  <2> QED
    BY <1>2, <2>2, <2>3 DEF Merges, Mergeable
<1> QED
  BY <1>1, <1>2

LEMMA TaskBackShape ==
  ASSUME NEW c \in CallState, Ready(c), c.n > 0, NEW d, d = TaskBack(c)
  PROVE  Shape(d) /\ d.at \in {"loop", "merge", "end"}
<1>1. d \in CallState
  BY TaskBackType
<1>2. Either(c, c.rel, c.inner) \in Fds \cup {-1}
  BY DEF Either, CallState
<1>3. CASE Mergeable(c, c.rel, c.inner)
  <2>1. /\ c.inner \in Fds \cup {-1} /\ c.rel \in Fds \cup {-1}
        /\ Fenced(d) <=> Fenced(c)
    BY TaskBackLeaves DEF CallState, Same, Fenced
  <2>2. /\ Same(c, d)
        /\ d.at = "merge" /\ d.level = "inner" /\ d.status = c.status /\ d.rel = c.rel
        /\ d.i = c.i /\ d.j = c.j /\ d.inner = c.inner /\ d.outer = c.outer
    BY <1>3, TaskBackLeaves
  <2> QED
    BY <1>1, <1>3, <2>1, <2>2 DEF Same, Shape, Ready, Merging, InFlight, Mergeable, Kept, Fds
<1>4. CASE ~Mergeable(c, c.rel, c.inner)
  BY <1>1, <1>2, <1>4, TaskBackLeaves, TaskLeftShape
<1> QED
  BY <1>3, <1>4

LEMMA ContinueLeaves ==
  ASSUME NEW c \in CallState, NEW tmp \in Fds \cup {-1}, NEW d, d = Continue(c, tmp)
  PROVE  /\ Same(c, d)
         /\ c.level = "inner" => TaskLeft(c, tmp, d)
         /\ c.level # "inner" => GroupLeft(c, c.rel, tmp, d)
BY NextTaskLeaves, NextGroupLeaves DEF Continue

LEMMA ContinueShape ==
  ASSUME NEW c \in CallState, Shape(c), Merging(c), NEW tmp \in Fds \cup {-1},
         NEW d, d = Continue(c, tmp)
  PROVE  Shape(d) /\ d.at \in {"loop", "merge", "end"}
<1>1. d \in CallState
  BY ContinueType
<1>2. Ready(c) /\ c.n > 0
  BY DEF Shape, Ready, Merging, InFlight, CallState
<1>3. CASE c.level = "inner"
  BY <1>1, <1>2, <1>3, ContinueLeaves, TaskLeftShape
<1>4. CASE c.level # "inner"
  <2>1. Same(c, d) /\ GroupLeft(c, c.rel, tmp, d) /\ c.op.form = "nested"
    BY <1>4, ContinueLeaves DEF Shape, CallState
  <2> QED
    BY <1>2, <2>1 DEF GroupLeft, Same, Shape, Ready, Merging, InFlight
<1> QED
  BY <1>3, <1>4

LEMMA EnteredLeaves ==
  ASSUME NEW op \in Calls, NEW d, d = Entered(op)
  PROVE  /\ d.op = op /\ d.n = 0 /\ d.table = NoAddr /\ d.acq = -1 /\ d.refused = 0
         /\ d.api = "UNKNOWN" /\ d.i = 0 /\ d.j = 0 /\ d.inner = -1 /\ d.outer = -1 /\ d.rel = -1
         /\ \/ d.at = "loop" /\ d.status = "none" /\ op.sides # 0
            \/ d.at = "end" /\ d.status = "SUCCESS" /\ op.sides = 0
         /\ Shape(d)
<1> DEFINE c == [NotCalled EXCEPT !.at = "loop", !.op = op]
<1>1. c \in CallState
  BY NotCalledType, LocalSet
<1>2. /\ c.op = op /\ c.n = 0 /\ c.table = NoAddr /\ c.acq = -1 /\ c.refused = 0
      /\ c.api = "UNKNOWN" /\ c.i = 0 /\ c.j = 0 /\ c.inner = -1 /\ c.outer = -1 /\ c.rel = -1
      /\ c.at = "loop" /\ c.status = "none"
  BY DEF NotCalled
<1>3. d = IF op.sides = 0 THEN GroupDone(c) ELSE c
  BY DEF Entered
<1> HIDE DEF c
<1>4. CASE op.sides # 0
  <2>1. d = c
    BY <1>3, <1>4
  <2> QED
    BY <1>2, <1>4, <2>1 DEF Shape, Merging, InFlight
<1>5. CASE op.sides = 0
  <2>1. Same(c, d) /\ GroupEnds(c, d) /\ op.form # "nested"
    BY <1>1, <1>3, <1>5, GroupDoneLeaves, OpFacts
  <2> QED
    BY <1>2, <1>5, <2>1 DEF GroupEnds, Same, Shape, Merging, InFlight, LastRel
<1> QED
  BY <1>4, <1>5
-----------------------------------------------------------------------------
LEMMA CallMoves ==
  ASSUME TypeOK, Shapes, NEW t \in Threads, NEW d \in CallState, Shape(d),
         call' = [call EXCEPT ![t] = d]
  PROVE  call' \in [Threads -> CallState] /\ Shapes'
BY DEF TypeOK, Shapes

LEMMA Opens ==
  ASSUME TypeOK, NEW f \in Fds, NEW of \in SUBSET Submissions,
         fds' = [fds EXCEPT ![f] = Fence(of)]
  PROVE  fds' \in [Fds -> Files]
<1>1. Fence(of) \in Files
  BY DEF Fence, Files
<1> QED
  BY <1>1 DEF TypeOK

LEMMA Closes ==
  ASSUME TypeOK, NEW f
  PROVE  [fds EXCEPT ![f] = Closed] \in [Fds -> Files]
<1>1. Closed \in Files
  BY DEF Closed, Files
<1> QED
  BY <1>1 DEF TypeOK

LEMMA TypeBegin ==
  ASSUME TypeOK, Shapes, NEW t \in Threads, NEW op \in Calls, Begin(t, op)
  PROVE  TypeOK' /\ Shapes'
<1> DEFINE c == Entered(op)
<1>1. c \in CallState /\ Shape(c)
  BY EnteredType, EnteredLeaves
<1>2. CASE ~op.acquire
  <2>1. call' = [call EXCEPT ![t] = c] /\ UNCHANGED <<host, uapi, heap, fds>>
    BY <1>2 DEF Begin
  <2> HIDE DEF c
  <2> QED
    BY <1>1, <2>1, CallMoves DEF TypeOK
<1>3. CASE op.acquire
  <2>1. PICK f \in Fds : /\ fds' = [fds EXCEPT ![f] = Fence({<<t, 0>>})]
                         /\ call' = [call EXCEPT ![t] = [c EXCEPT !.acq = f]]
    BY <1>3 DEF Begin
  <2> DEFINE d == [c EXCEPT !.acq = f]
  <2>2. call' = [call EXCEPT ![t] = d] /\ UNCHANGED <<host, uapi, heap>>
    BY <2>1 DEF Begin
  <2> HIDE DEF c
  <2>3. d \in CallState
    BY <1>1, LocalSet
  <2>4. Shape(d)
    BY <1>1 DEF Shape, Merging, InFlight, Fenced, Kept, CallState
  <2> HIDE DEF d
  <2>5. fds' \in [Fds -> Files]
    <3>1. {<<t, 0>>} \in SUBSET Submissions
      BY DEF Submissions
    <3> HIDE DEF d
    <3> QED
      BY <2>1, <3>1, Opens
  <2> QED
    BY <2>2, <2>3, <2>4, <2>5, CallMoves DEF TypeOK
<1> QED
  BY <1>2, <1>3

LEMMA FailType ==
  ASSUME TypeOK, Shapes, NEW t \in Threads, NEW label \in {"release", "end"}, Fail(t, label),
         call[t].at = "ioctl" \/ (call[t].at = "loop" /\ label = "end")
  PROVE  /\ call' \in [Threads -> CallState] /\ Shapes'
<1> DEFINE c == call[t]
           d == [c EXCEPT !.at = label, !.status = "FAILED"]
<1>1. call' = [call EXCEPT ![t] = d]
  BY DEF Fail
<1>2. c \in CallState /\ Shape(c) /\ (c.at = "ioctl" \/ (c.at = "loop" /\ label = "end"))
  BY DEF TypeOK, Shapes
<1> HIDE DEF c
<1>3. d \in CallState
  BY <1>2, LocalSet
<1>5. Shape(d)
  BY <1>2 DEF Shape, Merging, InFlight, Fenced, Kept, CallState
<1> HIDE DEF d
<1> QED
  BY <1>1, <1>3, <1>5, CallMoves

LEMMA TryType ==
  ASSUME NEW c \in CallState, Shape(c), c.at = "loop",
         NEW d, d = [c EXCEPT !.at = "ioctl", !.n = @ + 1, !.tries = 0]
  PROVE  d \in CallState /\ Shape(d)
<1>1. c.n + 1 \in Nat /\ 0 \in Nat
  BY DEF CallState
<1>2. d \in CallState
  BY <1>1, LocalSet
<1>3. Shape(d)
  BY <1>1 DEF Shape, Merging, InFlight, Fenced, Kept, CallState
<1> QED
  BY <1>2, <1>3

LEMMA TypeGenerate ==
  ASSUME TypeOK, Shapes, NEW t \in Threads, Generate(t)
  PROVE  TypeOK' /\ Shapes'
<1> DEFINE c == call[t]
           T == Try(t)
<1>1. /\ c \in CallState /\ Shape(c) /\ c.at = "loop" /\ UNCHANGED <<host, uapi, fds>>
      /\ T = [c EXCEPT !.at = "ioctl", !.n = @ + 1, !.tries = 0]
  BY DEF Generate, TypeOK, Shapes, At, Try
<1>2. CASE Fail(t, "end") /\ UNCHANGED heap
  BY <1>1, <1>2, FailType DEF TypeOK
<1>3. CASE call' = [call EXCEPT ![t] = T] /\ UNCHANGED heap
  <2> HIDE DEF c
  <2>2. T \in CallState
    BY <1>1, TryType
  <2>3. Shape(T)
    BY <1>1, TryType
  <2> HIDE DEF T
  <2> QED
    BY <1>1, <1>3, <2>2, <2>3, CallMoves DEF TypeOK
<1>4. ASSUME NEW a \in Addrs, MakesTable(t, a),
             \/ call' = [call EXCEPT ![t] = [T EXCEPT !.table = a]]
             \/ Fail(t, "end")
      PROVE  TypeOK' /\ Shapes'
  <2> DEFINE d == [T EXCEPT !.table = a]
  <2>1. heap' \in [Addrs -> Submissions \cup {Nobody}]
    <3>1. <<t, call[t].n + 1>> \in Submissions
      BY <1>1 DEF CallState, Submissions
    <3> QED
      BY <1>4, <3>1 DEF MakesTable, TypeOK
  <2>2. CASE Fail(t, "end")
    BY <1>1, <2>1, <2>2, FailType DEF TypeOK
  <2>3. CASE call' = [call EXCEPT ![t] = d]
    <3> HIDE DEF c
    <3>2. T \in CallState
      BY <1>1, TryType
    <3>3. Shape(T)
      BY <1>1, TryType
    <3> HIDE DEF T
    <3>4. d \in CallState
      BY <1>4, <3>2, LocalSet
    <3>5. Shape(d)
      BY <3>2, <3>3 DEF Shape, Merging, InFlight, Fenced, Kept, CallState
    <3> HIDE DEF d
    <3> QED
      BY <1>1, <2>1, <2>3, <3>4, <3>5, CallMoves DEF TypeOK
  <2> QED
    BY <1>4, <2>2, <2>3
<1> QED
  BY <1>2, <1>3, <1>4 DEF Generate

LEMMA TypeTaken ==
  ASSUME TypeOK, Shapes, NEW t \in Threads, Taken(t)
  PROVE  TypeOK' /\ Shapes'
<1> DEFINE c == call[t]
<1>1. c \in CallState /\ Shape(c) /\ c.at = "ioctl" /\ UNCHANGED <<host, uapi, heap>>
  BY DEF Taken, TypeOK, Shapes, At
<1>2. 0 \in Fds
  BY DEF Fds
<1>3. CASE call' = [call EXCEPT ![t] = [c EXCEPT !.at = "close"]] /\ UNCHANGED fds
  <2> DEFINE d == [c EXCEPT !.at = "close"]
  <2> HIDE DEF c
  <2>1. d \in CallState
    BY <1>1, LocalSet
  <2>2. Shape(d)
    BY <1>1 DEF Shape, Merging, InFlight, Fenced, Kept, CallState
  <2>3. call' = [call EXCEPT ![t] = d]
    BY <1>3 DEF d
  <2> HIDE DEF d
  <2> QED
    BY <1>1, <1>3, <2>1, <2>2, <2>3, CallMoves DEF TypeOK
<1>4. ASSUME NEW f \in Fds,
             call' = [call EXCEPT ![t] = [c EXCEPT !.at = "close", !.rel = f]],
             fds' \in [Fds -> Files]
      PROVE  TypeOK' /\ Shapes'
  <2> DEFINE d == [c EXCEPT !.at = "close", !.rel = f]
  <2> HIDE DEF c
  <2>1. d \in CallState
    BY <1>1, LocalSet
  <2>2. Shape(d)
    BY <1>1 DEF Shape, Merging, InFlight, Fenced, Kept, CallState
  <2>3. call' = [call EXCEPT ![t] = d]
    BY <1>4 DEF d
  <2> HIDE DEF d
  <2> QED
    BY <1>1, <1>4, <2>1, <2>2, <2>3, CallMoves DEF TypeOK
<1>5. ASSUME NEW f \in Fds, fds' = [AfterIoctl(t) EXCEPT ![f] = Fence({This(t)})]
      PROVE  fds' \in [Fds -> Files]
  <2>1. AfterIoctl(t) \in [Fds -> Files]
    BY Closes DEF AfterIoctl, TypeOK
  <2>2. Fence({This(t)}) \in Files
    BY <1>1 DEF Fence, Files, This, Submissions, CallState
  <2> QED
    BY <1>5, <2>1, <2>2
<1>6. \/ UNCHANGED fds /\ call' = [call EXCEPT ![t] = [c EXCEPT !.at = "close"]]
      \/ \E f \in Fds : /\ call' = [call EXCEPT ![t] = [c EXCEPT !.at = "close", !.rel = f]]
                        /\ \/ UNCHANGED fds
                           \/ fds' = [AfterIoctl(t) EXCEPT ![f] = Fence({This(t)})]
  BY <1>2 DEF Taken
<1>7. fds \in [Fds -> Files]
  BY DEF TypeOK
<1> QED
  BY <1>3, <1>4, <1>5, <1>6, <1>7

LEMMA TypeRelease ==
  ASSUME TypeOK, Shapes, NEW t \in Threads, Release(t)
  PROVE  TypeOK' /\ Shapes'
<1> DEFINE c == call[t]
           d == IF c.status = "FAILED" THEN [c EXCEPT !.at = "end"] ELSE TaskBack(c)
<1>1. /\ c \in CallState /\ Shape(c) /\ c.at = "release" /\ UNCHANGED <<host, uapi, fds>>
      /\ call' = [call EXCEPT ![t] = d]
  BY DEF Release, TypeOK, Shapes, At
<1>2. heap' \in [Addrs -> Submissions \cup {Nobody}]
  BY DEF Release, TypeOK
<1> HIDE DEF c
<1>3. d \in CallState
  BY <1>1, LocalSet, TaskBackType
<1>4. Shape(d)
  <2>1. CASE c.status = "FAILED"
    <3> DEFINE e == [c EXCEPT !.at = "end"]
    <3>1. Shape(e)
      BY <1>1, <2>1 DEF Shape, Merging, InFlight, Fenced, Kept, CallState
    <3> QED
      BY <2>1, <3>1
  <2>2. CASE c.status # "FAILED"
    <3>1. Ready(c) /\ c.n > 0
      BY <1>1, <2>2 DEF Shape, Ready, InFlight
    <3> QED
      BY <1>1, <2>2, <3>1, TaskBackShape
  <2> QED
    BY <2>1, <2>2
<1> HIDE DEF d
<1> QED
  BY <1>1, <1>2, <1>3, <1>4, CallMoves DEF TypeOK

LEMMA TypeClose ==
  ASSUME TypeOK, Shapes, NEW t \in Threads, CloseAcquire(t)
  PROVE  TypeOK' /\ Shapes'
<1> DEFINE c == call[t]
           d == [c EXCEPT !.at = "release"]
<1>1. /\ c \in CallState /\ Shape(c) /\ c.at = "close" /\ UNCHANGED <<host, uapi, heap>>
      /\ call' = [call EXCEPT ![t] = d]
  BY DEF CloseAcquire, TypeOK, Shapes, At
<1>2. fds' \in [Fds -> Files]
  BY Closes DEF CloseAcquire, TypeOK
<1> HIDE DEF c
<1>3. d \in CallState
  BY <1>1, LocalSet
<1>4. Shape(d)
  BY <1>1 DEF Shape, Merging, InFlight, Fenced, Kept, CallState
<1> HIDE DEF d
<1> QED
  BY <1>1, <1>2, <1>3, <1>4, CallMoves DEF TypeOK

LEMMA TypeInterrupted ==
  ASSUME TypeOK, Shapes, NEW t \in Threads, Interrupted(t)
  PROVE  TypeOK' /\ Shapes'
<1> DEFINE c == call[t]
           d == [c EXCEPT !.tries = @ + 1]
<1>1. /\ c \in CallState /\ Shape(c) /\ c.at = "ioctl" /\ UNCHANGED shared
      /\ call' = [call EXCEPT ![t] = d]
  BY DEF Interrupted, TypeOK, Shapes, At
<1> HIDE DEF c
<1>2. c.tries + 1 \in Nat
  BY <1>1 DEF CallState
<1>3. d \in CallState
  BY <1>1, <1>2, LocalSet
<1>4. Shape(d)
  BY <1>1 DEF Shape, Merging, InFlight, Fenced, Kept, CallState
<1> HIDE DEF d
<1> QED
  BY <1>1, <1>3, <1>4, CallMoves DEF TypeOK, shared

LEMMA TypeRefused ==
  ASSUME TypeOK, Shapes, NEW t \in Threads, Refused(t)
  PROVE  TypeOK' /\ Shapes'
<1>1. call[t].at = "ioctl" /\ Fail(t, "release") /\ UNCHANGED shared
  BY DEF Refused, At
<1>2. call' \in [Threads -> CallState] /\ Shapes'
  BY <1>1, FailType
<1> QED
  BY <1>1, <1>2 DEF TypeOK, shared

LEMMA TypeImsync ==
  ASSUME TypeOK, Shapes, NEW t \in Threads, Imsync(t)
  PROVE  TypeOK' /\ Shapes'
<1> DEFINE c == call[t]
           d == [c EXCEPT !.at = "over"]
<1>1. /\ c \in CallState /\ Shape(c) /\ c.at = "end" /\ c.status = "SUCCESS"
      /\ UNCHANGED <<host, uapi, heap>>
      /\ call' = [call EXCEPT ![t] = d]
  BY DEF Imsync, TypeOK, Shapes, At
<1>2. fds' \in [Fds -> Files]
  BY Closes DEF Imsync, TypeOK
<1> HIDE DEF c
<1>3. d \in CallState
  BY <1>1, LocalSet
<1>4. Shape(d)
  BY <1>1 DEF Shape, Merging, InFlight, Fenced, Kept, CallState
<1> HIDE DEF d
<1> QED
  BY <1>1, <1>2, <1>3, <1>4, CallMoves DEF TypeOK

LEMMA TypeLoad ==
  ASSUME TypeOK, Shapes, NEW t \in Threads, MergeLoad(t)
  PROVE  TypeOK' /\ Shapes'
<1> DEFINE c == call[t]
<1>1. /\ c \in CallState /\ Shape(c) /\ c.at = "merge" /\ UNCHANGED shared
      /\ uapi \in {"UNKNOWN", "MODERN", "LEGACY"}
      /\ \E a \in {"legacy", "modern"} : call' = [call EXCEPT ![t] = [c EXCEPT !.at = a, !.api = uapi]]
  BY DEF MergeLoad, TypeOK, Shapes, At
<1>2. PICK a \in {"legacy", "modern"} : call' = [call EXCEPT ![t] = [c EXCEPT !.at = a, !.api = uapi]]
  BY <1>1
<1> DEFINE d == [c EXCEPT !.at = a, !.api = uapi]
<1>3. call' = [call EXCEPT ![t] = d]
  BY <1>2
<1> HIDE DEF c
<1>4. d \in CallState
  BY <1>1, LocalSet
<1>5. Shape(d)
  BY <1>1, <1>2 DEF Shape, Merging, InFlight, Fenced, Kept, CallState
<1> HIDE DEF d
<1> QED
  BY <1>1, <1>3, <1>4, <1>5, CallMoves DEF TypeOK, shared

LEMMA TypeMerged ==
  ASSUME TypeOK, Shapes, NEW t \in Threads, NEW interface \in {"MODERN", "LEGACY"},
         call[t].at \in {"modern", "legacy"}, Merged(t, interface)
  PROVE  TypeOK' /\ Shapes'
<1> DEFINE c == call[t]
<1>1. c \in CallState /\ Shape(c) /\ Merging(c) /\ UNCHANGED <<host, heap>>
  BY DEF Merged, TypeOK, Shapes, Merging
<1>2. PICK f \in Fds :
           /\ fds' = [fds EXCEPT ![f] = Fence(fds[Kept(c)].of \cup fds[c.rel].of)]
           /\ call' = [call EXCEPT ![t] = Continue(c, f)]
  BY DEF Merged
<1> DEFINE d == Continue(c, f)
<1>3. call' = [call EXCEPT ![t] = d]
  BY <1>2
<1>4. uapi' \in {"UNKNOWN", "MODERN", "LEGACY"}
  BY DEF Merged, Remember, TypeOK
<1>5. fds[Kept(c)].of \cup fds[c.rel].of \in SUBSET Submissions
  <2>1. Kept(c) \in Fds /\ c.rel \in Fds
    BY <1>1 DEF Shape
  <2>2. \A g \in Fds : fds[g].of \in SUBSET Submissions
    BY DEF TypeOK, Files
  <2> QED
    BY <2>1, <2>2
<1> HIDE DEF c
<1>6. d \in CallState /\ Shape(d)
  BY <1>1, ContinueType, ContinueShape
<1> HIDE DEF d
<1>7. fds' \in [Fds -> Files]
  BY <1>2, <1>5, Opens
<1> QED
  BY <1>1, <1>3, <1>4, <1>6, <1>7, CallMoves DEF TypeOK

LEMMA TypeNoMerge ==
  ASSUME TypeOK, Shapes, NEW t \in Threads, NEW interface \in {"MODERN", "LEGACY"},
         call[t].at \in {"modern", "legacy"}, NoMerge(t, interface)
  PROVE  TypeOK' /\ Shapes'
<1> DEFINE c == call[t]
           e == Continue(c, -1)
           d == [e EXCEPT !.refused = @ + 1]
<1>1. /\ c \in CallState /\ Shape(c) /\ Merging(c) /\ UNCHANGED shared
      /\ call' = [call EXCEPT ![t] = d]
  BY DEF NoMerge, TypeOK, Shapes, Merging
<1> HIDE DEF c
<1>2. e \in CallState /\ Shape(e) /\ e.refused + 1 \in Nat
  BY <1>1, ContinueType, ContinueShape DEF CallState
<1> HIDE DEF e
<1>3. d \in CallState
  BY <1>2, LocalSet
<1>4. Shape(d)
  BY <1>2 DEF Shape, Merging, InFlight, Fenced, Kept, CallState
<1> HIDE DEF d
<1> QED
  BY <1>1, <1>3, <1>4, CallMoves DEF TypeOK, shared

LEMMA TypeModern ==
  ASSUME TypeOK, Shapes, NEW t \in Threads, ModernMerge(t)
  PROVE  TypeOK' /\ Shapes'
<1> DEFINE c == call[t]
           d == [c EXCEPT !.at = "legacy"]
<1>1. c \in CallState /\ Shape(c) /\ c.at = "modern"
  BY DEF ModernMerge, TypeOK, Shapes, At
<1>2. CASE Merged(t, "MODERN")
  BY <1>1, <1>2, TypeMerged
<1>3. CASE NoMerge(t, "MODERN")
  BY <1>1, <1>3, TypeNoMerge
<1>4. CASE call' = [call EXCEPT ![t] = d] /\ UNCHANGED shared
  <2> HIDE DEF c
  <2>1. d \in CallState
    BY <1>1, LocalSet
  <2>2. Shape(d)
    BY <1>1 DEF Shape, Merging, InFlight, Fenced, Kept, CallState
  <2> HIDE DEF d
  <2> QED
    BY <1>4, <2>1, <2>2, CallMoves DEF TypeOK, shared
<1> QED
  BY <1>2, <1>3, <1>4 DEF ModernMerge

LEMMA TypeLegacy ==
  ASSUME TypeOK, Shapes, NEW t \in Threads, LegacyMerge(t)
  PROVE  TypeOK' /\ Shapes'
<1> DEFINE c == call[t]
           d == Continue(c, -1)
<1>1. c \in CallState /\ Shape(c) /\ c.at = "legacy"
  BY DEF LegacyMerge, TypeOK, Shapes, At
<1>2. CASE Merged(t, "LEGACY")
  BY <1>1, <1>2, TypeMerged
<1>3. CASE NoMerge(t, "LEGACY")
  BY <1>1, <1>3, TypeNoMerge
<1>4. CASE call' = [call EXCEPT ![t] = d] /\ UNCHANGED shared
  <2> HIDE DEF c
  <2>1. d \in CallState /\ Shape(d)
    BY <1>1, ContinueType, ContinueShape DEF Merging
  <2> HIDE DEF d
  <2> QED
    BY <1>4, <2>1, CallMoves DEF TypeOK, shared
<1> QED
  BY <1>2, <1>3, <1>4 DEF LegacyMerge

LEMMA TypeStep == TypeOK /\ Shapes /\ [Next]_vars => TypeOK' /\ Shapes'
<1> SUFFICES ASSUME TypeOK, Shapes, [Next]_vars PROVE TypeOK' /\ Shapes'
  OBVIOUS
<1>1. CASE UNCHANGED vars
  BY <1>1 DEF vars, shared, TypeOK, Shapes
<1>2. ASSUME NEW t \in Threads, Step(t) PROVE TypeOK' /\ Shapes'
  BY <1>2, TypeBegin, TypeGenerate, TypeInterrupted, TypeRefused, TypeTaken, TypeClose,
     TypeRelease, TypeLoad, TypeModern, TypeLegacy, TypeImsync DEF Step
<1> QED
  BY <1>1, <1>2 DEF Next

LEMMA TypeInit == Init => TypeOK /\ Shapes
<1> SUFFICES ASSUME Init PROVE TypeOK /\ Shapes
  OBVIOUS
<1>1. fds \in [Fds -> Files]
  <2>1. Closed \in Files /\ Stdin \in Files
    BY DEF Closed, Stdin, Files
  <2> QED
    BY <2>1 DEF Init
<1>2. Shape(NotCalled)
  BY DEF Shape, NotCalled, NoCall, Merging, InFlight
<1> QED
  BY <1>1, <1>2, NotCalledType DEF Init, TypeOK, Shapes

(* Descriptors, the heap and the locals of every call keep their types, for *)
(* any threads, calls, hosts and limits: in particular every descriptor     *)
(* that is merged, closed or handed out is one the process can have.        *)
THEOREM SubmitTypeOK == Spec => []TypeOK
<1>1. Spec => [](TypeOK /\ Shapes)
  BY TypeInit, TypeStep, PTL DEF Spec
<1> QED
  BY <1>1, PTL
-----------------------------------------------------------------------------
(* The tables of coefficients. *)

ReadsTable(c) == c.at \in {"ioctl", "close", "release"}

LEMMA TableKeeps ==
  ASSUME TypeOK, Tables, NEW t \in Threads, NEW d,
         call' = [call EXCEPT ![t] = d], heap' = heap,
         d.table = call[t].table, TableOf(d),
         d.table # NoAddr => d.n = call[t].n /\ (ReadsTable(d) <=> ReadsTable(call[t]))
  PROVE  Tables'
<1>1. \A u \in Threads \ {t} : call'[u] = call[u]
  BY DEF TypeOK
<1>2. call'[t] = d
  BY DEF TypeOK
<1>3. \A u \in Threads : TableOf(call'[u])
  BY <1>1, <1>2 DEF Tables
<1>4. ASSUME NEW u \in Threads, call'[u].table # NoAddr
      PROVE  heap'[call'[u].table] = <<u, call'[u].n>> <=> ReadsTable(call'[u])
  <2>1. heap[call[u].table] = <<u, call[u].n>> <=> ReadsTable(call[u])
    BY <1>1, <1>2, <1>4 DEF Tables, TableLives, This, ReadsTable
  <2> QED
    BY <1>1, <1>2, <1>4, <2>1
<1>5. TableLives'
  BY <1>4 DEF TableLives, This, ReadsTable
<1> QED
  BY <1>3, <1>5 DEF Tables

LEMMA NoTable ==
  ASSUME TypeOK, Tables, NEW t \in Threads, call[t].at \in {"start", "loop"}
  PROVE  call[t].table = NoAddr
BY DEF Tables, TableOf

(* A step on the locals that is not in the part where the table is read. *)
LEMMA TableStays ==
  ASSUME TypeOK, Shapes, Tables, NEW t \in Threads, NEW d, Same(call[t], d), heap' = heap,
         call' = [call EXCEPT ![t] = d], ReadsTable(d) <=> ReadsTable(call[t]),
         d.at \notin {"start", "loop"} \/ call[t].op.form # "one"
  PROVE  Tables'
<1>1. TableOf(call[t]) /\ Shape(call[t]) /\ call[t] \in CallState
  BY DEF Tables, Shapes, TypeOK
<1>2. call[t].op.form # "one" => ~call[t].op.gauss
  BY <1>1, OpFacts DEF CallState, NoCall
<1>3. TableOf(d)
  BY <1>1, <1>2 DEF TableOf, Same, ReadsTable
<1> QED
  BY <1>3, TableKeeps DEF Same

LEMMA TableMerges ==
  ASSUME TypeOK, Shapes, Tables, NEW t \in Threads,
         MergeLoad(t) \/ ModernMerge(t) \/ LegacyMerge(t)
  PROVE  Tables'
<1> DEFINE c == call[t]
<1>1. /\ c \in CallState /\ Shape(c) /\ c.at \in {"merge", "modern", "legacy"}
      /\ Merging(c) /\ c.op.form # "one" /\ heap' = heap
  BY DEF MergeLoad, ModernMerge, LegacyMerge, Merged, NoMerge, At, TypeOK, Shapes, Shape, Merging, shared
<1>2. \/ \E a \in {"legacy", "modern"} : call' = [call EXCEPT ![t] = [c EXCEPT !.at = a, !.api = uapi]]
      \/ call' = [call EXCEPT ![t] = [c EXCEPT !.at = "legacy"]]
      \/ \E f \in Fds \cup {-1} : call' = [call EXCEPT ![t] = Continue(c, f)]
      \/ call' = [call EXCEPT ![t] = [Continue(c, -1) EXCEPT !.refused = @ + 1]]
  BY DEF MergeLoad, ModernMerge, LegacyMerge, Merged, NoMerge
<1>3. PICK d : /\ call' = [call EXCEPT ![t] = d]
               /\ \/ \E a \in {"legacy", "modern"} : d = [c EXCEPT !.at = a, !.api = uapi]
                  \/ d = [c EXCEPT !.at = "legacy"]
                  \/ \E f \in Fds \cup {-1} : d = Continue(c, f)
                  \/ d = [Continue(c, -1) EXCEPT !.refused = @ + 1]
  BY <1>2
<1> HIDE DEF c
<1>4. /\ d.op = c.op /\ d.n = c.n /\ d.table = c.table
      /\ d.at \in {"legacy", "modern", "loop", "merge", "end"}
  <2>1. CASE \E a \in {"legacy", "modern"} : d = [c EXCEPT !.at = a, !.api = uapi]
    BY <1>1, <2>1 DEF CallState
  <2>2. CASE d = [c EXCEPT !.at = "legacy"]
    BY <1>1, <2>2 DEF CallState
  <2>3. CASE \E f \in Fds \cup {-1} : d = Continue(c, f)
    BY <1>1, <2>3, ContinueLeaves, ContinueShape DEF Same
  <2>4. CASE d = [Continue(c, -1) EXCEPT !.refused = @ + 1]
    <3> DEFINE e == Continue(c, -1)
    <3>1. Same(c, e) /\ e.at \in {"loop", "merge", "end"} /\ e \in CallState
      BY <1>1, ContinueType, ContinueLeaves, ContinueShape
    <3>2. d = [e EXCEPT !.refused = @ + 1]
      BY <2>4
    <3> HIDE DEF e
    <3> QED
      BY <3>1, <3>2 DEF Same, CallState
  <2> QED
    BY <1>3, <2>1, <2>2, <2>3, <2>4
<1>5. ~c.op.gauss /\ TableOf(c)
  BY <1>1, OpFacts DEF CallState, NoCall, Tables, c
<1>6. TableOf(d) /\ c.table = NoAddr
  BY <1>4, <1>5 DEF TableOf
<1> QED
  BY <1>1, <1>3, <1>4, <1>6, TableKeeps DEF c

LEMMA TableGenerate ==
  ASSUME TypeOK, Shapes, Tables, NEW t \in Threads, Generate(t)
  PROVE  Tables'
<1> DEFINE c == call[t]
<1>1. c \in CallState /\ Shape(c) /\ TableOf(c) /\ c.at = "loop" /\ c.table = NoAddr
  BY NoTable DEF Generate, TypeOK, Shapes, Tables, At
<1>2. ASSUME Fail(t, "end"), heap' = heap
      PROVE  Tables'
  <2> DEFINE d == [c EXCEPT !.at = "end", !.status = "FAILED"]
  <2>1. call' = [call EXCEPT ![t] = d]
    BY <1>2 DEF Fail
  <2>2. d.table = c.table /\ d.op = c.op /\ d.n = c.n /\ d.at = "end"
    BY <1>1 DEF CallState
  <2> HIDE DEF d
  <2> QED
    BY <1>1, <1>2, <2>1, <2>2, TableKeeps DEF TableOf
<1>3. Try(t) = [c EXCEPT !.at = "ioctl", !.n = @ + 1, !.tries = 0]
  BY DEF Try
<1>4. CASE ~c.op.gauss /\ call' = [call EXCEPT ![t] = Try(t)] /\ heap' = heap
  <2> DEFINE d == Try(t)
  <2>1. d.table = NoAddr /\ d.op = c.op /\ d.at = "ioctl"
    BY <1>1, <1>3 DEF CallState
  <2> HIDE DEF d
  <2>2. TableOf(d)
    BY <1>4, <2>1 DEF TableOf
  <2> QED
    BY <1>1, <1>4, <2>1, <2>2, TableKeeps DEF d
<1>5. ASSUME NEW a \in Addrs, MakesTable(t, a), NEW d,
             call' = [call EXCEPT ![t] = d], d.n \in Nat, d.op = c.op,
             \/ d.table = NoAddr /\ d.at = "end"
             \/ d.table = a /\ d.at = "ioctl" /\ d.n = c.n + 1
      PROVE  Tables'
  <2>1. heap' = [heap EXCEPT ![a] = <<t, c.n + 1>>] /\ heap[a] = Nobody /\ c.op.gauss
    BY <1>5 DEF MakesTable
  <2>2. /\ \A u \in Threads \ {t} : call'[u] = call[u]
        /\ call'[t] = d
        /\ heap'[a] = <<t, c.n + 1>> /\ \A b \in Addrs \ {a} : heap'[b] = heap[b]
    BY <1>5, <2>1 DEF TypeOK
  <2>3. c.n \in Nat
    BY <1>1 DEF CallState
  <2>4. TableOf(d)
    BY <1>5, <2>1, <2>3 DEF TableOf
  <2>5. \A u \in Threads : TableOf(call'[u])
    BY <2>2, <2>4 DEF Tables
  <2>6. ASSUME NEW u \in Threads, call'[u].table # NoAddr
        PROVE  heap'[call'[u].table] = <<u, call'[u].n>> <=> ReadsTable(call'[u])
    <3>1. CASE u = t
      BY <1>5, <2>2, <2>6, <3>1 DEF ReadsTable
    <3>2. CASE u # t
      <4>1. /\ call'[u] = call[u] /\ call[u] \in CallState /\ call[u].table \in Addrs
            /\ TableOf(call[u]) /\ call[u].n \in Nat
        BY <2>2, <2>6, <3>2 DEF TypeOK, CallState, Tables
      <4>2. heap[call[u].table] = <<u, call[u].n>> <=> ReadsTable(call[u])
        BY <2>6, <4>1 DEF Tables, TableLives, This, ReadsTable
      <4>3. <<u, call[u].n>> # Nobody /\ <<u, call[u].n>> # <<t, c.n + 1>>
        BY <2>6, <3>2, <4>1 DEF Nobody, TableOf
      <4> QED
        BY <2>1, <2>2, <4>1, <4>2, <4>3
    <3> QED
      BY <3>1, <3>2
  <2>7. TableLives'
    BY <2>6 DEF TableLives, This, ReadsTable
  <2> QED
    BY <2>5, <2>7 DEF Tables
<1>6. ASSUME NEW a \in Addrs, MakesTable(t, a), Fail(t, "end")
      PROVE  Tables'
  <2> DEFINE d == [c EXCEPT !.at = "end", !.status = "FAILED"]
  <2>1. call' = [call EXCEPT ![t] = d]
    BY <1>6 DEF Fail
  <2>2. d.table = NoAddr /\ d.op = c.op /\ d.n \in Nat /\ d.at = "end"
    BY <1>1 DEF CallState
  <2> HIDE DEF d
  <2> QED
    BY <1>5, <1>6, <2>1, <2>2
<1>7. ASSUME NEW a \in Addrs, MakesTable(t, a),
             call' = [call EXCEPT ![t] = [Try(t) EXCEPT !.table = a]]
      PROVE  Tables'
  <2> DEFINE d == [Try(t) EXCEPT !.table = a]
  <2>1. d.table = a /\ d.op = c.op /\ d.n = c.n + 1 /\ d.n \in Nat /\ d.at = "ioctl"
    BY <1>1, <1>3 DEF CallState
  <2> HIDE DEF d
  <2> QED
    BY <1>5, <1>7, <2>1 DEF d
<1> QED
  BY <1>2, <1>4, <1>6, <1>7 DEF Generate

LEMMA TableRelease ==
  ASSUME TypeOK, Shapes, Tables, NEW t \in Threads, Release(t)
  PROVE  Tables'
<1> DEFINE c == call[t]
           d == IF c.status = "FAILED" THEN [c EXCEPT !.at = "end"] ELSE TaskBack(c)
<1>1. /\ c \in CallState /\ Shape(c) /\ TableOf(c) /\ c.at = "release"
      /\ call' = [call EXCEPT ![t] = d]
      /\ heap' = IF c.op.gauss THEN [heap EXCEPT ![c.table] = Nobody] ELSE heap
  BY DEF Release, TypeOK, Shapes, Tables, At
<1>2. Same(c, d) /\ d.at \in {"loop", "merge", "end"} /\ Shape(d)
  <2>1. CASE c.status = "FAILED"
    <3> DEFINE e == [c EXCEPT !.at = "end"]
    <3> HIDE DEF c
    <3>1. Same(c, e) /\ e.at = "end" /\ Shape(e)
      BY <1>1, <2>1 DEF Same, CallState, Shape, Merging, InFlight, Fenced, Kept
    <3> QED
      BY <2>1, <3>1
  <2>2. CASE c.status # "FAILED"
    <3>1. Ready(c) /\ c.n > 0
      BY <1>1, <2>2 DEF Shape, Ready, InFlight
    <3> HIDE DEF c
    <3> QED
      BY <1>1, <2>2, <3>1, TaskBackLeaves, TaskBackShape
  <2> QED
    BY <2>1, <2>2
<1>3. d.at = "loop" => c.op.form # "one"
  <2>1. CASE c.status = "FAILED"
    <3> HIDE DEF c
    <3>1. d.at = "end"
      BY <1>1, <2>1 DEF CallState
    <3> QED
      BY <3>1
  <2>2. CASE c.status # "FAILED" /\ c.op.form = "one"
    <3>1. c.op \in Calls /\ c.i = 0
      BY <1>1, <2>2 DEF Shape
    <3>2. c.op.sides = 1
      BY <2>2, <3>1, OpFacts
    <3>3. ~(c.i + 1 < c.op.sides)
      BY <3>1, <3>2
    <3> HIDE DEF c
    <3>4. d = TaskBack(c) /\ ~Mergeable(c, c.rel, c.inner)
      BY <2>2 DEF Mergeable
    <3> HIDE DEF d
    <3>5. TaskLeft(c, Either(c, c.rel, c.inner), d)
      BY <1>1, <3>4, TaskBackLeaves
    <3> DEFINE e == [c EXCEPT !.at = "loop", !.i = @ + 1, !.inner = Either(c, c.rel, c.inner)]
    <3>6. GroupEnds(e, d) /\ e.op = c.op
      BY <1>1, <3>3, <3>5 DEF TaskLeft, CallState
    <3> HIDE DEF e
    <3> QED
      BY <2>2, <3>6 DEF GroupEnds
  <2> QED
    BY <2>1, <2>2
<1> HIDE DEF d
<1>4. c.op \in Calls
  BY <1>1 DEF Shape
<1>5. CASE ~c.op.gauss
  <2>1. c.table = NoAddr /\ heap' = heap
    BY <1>1, <1>5 DEF TableOf
  <2>2. TableOf(d) /\ d.table = c.table
    BY <1>2, <1>5, <2>1 DEF TableOf, Same
  <2> QED
    BY <1>1, <2>1, <2>2, TableKeeps
<1>6. CASE c.op.gauss
  <2>1. /\ c.op.form = "one" /\ d.at # "loop" /\ c.table \in Addrs /\ c.table # NoAddr
        /\ heap' = [heap EXCEPT ![c.table] = Nobody]
    BY <1>1, <1>3, <1>4, <1>6, OpFacts DEF TableOf
  <2>2. /\ \A u \in Threads \ {t} : call'[u] = call[u]
        /\ call'[t] = d
        /\ heap'[c.table] = Nobody /\ \A b \in Addrs \ {c.table} : heap'[b] = heap[b]
    BY <1>1, <2>1 DEF TypeOK
  <2>3. TableOf(d)
    BY <1>1, <1>2, <2>1 DEF TableOf, Same
  <2>4. \A u \in Threads : TableOf(call'[u])
    BY <2>2, <2>3 DEF Tables
  <2>5. heap[c.table] = <<t, c.n>>
    BY <1>1, <2>1 DEF Tables, TableLives, This
  <2>6. ASSUME NEW u \in Threads, call'[u].table # NoAddr
        PROVE  heap'[call'[u].table] = <<u, call'[u].n>> <=> ReadsTable(call'[u])
    <3>1. call'[u].n > 0
      BY <2>4, <2>6 DEF TableOf
    <3>2. <<u, call'[u].n>> # Nobody
      BY <3>1 DEF Nobody
    <3>3. CASE u = t
      BY <1>2, <2>2, <3>2, <3>3 DEF ReadsTable, Same
    <3>4. CASE u # t
      <4>1. call'[u] = call[u] /\ call[u].table \in Addrs
        BY <2>2, <2>6, <3>4 DEF TypeOK, CallState
      <4>2. heap[call[u].table] = <<u, call[u].n>> <=> ReadsTable(call[u])
        BY <2>6, <4>1 DEF Tables, TableLives, This, ReadsTable
      <4>3. <<u, call[u].n>> # <<t, c.n>>
        BY <3>4
      <4> QED
        BY <2>2, <2>5, <3>2, <4>1, <4>2, <4>3
    <3> QED
      BY <3>3, <3>4
  <2>7. TableLives'
    BY <2>6 DEF TableLives, This, ReadsTable
  <2> QED
    BY <2>4, <2>7 DEF Tables
<1>7. c.op.gauss \in BOOLEAN
  BY <1>4, OpFacts
<1> QED
  BY <1>5, <1>6, <1>7

LEMMA TableBegin ==
  ASSUME TypeOK, Tables, NEW t \in Threads, NEW op \in Calls, Begin(t, op)
  PROVE  Tables'
<1> DEFINE c == Entered(op)
<1>1. call[t].table = NoAddr /\ heap' = heap
  BY NoTable DEF Begin, At
<1>2. c \in CallState /\ c.table = NoAddr
  BY EnteredType, EnteredLeaves
<1>3. \/ call' = [call EXCEPT ![t] = c]
      \/ \E f \in Fds : call' = [call EXCEPT ![t] = [c EXCEPT !.acq = f]]
  BY DEF Begin
<1> HIDE DEF c
<1>4. PICK d : call' = [call EXCEPT ![t] = d] /\ (d = c \/ \E f \in Fds : d = [c EXCEPT !.acq = f])
  BY <1>3
<1>5. d.table = NoAddr
  BY <1>2, <1>4 DEF CallState
<1>6. TableOf(d)
  <2>1. CASE d = c
    BY <2>1, EnteredLeaves DEF TableOf, c
  <2>2. CASE \E f \in Fds : d = [c EXCEPT !.acq = f]
    <3>1. d.at = c.at /\ d.op = c.op
      BY <1>2, <2>2 DEF CallState
    <3>2. c.at \in {"loop", "end"}
      BY EnteredLeaves DEF c
    <3> QED
      BY <1>5, <3>1, <3>2 DEF TableOf
  <2> QED
    BY <1>4, <2>1, <2>2
<1> QED
  BY <1>1, <1>4, <1>5, <1>6, TableKeeps

(* The steps between the ioctl and release_resource, and imsync. *)
LEMMA TableOthers ==
  ASSUME TypeOK, Shapes, Tables, NEW t \in Threads,
         Interrupted(t) \/ Refused(t) \/ Taken(t) \/ CloseAcquire(t) \/ Imsync(t)
  PROVE  Tables'
<1> DEFINE c == call[t]
<1>1. c \in CallState /\ heap' = heap
  BY DEF Interrupted, Refused, Taken, CloseAcquire, Imsync, TypeOK, shared
<1>2. \/ c.at = "ioctl" /\ call' = [call EXCEPT ![t] = [c EXCEPT !.tries = @ + 1]]
      \/ c.at = "ioctl" /\ call' = [call EXCEPT ![t] = [c EXCEPT !.at = "release", !.status = "FAILED"]]
      \/ c.at = "ioctl" /\ call' = [call EXCEPT ![t] = [c EXCEPT !.at = "close"]]
      \/ c.at = "ioctl" /\ \E f : call' = [call EXCEPT ![t] = [c EXCEPT !.at = "close", !.rel = f]]
      \/ c.at = "close" /\ call' = [call EXCEPT ![t] = [c EXCEPT !.at = "release"]]
      \/ c.at = "end" /\ call' = [call EXCEPT ![t] = [c EXCEPT !.at = "over"]]
  BY DEF Interrupted, Refused, Fail, Taken, CloseAcquire, Imsync, At
<1> HIDE DEF c
<1>3. PICK d : /\ call' = [call EXCEPT ![t] = d]
               /\ \/ c.at = "ioctl" /\ d = [c EXCEPT !.tries = @ + 1]
                  \/ c.at = "ioctl" /\ d = [c EXCEPT !.at = "release", !.status = "FAILED"]
                  \/ c.at = "ioctl" /\ d = [c EXCEPT !.at = "close"]
                  \/ c.at = "ioctl" /\ \E f : d = [c EXCEPT !.at = "close", !.rel = f]
                  \/ c.at = "close" /\ d = [c EXCEPT !.at = "release"]
                  \/ c.at = "end" /\ d = [c EXCEPT !.at = "over"]
  BY <1>2
<1>4. Same(c, d) /\ (ReadsTable(d) <=> ReadsTable(c)) /\ d.at \notin {"start", "loop"}
  BY <1>1, <1>3, ZenonT(60) DEF CallState, Same, ReadsTable
<1> QED
  BY <1>1, <1>3, <1>4, TableStays DEF c

LEMMA TableStep == TypeOK /\ Shapes /\ Tables /\ [Next]_vars => Tables'
<1> SUFFICES ASSUME TypeOK, Shapes, Tables, [Next]_vars PROVE Tables'
  OBVIOUS
<1>1. CASE UNCHANGED vars
  BY <1>1 DEF vars, shared, Tables, TableLives, TableOf, This
<1>2. ASSUME NEW t \in Threads, Step(t) PROVE Tables'
  BY <1>2, TableBegin, TableGenerate, TableOthers, TableRelease, TableMerges DEF Step
<1> QED
  BY <1>1, <1>2 DEF Next

(* However often a signal repeats the ioctl, and whatever the other threads *)
(* allocate and free meanwhile, the coefficients that a request points to   *)
(* are its own until release_resource, and are gone when the call is over.  *)
THEOREM SubmitTableLives == Spec => []TableLives
<1>1. Init => Tables
  BY DEF Init, Tables, TableLives, TableOf, NotCalled, NoCall
<1>2. Spec => [](TypeOK /\ Shapes)
  BY TypeInit, TypeStep, PTL DEF Spec
<1>3. TypeOK /\ Shapes /\ Tables /\ [Next]_vars => Tables'
  BY TableStep
<1>4. Tables => TableLives
  BY DEF Tables
<1> QED
  BY <1>1, <1>2, <1>3, <1>4, PTL DEF Spec
-----------------------------------------------------------------------------
(* The descriptors. *)

Own(t, d) == d.kind = "fence" /\ d.of # {} /\ d.of \subseteq {t} \X Nat

(* A step of t opens fences of its submissions and closes such fences. *)
MovesOwn(t) ==
  \A f \in Fds : \/ fds'[f] = fds[f]
                 \/ fds[f] = Closed /\ Own(t, fds'[f])
                 \/ Own(t, fds[f]) /\ fds'[f] = Closed

LEMMA Kinds ==
  /\ \A t, d : Own(t, d) => d # Closed /\ d # Stdin
  /\ \A t \in Threads : \A d : Own(t, d) => \A u \in Threads \ {t} : d # Fence({<<u, 0>>}) /\ ~Own(u, d)
  /\ \A S : Fence(S) # Closed /\ Fence(S) # Stdin /\ Fence(S).of = S /\ Fence(S).kind = "fence"
  /\ Closed # Stdin /\ Closed.kind = "closed" /\ Stdin.kind = "stdin"
<1>1. \A t, d : Own(t, d) => d # Closed /\ d # Stdin
  BY DEF Own, Closed, Stdin
<1>2. \A t \in Threads : \A d : Own(t, d) => \A u \in Threads \ {t} : d # Fence({<<u, 0>>}) /\ ~Own(u, d)
  <2> TAKE t \in Threads
  <2> TAKE d
  <2> SUFFICES ASSUME Own(t, d), NEW u \in Threads \ {t} PROVE d # Fence({<<u, 0>>}) /\ ~Own(u, d)
    OBVIOUS
  <2>1. PICK x \in d.of : x \in {t} \X Nat
    BY DEF Own
  <2>2. x[1] = t
    BY <2>1
  <2>3. x \notin {<<u, 0>>} /\ x \notin {u} \X Nat
    BY <2>2
  <2> QED
    BY <2>1, <2>3 DEF Own, Fence
<1>3. \A S : Fence(S) # Closed /\ Fence(S) # Stdin /\ Fence(S).of = S /\ Fence(S).kind = "fence"
  BY DEF Fence, Closed, Stdin
<1>4. Closed # Stdin /\ Closed.kind = "closed" /\ Stdin.kind = "stdin"
  BY DEF Closed, Stdin
<1> QED
  BY <1>1, <1>2, <1>3, <1>4

LEMMA HoldsOwn ==
  ASSUME NEW t, NEW f, Holds(t, f), f > 0
  PROVE  Own(t, fds[f]) /\ fds[f] # Fence({<<t, 0>>})
<1>1. fds[f].of \subseteq {t} \X Nat
  BY DEF Holds
<1>2. <<t, 0>> \notin fds[f].of
  BY DEF Holds
<1> QED
  BY <1>1, <1>2 DEF Holds, Own, Fence

LEMMA OthersKeep ==
  ASSUME TypeOK, Descriptors, NEW t \in Threads, NEW d, MovesOwn(t), host' = host,
         call' = [call EXCEPT ![t] = d]
  PROVE  fds'[0] = Stdin /\ \A u \in Threads \ {t} : Acquired(u)' /\ Held(u)'
<1>1. fds'[0] = Stdin
  BY Kinds DEF MovesOwn, Descriptors, Fds
<1>2. ASSUME NEW u \in Threads \ {t}
      PROVE  Acquired(u)' /\ Held(u)'
  <2>1. call'[u] = call[u] /\ call[u] \in CallState
    BY DEF TypeOK
  <2>2. (Gone(call[u]))' <=> Gone(call[u])
    BY <2>1 DEF Gone
  <2>3. \A f \in Fds : fds'[f] = Fence({<<u, 0>>}) <=> fds[f] = Fence({<<u, 0>>})
    BY Kinds DEF MovesOwn
  <2>4. Acquired(u)
    BY DEF Descriptors
  <2>5. call[u].acq \in Fds \cup {-1}
    BY <2>1 DEF CallState
  <2>6. Acquired(u)'
    BY <2>1, <2>2, <2>3, <2>4, <2>5 DEF Acquired
  <2>7. ASSUME NEW f \in Fds \cup {-1}, Holds(u, f)
        PROVE  Holds(u, f)'
    <3>1. CASE f > 0
      <4>1. Own(u, fds[f])
        BY <2>7, <3>1, HoldsOwn
      <4>2. fds[f] # Closed /\ ~Own(t, fds[f])
        BY <4>1, Kinds
      <4>3. f \in Fds
        BY <3>1
      <4>4. fds'[f] = fds[f]
        BY <4>2, <4>3 DEF MovesOwn
      <4> QED
        BY <2>7, <4>4 DEF Holds
    <3>2. CASE ~(f > 0)
      BY <3>2 DEF Holds
    <3> QED
      BY <3>1, <3>2
  <2>8. /\ call[u].inner \in Fds \cup {-1} /\ call[u].outer \in Fds \cup {-1}
        /\ call[u].rel \in Fds \cup {-1}
    BY <2>1 DEF CallState
  <2>9. Held(u)'
    BY <2>1, <2>7, <2>8 DEF Descriptors, Held, Holds
  <2> QED
    BY <2>6, <2>9
<1> QED
  BY <1>1, <1>2

LEMMA AcquiredKeeps ==
  ASSUME TypeOK, NEW t \in Threads, Acquired(t), NEW d, host' = host,
         call' = [call EXCEPT ![t] = d], d.acq = call[t].acq, d.op = call[t].op,
         call[t].at # "start", d.at # "start", d.acq # -1 => (Gone(d) <=> Gone(call[t])),
         \A f \in Fds : fds'[f] # fds[f] => fds[f] # Fence({<<t, 0>>}) /\ fds'[f] # Fence({<<t, 0>>})
  PROVE  Acquired(t)'
<1>1. call'[t] = d /\ call[t].acq \in Fds \cup {-1}
  BY DEF TypeOK, CallState
<1>2. (Gone(call[t]))' <=> Gone(d)
  BY <1>1 DEF Gone
<1>3. \A f \in Fds : fds'[f] = Fence({<<t, 0>>}) <=> fds[f] = Fence({<<t, 0>>})
  OBVIOUS
<1> QED
  BY <1>1, <1>2, <1>3 DEF Acquired

LEMMA HeldKeeps ==
  ASSUME TypeOK, NEW t \in Threads, Held(t), NEW d, call[t].at # "over",
         call' = [call EXCEPT ![t] = d],
         NEW S, S = {call[t].inner, call[t].outer, call[t].rel, -1, 0},
         d.inner \in S, d.outer \in S, d.rel \in S,
         \A f \in Fds : f > 0 /\ Holds(t, f) => fds'[f] = fds[f]
  PROVE  Held(t)'
<1>1. call'[t] = d
  BY DEF TypeOK
<1>2. S \subseteq Fds \cup {-1}
  BY DEF TypeOK, CallState, Fds
<1>3. ASSUME NEW f \in S PROVE Holds(t, f) /\ Holds(t, f)'
  <2>1. Holds(t, f)
    BY <1>3 DEF Held, Holds
  <2> QED
    BY <1>2, <2>1 DEF Holds, Fds
<1> QED
  BY <1>1, <1>3 DEF Held, Holds

LEMMA QuietMoves ==
  ASSUME NEW t, fds' = fds
  PROVE  MovesOwn(t)
BY Zenon DEF MovesOwn

LEMMA QuietDescriptors ==
  ASSUME TypeOK, Descriptors, NEW t \in Threads, NEW d, host' = host, fds' = fds,
         call' = [call EXCEPT ![t] = d], d.acq = call[t].acq, d.op = call[t].op,
         call[t].at # "start", call[t].at # "over", d.at # "start",
         d.acq # -1 => (Gone(d) <=> Gone(call[t])),
         NEW S, S = {call[t].inner, call[t].outer, call[t].rel, -1, 0},
         d.inner \in S, d.outer \in S, d.rel \in S
  PROVE  Descriptors' /\ MovesOwn(t)
<1>1. MovesOwn(t)
  BY QuietMoves
<1>2. Acquired(t)'
  BY AcquiredKeeps DEF Descriptors
<1>3. Held(t)'
  BY HeldKeeps DEF Descriptors
<1> QED
  BY <1>1, <1>2, <1>3, OthersKeep DEF Descriptors

(* The loops hand the descriptors they hold around, and get no new ones. *)

LEMMA GroupLeftHands ==
  ASSUME NEW S, NEW c \in CallState, NEW tmp \in S, NEW rel \in S, NEW d,
         c.inner \in S, -1 \in S, GroupLeft(c, rel, tmp, d)
  PROVE  d.inner \in S /\ d.outer \in S /\ d.rel \in S
BY DEF GroupLeft

LEMMA GroupEndsHands ==
  ASSUME NEW S, NEW c \in CallState, NEW d,
         c.inner \in S, c.outer \in S, c.rel \in S, -1 \in S, GroupEnds(c, d)
  PROVE  d.inner \in S /\ d.outer \in S /\ d.rel \in S
<1>1. LastRel(c, c.inner) \in S
  BY DEF LastRel
<1>2. Either(c, LastRel(c, c.inner), c.outer) \in S
  BY <1>1 DEF Either
<1>3. CASE c.op.form # "nested"
  BY <1>1, <1>3 DEF GroupEnds
<1>4. CASE c.op.form = "nested"
  BY <1>1, <1>2, <1>4, GroupLeftHands DEF GroupEnds, GroupsBack
<1> QED
  BY <1>3, <1>4

LEMMA TaskLeftHands ==
  ASSUME NEW S, NEW c \in CallState, NEW tmp \in S, NEW d, tmp \in Fds \cup {-1},
         c.outer \in S, c.rel \in S, -1 \in S, TaskLeft(c, tmp, d)
  PROVE  d.inner \in S /\ d.outer \in S /\ d.rel \in S
<1> DEFINE e == [c EXCEPT !.at = "loop", !.i = @ + 1, !.inner = tmp]
<1>1. CASE c.i + 1 < c.op.sides
  BY <1>1 DEF TaskLeft
<1>2. CASE ~(c.i + 1 < c.op.sides)
  <2>1. e \in CallState
    <3>1. c.i + 1 \in Nat
      BY DEF CallState
    <3> QED
      BY <3>1, LocalSet
  <2>2. e.inner = tmp /\ e.outer = c.outer /\ e.rel = c.rel
    BY DEF CallState
  <2>3. GroupEnds(e, d)
    BY <1>2 DEF TaskLeft
  <2> HIDE DEF e
  <2> QED
    BY <2>1, <2>2, <2>3, GroupEndsHands
<1> QED
  BY <1>1, <1>2

LEMMA TaskBackHands ==
  ASSUME NEW S, NEW c \in CallState, NEW d, d = TaskBack(c),
         c.inner \in S, c.outer \in S, c.rel \in S, -1 \in S
  PROVE  d.inner \in S /\ d.outer \in S /\ d.rel \in S
<1> DEFINE tmp == Either(c, c.rel, c.inner)
<1>1. tmp \in S /\ tmp \in Fds \cup {-1}
  BY DEF Either, CallState
<1>2. CASE Mergeable(c, c.rel, c.inner)
  BY <1>2, TaskBackLeaves
<1>3. CASE ~Mergeable(c, c.rel, c.inner)
  <2>1. TaskLeft(c, tmp, d)
    BY <1>3, TaskBackLeaves
  <2> HIDE DEF tmp
  <2> QED
    BY <1>1, <2>1, TaskLeftHands
<1> QED
  BY <1>2, <1>3

LEMMA ContinueHands ==
  ASSUME NEW S, NEW c \in CallState, NEW tmp \in Fds \cup {-1}, NEW d, d = Continue(c, tmp),
         tmp \in S, c.inner \in S, c.outer \in S, c.rel \in S, -1 \in S
  PROVE  d.inner \in S /\ d.outer \in S /\ d.rel \in S
BY ContinueLeaves, TaskLeftHands, GroupLeftHands

(* The steps that move no descriptor. *)

LEMMA FdsGenerate ==
  ASSUME TypeOK, Shapes, Descriptors, NEW t \in Threads, Generate(t)
  PROVE  Descriptors' /\ MovesOwn(t)
<1> DEFINE c == call[t]
<1>1. c \in CallState /\ c.at = "loop" /\ host' = host /\ fds' = fds
  BY DEF Generate, TypeOK, At
<1>2. \/ call' = [call EXCEPT ![t] = [c EXCEPT !.at = "end", !.status = "FAILED"]]
      \/ call' = [call EXCEPT ![t] = [c EXCEPT !.at = "ioctl", !.n = @ + 1, !.tries = 0]]
      \/ \E a \in Addrs :
            call' = [call EXCEPT ![t] = [[c EXCEPT !.at = "ioctl", !.n = @ + 1, !.tries = 0]
                                          EXCEPT !.table = a]]
  BY DEF Generate, Fail, Try
<1> HIDE DEF c
<1>3. PICK d : /\ call' = [call EXCEPT ![t] = d]
               /\ \/ d = [c EXCEPT !.at = "end", !.status = "FAILED"]
                  \/ d = [c EXCEPT !.at = "ioctl", !.n = @ + 1, !.tries = 0]
                  \/ \E a \in Addrs : d = [[c EXCEPT !.at = "ioctl", !.n = @ + 1, !.tries = 0]
                                          EXCEPT !.table = a]
  BY <1>2
<1>4. /\ d.acq = c.acq /\ d.op = c.op /\ d.inner = c.inner /\ d.outer = c.outer /\ d.rel = c.rel
      /\ d.at = "ioctl" \/ (d.at = "end" /\ d.status = "FAILED")
  BY <1>1, <1>3 DEF CallState
<1>5. ~Gone(d) /\ ~Gone(c)
  BY <1>1, <1>4 DEF Gone
<1> DEFINE S == {c.inner, c.outer, c.rel, -1, 0}
<1>6. d.inner \in S /\ d.outer \in S /\ d.rel \in S
  BY <1>4
<1> QED
  BY <1>1, <1>3, <1>4, <1>5, <1>6, QuietDescriptors DEF c

LEMMA FdsIoctl ==
  ASSUME TypeOK, Shapes, Descriptors, NEW t \in Threads, Interrupted(t) \/ Refused(t)
  PROVE  Descriptors' /\ MovesOwn(t)
<1> DEFINE c == call[t]
<1>1. c \in CallState /\ c.at = "ioctl" /\ host' = host /\ fds' = fds
  BY DEF Interrupted, Refused, TypeOK, At, shared
<1>2. \/ call' = [call EXCEPT ![t] = [c EXCEPT !.tries = @ + 1]]
      \/ call' = [call EXCEPT ![t] = [c EXCEPT !.at = "release", !.status = "FAILED"]]
  BY DEF Interrupted, Refused, Fail
<1> HIDE DEF c
<1>3. PICK d : /\ call' = [call EXCEPT ![t] = d]
               /\ \/ d = [c EXCEPT !.tries = @ + 1]
                  \/ d = [c EXCEPT !.at = "release", !.status = "FAILED"]
  BY <1>2
<1>4. /\ d.acq = c.acq /\ d.op = c.op /\ d.inner = c.inner /\ d.outer = c.outer /\ d.rel = c.rel
      /\ d.at = "ioctl" \/ (d.at = "release" /\ d.status = "FAILED")
  BY <1>1, <1>3 DEF CallState
<1>5. ~Gone(d) /\ ~Gone(c)
  BY <1>1, <1>4 DEF Gone
<1> DEFINE S == {c.inner, c.outer, c.rel, -1, 0}
<1>6. d.inner \in S /\ d.outer \in S /\ d.rel \in S
  BY <1>4
<1> QED
  BY <1>1, <1>3, <1>4, <1>5, <1>6, QuietDescriptors DEF c

LEMMA FdsRelease ==
  ASSUME TypeOK, Shapes, Descriptors, NEW t \in Threads, Release(t)
  PROVE  Descriptors' /\ MovesOwn(t)
<1> DEFINE c == call[t]
           d == IF c.status = "FAILED" THEN [c EXCEPT !.at = "end"] ELSE TaskBack(c)
           S == {c.inner, c.outer, c.rel, -1, 0}
<1>1. /\ c \in CallState /\ Shape(c) /\ c.at = "release" /\ host' = host /\ fds' = fds
      /\ call' = [call EXCEPT ![t] = d]
  BY DEF Release, TypeOK, Shapes, At
<1>2. CASE c.status = "FAILED"
  <2> DEFINE e == [c EXCEPT !.at = "end"]
  <2>1. call' = [call EXCEPT ![t] = e]
    BY <1>1, <1>2
  <2> HIDE DEF c
  <2>2. Same(c, e) /\ e.at = "end" /\ e.status = "FAILED" /\ e.inner \in S /\ e.outer \in S /\ e.rel \in S
    BY <1>1, <1>2 DEF CallState, Same
  <2> HIDE DEF e
  <2>3. ~Gone(e) /\ ~Gone(c)
    BY <1>2, <2>2 DEF Gone
  <2> QED
    BY <1>1, <2>1, <2>2, <2>3, QuietDescriptors DEF c, Same
<1>3. CASE c.status # "FAILED"
  <2> DEFINE e == TaskBack(c)
  <2>1. call' = [call EXCEPT ![t] = e]
    BY <1>1, <1>3
  <2>2. Ready(c) /\ c.n > 0
    BY <1>1, <1>3 DEF Shape, Ready, InFlight
  <2>3. ~(c.acq # -1) \/ c.op.form = "one"
    <3>1. Acquired(t)
      BY DEF Descriptors
    <3> QED
      BY <2>2, <3>1, OpFacts DEF Acquired, Ready
  <2> HIDE DEF c
  <2>4. Same(c, e) /\ e.at \in {"loop", "merge", "end"} /\ Shape(e)
    BY <1>1, <2>2, TaskBackLeaves, TaskBackShape
  <2>5. e.inner \in S /\ e.outer \in S /\ e.rel \in S
    <3> HIDE DEF e
    <3>1. c.inner \in S /\ c.outer \in S /\ c.rel \in S /\ -1 \in S
      OBVIOUS
    <3> HIDE DEF S
    <3> QED
      BY <1>1, <3>1, TaskBackHands DEF e
  <2>6. c.acq # -1 => e.at = "end" /\ e.status = "SUCCESS"
    <3> SUFFICES ASSUME c.acq # -1 PROVE e.at = "end" /\ e.status = "SUCCESS"
      OBVIOUS
    <3>1. c.op.form = "one" /\ c.op \in Calls /\ c.i = 0
      BY <2>2, <2>3 DEF Ready
    <3>2. ~(c.i + 1 < c.op.sides) /\ ~Mergeable(c, c.rel, c.inner)
      BY <3>1, OpFacts DEF Mergeable
    <3> HIDE DEF e
    <3>3. TaskLeft(c, Either(c, c.rel, c.inner), e)
      BY <1>1, <3>2, TaskBackLeaves DEF e
    <3> DEFINE g == [c EXCEPT !.at = "loop", !.i = @ + 1, !.inner = Either(c, c.rel, c.inner)]
    <3>4. GroupEnds(g, e) /\ g.op = c.op
      BY <1>1, <3>2, <3>3 DEF TaskLeft, CallState
    <3> HIDE DEF g
    <3> QED
      BY <3>1, <3>4 DEF GroupEnds
  <2> HIDE DEF e
  <2>7. c.acq # -1 => (Gone(e) <=> Gone(c))
    BY <1>1, <1>3, <2>4, <2>6 DEF Gone, Same
  <2>8. e.acq = c.acq /\ e.op = c.op /\ e.at # "start"
    BY <2>4 DEF Same
  <2> QED
    BY <1>1, <2>1, <2>5, <2>7, <2>8, QuietDescriptors DEF c
<1> QED
  BY <1>2, <1>3

LEMMA NoAcquire ==
  ASSUME TypeOK, Shapes, Descriptors, NEW t \in Threads, call[t].op.form # "one"
  PROVE  call[t].acq = -1
<1>1. Acquired(t) /\ Shape(call[t])
  BY DEF Descriptors, Shapes
<1> QED
  BY <1>1, OpFacts DEF Acquired, Shape

LEMMA FdsMergeQuiet ==
  ASSUME TypeOK, Shapes, Descriptors, NEW t \in Threads,
         call[t].at \in {"merge", "modern", "legacy"}, fds' = fds, host' = host,
         \/ \E a \in {"legacy", "modern"} : call' = [call EXCEPT ![t] = [call[t] EXCEPT !.at = a, !.api = uapi]]
         \/ call' = [call EXCEPT ![t] = [call[t] EXCEPT !.at = "legacy"]]
         \/ call' = [call EXCEPT ![t] = Continue(call[t], -1)]
         \/ call' = [call EXCEPT ![t] = [Continue(call[t], -1) EXCEPT !.refused = @ + 1]]
  PROVE  Descriptors' /\ MovesOwn(t)
<1> DEFINE c == call[t]
           S == {c.inner, c.outer, c.rel, -1, 0}
<1>1. c \in CallState /\ Shape(c) /\ c.at \in {"merge", "modern", "legacy"} /\ Merging(c)
  BY DEF TypeOK, Shapes, Merging
<1>2. c.acq = -1
  BY <1>1, NoAcquire DEF Shape
<1> HIDE DEF c
<1>3. PICK d : /\ call' = [call EXCEPT ![t] = d]
               /\ \/ \E a \in {"legacy", "modern"} : d = [c EXCEPT !.at = a, !.api = uapi]
                  \/ d = [c EXCEPT !.at = "legacy"]
                  \/ d = Continue(c, -1)
                  \/ d = [Continue(c, -1) EXCEPT !.refused = @ + 1]
  BY DEF c
<1>4. /\ d.acq = c.acq /\ d.op = c.op /\ d.at # "start"
      /\ d.inner \in S /\ d.outer \in S /\ d.rel \in S
  <2>1. CASE \E a \in {"legacy", "modern"} : d = [c EXCEPT !.at = a, !.api = uapi]
    BY <1>1, <2>1 DEF CallState
  <2>2. CASE d = [c EXCEPT !.at = "legacy"]
    BY <1>1, <2>2 DEF CallState
  <2> DEFINE e == Continue(c, -1)
  <2>3. Same(c, e) /\ e.at \in {"loop", "merge", "end"} /\ e \in CallState
    BY <1>1, ContinueType, ContinueLeaves, ContinueShape
  <2>4. e.inner \in S /\ e.outer \in S /\ e.rel \in S
    <3>1. c.inner \in S /\ c.outer \in S /\ c.rel \in S /\ -1 \in S
      OBVIOUS
    <3> HIDE DEF S
    <3> QED
      BY <1>1, <3>1, ContinueHands
  <2> HIDE DEF e, S
  <2>6. CASE d = e
    BY <2>3, <2>4, <2>6 DEF Same
  <2>7. CASE d = [e EXCEPT !.refused = @ + 1]
    BY <2>3, <2>4, <2>7 DEF Same, CallState
  <2> QED
    BY <1>3, <2>1, <2>2, <2>6, <2>7 DEF e
<1> QED
  BY <1>1, <1>2, <1>3, <1>4, QuietDescriptors DEF c

LEMMA HeldOpens ==
  ASSUME TypeOK, NEW t \in Threads, Held(t), NEW d, call[t].at # "over",
         call' = [call EXCEPT ![t] = d],
         NEW f \in Fds, NEW U, U # {}, U \subseteq {t} \X (Nat \ {0}), fds'[f] = Fence(U),
         NEW S, S = {call[t].inner, call[t].outer, call[t].rel, f, -1, 0},
         d.inner \in S, d.outer \in S, d.rel \in S,
         \A g \in Fds : g > 0 /\ Holds(t, g) => fds'[g] = fds[g]
  PROVE  Held(t)'
<1>1. call'[t] = d
  BY DEF TypeOK
<1>2. S \subseteq Fds \cup {-1}
  BY DEF TypeOK, CallState, Fds
<1>3. ASSUME NEW g \in S PROVE Holds(t, g)'
  <2>1. CASE g = f
    <3>1. fds'[g].of = U /\ fds'[g].kind = "fence"
      BY <2>1, Kinds
    <3> QED
      BY <3>1 DEF Holds
  <2>2. CASE g # f
    <3>1. Holds(t, g)
      BY <1>3, <2>2 DEF Held, Holds
    <3> QED
      BY <1>2, <3>1 DEF Holds, Fds
  <2> QED
    BY <2>1, <2>2
<1> QED
  BY <1>1, <1>3 DEF Held

LEMMA FdsMerged ==
  ASSUME TypeOK, Shapes, Descriptors, NEW t \in Threads, NEW interface,
         call[t].at \in {"modern", "legacy"}, Merged(t, interface)
  PROVE  Descriptors' /\ MovesOwn(t)
<1> DEFINE c == call[t]
           U == fds[Kept(c)].of \cup fds[c.rel].of
<1>1. /\ c \in CallState /\ Shape(c) /\ Merging(c) /\ c.at # "over" /\ c.at # "start"
      /\ host' = host /\ Held(t) /\ Acquired(t)
  BY DEF TypeOK, Shapes, Merging, Merged, Descriptors
<1>2. c.acq = -1
  BY <1>1, NoAcquire DEF Shape
<1>3. PICK f \in Fds : /\ fds[f] = Closed
                       /\ fds' = [fds EXCEPT ![f] = Fence(U)]
                       /\ call' = [call EXCEPT ![t] = Continue(c, f)]
  BY DEF Merged, Lowest
<1>4. Kept(c) > 0 /\ Holds(t, Kept(c)) /\ c.rel > 0 /\ Holds(t, c.rel)
  <2>1. Kept(c) \in Fds /\ c.rel \in Fds
    BY <1>1 DEF Shape
  <2>2. fds[Kept(c)].kind = "fence" /\ fds[c.rel].kind = "fence"
    BY DEF Merged, Understood, IsFence
  <2>3. Kept(c) # 0 /\ c.rel # 0
    BY <2>2, Kinds DEF Descriptors
  <2> QED
    BY <1>1, <2>1, <2>3 DEF Held, Kept, Fds
<1>5. U # {} /\ U \subseteq {t} \X (Nat \ {0})
  BY <1>4 DEF Holds
<1> HIDE DEF U
<1>6. fds'[f] = Fence(U) /\ \A g \in Fds : g # f => fds'[g] = fds[g]
  BY <1>3 DEF TypeOK
<1>7. Own(t, fds'[f])
  BY <1>5, <1>6, Kinds DEF Own
<1>8. MovesOwn(t)
  BY <1>3, <1>6, <1>7 DEF MovesOwn
<1>9. fds'[f] # Fence({<<t, 0>>})
  <2>1. <<t, 0>> \notin U
    BY <1>5
  <2> QED
    BY <1>6, <2>1, Kinds
<1>10. \A g \in Fds : g > 0 /\ Holds(t, g) => fds'[g] = fds[g]
  BY <1>3, <1>6, HoldsOwn, Kinds
<1> DEFINE d == Continue(c, f)
           S == {c.inner, c.outer, c.rel, f, -1, 0}
<1> HIDE DEF c
<1>11. Same(c, d) /\ d.at \in {"loop", "merge", "end"}
  BY <1>1, ContinueLeaves, ContinueShape
<1>12. d.inner \in S /\ d.outer \in S /\ d.rel \in S
  <2>1. c.inner \in S /\ c.outer \in S /\ c.rel \in S /\ -1 \in S /\ f \in S
    OBVIOUS
  <2> HIDE DEF S
  <2> QED
    BY <1>1, <2>1, ContinueHands
<1>13. call' = [call EXCEPT ![t] = d]
  BY <1>3
<1> HIDE DEF d
<1>14. Held(t)'
  BY <1>1, <1>5, <1>6, <1>10, <1>12, <1>13, HeldOpens DEF c
<1>15. Acquired(t)'
  <2>1. d.acq = c.acq /\ d.op = c.op /\ d.at # "start"
    BY <1>11 DEF Same
  <2>2. \A g \in Fds : fds'[g] # fds[g] => fds[g] # Fence({<<t, 0>>}) /\ fds'[g] # Fence({<<t, 0>>})
    BY <1>3, <1>6, <1>9, Kinds
  <2> QED
    BY <1>1, <1>2, <1>13, <2>1, <2>2, AcquiredKeeps DEF c
<1> QED
  BY <1>1, <1>8, <1>13, <1>14, <1>15, OthersKeep DEF Descriptors

LEMMA FdsMerges ==
  ASSUME TypeOK, Shapes, Descriptors, NEW t \in Threads,
         MergeLoad(t) \/ ModernMerge(t) \/ LegacyMerge(t)
  PROVE  Descriptors' /\ MovesOwn(t)
<1>1. CASE MergeLoad(t)
  BY <1>1, FdsMergeQuiet DEF MergeLoad, shared, At
<1>2. CASE ModernMerge(t)
  <2>1. call[t].at = "modern"
    BY <1>2 DEF ModernMerge, At
  <2>2. CASE Merged(t, "MODERN")
    BY <2>1, <2>2, FdsMerged
  <2>3. CASE NoMerge(t, "MODERN")
    <3>1. /\ call' = [call EXCEPT ![t] = [Continue(call[t], -1) EXCEPT !.refused = @ + 1]]
          /\ fds' = fds /\ host' = host
      BY <2>3 DEF NoMerge, shared
    <3> QED
      BY <2>1, <3>1, FdsMergeQuiet
  <2>4. CASE /\ call' = [call EXCEPT ![t] = [call[t] EXCEPT !.at = "legacy"]]
             /\ fds' = fds /\ host' = host
    BY <2>1, <2>4, FdsMergeQuiet
  <2> QED
    BY <1>2, <2>2, <2>3, <2>4 DEF ModernMerge, shared
<1>3. CASE LegacyMerge(t)
  <2>1. call[t].at = "legacy"
    BY <1>3 DEF LegacyMerge, At
  <2>2. CASE Merged(t, "LEGACY")
    BY <2>1, <2>2, FdsMerged
  <2>3. CASE NoMerge(t, "LEGACY")
    <3>1. /\ call' = [call EXCEPT ![t] = [Continue(call[t], -1) EXCEPT !.refused = @ + 1]]
          /\ fds' = fds /\ host' = host
      BY <2>3 DEF NoMerge, shared
    <3> QED
      BY <2>1, <3>1, FdsMergeQuiet
  <2>4. CASE /\ call' = [call EXCEPT ![t] = Continue(call[t], -1)]
             /\ fds' = fds /\ host' = host
    BY <2>1, <2>4, FdsMergeQuiet
  <2> QED
    BY <1>3, <2>2, <2>3, <2>4 DEF LegacyMerge, shared
<1> QED
  BY <1>1, <1>2, <1>3

LEMMA OwnAcquire ==
  ASSUME NEW t
  PROVE  Own(t, Fence({<<t, 0>>}))
<1>1. {<<t, 0>>} # {} /\ {<<t, 0>>} \subseteq {t} \X Nat
  OBVIOUS
<1> QED
  BY <1>1 DEF Own, Fence

LEMMA FdsBegin ==
  ASSUME TypeOK, Shapes, Descriptors, NEW t \in Threads, NEW op \in Calls, Begin(t, op)
  PROVE  Descriptors' /\ MovesOwn(t)
<1> DEFINE c == Entered(op)
<1>1. /\ call[t].at = "start" /\ call[t].acq = -1 /\ Acquired(t) /\ host' = host
      /\ \A g \in Fds : fds[g] # Fence({<<t, 0>>})
  BY DEF Begin, At, Descriptors, Acquired
<1>2. /\ c \in CallState /\ c.op = op /\ c.acq = -1 /\ c.inner = -1 /\ c.outer = -1 /\ c.rel = -1
      /\ c.at \in {"loop", "end"} /\ (c.at = "end" => op.sides = 0)
  BY EnteredType, EnteredLeaves
<1>3. CASE ~op.acquire
  <2>1. call' = [call EXCEPT ![t] = c] /\ fds' = fds
    BY <1>3 DEF Begin
  <2> HIDE DEF c
  <2>2. call'[t] = c
    BY <2>1 DEF TypeOK
  <2>3. Acquired(t)'
    <3>1. \A g \in Fds : fds'[g] # Fence({<<t, 0>>})
      BY <1>1, <2>1
    <3> QED
      BY <1>2, <1>3, <2>2, <3>1 DEF Acquired
  <2>4. Held(t)'
    BY <1>2, <2>2 DEF Held, Holds
  <2>5. MovesOwn(t)
    BY <2>1, QuietMoves
  <2> QED
    BY <1>1, <2>1, <2>3, <2>4, <2>5, OthersKeep DEF Descriptors
<1>4. CASE op.acquire
  <2>1. PICK f \in Fds : /\ fds[f] = Closed
                         /\ fds' = [fds EXCEPT ![f] = Fence({<<t, 0>>})]
                         /\ call' = [call EXCEPT ![t] = [c EXCEPT !.acq = f]]
    BY <1>4 DEF Begin, Lowest
  <2> DEFINE d == [c EXCEPT !.acq = f]
  <2>2. call' = [call EXCEPT ![t] = d]
    BY <2>1
  <2> HIDE DEF c
  <2>3. /\ d.op = op /\ d.acq = f /\ d.inner = -1 /\ d.outer = -1 /\ d.rel = -1 /\ d.at = "loop"
    <3>1. op.sides # 0
      BY <1>4, OpFacts
    <3> QED
      BY <1>2, <3>1 DEF CallState
  <2> HIDE DEF d
  <2>4. call'[t] = d
    BY <2>2 DEF TypeOK
  <2>5. f # 0 /\ f > 0
    BY <2>1, Kinds DEF Descriptors, Fds
  <2>6. fds'[f] = Fence({<<t, 0>>}) /\ \A g \in Fds : g # f => fds'[g] = fds[g]
    BY <2>1 DEF TypeOK
  <2>7. ~Gone(d)'
    BY <2>3 DEF Gone
  <2>8. Acquired(t)'
    <3>1. \A g \in Fds : fds'[g] = Fence({<<t, 0>>}) => g = f
      BY <1>1, <2>6
    <3>2. /\ call'[t].acq = f /\ call'[t].op.acquire /\ call'[t].at # "start"
          /\ ~(Gone(call[t]))' /\ f # -1
      BY <1>4, <2>3, <2>4, <2>5, <2>7
    <3> QED
      BY <2>5, <2>6, <3>1, <3>2 DEF Acquired
  <2>9. Held(t)'
    BY <2>3, <2>4 DEF Held, Holds
  <2>10. Own(t, Fence({<<t, 0>>}))
    BY OwnAcquire
  <2>11. MovesOwn(t)
    BY <2>1, <2>6, <2>10 DEF MovesOwn
  <2> QED
    BY <1>1, <2>2, <2>8, <2>9, <2>11, OthersKeep DEF Descriptors
<1> QED
  BY <1>3, <1>4

(* The acquire fence is closed and every other descriptor stays. *)
LEMMA AcquireGoes ==
  ASSUME TypeOK, NEW t \in Threads, Acquired(t), NEW d, host' = host,
         call' = [call EXCEPT ![t] = d], d.acq = call[t].acq, d.op = call[t].op,
         call[t].acq # -1, d.at # "start", Gone(d),
         \A f \in Fds : fds'[f] = Fence({<<t, 0>>}) => f # call[t].acq /\ fds[f] = Fence({<<t, 0>>})
  PROVE  Acquired(t)'
<1>1. call'[t] = d
  BY DEF TypeOK
<1>2. Gone(d)'
  BY DEF Gone
<1>3. \A f \in Fds : fds'[f] # Fence({<<t, 0>>})
  BY DEF Acquired
<1>4. call[t].op.acquire /\ call[t].acq > 0
  BY DEF Acquired
<1> QED
  BY <1>1, <1>2, <1>3, <1>4 DEF Acquired

LEMMA FdsTaken ==
  ASSUME TypeOK, Shapes, Descriptors, NEW t \in Threads, Taken(t)
  PROVE  Descriptors' /\ MovesOwn(t)
<1> DEFINE c == call[t]
<1>1. /\ c \in CallState /\ Shape(c) /\ c.at = "ioctl" /\ host' = host /\ c.status = "none"
      /\ Held(t) /\ Acquired(t) /\ c.n \in Nat /\ c.n > 0
  BY DEF Taken, TypeOK, Shapes, At, Shape, InFlight, Descriptors, CallState
<1>2. CASE /\ fds' = fds
           /\ ~(c.op.async /\ host.driver = "MULTI")
           /\ \/ call' = [call EXCEPT ![t] = [c EXCEPT !.at = "close"]]
              \/ call' = [call EXCEPT ![t] = [c EXCEPT !.at = "close", !.rel = 0]]
  <2> HIDE DEF c
  <2>1. PICK d : /\ call' = [call EXCEPT ![t] = d]
                 /\ d = [c EXCEPT !.at = "close"] \/ d = [c EXCEPT !.at = "close", !.rel = 0]
    BY <1>2
  <2>2. /\ d.acq = c.acq /\ d.op = c.op /\ d.at = "close"
        /\ d.inner = c.inner /\ d.outer = c.outer /\ d.rel \in {c.rel, 0}
    BY <1>1, <2>1 DEF CallState
  <2>3. ~Gone(d) /\ ~Gone(c)
    BY <1>2, <2>2 DEF Gone
  <2> DEFINE S == {c.inner, c.outer, c.rel, -1, 0}
  <2>4. d.inner \in S /\ d.outer \in S /\ d.rel \in S
    BY <2>2
  <2> QED
    BY <1>1, <1>2, <2>1, <2>2, <2>3, <2>4, QuietDescriptors DEF c
<1>3. ASSUME NEW f \in Fds, fds[f] = Closed, c.op.async, host.driver = "MULTI",
             fds' = [AfterIoctl(t) EXCEPT ![f] = Fence({This(t)})],
             call' = [call EXCEPT ![t] = [c EXCEPT !.at = "close", !.rel = f]]
      PROVE  Descriptors' /\ MovesOwn(t)
  <2> DEFINE d == [c EXCEPT !.at = "close", !.rel = f]
             U == {<<t, c.n>>}
             S == {c.inner, c.outer, c.rel, f, -1, 0}
  <2>1. call' = [call EXCEPT ![t] = d]
    BY <1>3
  <2>2. fds' = [AfterIoctl(t) EXCEPT ![f] = Fence(U)]
    BY <1>3 DEF This
  <2>3. d.acq = c.acq /\ d.op = c.op /\ d.at = "close" /\ d.status = "none"
    BY <1>1 DEF CallState
  <2>4. d.inner \in S /\ d.outer \in S /\ d.rel \in S
    BY <1>1 DEF CallState
  <2> HIDE DEF d
  <2>5. U # {} /\ U \subseteq {t} \X (Nat \ {0}) /\ <<t, 0>> \notin U
    BY <1>1
  <2> HIDE DEF U
  <2>6. Own(t, Fence(U)) /\ Fence(U) # Fence({<<t, 0>>})
    BY <2>5, Kinds DEF Own
  <2>7. Own(t, Fence({<<t, 0>>}))
    BY OwnAcquire
  <2>8. c.acq \in Fds \cup {-1} /\ c.op \in Calls /\ c.op.acquire \in BOOLEAN
    BY <1>1, OpFacts DEF CallState, Shape
  <2>9. c.op.acquire <=> c.acq # -1
    BY <1>1, <2>8 DEF Acquired
  <2>10. ~Gone(c)
    BY <1>1 DEF Gone
  <2>11. DriverCloses(t) <=> c.acq # -1 /\ ~host.userClose
    BY <1>3, <2>9 DEF DriverCloses
  <2>12. Gone(d) <=> ~host.userClose
    BY <1>3, <2>3 DEF Gone
  <2> HIDE DEF c
  <2>13. CASE DriverCloses(t)
    <3>1. fds' = [[fds EXCEPT ![c.acq] = Closed] EXCEPT ![f] = Fence(U)]
      BY <2>2, <2>13 DEF AfterIoctl, c
    <3>2. c.acq \in Fds /\ fds[c.acq] = Fence({<<t, 0>>}) /\ c.acq # f
      BY <1>1, <1>3, <2>8, <2>10, <2>11, <2>13, Kinds DEF Acquired, c
    <3>3. /\ fds'[f] = Fence(U) /\ fds'[c.acq] = Closed
          /\ \A g \in Fds \ {f, c.acq} : fds'[g] = fds[g]
      BY <3>1, <3>2 DEF TypeOK
    <3>4. MovesOwn(t)
      BY <1>3, <2>6, <2>7, <3>2, <3>3 DEF MovesOwn
    <3>5. \A g \in Fds : g > 0 /\ Holds(t, g) => fds'[g] = fds[g]
      BY <1>3, <3>2, <3>3, HoldsOwn, Kinds
    <3>6. Held(t)'
      BY <1>1, <2>1, <2>4, <2>5, <3>3, <3>5, HeldOpens DEF c
    <3>7. \A g \in Fds : fds'[g] = Fence({<<t, 0>>}) => g # c.acq /\ fds[g] = Fence({<<t, 0>>})
      BY <2>6, <3>2, <3>3, Kinds
    <3>8. Acquired(t)'
      BY <1>1, <2>1, <2>3, <2>11, <2>12, <2>13, <3>7, AcquireGoes DEF c
    <3> QED
      BY <1>1, <2>1, <3>4, <3>6, <3>8, OthersKeep DEF Descriptors
  <2>14. CASE ~DriverCloses(t)
    <3>1. fds' = [fds EXCEPT ![f] = Fence(U)]
      BY <2>2, <2>14 DEF AfterIoctl
    <3>2. fds'[f] = Fence(U) /\ \A g \in Fds : g # f => fds'[g] = fds[g]
      BY <3>1 DEF TypeOK
    <3>3. MovesOwn(t)
      BY <1>3, <2>6, <3>2 DEF MovesOwn
    <3>4. \A g \in Fds : g > 0 /\ Holds(t, g) => fds'[g] = fds[g]
      BY <1>3, <3>2, HoldsOwn, Kinds
    <3>5. Held(t)'
      BY <1>1, <2>1, <2>4, <2>5, <3>2, <3>4, HeldOpens DEF c
    <3>6. \A g \in Fds : fds'[g] # fds[g] => fds[g] # Fence({<<t, 0>>}) /\ fds'[g] # Fence({<<t, 0>>})
      BY <1>3, <2>6, <3>2, Kinds
    <3>7. Acquired(t)'
      BY <1>1, <2>1, <2>3, <2>10, <2>11, <2>12, <2>14, <3>6, AcquiredKeeps DEF c
    <3> QED
      BY <1>1, <2>1, <3>3, <3>5, <3>7, OthersKeep DEF Descriptors
  <2> QED
    BY <2>13, <2>14
<1> QED
  BY <1>2, <1>3 DEF Taken, Lowest

LEMMA FdsClose ==
  ASSUME TypeOK, Shapes, Descriptors, NEW t \in Threads, CloseAcquire(t)
  PROVE  Descriptors' /\ MovesOwn(t)
<1> DEFINE c == call[t]
           d == [c EXCEPT !.at = "release"]
           S == {c.inner, c.outer, c.rel, -1, 0}
<1>1. /\ c \in CallState /\ Shape(c) /\ c.at = "close" /\ host' = host /\ c.status = "none"
      /\ Held(t) /\ Acquired(t) /\ call' = [call EXCEPT ![t] = d]
  BY DEF CloseAcquire, TypeOK, Shapes, At, Shape, Descriptors
<1>2. /\ d.acq = c.acq /\ d.op = c.op /\ d.at = "release" /\ d.status = "none"
      /\ d.inner \in S /\ d.outer \in S /\ d.rel \in S
  BY <1>1 DEF CallState
<1> HIDE DEF d
<1>3. c.acq \in Fds \cup {-1} /\ (c.acq # -1 => c.acq > 0)
  BY <1>1 DEF CallState, Acquired
<1>4. host.userClose => host.driver = "MULTI"
  BY DEF TypeOK
<1>5. CASE LibraryCloses(t)
  <2>1. c.acq # -1 /\ c.acq \in Fds /\ c.op.async /\ host.userClose
    BY <1>3, <1>5 DEF LibraryCloses
  <2>2. ~Gone(c) /\ Gone(d)
    BY <1>1, <1>2, <1>4, <2>1 DEF Gone
  <2>3. fds[c.acq] = Fence({<<t, 0>>})
    BY <1>1, <2>1, <2>2 DEF Acquired
  <2>4. fds'[c.acq] = Closed /\ \A g \in Fds : g # c.acq => fds'[g] = fds[g]
    BY <1>5, <2>1 DEF CloseAcquire, TypeOK
  <2>5. Own(t, Fence({<<t, 0>>}))
    BY OwnAcquire
  <2>6. MovesOwn(t)
    BY <2>3, <2>4, <2>5 DEF MovesOwn
  <2>7. \A g \in Fds : g > 0 /\ Holds(t, g) => fds'[g] = fds[g]
    BY <2>3, <2>4, HoldsOwn
  <2>8. Held(t)'
    BY <1>1, <1>2, <2>7, HeldKeeps
  <2>9. \A g \in Fds : fds'[g] = Fence({<<t, 0>>}) => g # c.acq /\ fds[g] = Fence({<<t, 0>>})
    BY <2>4, Kinds
  <2>10. Acquired(t)'
    BY <1>1, <1>2, <2>1, <2>2, <2>9, AcquireGoes
  <2> QED
    BY <1>1, <2>6, <2>8, <2>10, OthersKeep DEF Descriptors
<1>6. CASE ~LibraryCloses(t)
  <2>1. fds' = fds
    BY <1>6 DEF CloseAcquire
  <2>2. c.acq # -1 => ~(c.op.async /\ host.userClose)
    BY <1>3, <1>6 DEF LibraryCloses
  <2>3. c.acq # -1 => (Gone(d) <=> Gone(c))
    BY <1>1, <1>2, <2>2 DEF Gone
  <2> QED
    BY <1>1, <1>2, <2>1, <2>3, QuietDescriptors
<1> QED
  BY <1>5, <1>6

LEMMA FdsImsync ==
  ASSUME TypeOK, Shapes, Descriptors, NEW t \in Threads, Imsync(t)
  PROVE  Descriptors' /\ MovesOwn(t)
<1> DEFINE c == call[t]
           d == [c EXCEPT !.at = "over"]
<1>1. /\ c \in CallState /\ Shape(c) /\ c.at = "end" /\ host' = host /\ c.status = "SUCCESS"
      /\ Held(t) /\ Acquired(t) /\ call' = [call EXCEPT ![t] = d] /\ c.rel > 0
  BY DEF Imsync, TypeOK, Shapes, At, Descriptors
<1>2. d.acq = c.acq /\ d.op = c.op /\ d.at = "over" /\ d.status = "SUCCESS"
  BY <1>1 DEF CallState
<1> HIDE DEF d
<1>3. Gone(d) <=> Gone(c)
  BY <1>1, <1>2 DEF Gone
<1>4. call'[t] = d
  BY <1>1 DEF TypeOK
<1>5. Held(t)'
  BY <1>2, <1>4 DEF Held
<1>6. c.rel \in Fds /\ Own(t, fds[c.rel]) /\ fds[c.rel] # Fence({<<t, 0>>})
  <2>1. Holds(t, c.rel)
    BY <1>1 DEF Held
  <2> QED
    BY <1>1, <2>1, HoldsOwn DEF CallState, Fds
<1>7. fds' = fds \/ fds' = [fds EXCEPT ![c.rel] = Closed]
  BY DEF Imsync
<1>8. fds' = fds \/ (fds'[c.rel] = Closed /\ \A g \in Fds : g # c.rel => fds'[g] = fds[g])
  BY <1>6, <1>7 DEF TypeOK
<1>9. MovesOwn(t)
  <2>1. CASE fds' = fds
    BY <2>1, QuietMoves
  <2>2. CASE fds'[c.rel] = Closed /\ \A g \in Fds : g # c.rel => fds'[g] = fds[g]
    BY <1>6, <2>2 DEF MovesOwn
  <2> QED
    BY <1>8, <2>1, <2>2
<1>10. \A g \in Fds : fds'[g] # fds[g] => fds[g] # Fence({<<t, 0>>}) /\ fds'[g] # Fence({<<t, 0>>})
  BY <1>6, <1>8, Kinds
<1>11. Acquired(t)'
  BY <1>1, <1>2, <1>3, <1>10, AcquiredKeeps
<1> QED
  BY <1>1, <1>5, <1>9, <1>11, OthersKeep DEF Descriptors

LEMMA FdsStep ==
  ASSUME TypeOK, Shapes, Descriptors, NEW t \in Threads, Step(t)
  PROVE  Descriptors' /\ MovesOwn(t)
BY FdsBegin, FdsGenerate, FdsIoctl, FdsTaken, FdsClose, FdsRelease, FdsMerges, FdsImsync DEF Step

LEMMA FdsNext == TypeOK /\ Shapes /\ Descriptors /\ [Next]_vars => Descriptors'
<1> SUFFICES ASSUME TypeOK, Shapes, Descriptors, [Next]_vars PROVE Descriptors'
  OBVIOUS
<1>1. CASE UNCHANGED vars
  BY <1>1 DEF vars, shared, Descriptors, Acquired, Held, Holds, Gone
<1> QED
  BY <1>1, FdsStep DEF Next

LEMMA FdsInit == Init => Descriptors
<1> SUFFICES ASSUME Init PROVE Descriptors
  OBVIOUS
<1>1. fds[0] = Stdin /\ \A f \in Fds : fds[f] = Stdin \/ fds[f] = Closed
  BY DEF Init, Fds
<1>2. ASSUME NEW t \in Threads PROVE Acquired(t) /\ Held(t)
  <2>1. call[t] = NotCalled
    BY DEF Init
  <2> QED
    BY <1>1, <2>1, Kinds DEF Acquired, Held, Holds, NotCalled, NoCall
<1> QED
  BY <1>1, <1>2 DEF Descriptors

LEMMA FdsSpec == Spec => [](TypeOK /\ Shapes /\ Descriptors)
<1>1. Init => TypeOK /\ Shapes /\ Descriptors
  BY TypeInit, FdsInit
<1>2. TypeOK /\ Shapes /\ Descriptors /\ [Next]_vars => (TypeOK /\ Shapes /\ Descriptors)'
  BY TypeStep, FdsNext
<1> QED
  BY <1>1, <1>2, PTL DEF Spec

(* Whoever is told to close the acquire fence does, once: the driver or the *)
(* library as its version says, after an asynchronous submission that       *)
(* succeeded; in every other case the caller still has it.                  *)
THEOREM SubmitAcquireSettled == Spec => []AcquireSettled
<1>1. TypeOK /\ Shapes /\ Descriptors => AcquireSettled
  <2> SUFFICES ASSUME TypeOK, Shapes, Descriptors, NEW t \in Threads, At(t, "end"),
                      call[t].op.acquire, host.driver = "MULTI"
               PROVE  (\E f \in Fds : fds[f] = Fence({<<t, 0>>})) <=> ~(Done(t) /\ call[t].op.async)
    BY DEF AcquireSettled
  <2>1. Acquired(t) /\ Shape(call[t]) /\ call[t].acq \in Fds \cup {-1}
    BY DEF Descriptors, Shapes, TypeOK, CallState
  <2>2. (\E f \in Fds : fds[f] = Fence({<<t, 0>>})) <=> ~Gone(call[t])
    BY <2>1 DEF Acquired, At
  <2>3. Gone(call[t]) <=> Done(t) /\ call[t].op.async
    BY <2>1 DEF Gone, Done, At, Shape
  <2> QED
    BY <2>2, <2>3
<1> QED
  BY <1>1, FdsSpec, PTL

(* Whatever the interleaving, and however often the kernel hands out the    *)
(* same numbers again, what rga_task_submit, the driver for it, and imsync  *)
(* close are fences of the thread's own submissions.                        *)
THEOREM SubmitOwnClosed == Spec => OwnClosed
<1> DEFINE OwnMove(f) == (fds[f] # Closed /\ fds'[f] # fds[f]) =>
             \E t \in Threads : /\ call'[t] # call[t]
                                /\ fds[f].kind = "fence"
                                /\ fds[f].of \subseteq {t} \X Nat
<1>1. TypeOK /\ Shapes /\ Descriptors /\ [Next]_vars => [\A f \in Fds : OwnMove(f)]_vars
  <2> SUFFICES ASSUME TypeOK, Shapes, Descriptors, NEW t \in Threads, Step(t), NEW f \in Fds,
                      fds[f] # Closed, fds'[f] # fds[f]
               PROVE  call'[t] # call[t] /\ fds[f].kind = "fence" /\ fds[f].of \subseteq {t} \X Nat
    BY DEF Next
  <2>1. Own(t, fds[f])
    BY FdsStep DEF MovesOwn
  <2>2. call'[t] # call[t]
    <3>1. UNCHANGED fds \/ call'[t].at # call[t].at
      <4>1. CASE \E op \in Calls : Begin(t, op)
        <5>1. PICK op \in Calls : Begin(t, op)
          BY <4>1
        <5>2. call[t].at = "start" /\ call'[t].at # "start"
          <6>1. call[t].at = "start"
            BY <5>1 DEF Begin, At
          <6>2. Entered(op).at # "start" /\ Entered(op) \in CallState
            BY EnteredLeaves, EnteredType
          <6>3. \A g : [Entered(op) EXCEPT !.acq = g].at = Entered(op).at
            BY <6>2 DEF CallState
          <6>4. call'[t] = Entered(op) \/ \E g : call'[t] = [Entered(op) EXCEPT !.acq = g]
            BY <5>1, ZenonT(60) DEF Begin, TypeOK
          <6> QED
            BY <6>1, <6>2, <6>3, <6>4
        <5> QED
          BY <5>2
      <4>2. CASE Taken(t)
        BY <4>2 DEF Taken, At, TypeOK, CallState
      <4>3. CASE CloseAcquire(t)
        BY <4>3 DEF CloseAcquire, At, TypeOK, CallState
      <4>4. CASE Imsync(t)
        BY <4>4 DEF Imsync, At, TypeOK, CallState
      <4>5. CASE Generate(t) \/ Interrupted(t) \/ Refused(t) \/ Release(t) \/ MergeLoad(t)
        BY <4>5 DEF Generate, Interrupted, Refused, Release, MergeLoad, shared
      <4>6. CASE ModernMerge(t) \/ LegacyMerge(t)
        <5>1. call[t].at \in {"modern", "legacy"} /\ call[t] \in CallState /\ Shape(call[t])
          BY <4>6 DEF ModernMerge, LegacyMerge, At, TypeOK, Shapes
        <5>2. UNCHANGED fds \/ \E g \in Fds : call'[t] = Continue(call[t], g)
          BY <4>6 DEF ModernMerge, LegacyMerge, Merged, NoMerge, shared, TypeOK
        <5>3. \A g \in Fds : Continue(call[t], g).at \in {"loop", "merge", "end"}
          BY <5>1, ContinueShape DEF Merging
        <5> QED
          BY <5>1, <5>2, <5>3
      <4> QED
        BY <4>1, <4>2, <4>3, <4>4, <4>5, <4>6 DEF Step
    <3> QED
      BY <3>1
  <2> QED
    BY <2>1, <2>2 DEF Own
<1>2. Spec => [][\A f \in Fds : OwnMove(f)]_vars
  BY <1>1, FdsSpec, PTL DEF Spec
<1> QED
  BY <1>2 DEF OwnClosed
-----------------------------------------------------------------------------
(* What the one fence stands for. *)

LEMMA Joined ==
  ASSUME NEW t, NEW lo \in Int, NEW m \in Int, NEW hi \in Int, lo <= m + 1, m <= hi
  PROVE  {<<t, k>> : k \in lo..m} \cup {<<t, k>> : k \in (m + 1)..hi} = {<<t, k>> : k \in lo..hi}
<1>1. lo..m \cup (m + 1)..hi = lo..hi
  OBVIOUS
<1> QED
  BY <1>1

LEMMA GroupLeftCovers ==
  ASSUME NEW F, NEW t, NEW c \in CallState, NEW d \in CallState, c.n > 0, c.op.fence,
         NEW tmp, NEW rel, Span(F, t, tmp, 1, c.n), Same(c, d), GroupLeft(c, rel, tmp, d)
  PROVE  Covered(F, t, d)
<1>1. c.n \in Nat /\ c.j \in Nat /\ c.n - 0 = c.n
  BY DEF CallState
<1>2. CASE d.at = "loop"
  <2>1. d.i = 0 /\ d.inner = -1 /\ d.outer = tmp /\ d.n = c.n /\ d.j # 0 /\ d.j = c.j + 1
    BY <1>1, <1>2 DEF GroupLeft, Same
  <2> HIDE DEF Span
  <2> QED
    BY <1>1, <1>2, <2>1 DEF Covered, InFlight, Merging
<1>3. CASE d.at = "end"
  <2>1. d.rel = tmp /\ d.n = c.n
    BY <1>3 DEF GroupLeft, Same
  <2> QED
    BY <1>3, <2>1 DEF Covered, InFlight, Merging
<1> QED
  BY <1>2, <1>3 DEF GroupLeft

LEMMA GroupEndsCovers ==
  ASSUME NEW F, NEW t, NEW c \in CallState, NEW d \in CallState,
         c.op \in Calls, Fenced(c), c.op.form # "one", c.i > 0, c.i <= c.n, c.status = "none",
         c.op.form # "nested" => c.j = 0,
         Span(F, t, c.inner, c.n - c.i + 1, c.n),
         IF c.j = 0 THEN c.outer = -1 /\ c.i = c.n ELSE Span(F, t, c.outer, 1, c.n - c.i),
         Same(c, d), GroupEnds(c, d)
  PROVE  Covered(F, t, d)
<1>1. c.n \in Nat /\ c.i \in Nat /\ c.n > 0 /\ c.n - c.n + 1 = 1
  BY DEF CallState
<1>2. LastRel(c, c.inner) = c.inner /\ c.op.fence
  BY DEF LastRel, Fenced
<1>3. c.inner >= 0
  BY DEF Span, Fds
<1>4. CASE c.op.form # "nested"
  <2>1. d.at = "end" /\ d.status = "SUCCESS" /\ d.rel = c.inner /\ d.n = c.n /\ c.i = c.n
    BY <1>2, <1>4 DEF GroupEnds, Same
  <2>2. Span(F, t, d.rel, 1, d.n)
    BY <1>1, <2>1
  <2> QED
    BY <2>1, <2>2 DEF Covered, InFlight, Merging
<1>5. CASE c.op.form = "nested" /\ c.j = 0
  <2>1. ~Mergeable(c, c.inner, c.outer) /\ Either(c, c.inner, c.outer) = c.inner
    BY <1>3, <1>5 DEF Mergeable, Either
  <2>2. GroupLeft(c, c.inner, c.inner, d)
    BY <1>2, <1>5, <2>1 DEF GroupEnds, GroupsBack
  <2>3. Span(F, t, c.inner, 1, c.n)
    BY <1>1, <1>5
  <2> QED
    BY <1>1, <1>2, <2>2, <2>3, GroupLeftCovers
<1>6. CASE c.op.form = "nested" /\ c.j # 0
  <2>1. Span(F, t, c.outer, 1, c.n - c.i) /\ c.outer >= 0
    BY <1>6 DEF Span, Fds
  <2>2. Mergeable(c, c.inner, c.outer)
    BY <1>3, <1>6, <2>1 DEF Mergeable
  <2>3. d.at = "merge" /\ d.level = "outer" /\ d.rel = c.inner /\ d.outer = c.outer /\ d.n = c.n
    BY <1>2, <1>6, <2>2 DEF GroupEnds, GroupsBack, Same
  <2>4. c.n - c.i \in 0..c.n
    BY <1>1
  <2>5. \E m \in 0..d.n : Span(F, t, d.outer, 1, m) /\ Span(F, t, d.rel, m + 1, d.n)
    BY <2>1, <2>3, <2>4
  <2> QED
    BY <2>3, <2>5 DEF Covered, InFlight, Merging
<1> QED
  BY <1>4, <1>5, <1>6

LEMMA TaskLeftCovers ==
  ASSUME NEW F, NEW t, NEW c \in CallState, NEW d \in CallState,
         c.op \in Calls, Fenced(c), c.op.form # "one", c.i + 1 <= c.n, c.status = "none",
         c.op.form # "nested" => c.j = 0,
         NEW tmp, Span(F, t, tmp, c.n - c.i, c.n),
         IF c.j = 0 THEN c.outer = -1 /\ c.i + 1 = c.n ELSE Span(F, t, c.outer, 1, c.n - (c.i + 1)),
         Same(c, d), TaskLeft(c, tmp, d)
  PROVE  Covered(F, t, d)
<1>1. c.n \in Nat /\ c.i \in Nat /\ tmp \in Fds
  BY DEF CallState, Span
<1>2. c.n - (c.i + 1) + 1 = c.n - c.i
  BY <1>1
<1>3. CASE c.i + 1 < c.op.sides
  <2>1. /\ d.at = "loop" /\ d.i = c.i + 1 /\ d.j = c.j /\ d.inner = tmp /\ d.outer = c.outer
        /\ d.n = c.n /\ d.i # 0
    BY <1>1, <1>3 DEF TaskLeft, Same
  <2>2. Span(F, t, d.inner, d.n - d.i + 1, d.n)
    BY <1>2, <2>1
  <2>3. IF d.j = 0 THEN d.outer = -1 /\ d.i = d.n ELSE Span(F, t, d.outer, 1, d.n - d.i)
    BY <2>1
  <2>4. d.i <= d.n
    BY <2>1
  <2> QED
    BY <2>1, <2>2, <2>3, <2>4 DEF Covered, InFlight, Merging
<1>4. CASE ~(c.i + 1 < c.op.sides)
  <2> DEFINE e == [c EXCEPT !.at = "loop", !.i = @ + 1, !.inner = tmp]
  <2>1. e \in CallState
    <3>1. c.i + 1 \in Nat
      BY <1>1
    <3> QED
      BY <1>1, <3>1, LocalSet
  <2>2. /\ Same(c, e) /\ e.i = c.i + 1 /\ e.j = c.j /\ e.inner = tmp /\ e.outer = c.outer
        /\ e.status = c.status
    BY DEF CallState, Same
  <2>3. GroupEnds(e, d)
    BY <1>4 DEF TaskLeft
  <2> HIDE DEF e
  <2>4. e.op = c.op /\ e.n = c.n /\ Fenced(e) /\ Same(e, d) /\ e.i > 0 /\ e.i <= e.n
    BY <1>1, <2>2 DEF Same, Fenced
  <2>5. Span(F, t, e.inner, e.n - e.i + 1, e.n)
    BY <1>2, <2>2, <2>4
  <2>6. IF e.j = 0 THEN e.outer = -1 /\ e.i = e.n ELSE Span(F, t, e.outer, 1, e.n - e.i)
    BY <2>2, <2>4
  <2> QED
    BY <2>1, <2>2, <2>3, <2>4, <2>5, <2>6, GroupEndsCovers
<1> QED
  BY <1>3, <1>4

(* A step of a thread before imsync: what is open stays, but for its        *)
(* acquire fence.                                                           *)
LEMMA Stays ==
  ASSUME TypeOK, Shapes, Descriptors, NEW t \in Threads, Step(t), ~Imsync(t)
  PROVE  \A g \in Fds : fds'[g] = fds[g] \/ fds[g] = Closed \/ fds[g] = Fence({<<t, 0>>})
<1> DEFINE Stay == \A g \in Fds : fds'[g] = fds[g] \/ fds[g] = Closed \/ fds[g] = Fence({<<t, 0>>})
<1>1. CASE fds' = fds
  BY <1>1
<1>2. ASSUME NEW f \in Fds, fds[f] = Closed, NEW x, fds' = [fds EXCEPT ![f] = x]
      PROVE  Stay
  BY <1>2 DEF TypeOK
<1>3. CASE Taken(t) \/ CloseAcquire(t)
  <2>1. Acquired(t) /\ Shape(call[t]) /\ call[t] \in CallState
    BY DEF Descriptors, Shapes, TypeOK
  <2>2. call[t].at = "ioctl" => ~Gone(call[t])
    BY DEF Gone
  <2>3. call[t].at = "close" /\ host.userClose => ~Gone(call[t])
    BY DEF Gone
  <2>4. call[t].acq # -1 /\ ~Gone(call[t]) => fds[call[t].acq] = Fence({<<t, 0>>})
    BY <2>1 DEF Acquired
  <2>5. CASE CloseAcquire(t)
    <3>1. fds' = fds \/ (LibraryCloses(t) /\ fds' = [fds EXCEPT ![call[t].acq] = Closed])
      BY <2>5 DEF CloseAcquire
    <3>2. ASSUME LibraryCloses(t), fds' = [fds EXCEPT ![call[t].acq] = Closed]
          PROVE  Stay
      <4>1. fds[call[t].acq] = Fence({<<t, 0>>})
        BY <2>1, <2>3, <2>4, <2>5, <3>2 DEF CloseAcquire, LibraryCloses, At, CallState, Fds
      <4> QED
        BY <3>2, <4>1 DEF TypeOK
    <3> QED
      BY <1>1, <3>1, <3>2
  <2>6. CASE Taken(t)
    <3>1. call[t].at = "ioctl"
      BY <2>6 DEF Taken, At
    <3>2. ASSUME DriverCloses(t) PROVE fds[call[t].acq] = Fence({<<t, 0>>})
      BY <2>1, <2>2, <2>4, <3>1, <3>2 DEF DriverCloses, Acquired
    <3>3. \A g \in Fds : AfterIoctl(t)[g] = fds[g] \/ fds[g] = Fence({<<t, 0>>})
      BY <3>2 DEF AfterIoctl, TypeOK
    <3>4. AfterIoctl(t) \in [Fds -> Files]
      BY Closes DEF AfterIoctl, TypeOK
    <3>5. ASSUME NEW f \in Fds, fds[f] = Closed, fds' = [AfterIoctl(t) EXCEPT ![f] = Fence({This(t)})]
          PROVE  Stay
      BY <3>3, <3>4, <3>5
    <3> QED
      BY <1>1, <2>6, <3>5 DEF Taken, Lowest
  <2> QED
    BY <1>3, <2>5, <2>6
<1>4. CASE \E op \in Calls : Begin(t, op)
  BY <1>1, <1>2, <1>4 DEF Begin, Lowest
<1>5. CASE ModernMerge(t) \/ LegacyMerge(t)
  <2>1. \/ fds' = fds
        \/ \E f \in Fds : \E x : fds[f] = Closed /\ fds' = [fds EXCEPT ![f] = x]
    BY <1>5 DEF ModernMerge, LegacyMerge, Merged, NoMerge, shared, Lowest
  <2> QED
    BY <1>1, <1>2, <2>1
<1>6. CASE Generate(t) \/ Interrupted(t) \/ Refused(t) \/ Release(t) \/ MergeLoad(t)
  BY <1>1, <1>6 DEF Generate, Interrupted, Refused, Release, MergeLoad, shared
<1> QED
  BY <1>3, <1>4, <1>5, <1>6 DEF Step

LEMMA SpanStays ==
  ASSUME TypeOK, Shapes, Descriptors, NEW t \in Threads, Step(t), ~Imsync(t),
         NEW f, NEW lo \in Int, NEW hi \in Int, lo >= 1, Span(fds, t, f, lo, hi)
  PROVE  Span(fds', t, f, lo, hi)
<1> DEFINE U == {<<t, k>> : k \in lo..hi}
<1>1. f \in Fds /\ fds[f] = Fence(U)
  BY DEF Span
<1>2. <<t, 0>> \notin U
  OBVIOUS
<1> HIDE DEF U
<1>3. fds[f] # Closed /\ fds[f] # Fence({<<t, 0>>})
  BY <1>1, <1>2, Kinds
<1>4. fds'[f] = fds[f]
  BY <1>1, <1>3, Stays
<1> QED
  BY <1>1, <1>4 DEF Span, U

LEMMA SpanOthers ==
  ASSUME TypeOK, NEW t \in Threads, MovesOwn(t), NEW u \in Threads \ {t},
         NEW f, NEW lo, NEW hi, Span(fds, u, f, lo, hi)
  PROVE  Span(fds', u, f, lo, hi)
<1> DEFINE U == {<<u, k>> : k \in lo..hi}
<1>1. f \in Fds /\ fds[f] = Fence(U)
  BY DEF Span
<1>2. \A x \in U : x \notin {t} \X Nat
  OBVIOUS
<1> HIDE DEF U
<1>3. ~Own(t, Fence(U))
  <2>1. SUFFICES ASSUME U # {} PROVE ~(U \subseteq {t} \X Nat)
    BY Kinds DEF Own
  <2> QED
    BY <1>2, <2>1
<1>4. fds'[f] = fds[f]
  BY <1>1, <1>3, Kinds DEF MovesOwn
<1> QED
  BY <1>1, <1>4 DEF Span, U

LEMMA CoversOthers ==
  ASSUME TypeOK, NEW t \in Threads, MovesOwn(t), NEW u \in Threads \ {t}, host' = host,
         NEW d, call' = [call EXCEPT ![t] = d], Covers(u)
  PROVE  Covers(u)'
<1>1. call'[u] = call[u]
  BY DEF TypeOK
<1>2. \A f, lo, hi : Span(fds, u, f, lo, hi) => Span(fds', u, f, lo, hi)
  BY SpanOthers
<1> DEFINE c == call[u]
<1>3. Covered(fds, u, c) => Covered(fds', u, c)
  <2> HIDE DEF c
  <2> QED
    BY <1>2 DEF Covered
<1>4. (Promised(c))' <=> Promised(c)
  BY <1>1 DEF Promised, Fenced
<1>5. Covered(fds', u, c)  <=> Covered(fds', u, call'[u])
  BY <1>1
<1> QED
  BY <1>1, <1>3, <1>4, <1>5 DEF Covers

LEMMA CoversSet ==
  ASSUME TypeOK, NEW t \in Threads, NEW d, host' = host, call' = [call EXCEPT ![t] = d],
         Promised(d) => Covered(fds', t, d) /\ (d.at = "legacy" => host.sync = "LEGACY")
  PROVE  Covers(t)'
<1>1. call'[t] = d
  BY DEF TypeOK
<1>2. Promised(d)' <=> Promised(d)
  BY DEF Promised
<1> QED
  BY <1>1, <1>2 DEF Covers

LEMMA CoversBegin ==
  ASSUME TypeOK, Shapes, Descriptors, Interface, NEW t \in Threads, Covers(t),
         NEW op \in Calls, Begin(t, op)
  PROVE  Covers(t)'
<1> DEFINE c == Entered(op)
<1>1. /\ c \in CallState /\ c.n = 0 /\ c.i = 0 /\ c.j = 0 /\ c.inner = -1 /\ c.outer = -1
      /\ c.at \in {"loop", "end"} /\ host' = host
  BY EnteredType, EnteredLeaves DEF Begin
<1>2. \/ call' = [call EXCEPT ![t] = c]
      \/ \E f \in Fds : call' = [call EXCEPT ![t] = [c EXCEPT !.acq = f]]
  BY DEF Begin
<1> HIDE DEF c
<1>3. PICK d : call' = [call EXCEPT ![t] = d] /\ (d = c \/ \E f \in Fds : d = [c EXCEPT !.acq = f])
  BY <1>2
<1>4. /\ d.n = 0 /\ d.i = 0 /\ d.j = 0 /\ d.inner = -1 /\ d.outer = -1 /\ d.at \in {"loop", "end"}
  BY <1>1, <1>3 DEF CallState
<1>5. Covered(fds', t, d) /\ d.at # "legacy"
  BY <1>4 DEF Covered, InFlight, Merging
<1> QED
  BY <1>1, <1>3, <1>5, CoversSet

(* A step that leaves the fences and what has been kept. *)
LEMMA CoversQuiet ==
  ASSUME TypeOK, NEW t \in Threads, Covers(t), NEW d, host' = host, fds' = fds,
         call' = [call EXCEPT ![t] = d],
         d.op = call[t].op, d.refused = call[t].refused,
         Covered(fds, t, call[t]) => Covered(fds, t, d),
         Promised(d) /\ d.at = "legacy" /\ Covered(fds, t, call[t]) =>
           host.sync = "LEGACY"
  PROVE  Covers(t)'
<1>1. Promised(d) <=> Promised(call[t])
  BY DEF Promised, Fenced
<1> QED
  BY <1>1, CoversSet DEF Covers

LEMMA CoversGenerate ==
  ASSUME TypeOK, Shapes, Descriptors, NEW t \in Threads, Covers(t), Generate(t)
  PROVE  Covers(t)'
<1> DEFINE c == call[t]
<1>1. c \in CallState /\ c.at = "loop" /\ host' = host /\ fds' = fds
  BY DEF Generate, TypeOK, At
<1>2. \/ call' = [call EXCEPT ![t] = [c EXCEPT !.at = "end", !.status = "FAILED"]]
      \/ call' = [call EXCEPT ![t] = [c EXCEPT !.at = "ioctl", !.n = @ + 1, !.tries = 0]]
      \/ \E a \in Addrs :
            call' = [call EXCEPT ![t] = [[c EXCEPT !.at = "ioctl", !.n = @ + 1, !.tries = 0]
                                          EXCEPT !.table = a]]
  BY DEF Generate, Fail, Try
<1> HIDE DEF c
<1>3. PICK d : /\ call' = [call EXCEPT ![t] = d]
               /\ \/ d = [c EXCEPT !.at = "end", !.status = "FAILED"]
                  \/ d = [c EXCEPT !.at = "ioctl", !.n = @ + 1, !.tries = 0]
                  \/ \E a \in Addrs : d = [[c EXCEPT !.at = "ioctl", !.n = @ + 1, !.tries = 0]
                                          EXCEPT !.table = a]
  BY <1>2
<1>4. /\ d.op = c.op /\ d.refused = c.refused
      /\ d.inner = c.inner /\ d.outer = c.outer /\ d.rel = c.rel /\ d.i = c.i /\ d.j = c.j
      /\ \/ d.at = "end" /\ d.status = "FAILED"
         \/ d.at = "ioctl" /\ d.n - 1 = c.n
  <2> DEFINE T == [c EXCEPT !.at = "ioctl", !.n = @ + 1, !.tries = 0]
  <2>1. /\ T.op = c.op /\ T.refused = c.refused
        /\ T.inner = c.inner /\ T.outer = c.outer /\ T.rel = c.rel /\ T.i = c.i /\ T.j = c.j
        /\ T.at = "ioctl" /\ T.n = c.n + 1
    BY <1>1 DEF CallState
  <2>2. T \in CallState
    <3>1. c.n + 1 \in Nat /\ 0 \in Nat
      BY <1>1 DEF CallState
    <3> QED
      BY <1>1, <3>1, LocalSet
  <2>3. c.n \in Int /\ T.n - 1 = c.n
    BY <1>1, <2>1 DEF CallState
  <2>4. CASE d = [c EXCEPT !.at = "end", !.status = "FAILED"]
    BY <1>1, <2>4 DEF CallState
  <2>5. CASE d = T
    BY <2>1, <2>3, <2>5
  <2>6. ASSUME NEW a, d = [T EXCEPT !.table = a]
        PROVE  /\ d.op = c.op /\ d.refused = c.refused
               /\ d.inner = c.inner /\ d.outer = c.outer /\ d.rel = c.rel /\ d.i = c.i /\ d.j = c.j
               /\ d.at = "ioctl" /\ d.n - 1 = c.n
    <3> HIDE DEF T
    <3> QED
      BY <2>1, <2>2, <2>3, <2>6 DEF CallState
  <2> QED
    BY <1>3, <2>4, <2>5, <2>6
<1>5. Covered(fds, t, c) => Covered(fds, t, d)
  BY <1>1, <1>4 DEF Covered, InFlight, Merging
<1> QED
  BY <1>1, <1>3, <1>4, <1>5, CoversQuiet DEF c

LEMMA CoversIoctl ==
  ASSUME TypeOK, Shapes, Descriptors, NEW t \in Threads, Covers(t), Interrupted(t) \/ Refused(t)
  PROVE  Covers(t)'
<1> DEFINE c == call[t]
<1>1. c \in CallState /\ c.at = "ioctl" /\ host' = host /\ fds' = fds
  BY DEF Interrupted, Refused, TypeOK, At, shared
<1>2. \/ call' = [call EXCEPT ![t] = [c EXCEPT !.tries = @ + 1]]
      \/ call' = [call EXCEPT ![t] = [c EXCEPT !.at = "release", !.status = "FAILED"]]
  BY DEF Interrupted, Refused, Fail
<1> HIDE DEF c
<1>3. PICK d : /\ call' = [call EXCEPT ![t] = d]
               /\ \/ d = [c EXCEPT !.tries = @ + 1]
                  \/ d = [c EXCEPT !.at = "release", !.status = "FAILED"]
  BY <1>2
<1>4. /\ d.op = c.op /\ d.refused = c.refused /\ d.n = c.n
      /\ d.inner = c.inner /\ d.outer = c.outer /\ d.rel = c.rel /\ d.i = c.i /\ d.j = c.j
      /\ d.at = "ioctl" \/ (d.at = "release" /\ d.status = "FAILED")
  BY <1>1, <1>3 DEF CallState
<1>5. Covered(fds, t, c) => Covered(fds, t, d)
  BY <1>1, <1>4 DEF Covered, InFlight, Merging
<1> QED
  BY <1>1, <1>3, <1>4, <1>5, CoversQuiet DEF c

(* Spans of the loops are of submissions from the first on. *)
LEMMA CoveredStays ==
  ASSUME TypeOK, Shapes, Descriptors, NEW t \in Threads, Step(t), ~Imsync(t),
         NEW c \in CallState, c.at \in {"ioctl", "close"}, c.n > 0, Covered(fds, t, c)
  PROVE  Covered(fds', t, c)
<1>1. c.n \in Nat /\ c.i \in Nat /\ c.i <= c.n - 1
  BY DEF CallState, Covered, InFlight
<1>2. \A f : \A lo \in Int, hi \in Int : lo >= 1 /\ Span(fds, t, f, lo, hi) => Span(fds', t, f, lo, hi)
  BY SpanStays
<1>3. c.n - 1 - c.i + 1 \in Int /\ c.n - 1 - c.i + 1 >= 1 /\ c.n - 1 - c.i \in Int /\ c.n - 1 \in Int
  BY <1>1
<1>4. Span(fds, t, c.inner, c.n - 1 - c.i + 1, c.n - 1) => Span(fds', t, c.inner, c.n - 1 - c.i + 1, c.n - 1)
  BY <1>2, <1>3
<1>5. Span(fds, t, c.outer, 1, c.n - 1 - c.i) => Span(fds', t, c.outer, 1, c.n - 1 - c.i)
  BY <1>2, <1>3
<1>6. Span(fds, t, c.rel, c.n, c.n) => Span(fds', t, c.rel, c.n, c.n)
  BY <1>1, <1>2
<1> QED
  BY <1>4, <1>5, <1>6 DEF Covered, InFlight, Merging

LEMMA CoversTaken ==
  ASSUME TypeOK, Shapes, Descriptors, NEW t \in Threads, Covers(t), Taken(t)
  PROVE  Covers(t)'
<1> DEFINE c == call[t]
<1>1. c \in CallState /\ Shape(c) /\ c.at = "ioctl" /\ host' = host /\ c.n \in Nat /\ c.n > 0
  BY DEF Taken, TypeOK, Shapes, At, Shape, InFlight, CallState
<1>2. Step(t) /\ ~Imsync(t)
  BY <1>1 DEF Step, Imsync, At
<1>3. CASE /\ ~(c.op.async /\ host.driver = "MULTI")
           /\ \/ call' = [call EXCEPT ![t] = [c EXCEPT !.at = "close"]]
              \/ call' = [call EXCEPT ![t] = [c EXCEPT !.at = "close", !.rel = 0]]
  <2> HIDE DEF c
  <2>1. PICK d : /\ call' = [call EXCEPT ![t] = d]
                 /\ d = [c EXCEPT !.at = "close"] \/ d = [c EXCEPT !.at = "close", !.rel = 0]
    BY <1>3
  <2>2. d.op = c.op
    BY <1>1, <2>1 DEF CallState
  <2>3. ~Promised(d)
    BY <1>3, <2>2 DEF Promised, Fenced
  <2> QED
    BY <1>1, <2>1, <2>3, CoversSet
<1>4. ASSUME NEW f \in Fds,
             fds' = [AfterIoctl(t) EXCEPT ![f] = Fence({This(t)})],
             call' = [call EXCEPT ![t] = [c EXCEPT !.at = "close", !.rel = f]]
      PROVE  Covers(t)'
  <2> DEFINE d == [c EXCEPT !.at = "close", !.rel = f]
  <2>1. call' = [call EXCEPT ![t] = d]
    BY <1>4
  <2>2. fds'[f] = Fence({<<t, c.n>>})
    <3>1. AfterIoctl(t) \in [Fds -> Files]
      BY Closes DEF AfterIoctl, TypeOK
    <3> QED
      BY <1>4, <3>1 DEF This
  <2>3. {<<t, c.n>>} = {<<t, k>> : k \in c.n..c.n}
    <3>1. c.n..c.n = {c.n}
      BY <1>1
    <3> QED
      BY <3>1
  <2> HIDE DEF c
  <2>4. Span(fds', t, f, c.n, c.n)
    BY <2>2, <2>3 DEF Span
  <2>5. /\ d.op = c.op /\ d.refused = c.refused /\ d.n = c.n /\ d.at = "close"
        /\ d.inner = c.inner /\ d.outer = c.outer /\ d.rel = f /\ d.i = c.i /\ d.j = c.j
    BY <1>1 DEF CallState
  <2> HIDE DEF d
  <2>6. Covered(fds, t, c) => Covered(fds', t, c)
    BY <1>1, <1>2, CoveredStays
  <2>7. Covered(fds', t, c) => Covered(fds', t, d)
    BY <1>1, <2>4, <2>5 DEF Covered, InFlight, Merging
  <2>8. Promised(d) <=> Promised(c)
    BY <2>5 DEF Promised, Fenced
  <2>9. Promised(d) => Covered(fds', t, d) /\ d.at # "legacy"
    BY <2>5, <2>6, <2>7, <2>8 DEF Covers, c
  <2> QED
    BY <1>1, <2>1, <2>9, CoversSet
<1> QED
  BY <1>3, <1>4 DEF Taken

LEMMA CoversClose ==
  ASSUME TypeOK, Shapes, Descriptors, NEW t \in Threads, Covers(t), CloseAcquire(t)
  PROVE  Covers(t)'
<1> DEFINE c == call[t]
           d == [c EXCEPT !.at = "release"]
<1>1. /\ c \in CallState /\ Shape(c) /\ c.at = "close" /\ host' = host /\ c.n > 0
      /\ call' = [call EXCEPT ![t] = d]
  BY DEF CloseAcquire, TypeOK, Shapes, At, Shape, InFlight
<1>2. Step(t) /\ ~Imsync(t)
  BY <1>1 DEF Step, Imsync, At
<1>3. Covered(fds, t, c) => Covered(fds', t, c)
  BY <1>1, <1>2, CoveredStays
<1>4. /\ d.op = c.op /\ d.refused = c.refused /\ d.n = c.n /\ d.at = "release"
      /\ d.inner = c.inner /\ d.outer = c.outer /\ d.rel = c.rel /\ d.i = c.i /\ d.j = c.j
  BY <1>1 DEF CallState
<1> HIDE DEF d
<1>5. Covered(fds', t, c) => Covered(fds', t, d)
  <2> HIDE DEF c
  <2> QED
    BY <1>1, <1>4 DEF Covered, InFlight, Merging
<1>6. Promised(d) <=> Promised(c)
  BY <1>4 DEF Promised, Fenced
<1>7. Promised(d) => Covered(fds', t, d) /\ d.at # "legacy"
  BY <1>3, <1>4, <1>5, <1>6 DEF Covers
<1> QED
  BY <1>1, <1>7, CoversSet

LEMMA CoversRelease ==
  ASSUME TypeOK, Shapes, Descriptors, NEW t \in Threads, Covers(t), Release(t)
  PROVE  Covers(t)'
<1> DEFINE c == call[t]
           d == IF c.status = "FAILED" THEN [c EXCEPT !.at = "end"] ELSE TaskBack(c)
<1>1. /\ c \in CallState /\ Shape(c) /\ c.at = "release" /\ host' = host /\ fds' = fds
      /\ call' = [call EXCEPT ![t] = d]
  BY DEF Release, TypeOK, Shapes, At
<1>2. CASE c.status = "FAILED"
  <2> DEFINE e == [c EXCEPT !.at = "end"]
  <2>1. call' = [call EXCEPT ![t] = e]
    BY <1>1, <1>2
  <2> HIDE DEF c
  <2>2. e.at = "end" /\ e.status = "FAILED"
    BY <1>1, <1>2 DEF CallState
  <2> HIDE DEF e
  <2>3. Covered(fds', t, e)
    BY <2>2 DEF Covered, InFlight, Merging
  <2> QED
    BY <1>1, <2>1, <2>2, <2>3, CoversSet
<1>3. CASE c.status # "FAILED"
  <2> DEFINE e == TaskBack(c)
  <2>1. call' = [call EXCEPT ![t] = e]
    BY <1>1, <1>3
  <2>2. Covers(t) /\ (Promised(c) => Covered(fds, t, c))
    BY DEF Covers
  <2> HIDE DEF c
  <2>3. /\ Ready(c) /\ c.n > 0 /\ c.status = "none" /\ c.op \in Calls /\ c.n \in Nat /\ c.i \in Nat
        /\ c.n - 0 = c.n
    BY <1>1, <1>3 DEF Shape, Ready, InFlight, CallState
  <2>4. e \in CallState /\ Same(c, e) /\ e.at \in {"loop", "merge", "end"}
    BY <1>1, <2>3, TaskBackType, TaskBackLeaves, TaskBackShape
  <2>5. e = TaskBack(c)
    OBVIOUS
  <2> HIDE DEF e
  <2>6. Promised(e) <=> Promised(c)
    BY <2>4 DEF Promised, Fenced, Same
  <2>7. ASSUME Promised(c) PROVE Covered(fds, t, e)
    <3>1. /\ Covered(fds, t, c) /\ Fenced(c) /\ InFlight(c)
      BY <1>1, <2>2, <2>7 DEF Promised, InFlight
    <3>2. /\ Span(fds, t, c.rel, c.n, c.n) /\ c.i <= c.n - 1
          /\ IF c.i = 0 THEN c.inner = -1 ELSE Span(fds, t, c.inner, c.n - 1 - c.i + 1, c.n - 1)
          /\ IF c.j = 0 THEN c.outer = -1 /\ c.i = c.n - 1 ELSE Span(fds, t, c.outer, 1, c.n - 1 - c.i)
      BY <1>1, <2>3, <3>1 DEF Covered
    <3>3. c.rel \in Fds /\ c.rel >= 0
      BY <3>2 DEF Span, Fds
    <3>4. c.n - 1 - c.i = c.n - (c.i + 1) /\ c.i + 1 <= c.n
      BY <2>3, <3>2
    <3>5. IF c.j = 0 THEN c.outer = -1 /\ c.i + 1 = c.n ELSE Span(fds, t, c.outer, 1, c.n - (c.i + 1))
      BY <2>3, <3>2, <3>4
    <3>6. CASE c.op.form = "one"
      <4>1. /\ c.i = 0 /\ c.j = 0 /\ c.op.sides = 1
        BY <2>3, <3>6, OpFacts DEF Ready
      <4>2. c.n = 1 /\ ~(c.i + 1 < c.op.sides) /\ ~Mergeable(c, c.rel, c.inner)
        BY <2>3, <3>5, <3>6, <4>1 DEF Mergeable
      <4>3. TaskLeft(c, Either(c, c.rel, c.inner), e)
        BY <1>1, <2>5, <4>2, TaskBackLeaves
      <4> DEFINE g == [c EXCEPT !.at = "loop", !.i = @ + 1, !.inner = Either(c, c.rel, c.inner)]
      <4>4. GroupEnds(g, e) /\ g.op = c.op /\ g.rel = c.rel
        BY <1>1, <4>2, <4>3 DEF TaskLeft, CallState
      <4> HIDE DEF g
      <4>5. e.at = "end" /\ e.rel = c.rel /\ e.n = c.n
        BY <2>4, <3>6, <4>4 DEF GroupEnds, LastRel, Same
      <4> QED
        BY <3>2, <4>2, <4>5 DEF Covered, InFlight, Merging
    <3>7. CASE c.op.form # "one" /\ c.i = 0
      <4>1. ~Mergeable(c, c.rel, c.inner) /\ Either(c, c.rel, c.inner) = c.rel
        BY <3>1, <3>2, <3>3, <3>7 DEF Mergeable, Either
      <4>2. TaskLeft(c, c.rel, e)
        BY <1>1, <2>5, <4>1, TaskBackLeaves
      <4>3. Span(fds, t, c.rel, c.n - c.i, c.n)
        BY <2>3, <3>2, <3>7
      <4> QED
        BY <1>1, <2>3, <2>4, <3>1, <3>4, <3>5, <3>7, <4>2, <4>3, TaskLeftCovers DEF Ready
    <3>8. CASE c.op.form # "one" /\ c.i # 0
      <4>1. c.inner >= 0
        BY <3>2, <3>8 DEF Span, Fds
      <4>2. Mergeable(c, c.rel, c.inner)
        BY <3>1, <3>3, <3>8, <4>1 DEF Mergeable
      <4>3. /\ e.at = "merge" /\ e.level = "inner" /\ e.status = c.status /\ e.rel = c.rel
            /\ e.i = c.i /\ e.j = c.j /\ e.inner = c.inner /\ e.outer = c.outer /\ e.n = c.n
        BY <1>1, <2>4, <2>5, <4>2, TaskBackLeaves DEF Same
      <4> QED
        BY <3>2, <4>3 DEF Covered, InFlight, Merging
    <3> QED
      BY <3>6, <3>7, <3>8
  <2>8. Promised(e) => Covered(fds', t, e) /\ e.at # "legacy"
    BY <1>1, <2>4, <2>6, <2>7
  <2> QED
    BY <1>1, <2>1, <2>8, CoversSet
<1> QED
  BY <1>2, <1>3

(* What is merged is two fences.                                            *)
LEMMA MergesFences ==
  ASSUME TypeOK, Shapes, NEW t \in Threads, Covers(t), Promised(call[t]), Merging(call[t])
  PROVE  IsFence(Kept(call[t])) /\ IsFence(call[t].rel)
<1> DEFINE c == call[t]
<1>1. c \in CallState /\ Shape(c) /\ Covered(fds, t, c)
  BY DEF TypeOK, Shapes, Covers
<1>2. Kept(c) \in Fds /\ Kept(c) # -1
  BY <1>1 DEF Shape, Fds
<1> HIDE DEF c
<1>3. ASSUME NEW f, NEW lo, NEW hi, Span(fds, t, f, lo, hi) PROVE IsFence(f)
  BY <1>3 DEF Span, IsFence, Fence
<1>4. CASE c.level = "inner"
  <2>1. c.i # 0
    BY <1>1, <1>2, <1>4 DEF Covered, InFlight, Merging, Kept, c
  <2>2. /\ Span(fds, t, c.inner, c.n - 1 - c.i + 1, c.n - 1)
        /\ Span(fds, t, c.rel, c.n, c.n)
    BY <1>1, <1>4, <2>1 DEF Covered, InFlight, Merging, c
  <2> QED
    BY <1>3, <1>4, <2>2 DEF Kept, c
<1>5. CASE c.level # "inner"
  <2>1. c.level = "outer"
    BY <1>1, <1>5 DEF CallState
  <2>2. \E m \in 0..c.n : Span(fds, t, c.outer, 1, m) /\ Span(fds, t, c.rel, m + 1, c.n)
    BY <1>1, <2>1 DEF Covered, c
  <2> QED
    BY <1>3, <1>5, <2>2 DEF Kept, c
<1> QED
  BY <1>4, <1>5

LEMMA CoversMerged ==
  ASSUME TypeOK, Shapes, Descriptors, NEW t \in Threads, Covers(t), NEW interface,
         call[t].at \in {"modern", "legacy"}, Merged(t, interface), Step(t)
  PROVE  Covers(t)'
<1> DEFINE c == call[t]
           U == fds[Kept(c)].of \cup fds[c.rel].of
<1>1. /\ c \in CallState /\ Shape(c) /\ Merging(c) /\ host' = host
      /\ Promised(c) => Covered(fds, t, c)
  BY DEF TypeOK, Shapes, Merging, Merged, Covers
<1>2. PICK f \in Fds : /\ fds' = [fds EXCEPT ![f] = Fence(U)]
                       /\ call' = [call EXCEPT ![t] = Continue(c, f)]
  BY DEF Merged
<1>3. fds'[f] = Fence(U)
  BY <1>2 DEF TypeOK
<1>4. ~Imsync(t)
  BY DEF Imsync, At
<1>5. U = fds[Kept(c)].of \cup fds[c.rel].of
  OBVIOUS
<1> DEFINE d == Continue(c, f)
<1>6. call' = [call EXCEPT ![t] = d]
  BY <1>2
<1> HIDE DEF c, U
<1>7. /\ d \in CallState /\ Same(c, d) /\ d.at \in {"loop", "merge", "end"}
      /\ c.level = "inner" => TaskLeft(c, f, d)
      /\ c.level # "inner" => GroupLeft(c, c.rel, f, d)
  BY <1>1, ContinueType, ContinueLeaves, ContinueShape
<1> HIDE DEF d
<1>8. Promised(d) <=> Promised(c)
  BY <1>7 DEF Promised, Fenced, Same
<1>9. /\ c.n \in Nat /\ c.i \in Nat /\ c.n > 0 /\ c.status = "none" /\ c.op \in Calls
      /\ c.op.form # "one" /\ Fenced(c) /\ c.op.fence /\ (c.op.form # "nested" => c.j = 0)
      /\ Kept(c) \in Fds /\ Kept(c) # -1
  BY <1>1 DEF CallState, Shape, Merging, InFlight, Fenced, Fds
<1>10. ASSUME Promised(c), c.level = "inner" PROVE Covered(fds', t, d)
  <2>1. Covered(fds, t, c) /\ InFlight(c) /\ Kept(c) = c.inner /\ c.inner # -1
    BY <1>1, <1>9, <1>10 DEF InFlight, Merging, Kept
  <2>2. /\ Span(fds, t, c.rel, c.n, c.n) /\ c.i <= c.n - 1 /\ c.i # 0
        /\ Span(fds, t, c.inner, c.n - 1 - c.i + 1, c.n - 1)
        /\ IF c.j = 0 THEN c.outer = -1 /\ c.i = c.n - 1 ELSE Span(fds, t, c.outer, 1, c.n - 1 - c.i)
    BY <1>1, <2>1 DEF Covered
  <2>3. c.n - 1 - c.i + 1 = c.n - c.i /\ c.n - 1 - c.i = c.n - (c.i + 1) /\ c.n - 1 + 1 = c.n
    BY <1>9
  <2>4. U = {<<t, k>> : k \in (c.n - c.i)..(c.n - 1)} \cup {<<t, k>> : k \in c.n..c.n}
    BY <1>5, <2>1, <2>2, <2>3 DEF Span, Fence
  <2>5. {<<t, k>> : k \in (c.n - c.i)..(c.n - 1)} \cup {<<t, k>> : k \in c.n..c.n} =
        {<<t, k>> : k \in (c.n - c.i)..c.n}
    <3> DEFINE lo == c.n - c.i
               m == c.n - 1
               hi == c.n
    <3>1. lo \in Int /\ m \in Int /\ hi \in Int /\ lo <= m + 1 /\ m <= hi /\ m + 1 = hi
      BY <1>9, <2>2
    <3> HIDE DEF lo, m, hi
    <3>2. {<<t, k>> : k \in lo..m} \cup {<<t, k>> : k \in (m + 1)..hi} = {<<t, k>> : k \in lo..hi}
      BY <3>1, Joined
    <3> QED
      BY <3>1, <3>2 DEF lo, m, hi
  <2>6. Span(fds', t, f, c.n - c.i, c.n)
    BY <1>3, <2>4, <2>5 DEF Span
  <2>7. c.j # 0 => Span(fds', t, c.outer, 1, c.n - (c.i + 1))
    <3> SUFFICES ASSUME c.j # 0 PROVE Span(fds', t, c.outer, 1, c.n - (c.i + 1))
      OBVIOUS
    <3>1. Span(fds, t, c.outer, 1, c.n - (c.i + 1))
      BY <2>2, <2>3
    <3>2. c.n - (c.i + 1) \in Int
      BY <1>9
    <3> QED
      BY <1>4, <3>1, <3>2, SpanStays
  <2>8. IF c.j = 0 THEN c.outer = -1 /\ c.i + 1 = c.n ELSE Span(fds', t, c.outer, 1, c.n - (c.i + 1))
    BY <1>9, <2>2, <2>7
  <2>9. c.i + 1 <= c.n /\ TaskLeft(c, f, d)
    BY <1>7, <1>9, <1>10, <2>2
  <2> QED
    BY <1>1, <1>7, <1>9, <2>6, <2>8, <2>9, TaskLeftCovers
<1>11. ASSUME Promised(c), c.level # "inner" PROVE Covered(fds', t, d)
  <2>1. c.level = "outer" /\ Covered(fds, t, c) /\ Kept(c) = c.outer
    BY <1>1, <1>11 DEF CallState, Kept
  <2>2. PICK m \in 0..c.n : Span(fds, t, c.outer, 1, m) /\ Span(fds, t, c.rel, m + 1, c.n)
    BY <1>1, <2>1 DEF Covered
  <2>3. U = {<<t, k>> : k \in 1..m} \cup {<<t, k>> : k \in (m + 1)..c.n}
    BY <1>5, <2>1, <2>2 DEF Span, Fence
  <2>4. {<<t, k>> : k \in 1..m} \cup {<<t, k>> : k \in (m + 1)..c.n} = {<<t, k>> : k \in 1..c.n}
    <3>1. m \in Int /\ c.n \in Int /\ 1 <= m + 1 /\ m <= c.n
      BY <1>9
    <3> QED
      BY <3>1, Joined
  <2>5. Span(fds', t, f, 1, c.n)
    BY <1>3, <2>3, <2>4 DEF Span
  <2> QED
    BY <1>1, <1>7, <1>9, <1>11, <2>5, GroupLeftCovers
<1>12. Promised(d) => Covered(fds', t, d) /\ d.at # "legacy"
  BY <1>7, <1>8, <1>10, <1>11
<1> QED
  BY <1>1, <1>6, <1>12, CoversSet

LEMMA CoversLoad ==
  ASSUME TypeOK, Shapes, Interface, NEW t \in Threads, Covers(t), MergeLoad(t)
  PROVE  Covers(t)'
<1> DEFINE c == call[t]
<1>1. /\ c \in CallState /\ c.at = "merge" /\ host' = host /\ fds' = fds
      /\ call' = [call EXCEPT ![t].at = IF uapi = "LEGACY" THEN "legacy" ELSE "modern", ![t].api = uapi]
  BY DEF MergeLoad, TypeOK, At, shared
<1> DEFINE d == [c EXCEPT !.at = IF uapi = "LEGACY" THEN "legacy" ELSE "modern", !.api = uapi]
<1>2. call' = [call EXCEPT ![t] = d]
  BY <1>1
<1> HIDE DEF c
<1>3. /\ d.op = c.op /\ d.refused = c.refused /\ d.n = c.n /\ d.level = c.level /\ d.status = c.status
      /\ d.inner = c.inner /\ d.outer = c.outer /\ d.rel = c.rel /\ d.i = c.i /\ d.j = c.j
      /\ d.at = IF uapi = "LEGACY" THEN "legacy" ELSE "modern"
  BY <1>1 DEF CallState
<1> HIDE DEF d
<1>4. Covered(fds, t, c) => Covered(fds, t, d)
  BY <1>1, <1>3 DEF Covered, InFlight, Merging
<1>5. d.at = "legacy" => host.sync = "LEGACY"
  BY <1>3 DEF Interface
<1> QED
  BY <1>1, <1>2, <1>3, <1>4, <1>5, CoversQuiet DEF c

LEMMA CoversNoMerge ==
  ASSUME TypeOK, Shapes, NEW t \in Threads, NEW interface,
         call[t].at \in {"modern", "legacy"}, NoMerge(t, interface)
  PROVE  Covers(t)'
<1> DEFINE c == call[t]
           e == Continue(c, -1)
           d == [e EXCEPT !.refused = @ + 1]
<1>1. /\ c \in CallState /\ host' = host /\ call' = [call EXCEPT ![t] = d]
  BY DEF NoMerge, TypeOK, shared
<1> HIDE DEF c
<1>2. e \in CallState
  BY <1>1, ContinueType
<1> HIDE DEF e
<1>3. d.refused = e.refused + 1 /\ e.refused \in Nat
  BY <1>2 DEF CallState
<1> HIDE DEF d
<1>4. ~Promised(d)
  BY <1>3 DEF Promised
<1> QED
  BY <1>1, <1>4, CoversSet

LEMMA CoversModern ==
  ASSUME TypeOK, Shapes, Descriptors, NEW t \in Threads, Covers(t), ModernMerge(t)
  PROVE  Covers(t)'
<1> DEFINE c == call[t]
           d == [c EXCEPT !.at = "legacy"]
<1>1. c \in CallState /\ c.at = "modern" /\ Step(t)
  BY DEF ModernMerge, TypeOK, At, Step
<1>2. CASE Merged(t, "MODERN")
  BY <1>1, <1>2, CoversMerged
<1>3. CASE NoMerge(t, "MODERN")
  BY <1>1, <1>3, CoversNoMerge
<1>4. CASE ~Understood(t, "MODERN") /\ call' = [call EXCEPT ![t] = d] /\ UNCHANGED shared
  <2>1. host' = host /\ fds' = fds /\ call' = [call EXCEPT ![t] = d]
    BY <1>4 DEF shared
  <2>2. Promised(c) => host.sync = "LEGACY"
    <3> SUFFICES ASSUME Promised(c) PROVE host.sync = "LEGACY"
      OBVIOUS
    <3>1. IsFence(Kept(c)) /\ IsFence(c.rel)
      BY <1>1, MergesFences DEF Merging
    <3>2. host.sync # "MODERN"
      BY <1>4, <3>1 DEF Understood
    <3> QED
      BY <3>2 DEF TypeOK, HostForm
  <2>3. Promised(c) => Covered(fds, t, c)
    BY DEF Covers
  <2> HIDE DEF c
  <2>4. /\ d.op = c.op /\ d.refused = c.refused /\ d.n = c.n /\ d.level = c.level /\ d.status = c.status
        /\ d.inner = c.inner /\ d.outer = c.outer /\ d.rel = c.rel /\ d.i = c.i /\ d.j = c.j
        /\ d.at = "legacy"
    BY <1>1 DEF CallState
  <2> HIDE DEF d
  <2>5. Covered(fds, t, c) => Covered(fds, t, d)
    BY <1>1, <2>4 DEF Covered, InFlight, Merging
  <2>6. Promised(d) <=> Promised(c)
    BY <2>4 DEF Promised, Fenced
  <2> QED
    BY <2>1, <2>2, <2>3, <2>5, <2>6, CoversSet
<1> QED
  BY <1>2, <1>3, <1>4 DEF ModernMerge

LEMMA CoversLegacy ==
  ASSUME TypeOK, Shapes, Descriptors, NEW t \in Threads, Covers(t), LegacyMerge(t)
  PROVE  Covers(t)'
<1> DEFINE c == call[t]
           d == Continue(c, -1)
<1>1. c \in CallState /\ c.at = "legacy" /\ Step(t)
  BY DEF LegacyMerge, TypeOK, At, Step
<1>2. CASE Merged(t, "LEGACY")
  BY <1>1, <1>2, CoversMerged
<1>3. CASE NoMerge(t, "LEGACY")
  BY <1>1, <1>3, CoversNoMerge
<1>4. CASE ~Understood(t, "LEGACY") /\ call' = [call EXCEPT ![t] = d] /\ UNCHANGED shared
  <2>1. host' = host /\ call' = [call EXCEPT ![t] = d]
    BY <1>4 DEF shared
  <2>2. ~Promised(c)
    <3> SUFFICES ASSUME Promised(c) PROVE FALSE
      OBVIOUS
    <3>1. IsFence(Kept(c)) /\ IsFence(c.rel) /\ host.sync = "LEGACY"
      BY <1>1, MergesFences DEF Merging, Covers
    <3> QED
      BY <1>4, <3>1 DEF Understood
  <2> HIDE DEF c
  <2>3. Same(c, d)
    BY <1>1, ContinueLeaves
  <2> HIDE DEF d
  <2>4. ~Promised(d)
    BY <2>2, <2>3 DEF Promised, Fenced, Same
  <2> QED
    BY <2>1, <2>4, CoversSet
<1> QED
  BY <1>2, <1>3, <1>4 DEF LegacyMerge

LEMMA CoversImsync ==
  ASSUME TypeOK, NEW t \in Threads, Imsync(t)
  PROVE  Covers(t)'
<1> DEFINE c == call[t]
           d == [c EXCEPT !.at = "over"]
<1>1. c \in CallState /\ host' = host /\ call' = [call EXCEPT ![t] = d]
  BY DEF Imsync, TypeOK
<1> HIDE DEF c
<1>2. d.at = "over"
  BY <1>1 DEF CallState
<1> HIDE DEF d
<1>3. Covered(fds', t, d)
  BY <1>2 DEF Covered, InFlight, Merging
<1> QED
  BY <1>1, <1>2, <1>3, CoversSet

LEMMA InterfaceStep ==
  ASSUME TypeOK, Interface, NEW t \in Threads, Step(t)
  PROVE  Interface' /\ host' = host
<1>1. ASSUME NEW interface, Merged(t, interface) PROVE Interface' /\ host' = host
  BY <1>1 DEF Merged, Understood, Remember, Interface
<1>2. CASE ModernMerge(t)
  BY <1>1, <1>2 DEF ModernMerge, NoMerge, shared, Interface
<1>3. CASE LegacyMerge(t)
  BY <1>1, <1>3 DEF LegacyMerge, NoMerge, shared, Interface
<1>4. CASE ~ModernMerge(t) /\ ~LegacyMerge(t)
  BY <1>4 DEF Step, Begin, Generate, Interrupted, Refused, Taken, CloseAcquire, Release,
              MergeLoad, Imsync, shared, Interface
<1> QED
  BY <1>2, <1>3, <1>4

LEMMA CoversStep ==
  ASSUME IInv, NEW t \in Threads, Step(t)
  PROVE  \A u \in Threads : Covers(u)'
<1>1. TypeOK /\ Shapes /\ Descriptors /\ Interface /\ \A u \in Threads : Covers(u)
  BY DEF IInv
<1>2. MovesOwn(t) /\ host' = host
  BY <1>1, FdsStep, InterfaceStep
<1>3. \E d : call' = [call EXCEPT ![t] = d]
  BY DEF Step, Begin, Generate, Fail, Interrupted, Refused, Taken, CloseAcquire, Release,
         MergeLoad, ModernMerge, LegacyMerge, Merged, NoMerge, Imsync
<1>4. \A u \in Threads \ {t} : Covers(u)'
  BY <1>1, <1>2, <1>3, CoversOthers
<1>5. Covers(t)'
  BY <1>1, CoversBegin, CoversGenerate, CoversIoctl, CoversTaken, CoversClose, CoversRelease,
     CoversLoad, CoversModern, CoversLegacy, CoversImsync DEF Step
<1> QED
  BY <1>4, <1>5

LEMMA IInvStep == IInv /\ [Next]_vars => IInv'
<1> SUFFICES ASSUME IInv, [Next]_vars PROVE IInv'
  OBVIOUS
<1>1. TypeOK' /\ Shapes' /\ Tables' /\ Descriptors'
  BY TypeStep, TableStep, FdsNext DEF IInv
<1>2. CASE UNCHANGED vars
  <2>1. Interface'
    BY <1>2 DEF IInv, Interface, vars, shared
  <2>2. \A t \in Threads : Covers(t)'
    BY <1>2 DEF IInv, Covers, Promised, Fenced, vars, shared
  <2> QED
    BY <1>1, <2>1, <2>2 DEF IInv
<1>3. ASSUME NEW t \in Threads, Step(t) PROVE IInv'
  BY <1>1, <1>3, CoversStep, InterfaceStep DEF IInv
<1> QED
  BY <1>2, <1>3 DEF Next

LEMMA IInvInit == Init => IInv
<1> SUFFICES ASSUME Init PROVE IInv
  OBVIOUS
<1>1. TypeOK /\ Shapes /\ Descriptors
  BY TypeInit, FdsInit
<1>2. Tables
  BY DEF Init, Tables, TableLives, TableOf, NotCalled, NoCall
<1>3. Interface /\ \A t \in Threads : Covers(t)
  BY DEF Init, Interface, Covers, Promised, Fenced, NotCalled, NoCall
<1> QED
  BY <1>1, <1>2, <1>3 DEF IInv

(* rga_sync_merge in the loops of imfillArray, imrectangle and              *)
(* imrectangleArray: whatever the numbers of rectangles and of threads,     *)
(* whichever interface the kernel has and rga_sync.cpp remembers, the fence *)
(* of a call that succeeds stands for every task it submitted, provided the *)
(* kernel refused no merge.                                                 *)
THEOREM SubmitFenceCovers == Spec => []FenceCovers
<1>1. IInv => FenceCovers
  <2> SUFFICES ASSUME IInv, NEW t \in Threads, Done(t), Fenced(call[t]), host.driver = "MULTI",
                      call[t].refused = 0, call[t].n > 0
               PROVE  /\ call[t].rel \in Fds
                      /\ fds[call[t].rel] = Fence({<<t, k>> : k \in 1..call[t].n})
    BY DEF FenceCovers
  <2>1. Covered(fds, t, call[t])
    BY DEF IInv, Covers, Promised
  <2>2. Span(fds, t, call[t].rel, 1, call[t].n)
    BY <2>1 DEF Covered, Done, At
  <2> QED
    BY <2>2 DEF Span
<1> QED
  BY <1>1, IInvInit, IInvStep, PTL DEF Spec
=============================================================================
