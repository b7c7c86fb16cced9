---------------------------- MODULE MCTaskSubmit ----------------------------
(* TaskSubmit for TLC: a call of each form, on each kind of kernel.         *)
EXTENDS TaskSubmit, TLC

Op(form, groups, sides, async, fence) ==
  [NoCall EXCEPT !.form = form, !.groups = groups, !.sides = sides,
                 !.async = async, !.fence = fence]

MCCalls ==
  { Op("nested", 2, 2, TRUE, TRUE),    \* imrectangleArray, two rectangles
    Op("array", 1, 2, TRUE, TRUE),     \* imfillArray
    Op("array", 1, 0, TRUE, TRUE),     \* of nothing
    Op("array", 1, 2, FALSE, TRUE),    \* synchronous
    Op("array", 1, 2, TRUE, FALSE) }   \* nowhere to leave the fence
  \cup {[Op("one", 1, 1, async, fence) EXCEPT !.acquire = acquire, !.gauss = gauss] :
          async, fence, acquire, gauss \in BOOLEAN}

On(sync, driver, userClose) == [sync |-> sync, driver |-> driver, userClose |-> userClose]

MCHosts == {On("MODERN", "MULTI", TRUE), On("LEGACY", "MULTI", TRUE),
            On("MODERN", "MULTI", FALSE), On("LEGACY", "RGA2", FALSE)}

Symmetry == Permutations(Threads) \cup Permutations(Addrs)
=============================================================================
