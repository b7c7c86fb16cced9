---------------------------- MODULE MCMakeBorder ----------------------------
(* MakeBorder for TLC: which borders are asked for. *)
EXTENDS MakeBorder

CONSTANT Sizes  \* border widths: 0, or what the hardware accepts

Borders(types) ==
  [top : Sizes, bottom : Sizes, left : Sizes, right : Sizes, type : types,
   sync : BOOLEAN, acquire : BOOLEAN, refused : {FALSE}, user_close : BOOLEAN]

Empty(c) == c.top = 0 /\ c.bottom = 0 /\ c.left = 0 /\ c.right = 0

MCAll == Borders({"CONSTANT", "REFLECT", "WRAP"})

(* Three calls that end early: with the wrong size of the target, with a    *)
(* border type that does not exist, and with more lines above than the      *)
(* source can fill.                                                         *)
Full(type, wrong) ==
  [top |-> 2, bottom |-> 2, left |-> 2, right |-> 2, type |-> type, sync |-> TRUE,
   acquire |-> TRUE, refused |-> wrong, user_close |-> FALSE]
Early ==
  {Full("WRAP", TRUE), Full("unknown", FALSE), [Full("REFLECT", FALSE) EXCEPT !.top = H + 1]}

Uneven(c) == 3 \in {c.top, c.bottom, c.left, c.right}

(* The uneven borders, which are many, come with both kinds of fence        *)
(* handling at once or with neither.                                        *)
MCCalls ==
  {c \in MCAll : Uneven(c) => c.acquire = c.user_close} \cup Early

(* One side alone of left and right, or no side at all. *)
MCEdges == {c \in MCAll : Empty(c) \/ (c.left = 0) # (c.right = 0)}
=============================================================================
