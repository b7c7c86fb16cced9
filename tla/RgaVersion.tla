------------------------------ MODULE RgaVersion ------------------------------
(* The version tables of im2d (im2d_hardware.h, im2d_impl.cpp): which       *)
(* kernel drivers and which header files a librga works with.  A row binds  *)
(* the versions of librga from `current' on, up to the next row, to the     *)
(* versions of the other side from `minimum' on, up to the next row's.      *)
EXTENDS Integers, Sequences

CONSTANT ApiVersion   \* RGA_SET_CURRENT_API_VERSION, the version of librga

Version == Nat \X Nat \X Nat

ASSUME VersionAssumption == ApiVersion \in Version

(* rga_version_compare(v, w) > 0: by major, then minor, then revision. *)
Newer(v, w) ==
  \/ v[1] > w[1]
  \/ v[1] = w[1] /\ v[2] > w[2]
  \/ v[1] = w[1] /\ v[2] = w[2] /\ v[3] > w[3]

AtLeast(v, w) == v = w \/ Newer(v, w)

Row(current, minimum) == [current |-> current, minimum |-> minimum]

user_driver_bind_table ==
  << Row(<<0, 0, 0>>, <<0, 0, 0>>),
     Row(<<1, 0, 3>>, <<0, 0, 0>>),
     Row(<<1, 6, 0>>, <<1, 1, 5>>),
     Row(<<1, 7, 2>>, <<1, 2, 0>>),
     Row(<<1, 7, 3>>, <<1, 2, 4>>) >>

user_header_bind_table ==
  << Row(<<0, 0, 0>>, <<0, 0, 0>>),
     Row(<<1, 0, 3>>, <<1, 0, 3>>),
     Row(<<1, 4, 0>>, <<1, 4, 0>>) >>

NoRow == 0

(* The last row that v has reached, in one of the two columns; the scan     *)
(* goes from the end and takes a row only when the next one is newer.       *)
Reached(v, table, column) ==
  {i \in DOMAIN table :
     /\ AtLeast(v, table[i][column])
     /\ i < Len(table) => Newer(table[i + 1][column], v)}

LastOf(rows) ==
  IF rows = {} THEN NoRow ELSE CHOOSE i \in rows : \A j \in rows : j <= i

CurrentIndex(v, table) == LastOf(Reached(v, table, "current"))
MinimumIndex(v, table) == LastOf(Reached(v, table, "minimum"))

(* rga_version_table_check_minimum_range: where w lies for row i. *)
MinimumRange(w, table, i) ==
  IF ~AtLeast(w, table[i].minimum) THEN "below"
  ELSE IF i = Len(table) \/ Newer(table[i + 1].minimum, w) THEN "within"
  ELSE "above"

(* rga_version_check of librga v against w, a driver or a header. *)
VersionCheck(v, w, table) ==
  LET i == CurrentIndex(v, table)
  IN  IF i = NoRow THEN "unknown" ELSE MinimumRange(w, table, i)

(* What the message of the refusal tells the user to install: the version   *)
(* of the other side when that is too old, of librga when that is.          *)
AdvisedOther(v, table) == table[CurrentIndex(v, table)].minimum
AdvisedLibrga(w, table) == table[MinimumIndex(w, table)].current

(* rga_check_driver: a driver that is too old "may be compatible". *)
rga_check_driver(driver) ==
  VersionCheck(ApiVersion, driver, user_driver_bind_table) \in {"within", "below"}

rga_check_header(header) ==
  VersionCheck(ApiVersion, header, user_header_bind_table) = "within"
=============================================================================
