------------------------------ MODULE MCSample -------------------------------
(***************************************************************************)
(* Sample with three moments in each callback, two zeros, and times of the *)
(* documented fourteen digits, of eight, of sixteen and more: one of each  *)
(* number of members that it writes over.                                  *)
(***************************************************************************)
EXTENDS Sample

MCMaxNow == 4
MCMaxZeros == 2
MCTimeSize == 16
MCCourseEnd == 20
MCDataEnd == 24
MCTimeLens == {8, 14, 16, 18, 24, 25}
=============================================================================
