---------------------------- MODULE MCUfoGeometry ----------------------------
(* Instances of UfoGeometry.                                                *)
EXTENDS UfoGeometry

(* Elements smaller than a page, as large, larger, and with no common       *)
(* divisor; objects that end inside a page and inside a chunk.              *)
MCCut == [header : {0, 3}, stride : {2, 3, 4, 6}, count : {1, 8, 9}, minLoad : {1, 3}]

(* Objects of many chunks, whose bits fill more than a byte.                *)
MCMany == [header : {0}, stride : {4}, count : {6, 10}, minLoad : {1}]

MCPrototypes == MCCut \cup MCMany
==============================================================================
