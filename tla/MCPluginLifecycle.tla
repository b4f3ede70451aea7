------------------------- MODULE MCPluginLifecycle -------------------------
(* PluginLifecycle, for TLC: the picoms of a display are interchangeable. *)
EXTENDS PluginLifecycle, TLC

PicomSymmetry == Permutations(Picoms)
=============================================================================
