----------------------------- MODULE MCExporter -----------------------------
(* Small instances of Exporter for TLC; the constants are in the cfg files. *)
EXTENDS Exporter, TLC

(* Processes differ by name only. *)
Symmetry == Permutations(Instance)

(* START_BLOCK is the environment variable's value minus one. *)
DefaultStart == -1

=============================================================================
