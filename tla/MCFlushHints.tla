----------------------------- MODULE MCFlushHints -----------------------------
(***************************************************************************)
(* Model checking of FlushHints: the constants of the runs are in their    *)
(* .cfg files.                                                             *)
(***************************************************************************)
EXTENDS FlushHints, TLC

\* Nothing distinguishes the files: the runs of safety properties use that.
PathSymmetry == Permutations(Paths)

================================================================================
