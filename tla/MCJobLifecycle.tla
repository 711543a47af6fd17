--------------------------- MODULE MCJobLifecycle ---------------------------
(***************************************************************************)
(* JobLifecycle on a clock whose two ends are near enough to saturate.     *)
(* Keys and evidence hashes are only ever compared, so they are symmetric; *)
(* two keys let one holder be the verifier, the arbiter, both or neither.  *)
(***************************************************************************)
EXTENDS JobLifecycle, TLC

Symmetry == Permutations(Keys) \cup Permutations(EvidenceHashes)

=============================================================================
