--------------------------- MODULE MCProofOfWork ---------------------------
(***************************************************************************)
(* Digests of two bytes for each of two nonces, with every difficulty.           *)
(***************************************************************************)
EXTENDS ProofOfWork

MCBytes == {0, 1, 6, 40, 128}
MCDigests == [0..(NONCES - 1) -> [0..(DIGEST_LENGTH - 1) -> MCBytes]]
MCDifficulties == 0..(8 * DIGEST_LENGTH)
=============================================================================
