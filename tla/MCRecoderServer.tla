--------------------------- MODULE MCRecoderServer ---------------------------
\* Small instances of RecoderServer for TLC.
EXTENDS RecoderServer, TLC

\* Handlers differ by their name only.
CallSymmetry == Permutations(Calls)
=============================================================================
