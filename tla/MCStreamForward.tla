--------------------------- MODULE MCStreamForward ---------------------------
\* Small instances of LibavSession and StreamForward for TLC.
EXTENDS StreamForward

\* Every build of the library.
AllBuilds == {"forking", "noforking", "nolibav"}
=============================================================================
