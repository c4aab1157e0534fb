--------------------------- MODULE MCGuestTransfer ---------------------------
\* GuestTransfer with the constants of MCGuestTransfer.cfg; no symmetry, as the
\* run checks liveness.
EXTENDS GuestTransfer
=============================================================================
