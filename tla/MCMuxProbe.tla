----------------------------- MODULE MCMuxProbe -----------------------------
\* TLC instance of MuxProbe; the constants are set in MCMuxProbe.cfg.
EXTENDS MuxProbe
=============================================================================
