----------------------------- MODULE MCClientApp -----------------------------
EXTENDS ClientAppProperties
=============================================================================
