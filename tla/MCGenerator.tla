----------------------------- MODULE MCGenerator -----------------------------
EXTENDS Generator

CONSTANTS pa, pb, pd

MCPatches == {pa, pb, pd}

=============================================================================
