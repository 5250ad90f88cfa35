-------------------------------- MODULE CoreMC --------------------------------
EXTENDS Core

MCpick(seed, n) == seed % n
==============================================================================
