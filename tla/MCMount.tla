------------------------------ MODULE MCMount ------------------------------
(* Two raw devices, two possible fs superblocks, three claims and two      *)
(* mirrors per load, one open per mirror, and two loads.                  *)
EXTENDS Mount, TLC

CONSTANTS d1, d2

MCDevs == {d1, d2}
MCSupers == {"A", "B"}
MCMaxIds == 3
MCMaxMinors == 2
MCMaxUsers == 1
MCMaxLoads == 2
MCMaxRefs == 3

\* The devices are interchangeable: Init ranges over every disk content.
MCSymmetry == Permutations(MCDevs)
=============================================================================
