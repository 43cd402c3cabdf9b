--------------------------- MODULE MCDockerloader ---------------------------
EXTENDS Dockerloader
CONSTANTS v1, v2, v3, b1, b2, b3
MCLayers == [v \in Version |-> IF v = v1 THEN {b1} ELSE IF v = v2 THEN {b1, b2} ELSE {b3}]
=============================================================================
