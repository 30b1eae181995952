---------------------------- MODULE MCDoctorNodes ----------------------------
(* Instances of DoctorNodes: two Doctors of one team, two sockets.         *)
EXTENDS DoctorNodes, TLC

CONSTANTS e1, e2, s1, s2, s3, j1, j2   \* model values

\* j1 is for one engine, j2 for the team of both.
MCEligible == [j \in Jobs |-> IF j = j1 THEN {e1} ELSE Engines]
=============================================================================
