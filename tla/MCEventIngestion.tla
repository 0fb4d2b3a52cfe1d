-------------------------- MODULE MCEventIngestion --------------------------
(* Three logs, two of them in one block, and room for two gap fills.       *)
EXTENDS EventIngestion

MCBlockOf == <<1, 2, 2>>
MCNumbered == {1, 2}
MCRoleSets == {{"pending", "clock"}, Roles}
=============================================================================
