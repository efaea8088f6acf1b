--------------------------- MODULE MCConnections ---------------------------
(* Constants of Connections for model checking.                            *)
EXTENDS Connections, TLC

MCNeeds == [c \in Capabilities |-> IF c = "mail.send" THEN {"mail.read"} ELSE {}]
MCReads == Capabilities \ {"mail.send"}
MCUses == [w \in Workers |-> IF w \in Writers THEN "mail.send" ELSE "mail.read"]
MCSymmetry == Permutations(Attempts)
=============================================================================
