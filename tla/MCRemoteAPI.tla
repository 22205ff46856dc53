------------------------------ MODULE MCRemoteAPI ------------------------------
(* Two peers A and B, and an API with a plain call, a call whose handler    *)
(* calls back, a notification and a name that B does not know.              *)
EXTENDS RemoteAPI

CONSTANTS A, B, a1, a2, b1

MCHome == [c \in Callers |-> IF c = b1 THEN B ELSE A]
MCMethods == {"get", "relay", "notify", "nonsense"}
MCNested == [m \in MCMethods |-> IF m = "relay" THEN "get" ELSE None]
=============================================================================
