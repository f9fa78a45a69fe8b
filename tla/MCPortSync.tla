------------------------------ MODULE MCPortSync ------------------------------
(* A port with streams and device groups, without and with a session to restore. *)
EXTENDS PortSync

\* The drone has one item of each kind.
OneEach == [k \in Kinds |-> (1 :> -1)]

\* A session saved earlier: its device group has the id of the drone's.
SavedSession ==
    [cfg |-> -3,
     items |-> [k \in Kinds |-> <<[id |-> IF k = "stream" THEN 0 ELSE 1, cfg |-> -2]>>]]
=============================================================================
