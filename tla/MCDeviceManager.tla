---------------------------- MODULE MCDeviceManager ----------------------------
(* Two groups that may be given VLANs, addresses and numbers of devices. *)
EXTENDS DeviceManager

Vlan(tpid, id, count) == [tpid |-> tpid, id |-> id, count |-> count, step |-> 1]

\* untagged; two VLANs of two devices; a stack of tags; one that meets the second
SomeConfigs ==
    {[tags |-> <<>>, mac |-> 10, step |-> 1, count |-> 1, ip |-> 100],
     [tags |-> <<Vlan(1, 5, 2)>>, mac |-> 10, step |-> 0, count |-> 2, ip |-> 100],
     [tags |-> <<Vlan(2, 7, 1), Vlan(1, 5, 2)>>, mac |-> 20, step |-> 1, count |-> 1, ip |-> 0],
     [tags |-> <<Vlan(2, 6, 1)>>, mac |-> 10, step |-> 1, count |-> 1, ip |-> 101]}

\* The last one has a tag of VLAN 0, which is for devices without one.
SomePackets ==
    {[dst |-> Bcast, tags |-> <<>>, tgt |-> 100],
     [dst |-> Bcast, tags |-> <<[tpid |-> 1, id |-> 5]>>, tgt |-> 101],
     [dst |-> 10, tags |-> <<>>, tgt |-> 100],
     [dst |-> 10, tags |-> <<[tpid |-> 1, id |-> 0]>>, tgt |-> 100]}
=============================================================================
