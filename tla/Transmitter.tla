----------------------------- MODULE Transmitter -----------------------------
(***************************************************************************)
(* What a port promises its callers of transmission, without threads: a      *)
(* list is loaded while nothing is transmitted, a transmission puts the      *)
(* packets of the loaded list on the wire in order, over and over when the   *)
(* list loops, and it ends when the list is through or because somebody      *)
(* asked for it.  TxThread implements it.                                   *)
(***************************************************************************)
EXTENDS PacketList

CONSTANT PacketLists

VARIABLES
    list,       \* the loaded list
    running,    \* isRunning()
    pending,    \* a stop was requested and not yet honoured
    wire        \* what was sent in this pass over the list

tvars == <<list, running, pending, wire>>

Whole == Guids(TransmitOrder(list.seqs))

Init ==
    /\ list \in PacketLists
    /\ running = FALSE /\ pending = FALSE
    /\ wire = <<>>

Load ==
    /\ ~running
    /\ list' \in PacketLists
    /\ UNCHANGED <<running, pending, wire>>

Begin ==
    /\ ~running
    /\ running' = TRUE
    /\ wire' = <<>>
    /\ UNCHANGED <<list, pending>>

Emit ==
    /\ running /\ Len(wire) < Len(Whole)
    /\ wire' = Append(wire, Whole[Len(wire) + 1])
    /\ UNCHANGED <<list, running, pending>>

NextPass ==
    /\ running /\ wire = Whole /\ list.returnTo >= 0
    /\ wire' = <<>>
    /\ UNCHANGED <<list, running, pending>>

\* A request may come too late for the transmission it was meant for.
RequestStop ==
    /\ pending' = TRUE
    /\ UNCHANGED <<list, running, wire>>

\* The end: the whole list was sent (a request that finds it so is dropped, or
\* stays for the next transmission), or a request is honoured.
EndComplete ==
    /\ running /\ wire = Whole
    /\ running' = FALSE
    /\ UNCHANGED <<list, pending, wire>>

DropRequest ==
    /\ running /\ wire = Whole /\ pending
    /\ pending' = FALSE
    /\ UNCHANGED <<list, running, wire>>

EndStopped ==
    /\ running /\ pending
    /\ running' = FALSE
    /\ pending' \in BOOLEAN
    /\ UNCHANGED <<list, wire>>

Next ==
    \/ Load \/ Begin \/ Emit \/ NextPass
    \/ RequestStop \/ EndComplete \/ DropRequest \/ EndStopped

Spec == Init /\ [][Next]_tvars

=============================================================================
