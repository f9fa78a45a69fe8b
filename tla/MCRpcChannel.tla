----------------------------- MODULE MCRpcChannel -----------------------------
(* Instances of RpcChannel for TLC: channel a queues calls, reconnects and   *)
(* hears notifications; b shares the client's thread and parser with it.     *)
EXTENDS RpcChannel

CONSTANTS a, b

CallLimit == (a :> 3) @@ (b :> 2)
ConnLimit == (a :> 2) @@ (b :> 2)
NotifLimit == (a :> 1) @@ (b :> 0)

\* Nothing is claimed of what follows once the parser is out of step.
Untorn == ~torn
=============================================================================
