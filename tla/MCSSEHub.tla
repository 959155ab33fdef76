------------------------------ MODULE MCSSEHub ------------------------------
(* The hub's registry and limits (SSEHub) on three connections to two      *)
(* trees, of which two share a tree and two share a user; and one          *)
(* browser's stream (SSEStream).  The two views of the hub share no        *)
(* variable: focus says which one a behaviour is about.                    *)
EXTENDS SSEHub, SSEStream, TLC

CONSTANTS c1, c2, c3, t1, t2, u1, u2

VARIABLE focus

MCTreeOf == (c1 :> t1) @@ (c2 :> t1) @@ (c3 :> t2)

MCUserOf == (c1 :> u1) @@ (c2 :> u2) @@ (c3 :> u2)

BothInit == focus \in {"registry", "stream"} /\ Init /\ StreamInit

BothNext ==
  \/ focus = "registry" /\ Next /\ UNCHANGED <<focus, streamVars>>
  \/ focus = "stream" /\ StreamNext /\ UNCHANGED <<focus, vars>>

BothSpec == BothInit /\ [][BothNext]_<<focus, vars, streamVars>> /\ Fairness /\ StreamFairness
=============================================================================
