------------------------ MODULE MCConnectionManager ------------------------
(* ConnectionManager on small instances: two transport types, nats         *)
(* preferred over sse.  Any connection may have either type, so routers    *)
(* and connections are interchangeable; types are not, the chain orders    *)
(* them.                                                                   *)
EXTENDS ConnectionManager, TLC

CONSTANTS sse, nats

MCChain == <<nats, sse>>

Interchangeable == Permutations(Routers) \union Permutations(Conns)
=============================================================================
