--------------------------- MODULE MCReverseTunnel ---------------------------
(* Instances of ReverseTunnel for TLC.                                       *)
EXTENDS ReverseTunnel, TLC

\* Everything may happen to the first device; the second is deleted, and its port
\* may go to the first.
Everything == ("d1" :> Event) @@ ("d2" :> {"delete"})

\* The first device loses its network or its daemon, or is switched off, while the
\* second is deleted and may leave it its port, and a session on it.
Disturbed == ("d1" :> {"offline", "local"}) @@ ("d2" :> {"delete"})
=============================================================================
