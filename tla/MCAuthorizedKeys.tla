-------------------------- MODULE MCAuthorizedKeys --------------------------
(* An instance of AuthorizedKeys for TLC.                                    *)
EXTENDS AuthorizedKeys

\* The two activities of a daemon.  The command in a terminal does what the ticker
\* does, at any time.
DaemonSyncs == {"ticker", "tunnel"}
=============================================================================
