------------------------------ MODULE TLSPair ------------------------------
(***************************************************************************)
(* The certificate and the private key the TLS decoys show, two files that *)
(* ensureTLSCertificate (code/daemon.go) makes before it lets a daemon     *)
(* start.  Start holds its mutex meanwhile and nobody else reads them, so  *)
(* what can be told apart is what is on disk when Start goes on, returns   *)
(* an error, or the process dies.  A file is the serial of the pair it was *)
(* made with.                                                              *)
(***************************************************************************)
CONSTANTS
  Serials,  \* serials that may be drawn, three at least
  None      \* no file

VARIABLES TLSCertFile, TLSKeyFile

tlsVars == <<TLSCertFile, TLSKeyFile>>

Init == TLSCertFile = None /\ TLSKeyFile = None

HasCertificate == TLSCertFile # None    \* mutant: no Stat of the key
HasPair        == TLSCertFile # None /\ TLSKeyFile # None

Fresh == CHOOSE s \in Serials : s \notin {TLSCertFile, TLSKeyFile}

ensureTLSCertificate ==
  \/ HasPair /\ UNCHANGED tlsVars
  \/ ~HasPair /\ TLSCertFile' = Fresh /\ TLSKeyFile' = Fresh

\* It stops before the first or before the second write.
StopsHalfway ==
  /\ ~HasPair
  /\ TLSCertFile' \in {TLSCertFile, Fresh}
  /\ UNCHANGED TLSKeyFile

\* What the daemon needs to serve HTTPS.
Matches == TLSCertFile # None /\ TLSKeyFile = TLSCertFile
=============================================================================
