---------------------------- MODULE MCCertLoader ----------------------------
(* An instance of CertLoader for TLC.                                       *)
EXTENDS CertLoader

\* The second certificate is a renewal with the same key.
Renewed == <<1, 1, 2>>
=============================================================================
