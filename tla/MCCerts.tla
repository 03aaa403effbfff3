------------------------------- MODULE MCCerts -------------------------------
(* Small instances of Certs.                                               *)
EXTENDS Certs, TLC

CONSTANTS h, d1, d2, p1

Numbers == 1..9
\* The hub's domain or DuckDNS's.
OneDomain == {<<h, None, d1>>, <<None, d1, d1>>, <<None, d1, d2>>}
=============================================================================
