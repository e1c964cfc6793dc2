------------------------------ MODULE MCTlsRoots ------------------------------
(* An instance of TlsRoots for TLC.                                        *)
EXTENDS TlsRoots

\* Two callers of set_manual_roots, one of whose lists has a certificate that
\* no store accepts; the operating system has one of those, too.
MCCerts == {"g1", "g2", "w", "bad"}
MCValid == {"g1", "g2", "w"}
MCCertLists == {{"g1"}, {"g2"}, {"g1", "bad"}}
MCBuiltIn == {"w"}
MCNative == {"g2", "bad"}
MCFeatures == {"manual", "webpki", "probe"}

===============================================================================
