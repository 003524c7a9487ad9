---------------------------- MODULE MCLifecycle -----------------------------
\* A Solis and a SunSynk entry on one serial proxy port.
EXTENDS EntryLifecycle

CONSTANTS e1, e2, cl1, cl2, r1, r2

TwoEntries == {e1, e2}
OneEntry == {e1}
TwoClients == {cl1, cl2}
TwoRuns == {r1, r2}
=============================================================================
