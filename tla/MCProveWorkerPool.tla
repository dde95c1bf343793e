-------------------------- MODULE MCProveWorkerPool --------------------------
\* Small instances of the prove worker pool for TLC.
EXTENDS ProveWorkerPool

CONSTANTS t1, t2, t3

MCWap == Task \cap {t3}
MCUnified == Task \cap {t1, t3}

=============================================================================
