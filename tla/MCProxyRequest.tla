--------------------------- MODULE MCProxyRequest ---------------------------
EXTENDS ProxyRequest, SequencesExt

CONSTANT MaxLabels   \* bound: labels of a host name

\* Every host name of up to MaxLabels labels, and up to three records.
MCRequested == BoundedSeq(Labels, MaxLabels) \ {<<>>}
MCZoneLists == BoundedSeq(Records, 3)
=============================================================================
