------------------------------ MODULE MCDnsTree ------------------------------
EXTENDS DnsTree, SequencesExt

\* Up to two hashes listed under a hash: chains, forks, joins and cycles.
MCLists == BoundedSeq(Hashes, 2)
=============================================================================
