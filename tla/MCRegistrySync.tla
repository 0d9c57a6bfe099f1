--------------------------- MODULE MCRegistrySync ---------------------------
EXTENDS RegistrySync, TLC

CONSTANTS a, a2, b, ta, tb

\* Two revisions of one TLD, and another TLD.
MCTld == (a :> ta) @@ (a2 :> ta) @@ (b :> tb)
=============================================================================
