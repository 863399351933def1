------------------------------ MODULE MC_ProposerVM ------------------------------
EXTENDS ProposerVM, TLC

\* Inner blocks at heights 0..6, two per timestamp: 0, 0, 1, 1, 2, 2, 3.
MCInnerTs == [h \in 0..6 |-> h \div 2]

=============================================================================
