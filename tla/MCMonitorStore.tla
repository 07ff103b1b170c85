---------------------------- MODULE MCMonitorStore ----------------------------
EXTENDS MonitorStore, TLC

\* No action orders requests or singles one out. (Names are not symmetric: the
\* parameters an endpoint does not take are fixed to a chosen configuration.)
Symmetry == Permutations(Requests)
=============================================================================
