--------------------------- MODULE MCWeightTransfer ---------------------------
EXTENDS WeightTransfer

\* Three rollout workers, the first two of one replica; the weights make three
\* buckets of two cells, the last one half empty.
MCSizes == <<1, 1, 2, 1>>
MCLeader == <<1, 1, 3>>

=============================================================================
