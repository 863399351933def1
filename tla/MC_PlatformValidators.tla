------------------------ MODULE MC_PlatformValidators ------------------------
EXTENDS PlatformValidators, TLC

\* Two default-subnet validators and a delegator of node n1, and three
\* validators of another subnet; node n1's weights overflow a 2-bit word.
v1 == "v1"  v2 == "v2"  d1 == "d1"  s1 == "s1"  s2 == "s2"  s3 == "s3"
n1 == "n1"  n2 == "n2"

MCStakers == {v1, v2, d1, s1, s2, s3}
Staker(k, n, st, en, w) == [kind |-> k, node |-> n, start |-> st, end |-> en, weight |-> w]
Table ==
  (v1 :> Staker("defaultValidator", n1, 1, 3, 2)) @@
  (v2 :> Staker("defaultValidator", n2, 2, 3, 1)) @@
  (d1 :> Staker("defaultDelegator", n1, 1, 2, 2)) @@
  (s1 :> Staker("subnetValidator",  n1, 0, 1, 1)) @@
  (s2 :> Staker("subnetValidator",  n2, 1, 2, 1)) @@
  (s3 :> Staker("subnetValidator",  n1, 0, 2, 3))
MCKind   == [s \in MCStakers |-> Table[s].kind]
MCNodeOf == [s \in MCStakers |-> Table[s].node]
MCStart  == [s \in MCStakers |-> Table[s].start]
MCEnd    == [s \in MCStakers |-> Table[s].end]
MCWeight == [s \in MCStakers |-> Table[s].weight]

====
