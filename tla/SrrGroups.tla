----------------------------- MODULE SrrGroups -----------------------------
(***************************************************************************)
(* The static tables of fty-srr (fty_srr_groups.cc) and the two look-ups    *)
(* every loop of the worker is ordered by.  The tables are CONSTANTS: the   *)
(* module SrrTables holds the values the daemon ships with, the MC modules  *)
(* give smaller ones.                                                       *)
(***************************************************************************)
EXTENDS Integers, Sequences

CONSTANTS
  Feature,         \* keys of g_srrFeatureMap
  Group,           \* keys of g_srrGroupMap
  Agent,           \* keys of g_agentToQueue
  Version,         \* versions a payload can carry
  m_agent,         \* SrrFeatureStruct, field by field
  m_requiredIn,
  m_restart,
  m_reset,
  m_fp,            \* SrrGroupStruct: the vector of (feature, priority)
  m_restoreOrder,
  StrayFeature,    \* names found in a payload that no table knows
  StrayGroup

Name == Feature \cup StrayFeature

FeaturesOf(g) == {m_fp[g][i].m_feature : i \in DOMAIN m_fp[g]}

(***************************************************************************)
(* What initSrrFeatures and initSrrGroups establish and the worker relies   *)
(* on: every feature of a group is in the feature map, its agent has a      *)
(* queue, no feature is in two groups, no group is without one, and it      *)
(* lists its features by strictly increasing priority (the worker walks     *)
(* m_fp in vector order in some loops and in priority order in others).     *)
(***************************************************************************)
ASSUME TablesAssumption ==
  /\ Feature \cap StrayFeature = {} /\ Group \cap StrayGroup = {}
  /\ m_agent \in [Feature -> Agent]
  /\ m_requiredIn \in [Feature -> SUBSET Version]
  /\ m_restart \in [Feature -> BOOLEAN]
  /\ m_reset \in [Feature -> BOOLEAN]
  /\ m_fp \in [Group -> Seq([m_feature : Feature, m_priority : Nat])]
  /\ \A g \in Group : m_fp[g] # <<>>
  /\ m_restoreOrder \in [Group -> Nat]
  /\ \A g, h \in Group : g # h => FeaturesOf(g) \cap FeaturesOf(h) = {}
  /\ \A g \in Group : \A i, j \in DOMAIN m_fp[g] :
       i < j => m_fp[g][i].m_priority < m_fp[g][j].m_priority

(* initSrrGroups adds no feature to a group twice.                            *)
ASSUME FeaturesListedOnce ==
  \A g \in Group : \A i, j \in DOMAIN m_fp[g] : m_fp[g][i].m_feature = m_fp[g][j].m_feature => i = j

(* The groups that list feature f: at most one, by TablesAssumption.        *)
getGroupFromFeature(f) == {g \in Group : f \in FeaturesOf(g)}

(* 0 for a feature of no group, the priority in its group otherwise.        *)
getPriority(f) ==
  IF getGroupFromFeature(f) = {} THEN 0
  ELSE LET g == CHOOSE h \in getGroupFromFeature(f) : TRUE
           i == CHOOSE j \in DOMAIN m_fp[g] : m_fp[g][j].m_feature = f
       IN  m_fp[g][i].m_priority

(* Mutant: the loops take the features in any order.                          *)
AnyOrder(S) == S

(* The features a loop over S takes next in increasing priority order, and  *)
(* in decreasing order: std::sort leaves the order of equals open.          *)
Lowest(S)  == {f \in S : \A e \in S : getPriority(f) <= getPriority(e)}
Highest(S) == {f \in S : \A e \in S : getPriority(e) <= getPriority(f)}
=============================================================================
