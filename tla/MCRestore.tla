----------------------------- MODULE MCRestore -----------------------------
(* Small tables and payloads for SrrRestore: two known groups whose restore   *)
(* order is not the order they are listed in, one of two features on two      *)
(* agents, one of a feature that is optional before version 2.1.              *)
EXTENDS SrrRestoreOutcome, TLC

CONSTANTS f1, f2, f3, strange, assets, network, futuregroup, agent1, agent2, r1, r2

MCFeature == {f1, f2, f3}
MCGroup == {assets, network}
MCAgent == {agent1, agent2}
MCVersion == {"1.0", "2.0", "2.1"}
MCm_agent == [f \in MCFeature |-> IF f = f2 THEN agent2 ELSE agent1]
MCm_requiredIn == [f \in MCFeature |-> IF f = f3 THEN {"2.1"} ELSE MCVersion]
MCm_restart == [f \in MCFeature |-> f # f2]
MCm_reset == [f \in MCFeature |-> f # f2]
MCm_fp == [g \in MCGroup |->
  IF g = assets THEN <<[m_feature |-> f1, m_priority |-> 1], [m_feature |-> f2, m_priority |-> 2]>>
  ELSE <<[m_feature |-> f3, m_priority |-> 1]>>]
MCm_restoreOrder == [g \in MCGroup |-> IF g = assets THEN 2 ELSE 1]

Grp(g, fs) == [id |-> g, features |-> fs, intact |-> TRUE]
Damaged(g, fs) == [id |-> g, features |-> fs, intact |-> FALSE]
Req(v, its) == [version |-> v, license |-> "granted", readable |-> TRUE,
                passphraseOk |-> TRUE, force |-> FALSE, items |-> its]

Assets  == Grp(assets, {f1, f2})
Network == Grp(network, {f3})
Future  == Grp(futuregroup, {strange})

Both == Req("2.1", <<Assets, Network>>)

(* Requests of version 2.x that pass the entry checks.                        *)
GoodV2 == {
  Both,
  Req("2.0", <<Assets, Grp(network, {})>>),               \* optional feature absent
  Req("2.1", <<Future, Assets>>),
  Req("2.1", <<Network, Grp(assets, {f1})>>),             \* required feature absent
  Req("2.0", <<Grp(network, {strange})>>),                \* and a feature nobody knows
  Req("2.1", <<Grp(network, {f3, f1}), Assets>>),         \* a feature of another group
  Req("2.1", <<>>)}

(* Requests the entry checks stop, and those they should let through.         *)
Checked == {
  [Both EXCEPT !.items[1] = Damaged(assets, {f1, f2})],
  [Both EXCEPT !.items[1] = Damaged(assets, {f1, f2}), !.force = TRUE],
  [Both EXCEPT !.license = "refused"], [Both EXCEPT !.license = "unavailable"],
  [Both EXCEPT !.license = "blank"],
  [Both EXCEPT !.readable = FALSE], [Both EXCEPT !.passphraseOk = FALSE],
  [Both EXCEPT !.version = "3.0"]}

GoodV1 == {
  Req("1.0", <<Grp(f1, {f1}), Grp(f2, {f2})>>),
  Req("1.0", <<Grp(f3, {f3}), Grp(strange, {strange}), Grp(f1, {f1})>>)}

MCPayloadAll == GoodV2 \cup Checked \cup GoodV1

(* Two requests in flight: the same payload, or groups that do not overlap.   *)
MCPayloadPair == {Req("2.1", <<Network>>), Req("2.1", <<Assets>>)}
MCSymmetry == Permutations({r1, r2})

(* The requests on which comments of the source are not kept.                 *)
MCPayloadMissing == {Req("2.1", <<Network, Grp(assets, {f1})>>)}
MCPayloadUnknown == {Req("2.1", <<Future, Assets>>)}
MCPayloadAssets  == {Req("2.1", <<Assets>>)}
MCPayloadOneV1   == {Req("1.0", <<Grp(f1, {f1})>>)}

(* One request of each shape that decides what a thread does, for the runs of  *)
(* the refinement.                                                            *)
MCPayloadPromise == GoodV1 \cup {
  Req("2.0", <<Assets, Grp(network, {})>>),
  Req("2.1", <<Network, Grp(assets, {f1})>>),
  Req("2.1", <<Future, Network>>), Req("2.1", <<>>),
  [Both EXCEPT !.items[1] = Damaged(assets, {f1, f2})]}
=============================================================================
