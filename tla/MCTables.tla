----------------------------- MODULE MCTables ------------------------------
(* SrrRestore with the tables the daemon ships with.                          *)
EXTENDS SrrRestoreProperties, SrrTables

CONSTANTS r1, strange, futuregroup

Version4 == {"1.0", "2.0", "2.1", "2.2"}

Grp(g) == [id |-> g, features |-> {groupFp[g][i].m_feature : i \in DOMAIN groupFp[g]},
           intact |-> TRUE]
Without(g, fs) == [Grp(g) EXCEPT !.features = @ \ fs]
Req(v, its) == [version |-> v, license |-> "granted", readable |-> TRUE,
                passphraseOk |-> TRUE, force |-> FALSE, items |-> its]

(* Every ordered pair of groups, a payload of a daemon that had no automatic  *)
(* groups yet, and the assets group last of three.                            *)
ShippedPayload ==
  {Req("2.1", <<Grp(g), Grp(h)>>) : <<g, h>> \in {p \in srrGroupMap \X srrGroupMap : p[1] # p[2]}}
  \cup {Req("2.0", <<Grp("group-discovery"), Without("group-assets", {"automatic-groups"})>>),
        Req("2.1", <<Grp("group-user-session-management"), Grp("group-network"), Grp("group-assets")>>)}
=============================================================================
