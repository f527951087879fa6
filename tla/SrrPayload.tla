----------------------------- MODULE SrrPayload -----------------------------
(***************************************************************************)
(* What becomes of the data of a feature between two agents: the daemon      *)
(* takes it from one as a string, writes it into the JSON of a payload with  *)
(* a digest per group (dto/common.cc, helpers/data_integrity.cc), and reads  *)
(* it back later.  SHA-256 is taken to tell any two texts apart: the digest   *)
(* of a text is that text.                                                   *)
(***************************************************************************)
EXTENDS SrrGroups

CONSTANT
  Content          \* what a configuration says

(* The string an agent gives: JSON in the agent's own spelling or in that of  *)
(* serializeJson, or any other text, scalars included.                        *)
FeatureData ==
  [is : {"json"}, content : Content, spelling : {"own", "canonical"}]
  \cup [is : {"text"}, content : Content, spelling : {"own"}]

(* A JSON string becomes a tree, anything else a string value.                 *)
WriteData(d) == [is |-> d.is, content |-> d.content]

(* Mutant: a string value is spelled anew as well.                            *)
ReadAsTree(t) == [is |-> t.is, content |-> t.content, spelling |-> "canonical"]

(* A tree is spelled anew, a string value is left as it is.                    *)
ReadData(t) ==
  [is |-> t.is, content |-> t.content,
   spelling |-> IF t.is = "json" THEN "canonical" ELSE "own"]

(* A feature of a payload has a name and its data in the daemon's memory.      *)
WriteFeatures(fs) == [i \in DOMAIN fs |-> [m_feature |-> fs[i].m_feature, data |-> WriteData(fs[i].data)]]
ReadFeatures(ts) == [i \in DOMAIN ts |-> [m_feature |-> ts[i].m_feature, data |-> ReadData(ts[i].data)]]

SortedByPriority(fs) ==
  CHOOSE s \in [DOMAIN fs -> {fs[i] : i \in DOMAIN fs}] :
    /\ \A i \in DOMAIN fs : \E j \in DOMAIN s : s[j] = fs[i]
    /\ \A i, j \in DOMAIN s : i < j => getPriority(s[i].m_feature) <= getPriority(s[j].m_feature)

Digest(fs) == WriteFeatures(fs)

(* The group with its digest, as it stands in the response of a save.          *)
evalDataIntegrity(fs) ==
  LET s == SortedByPriority(fs)
  IN  [m_features |-> WriteFeatures(s), m_data_integrity |-> Digest(s)]

(* Mutant: the features are checked in the order of the file.                  *)
checkUnsorted(g) == Digest(ReadFeatures(g.m_features)) = g.m_data_integrity

(* Restore sorts what it has read before it checks it.                         *)
checkDataIntegrity(g) ==
  Digest(SortedByPriority(ReadFeatures(g.m_features))) = g.m_data_integrity
=============================================================================
