-------------------------- MODULE MCMultiCasePipeline --------------------------
(* An instance of MultiCasePipeline for TLC: three manifests of which two  *)
(* share an identity, every single failed check and one pair.              *)
EXTENDS MultiCasePipeline

CONSTANTS m1, m2, m3, a, b, x, y

AllManifests == {m1, m2, m3}
TwoIds == {a, b}
Identity == [m \in AllManifests |-> IF m = m2 THEN b ELSE a]
SuiteFiles == {<<m1, m2>>, <<m1, m1>>, <<m1, m2, m3>>}
SingleFailures == {{}} \cup {{c} : c \in Checks}
                    \cup {{"conformance", "summarySchema"}}
TwoContents == {x, y}
=============================================================================
