--------------------------- MODULE MCEvidencePipeline ---------------------------
(* An instance of EvidencePipeline for TLC: every single failed check, and *)
(* survivors together with a failure behind them.                          *)
EXTENDS EvidencePipeline

SomeFailures == {{}} \cup {{c} : c \in Checks}
                  \cup {{"survivingMutants", c} : c \in {"rebuild", "schemas"}}
=============================================================================
