---- MODULE MCWorldSaves ----
EXTENDS WorldSavesProperties

\* Art entries shared by some versions and missing in others.
MCDrawn == [v \in Version |-> CASE v = 1 -> {"scene"} [] v = 2 -> {"scene", "cards"} [] OTHER -> {"cards"}]
====
