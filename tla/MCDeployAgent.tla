--------------------------- MODULE MCDeployAgent ---------------------------
EXTENDS DeployAgent
MCImages  == {"backend"}
MCLast    == [backend |-> 2, blockchain |-> 3]
\* backend: 1 answers but fails the dependency probe, 2 is good;
\* blockchain: 1 is the installed content, 2 does not answer, 3 is good.
MCContent == [backend    |-> [r \in 0..2 |-> r],
              blockchain |-> [r \in 0..3 |-> IF r = 1 THEN 0 ELSE r]]
MCBroken  == [backend |-> {}, blockchain |-> {2}]
MCUnfit   == [backend |-> {1}, blockchain |-> {}]
=============================================================================
