--------------------------- MODULE MCIngestStages ---------------------------
(***************************************************************************)
(* Model-checking instances of IngestStages.                               *)
(***************************************************************************)
EXTENDS IngestStages

CONSTANTS top, left, right

\* A section with two subsections.
MCParent == [s \in {top, left, right} |-> IF s = top THEN NoParent ELSE top]
MCDepth == [s \in {top, left, right} |-> IF s = top THEN 0 ELSE 1]
MCConcurrency == [st \in Stages |-> IF st = "hyde" THEN 1 ELSE 2]
====
