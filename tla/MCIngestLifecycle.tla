------------------------- MODULE MCIngestLifecycle -------------------------
(***************************************************************************)
(* Model-checking instances of IngestLifecycle.                            *)
(***************************************************************************)
EXTENDS IngestLifecycle

Request(mode, pdf, text) == [mode |-> mode, pdf |-> pdf, text |-> text]

\* One request per path through run and runMinimal, one that never parses and
\* one whose text is blank.
MCPayloads ==
  {Request("full", TRUE, "sections"), Request("minimal", FALSE, "sections"),
   Request("toc", TRUE, "sections"), Request("full", TRUE, "bad"),
   Request("full", FALSE, "blank")}

MCTwoPayloads == {Request("full", TRUE, "sections"), Request("minimal", FALSE, "bad")}
====
