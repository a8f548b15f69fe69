------------------------------- MODULE Content ------------------------------
(***************************************************************************)
(* What the engine makes of a document's pages and shows of them: the      *)
(* contents it builds and the heading paths they give, the citing of       *)
(* pages, and the progress list of an ingest.  They share no state, so a   *)
(* behaviour is one of one of them.                                        *)
(***************************************************************************)
EXTENDS HeadingPaths, Citing, IngestProgress

VARIABLE contentPart

contentVars == <<contentPart, tocVars, citVars, prgVars>>

ContentInit ==
  \/ contentPart = "contents" /\ TocInit /\ CitIdle /\ PrgIdle
  \/ contentPart = "citing" /\ TocIdle /\ CitInit /\ PrgIdle
  \/ contentPart = "progress" /\ TocIdle /\ CitIdle /\ PrgInit

ContentEnded ==
  CASE contentPart = "contents" -> TocEnded
    [] contentPart = "citing" -> CitEnded
    [] OTHER -> PrgEnded

ContentNext ==
  \/ contentPart = "contents" /\ TocNext /\ UNCHANGED <<contentPart, citVars, prgVars>>
  \/ contentPart = "citing" /\ CitNext /\ UNCHANGED <<contentPart, tocVars, prgVars>>
  \/ contentPart = "progress" /\ PrgNext /\ UNCHANGED <<contentPart, tocVars, citVars>>
  \/ ContentEnded /\ UNCHANGED contentVars

ContentSpec == ContentInit /\ [][ContentNext]_contentVars
=============================================================================
