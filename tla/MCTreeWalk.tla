---------------------------- MODULE MCTreeWalk ----------------------------
(***************************************************************************)
(* Model-checking instances of TreeWalk.                                   *)
(***************************************************************************)
EXTENDS TreeWalk

Sec(id, start, end, header, body) ==
  [id |-> id, start |-> start, end |-> end, header |-> header, body |-> body]
Cite(start, end, conf) == [start |-> start, end |-> end, conf |-> conf]

\* No tree; sections without pages; a parent over two sections that share a
\* page, out of page order; sections whose text fills the limit exactly.
MCDocuments ==
  {<<>>, <<Sec(1, 0, 0, 1, 1)>>,
   <<Sec(1, 1, 3, 1, 0), Sec(3, 2, 3, 2, 3), Sec(2, 1, 2, 1, 1)>>,
   <<Sec(1, 1, 1, 2, 3), Sec(2, 2, 2, 1, 4), Sec(3, 0, 0, 1, 1)>>}

\* Ranges that are equal only once clamped, inverted, open, past the end.
MCCitations ==
  {Cite(1, 2, 3), Cite(2, 1, 13), Cite(2, 9, 9), Cite(1, 0, 0), Cite(7, 9, 13)}

MCCitationLists == {<<>>} \cup {<<a>> : a \in MCCitations}
  \cup (MCCitations \X MCCitations) \cup (MCCitations \X MCCitations \X MCCitations)

MCPageArgs == {-1, 1, 2, 9}
MCConfidences == {-2, 13, NaN}
====
