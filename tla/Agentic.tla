------------------------------- MODULE Agentic ------------------------------
(***************************************************************************)
(* Selecting sections by letting a model walk the document: AgenticStrategy *)
(* shows the top of the outline, then answers one action of the model per  *)
(* hop (refresh the outline, expand a section, read one) until it says it  *)
(* is done or the hops are used up.  AutoStrategy decides which strategy a *)
(* document gets.                                                          *)
(*                                                                         *)
(* A request is [tree, body, summary, tokens, pages, hops]: the outline,   *)
(* the sections with a stored body and with a summary, the tokens of each  *)
(* section, whether the sections carry pages, and the hops allowed.        *)
(***************************************************************************)
EXTENDS Selection

CONSTANTS
  AgRequests,
  AgActions,     \* replies of the model: [action, level | id | picks], or Garbled
  Garbled,       \* a reply that holds no JSON action
  AgThreshold    \* SinglePassMaxTokens

VARIABLES
  agReq,
  agHop,      \* hops taken
  agShown,    \* sections whose line or body the model has been shown
  agPicked,   \* picks of its last action
  agOut       \* [status, ids, conf]

agVars == <<agReq, agHop, agShown, agPicked, agOut>>

agPending == [status |-> "pending", ids |-> <<>>, conf |-> <<>>]
AgBlank == agHop = 0 /\ agShown = {} /\ agPicked = <<>> /\ agOut = agPending
AgIdle == agReq = <<>> /\ AgBlank
AgInit == agReq \in AgRequests /\ AgBlank

-----------------------------------------------------------------------------
SectionsOf(t) == DOMAIN t.kids

DepthIn(t) ==
  LET up(n) == CHOOSE p \in SectionsOf(t) : n \in ToSet(t.kids[p])
      depth[n \in SectionsOf(t)] == IF n = 1 THEN 0 ELSE depth[up(n)] + 1
  IN  depth

\* The lines of the sections down to a level; a level below 1 means 1.
renderOutline(t, level) == {n \in SectionsOf(t) : DepthIn(t)[n] <= (IF level < 1 THEN 1 ELSE level)}

\* The children of a section; a leaf is named itself, an unknown id shows
\* nothing.
renderExpand(t, id) ==
  IF id \notin SectionsOf(t) THEN {} ELSE IF t.kids[id] = <<>> THEN {id} ELSE ToSet(t.kids[id])

\* The body, or the summary when there is none; nothing for an unknown id or
\* a section with neither.
renderRead(req, id) == {id} \cap (req.body \cup req.summary)

\* The picks that are sections, each once, with the confidences given.
collectDonePicks(t, picks) ==
  LET known == SelectSeq(picks, LAMBDA p : p.id \in SectionsOf(t))
      parsed == ParseSelection(known)
  IN  [status |-> "ok", ids |-> parsed.ids, conf |-> filterConfidences(parsed.conf, parsed.ids)]

\* AutoStrategy: the whole outline for a document without pages or one that
\* fits, the walk for the rest.
sumLeafTokens(req) ==
  FoldLeft(LAMBDA sum, n : sum + (IF req.tree.kids[n] = <<>> THEN req.tokens[n] ELSE 0), 0, BuildView(req.tree))
AutoPick(req) == IF ~req.pages \/ sumLeafTokens(req) <= AgThreshold THEN "single" ELSE "walk"

-----------------------------------------------------------------------------
AgShow(what) == agShown' = agShown \cup what
Hop == agHop' = agHop + 1

\* A document the single pass can take is left to it.
AutoSingle ==
  /\ agOut = agPending /\ agHop = 0 /\ agShown = {} /\ AutoPick(agReq) = "single"
  /\ agOut' = [agPending EXCEPT !.status = "single"]
  /\ UNCHANGED <<agReq, agHop, agShown, agPicked>>

BeginWalk ==
  /\ agOut = agPending /\ agShown = {} /\ AutoPick(agReq) = "walk"
  /\ AgShow(renderOutline(agReq.tree, 1))
  /\ UNCHANGED <<agReq, agHop, agPicked, agOut>>

Walking == agOut = agPending /\ agShown # {} /\ agHop < agReq.hops

Act == \E a \in AgActions \ {Garbled} :
  /\ Walking /\ a.action # "done" /\ Hop
  /\ AgShow(CASE a.action = "outline" -> renderOutline(agReq.tree, a.level)
             [] a.action = "expand" -> renderExpand(agReq.tree, a.id)
             [] a.action = "read" -> renderRead(agReq, a.id)
             [] OTHER -> {})
  /\ UNCHANGED <<agReq, agPicked, agOut>>

\* A reply without an action costs a hop; the model is asked again.
Misread == Walking /\ Garbled \in AgActions /\ Hop /\ UNCHANGED <<agReq, agShown, agPicked, agOut>>

Finish == \E a \in AgActions \ {Garbled} :
  /\ Walking /\ a.action = "done" /\ Hop
  /\ agPicked' = a.picks
  /\ agOut' = collectDonePicks(agReq.tree, a.picks)
  /\ UNCHANGED <<agReq, agShown>>

HopFails ==
  /\ Walking /\ agOut' = [agPending EXCEPT !.status = "error"]
  /\ UNCHANGED <<agReq, agHop, agShown, agPicked>>

\* No hop left: nothing is selected.
OutOfHops ==
  /\ agOut = agPending /\ agShown # {} /\ agHop >= agReq.hops
  /\ agOut' = [agPending EXCEPT !.status = "ok"]
  /\ UNCHANGED <<agReq, agHop, agShown, agPicked>>

AgNext == AutoSingle \/ BeginWalk \/ Act \/ Misread \/ Finish \/ HopFails \/ OutOfHops

AgEnded == agOut # agPending

-----------------------------------------------------------------------------
\* A walk returns sections of the document only, each once, with
\* confidences in range and only for those, and a pick of a section the
\* model was shown is never lost, however it got there within its hops.
NavigationSound ==
  agOut.status = "ok" =>
    LET ids == ToSet(agOut.ids)
        picks == {agPicked[k].id : k \in DOMAIN agPicked}
    IN  /\ ids \subseteq SectionsOf(agReq.tree) /\ Len(agOut.ids) = Cardinality(ids)
        /\ DOMAIN agOut.conf \subseteq ids /\ \A id \in DOMAIN agOut.conf : agOut.conf[id] \in 0..ConfOne
        /\ picks \cap agShown \subseteq ids
        /\ agHop <= agReq.hops
=============================================================================
