------------------------------- MODULE Serving ------------------------------
(***************************************************************************)
(* What the engine does with a question: the gates it passes, the model    *)
(* settings it runs with, the ways a document's sections are selected, and *)
(* the answers over one document, several, or the whole collection.  These *)
(* share no state a property here is about, so a behaviour is one of one   *)
(* of them while the others stand still.                                   *)
(***************************************************************************)
EXTENDS Agentic, JudgeWalk, ModelRegistry, CorpusWalk, QueryPipeline, Collection, MultiQuery, Gates

VARIABLE part

servingVars == <<part, selVars, agVars, jwVars, regVars, cwVars, qpVars, libVars, mqVars, gtVars>>

\* The part that runs starts anywhere it may, the others where they do nothing.
ServingInit ==
  /\ part \in {"selection", "walk", "judge", "settings", "corpus", "query", "library", "several", "gates"}
  /\ IF part = "selection" THEN SelInit ELSE SelIdle
  /\ IF part = "walk" THEN AgInit ELSE AgIdle
  /\ IF part = "judge" THEN JWInit ELSE JWIdle
  /\ IF part = "settings" THEN RegInit ELSE RegIdle
  /\ IF part = "query" THEN QPInit ELSE QPIdle
  /\ IF part = "several" THEN MQInit ELSE MQIdle
  /\ IF part = "gates" THEN GtInit ELSE GtIdle
  /\ CWInit /\ LibInit

ServingEnded ==
  CASE part = "selection" -> SelEnded [] part = "walk" -> AgEnded [] part = "judge" -> JWEnded
    [] part = "settings" -> RegEnded [] part = "corpus" -> CWEnded [] part = "query" -> QPEnded
    [] part = "library" -> LibEnded [] part = "several" -> MQEnded [] OTHER -> GtEnded

ServingNext ==
  \/ part = "selection" /\ SelNext
     /\ UNCHANGED <<part, agVars, jwVars, regVars, cwVars, qpVars, libVars, mqVars, gtVars>>
  \/ part = "walk" /\ AgNext
     /\ UNCHANGED <<part, selVars, jwVars, regVars, cwVars, qpVars, libVars, mqVars, gtVars>>
  \/ part = "judge" /\ JWNext
     /\ UNCHANGED <<part, selVars, agVars, regVars, cwVars, qpVars, libVars, mqVars, gtVars>>
  \/ part = "settings" /\ RegNext
     /\ UNCHANGED <<part, selVars, agVars, jwVars, cwVars, qpVars, libVars, mqVars, gtVars>>
  \/ part = "corpus" /\ CWNext
     /\ UNCHANGED <<part, selVars, agVars, jwVars, regVars, qpVars, libVars, mqVars, gtVars>>
  \/ part = "query" /\ QPNext
     /\ UNCHANGED <<part, selVars, agVars, jwVars, regVars, cwVars, libVars, mqVars, gtVars>>
  \/ part = "library" /\ LibNext
     /\ UNCHANGED <<part, selVars, agVars, jwVars, regVars, cwVars, qpVars, mqVars, gtVars>>
  \/ part = "several" /\ MQNext
     /\ UNCHANGED <<part, selVars, agVars, jwVars, regVars, cwVars, qpVars, libVars, gtVars>>
  \/ part = "gates" /\ GtNext
     /\ UNCHANGED <<part, selVars, agVars, jwVars, regVars, cwVars, qpVars, libVars, mqVars>>
  \/ ServingEnded /\ UNCHANGED servingVars

\* Calls to the database and to a model return, Watch keeps polling, and a
\* worker that can go on does; administrators and clients owe nothing.
ServingSpec ==
  /\ ServingInit /\ [][ServingNext]_servingVars
  /\ WF_selVars(part = "selection" /\ SelStep)
  /\ WF_regVars(part = "settings" /\ RegStep)

-----------------------------------------------------------------------------
\* Whichever way sections are selected, every section could be, no reply is
\* lost, nothing outside the document gets in, a stream tells the same, and
\* the units of text they become are bounded, distinct and not repetitive
\* (SinglePass, ChunkedTree, AgenticStrategy, AssembleUnits).
SelectionSound ==
  SlicesCoverTree /\ SelectionIsUnion /\ StreamFaithful /\ NavigationSound /\ UnitsAreSound

\* A selection always ends, its stream drained, though slices wait for each
\* other's slots, replies are garbled and the client leaves; and replicas
\* come to agree on the settings.
ServingSettles == (part = "selection" => <>SelEnded) /\ ReplicasConverge
=============================================================================
