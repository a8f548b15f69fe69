----------------------------- MODULE Collection -----------------------------
(***************************************************************************)
(* What a corpus query reads: the documents of the collection, listed page *)
(* by page or looked up by id, and the library that keeps them built for   *)
(* navigation, bounded in bytes and shared by all queries.  Documents are  *)
(* created and ingested again meanwhile.                                   *)
(*                                                                         *)
(* Documents are numbered in the order they were created.  toc and pages   *)
(* stand for the delivery of the ingest job that wrote them, updated for   *)
(* updated_at.  The pages are an object in the store: replacing them does  *)
(* not move updated_at.                                                    *)
(***************************************************************************)
EXTENDS Ordering, SequencesExt

CONSTANTS
  LibDocs,      \* documents that may exist
  LibFirst,     \* those that exist at the start
  LibSize,      \* document -> bytes of its pages
  LibLimit,     \* CorpusLibrary.MaxBytes
  LibQueries,   \* query -> the ids it names, <<>> for the whole collection
  LibPage,      \* corpusListPage
  LibBuilders,  \* BuildConcurrency
  LibIngests,   \* document -> further deliveries of its job (bounds the changes)
  LibFaults     \* database and page reads that may fail

ASSUME LibraryAssumption ==
  /\ LibDocs \subseteq Nat \ {0} /\ LibFirst \subseteq LibDocs /\ IsFiniteSet(LibFirst)
  /\ LibSize \in [LibDocs -> Nat] /\ LibLimit \in Nat
  /\ \A q \in DOMAIN LibQueries : LibQueries[q] \in Seq(Nat)
  /\ LibIngests \in [LibDocs -> Nat] /\ LibPage \in Nat \ {0} /\ LibBuilders \in Nat \ {0}

VARIABLES
  row,        \* document -> [updated, ready, toc, pages, runs]: runs has, per
              \* delivery, what it does next: pages, contents, ready, done
  lib,        \* entries, most recently used first: [id, updated, toc, pages, size]
  libBytes,   \* CorpusLibrary.bytes
  asker,      \* query -> [step, cursor, found, refs, steady]
  shelf,      \* query -> per ref: [at, toc, pages]
  libFaults

libVars == <<row, lib, libBytes, asker, shelf, libFaults>>

libAsked == DOMAIN LibQueries
NewRow(beside) == [updated |-> 1, ready |-> TRUE, toc |-> 1, pages |-> 1, runs |-> <<"done">> \o beside]

LibInit ==
  /\ row = [d \in LibFirst |-> NewRow(<<>>)]
  /\ lib = <<>> /\ libBytes = 0 /\ libFaults = 0
  /\ asker = [q \in libAsked |-> [step |-> "start", cursor |-> 0, found |-> <<>>, refs |-> <<>>, steady |-> {}]]
  /\ shelf = [q \in libAsked |-> <<>>]

-----------------------------------------------------------------------------
(***************************************************************************)
(* CorpusHandler.refs.                                                     *)
(***************************************************************************)
Ref(d) == [id |-> d, updated |-> row[d].updated, toc |-> row[d].toc]
ReadyDocs == {d \in DOMAIN row : row[d].ready}
Newest(S) == InOrder(S, LAMBDA a, b : a > b)
NoRef == [id |-> 0, updated |-> 0, toc |-> 0]

refs(q) ==
  /\ asker[q].step = "start"
  /\ LET named == LibQueries[q]
     IN  asker' = [asker EXCEPT ![q].step = IF named = <<>> THEN "list" ELSE "lookup",
                                ![q].found = [i \in DOMAIN named |-> [at |-> "wait", ref |-> NoRef]],
                                ![q].steady = IF named = <<>> THEN ReadyDocs ELSE ReadyDocs \cap ToSet(named)]
  /\ UNCHANGED <<row, lib, libBytes, shelf, libFaults>>

\* Newest first, before the last one seen; a full page means there may be more.
ListDocuments(q) ==
  LET after == {d \in ReadyDocs : asker[q].cursor = 0 \/ d < asker[q].cursor}
      page == FirstN(Newest(after), LibPage)
      more == Cardinality(after) > LibPage
  IN  /\ asker[q].step = "list"
      /\ asker' = [asker EXCEPT ![q].refs = @ \o [k \in DOMAIN page |-> Ref(page[k])],
                                ![q].cursor = IF more THEN page[LibPage] ELSE @,
                                ![q].step = IF more THEN "list" ELSE "listed"]
      /\ UNCHANGED <<row, lib, libBytes, shelf, libFaults>>

\* Named documents are looked up side by side; one that is not there or not
\* ready is left out, the others stay in the order they were named.
LookUpRef(q, i) ==
  /\ asker[q].step = "lookup" /\ asker[q].found[i].at = "wait"
  /\ LET id == LibQueries[q][i]
     IN  asker' = [asker EXCEPT ![q].found[i] = IF id \in ReadyDocs THEN [at |-> "keep", ref |-> Ref(id)]
                                                                    ELSE [at |-> "leave", ref |-> NoRef]]
  /\ UNCHANGED <<row, lib, libBytes, shelf, libFaults>>

LookUpRefs(q) ==
  LET found == asker[q].found
      keep == Ascending({i \in DOMAIN found : found[i].at = "keep"})
  IN  /\ asker[q].step = "lookup" /\ \A i \in DOMAIN found : found[i].at # "wait"
      /\ asker' = [asker EXCEPT ![q].refs = [k \in DOMAIN keep |-> found[keep[k]].ref],
                                ![q].found = <<>>, ![q].step = "listed"]
      /\ UNCHANGED <<row, lib, libBytes, shelf, libFaults>>

\* A listing or a look-up that fails for any other reason fails the query:
\* the rest would pass for the whole collection.
RefsFail(q) ==
  /\ \/ asker[q].step = "list"
     \/ asker[q].step = "lookup" /\ \E i \in DOMAIN asker[q].found : asker[q].found[i].at = "wait"
  /\ libFaults < LibFaults /\ libFaults' = libFaults + 1
  /\ asker' = [asker EXCEPT ![q].step = "failed", ![q].found = <<>>, ![q].refs = <<>>]
  /\ UNCHANGED <<row, lib, libBytes, shelf>>

-----------------------------------------------------------------------------
(***************************************************************************)
(* CorpusLibrary.Docs, one worker per document.                            *)
(***************************************************************************)
Docs(q) ==
  /\ asker[q].step = "listed"
  /\ asker' = [asker EXCEPT ![q].step = "build"]
  /\ shelf' = [shelf EXCEPT ![q] = [i \in DOMAIN asker[q].refs |-> [at |-> "wait", toc |-> 0, pages |-> 0]]]
  /\ UNCHANGED <<row, lib, libBytes, libFaults>>

\* items: the place of a document's entry; the list without it.
Held(d) == {k \in DOMAIN lib : lib[k].id = d}
Place(d) == CHOOSE k \in Held(d) : TRUE
Without(d) == IF Held(d) = {} THEN lib ELSE RemoveAt(lib, Place(d))
Put(q, i, book) == shelf' = [shelf EXCEPT ![q][i] = book]

\* Mutant: an entry is taken by its id alone.
NeverOutdated(e, ref) == FALSE

Outdated(e, ref) == e.updated # ref.updated

\* An entry built before the last change of the document is dropped.
cached(q, i) ==
  LET ref == asker[q].refs[i]
      e == lib[Place(ref.id)]
  IN  /\ shelf[q][i].at = "wait"
      /\ Cardinality({j \in DOMAIN shelf[q] : shelf[q][j].at \in {"build", "store"}}) < LibBuilders
      /\ IF Held(ref.id) = {} THEN UNCHANGED <<lib, libBytes>> /\ Put(q, i, [shelf[q][i] EXCEPT !.at = "build"])
         ELSE IF Outdated(e, ref)
         THEN /\ lib' = Without(ref.id) /\ libBytes' = libBytes - e.size
              /\ Put(q, i, [shelf[q][i] EXCEPT !.at = "build"])
         ELSE /\ lib' = <<e>> \o Without(ref.id) /\ UNCHANGED libBytes
              /\ Put(q, i, [at |-> "done", toc |-> e.toc, pages |-> e.pages])
      /\ UNCHANGED <<row, asker, libFaults>>

\* The contents are the listed row's, the pages are read now.
libBuild(q, i) ==
  LET ref == asker[q].refs[i]
  IN  /\ shelf[q][i].at = "build"
      /\ Put(q, i, [at |-> "store", toc |-> ref.toc, pages |-> row[ref.id].pages])
      /\ UNCHANGED <<row, lib, libBytes, asker, libFaults>>

BuildFails(q, i) ==
  /\ shelf[q][i].at = "build" /\ libFaults < LibFaults
  /\ libFaults' = libFaults + 1
  /\ Put(q, i, [shelf[q][i] EXCEPT !.at = "failed"])
  /\ UNCHANGED <<row, lib, libBytes, asker>>

\* The bytes of the first k entries.
Bytes(entries) ==
  LET first[k \in 0..Len(entries)] == IF k = 0 THEN 0 ELSE first[k - 1] + entries[k].size
  IN  first

\* One larger than the library is not kept; while the count is above the
\* limit the others go, from the back.
store(q, i) ==
  LET ref == asker[q].refs[i]
      e == [id |-> ref.id, updated |-> ref.updated, toc |-> shelf[q][i].toc,
            pages |-> shelf[q][i].pages, size |-> LibSize[ref.id]]
      all == <<e>> \o Without(ref.id)
      held == libBytes - (IF Held(ref.id) = {} THEN 0 ELSE lib[Place(ref.id)].size) + e.size
      left(n) == held - (Bytes(all)[Len(all)] - Bytes(all)[n])
      kept == CHOOSE n \in 0..Len(all) :
                (n = 0 \/ left(n) <= LibLimit) /\ \A m \in (n + 1)..Len(all) : left(m) > LibLimit
  IN  /\ shelf[q][i].at = "store"
      /\ IF e.size > LibLimit THEN UNCHANGED <<lib, libBytes>>
         ELSE lib' = SubSeq(all, 1, kept) /\ libBytes' = left(kept)
      /\ Put(q, i, [shelf[q][i] EXCEPT !.at = "done"])
      /\ UNCHANGED <<row, asker, libFaults>>

-----------------------------------------------------------------------------
\* A new document is the newest.  A second delivery of its job may be under
\* way when the first makes it ready.
CreateDocument(d) == \E beside \in {<<>>, <<"pages">>} :
  /\ d \notin DOMAIN row /\ \A x \in DOMAIN row : x < d
  /\ row' = [x \in DOMAIN row \cup {d} |-> IF x = d THEN NewRow(beside) ELSE row[x]]
  /\ UNCHANGED <<lib, libBytes, asker, shelf, libFaults>>

\* Another delivery of the document's job, possibly beside one under way: the
\* status write moves updated_at.
Reingest(d) ==
  /\ Len(row[d].runs) <= LibIngests[d]
  /\ row' = [row EXCEPT ![d].updated = @ + 1, ![d].ready = FALSE, ![d].runs = Append(@, "pages")]
  /\ asker' = [q \in libAsked |-> [asker[q] EXCEPT !.steady = @ \ {d}]]
  /\ UNCHANGED <<lib, libBytes, shelf, libFaults>>

\* persistPages; when the store fails the earlier pages stay and the ingest
\* goes on.
RewritePages(d, g) == \E stored \in BOOLEAN :
  /\ row[d].runs[g] = "pages"
  /\ row' = [row EXCEPT ![d].runs[g] = "contents", ![d].pages = IF stored THEN g ELSE @]
  /\ UNCHANGED <<lib, libBytes, asker, shelf, libFaults>>

\* runTOCBuilder; a build that fails or finds nothing leaves the earlier
\* contents, and the ingest goes on.
RewriteContents(d, g) == \E built \in BOOLEAN :
  /\ row[d].runs[g] = "contents"
  /\ row' = [row EXCEPT ![d].runs[g] = "ready", ![d].toc = IF built THEN g ELSE @,
                        ![d].updated = IF built THEN @ + 1 ELSE @]
  /\ UNCHANGED <<lib, libBytes, asker, shelf, libFaults>>

\* The last status write.
ReadyAgain(d, g) ==
  /\ row[d].runs[g] = "ready"
  /\ row' = [row EXCEPT ![d].runs[g] = "done", ![d].ready = TRUE, ![d].updated = @ + 1]
  /\ UNCHANGED <<lib, libBytes, asker, shelf, libFaults>>

LibStep ==
  \E q \in libAsked :
    \/ refs(q) \/ ListDocuments(q) \/ LookUpRefs(q) \/ RefsFail(q) \/ Docs(q)
    \/ \E i \in DOMAIN asker[q].found : LookUpRef(q, i)
    \/ \E i \in DOMAIN shelf[q] : cached(q, i) \/ libBuild(q, i) \/ BuildFails(q, i) \/ store(q, i)
LibChange == \E d \in DOMAIN row :
  \/ Reingest(d)
  \/ \E g \in DOMAIN row[d].runs : RewritePages(d, g) \/ RewriteContents(d, g) \/ ReadyAgain(d, g)
LibNext == LibStep \/ LibChange \/ \E d \in LibDocs : CreateDocument(d)

LibEnded == \A q \in libAsked :
  \/ asker[q].step = "failed"
  \/ asker[q].step = "build" /\ \A i \in DOMAIN shelf[q] : shelf[q][i].at \in {"done", "failed"}

-----------------------------------------------------------------------------
\* What a document's ingest has stored, as far as updated_at tells: the
\* contents of the row, and its pages unless a delivery still under way has
\* replaced those since.
Current(d, updated, book) ==
  row[d].updated = updated =>
    /\ row[d].ready /\ book.toc = row[d].toc
    /\ book.pages = row[d].pages \/ row[d].runs[row[d].pages] # "done"

\* A document is served, and kept for later queries, with the pages and the
\* contents it has, whatever was built before, beside or across its ingests:
\* what is held under the updated_at the row still has is what the row and the
\* store have (CorpusLibrary.cached, store).  The two may be of different
\* ingests, as the ingest itself leaves them (runTOCBuilder).
LibraryServesCurrent ==
  /\ \A q \in libAsked : \A i \in DOMAIN shelf[q] :
       shelf[q][i].at = "done" => Current(asker[q].refs[i].id, asker[q].refs[i].updated, shelf[q][i])
  /\ \A k \in DOMAIN lib : Current(lib[k].id, lib[k].updated, lib[k])

\* The library holds each document once, counts exactly the bytes it holds
\* and stays within its limit, whoever stores or drops entries meanwhile.
LibraryWithinLimit ==
  /\ libBytes = Bytes(lib)[Len(lib)] /\ libBytes <= LibLimit
  /\ \A j, k \in DOMAIN lib : lib[j].id = lib[k].id => j = k

\* A listing that ends holds every document that was ready throughout, and
\* each one once unless it was named twice, though documents were created and
\* changed between its pages.
ListingIsComplete ==
  \A q \in libAsked : asker[q].step \in {"listed", "build"} =>
    /\ asker[q].steady \subseteq {asker[q].refs[k].id : k \in DOMAIN asker[q].refs}
    /\ LibQueries[q] = <<>> => \A j, k \in DOMAIN asker[q].refs : asker[q].refs[j].id = asker[q].refs[k].id => j = k

\* What a corpus query reads of the collection: every document that stayed
\* ready, with the pages and contents it has, out of a library within its
\* bytes.
LibrarySound == LibraryServesCurrent /\ LibraryWithinLimit /\ ListingIsComplete
=============================================================================
