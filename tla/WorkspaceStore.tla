--------------------------- MODULE WorkspaceStore ---------------------------
(***************************************************************************)
(* What the files of a WxPost workspace promise to whoever reads them: one *)
(* atomic record of materials and draft.  A save replaces the draft, a     *)
(* change of the materials leaves the draft alone and keeps what it shows. *)
(***************************************************************************)
EXTENDS Naturals

CONSTANTS
  Origins,   \* where a material can come from
  Anonymous, \* the origins that do not identify a material
  None

VARIABLE store  \* [version, next, sources, draft]

Ready(sources) == {id \in DOMAIN sources : sources[id].ready}

\* Identifiers are taken in order, a known origin is registered once, only
\* what is ready is included, and the draft shows ready materials only.
Consistent(s) ==
  /\ \A id \in DOMAIN s.sources :
       /\ id < s.next
       /\ s.sources[id].origin \in Origins
       /\ s.sources[id].included => s.sources[id].ready
  /\ \A i, j \in DOMAIN s.sources :
       s.sources[i].origin = s.sources[j].origin =>
         i = j \/ s.sources[i].origin \in Anonymous
  /\ s.draft # None => s.draft.doc.media \subseteq Ready(s.sources)

Init ==
  /\ Consistent(store)
  /\ store.version = 1
  /\ store.draft = None

DraftVersion(s) == IF s.draft = None THEN 0 ELSE s.draft.version

SaveDraft ==
  /\ store'.draft # None
  /\ store'.draft.version = DraftVersion(store) + 1
  /\ \E draft \in {store'.draft} : store' = [store EXCEPT !.draft = draft]
  /\ Consistent(store')

\* An identifier out of use never comes back, and a material keeps its origin.
ChangeMaterials ==
  /\ store'.version = store.version + 1
  /\ store'.draft = store.draft
  /\ store'.next >= store.next
  /\ \A id \in DOMAIN store'.sources :
       IF id \in DOMAIN store.sources
       THEN store'.sources[id].origin = store.sources[id].origin
       ELSE id >= store.next
  /\ Consistent(store')

Next == SaveDraft \/ ChangeMaterials

Spec == Init /\ [][Next]_store
=============================================================================
