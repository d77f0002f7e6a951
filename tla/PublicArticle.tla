---------------------------- MODULE PublicArticle ----------------------------
(***************************************************************************)
(* What the readers of a workspace's public article are promised: it is    *)
(* either hidden or shows one saved draft, whole, under a revision newer   *)
(* than every revision shown before.                                       *)
(***************************************************************************)
EXTENDS Naturals

CONSTANTS
  Document,  \* Document[d]: content of the d-th saved draft
  None

VARIABLES
  shown,     \* the revision on show, or None
  history    \* all revisions ever shown

Drafts == DOMAIN Document

Older(p, q) ==
  p.shell < q.shell \/ (p.shell = q.shell /\ p.revision < q.revision)

Init ==
  /\ shown = None
  /\ history = {}

Hide ==
  /\ shown # None
  /\ shown' = None
  /\ UNCHANGED history

Publish ==
  \E d \in Drafts :
    LET next == shown' IN
    /\ next # None
    /\ next.draft = d /\ next.bundle = Document[d]
    /\ \A p \in history : Older(p, next)
    /\ history' = history \cup {next}

Next == Hide \/ Publish

Spec == Init /\ [][Next]_<<shown, history>>
=============================================================================
