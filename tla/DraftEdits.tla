------------------------------ MODULE DraftEdits ------------------------------
(***************************************************************************)
(* The typed edits of a saved draft: apply_draft_edits.  A request names   *)
(* nodes of the body by their index, every edit becomes a patch of lines   *)
(* of the body as it was sent, and the patches are applied from the last   *)
(* to the first; then the media that the draft lists are derived again and *)
(* the result is validated.  A line is blank, a paragraph or heading, or a *)
(* directive, whose lines from fence to fence stay together.               *)
(***************************************************************************)
EXTENDS Naturals, Sequences, FiniteSets, SequencesExt

CONSTANTS Image,      \* media, all of them images
          Ready,      \* those that are ready in the workspace
          Words,      \* texts and captions
          Bodies,     \* bodies of a first draft
          NoCover,
          MaxEdits,   \* bound: edits of one request
          MaxChanges  \* bound: edits of all requests

VARIABLES
  doc,      \* the draft: body, cover, and the media it lists, with their descriptions
  before,   \* the draft that the last request was about
  asked,    \* its edits
  changes,  \* edits so far
  glued     \* history: a directive was replaced by text

editVars == <<doc, before, asked, changes, glued>>

-----------------------------------------------------------------------------
(* Bodies                                                                  *)

Blank         == [name |-> "blank", words |-> "", media |-> <<>>]
Paragraph(w)  == [name |-> "text", words |-> w, media |-> <<>>]
Shown(m)      == [name |-> "image", words |-> "", media |-> <<m>>]
IsText(l)      == l.name = "text"
IsDirective(l) == l.name \notin {"blank", "text"}

Images(l) == {l.media[k] : k \in DOMAIN l.media}

\* str.splitlines has no line after the last line end, str.split has.
Split(body) == IF body # <<>> /\ Last(body) = Blank THEN Front(body) ELSE body

\* _parse_markdown: the nodes, by their first and last line.  What is between two
\* directives is one node, blank lines included, unless there are only those.
Nodes(body) ==
  LET lines == Split(body)
      marks == {k \in DOMAIN lines : IsDirective(lines[k])}
      ends  == marks \cup {Len(lines) + 1}
      runs  == {<<k + 1, Min({j \in ends : j > k}) - 1>> : k \in marks \cup {0}}
      texts == {r \in runs : \E k \in r[1]..r[2] : IsText(lines[k])}
      nodes == texts \cup {<<k, k>> : k \in marks}
  IN [n \in 1..Cardinality(nodes) |->
        CHOOSE r \in nodes : Cardinality({q \in nodes : q[1] < r[1]}) = n - 1]

Referenced(body) == UNION {Images(body[k]) : k \in DOMAIN body}

\* _validate_section_structure: a section is followed by its heading.
SectionsHaveHeadings(body) ==
  LET nodes == Nodes(body) IN
  \A n \in DOMAIN nodes : body[nodes[n][1]].name = "section" =>
    /\ n + 1 \in DOMAIN nodes
    /\ LET lines == SelectSeq(SubSeq(body, nodes[n + 1][1], nodes[n + 1][2]),
                              LAMBDA l : l # Blank)
       IN lines[1] = Paragraph("heading")

\* _validate_directive_media: no image is used twice,
UsedOnce(body) ==
  /\ \A j, k \in DOMAIN body : j # k => Images(body[j]) \cap Images(body[k]) = {}
  /\ \A k \in DOMAIN body : IsInjective(body[k].media)

\* and saving refuses a body with nothing in it.
Valid(body) == SectionsHaveHeadings(body) /\ UsedOnce(body) /\ Nodes(body) # <<>>

-----------------------------------------------------------------------------
(* Edits                                                                   *)

Edit(type, at, item, lines, media) ==
  [type |-> type, at |-> at, item |-> item, lines |-> lines, media |-> media]

InBody == {"replace", "delete", "insert", "caption", "media", "item", "occurrence", "first"}

\* The first node that shows an image, for removeMediaFromBody.
Occurrence(body, m) ==
  LET nodes == Nodes(body)
      found == {n \in DOMAIN nodes : m \in Images(body[nodes[n][1]])}
  IN IF found = {} THEN 0 ELSE Min(found)

At(body, e) == IF e.type = "first" THEN Occurrence(body, e.media) ELSE e.at

Line(body, e) == body[Nodes(body)[At(body, e)][1]]

\* What an edit refers to exists.
Applies(body, e) ==
  /\ At(body, e) \in 1..(Len(Nodes(body)) + IF e.type = "insert" THEN 1 ELSE 0)
  /\ e.type \in {"caption", "media", "item", "occurrence"} => IsDirective(Line(body, e))
  /\ e.type = "caption" => Line(body, e).words # ""
  /\ e.type = "media" => e.item \in DOMAIN Line(body, e).media
  /\ e.type = "item" => Line(body, e).name = "gallery" /\ e.item \in DOMAIN Line(body, e).media
  /\ e.type = "occurrence" => e.media \in Images(Line(body, e))

\* A directive that loses an image: a gallery of one is an image, and a person
\* stays.
Less(l, rest) ==
  CASE l.name = "person" -> <<[l EXCEPT !.media = rest]>>
    [] l.name # "person" /\ rest = <<>> -> <<>>
    [] l.name # "person" /\ Len(rest) = 1 -> <<[l EXCEPT !.name = "image", !.media = rest]>>
    [] OTHER -> <<[l EXCEPT !.media = rest]>>

\* _compile_body_patch: the lines in place of a node.  The draft is valid, so it shows
\* an image once.
Instead(body, e) ==
  LET l == Line(body, e) IN
  CASE e.type = "replace" -> e.lines
    [] e.type = "delete"  -> <<>>
    [] e.type = "caption" -> <<[l EXCEPT !.words = ""]>>
    [] e.type = "media"   -> <<[l EXCEPT !.media[e.item] = e.media]>>
    [] e.type = "item"    -> Less(l, RemoveAt(l.media, e.item))
    [] OTHER              -> Less(l, RemoveFirst(l.media, e.media))

\* Mutant: a paragraph goes with the blank line after it.
NodeRangeAll(body, n) == [start |-> Nodes(body)[n][1] - 1, end |-> Nodes(body)[n][2]]

\* _node_range, from start to before end, counted from 0.  The source of a node
\* loses its last line when that is blank.
NodeRange(body, n) ==
  LET node == Nodes(body)[n] IN
  [start |-> node[1] - 1, end |-> IF body[node[2]] = Blank THEN node[2] - 1 ELSE node[2]]

Patch(range, with) == [start |-> range.start, end |-> range.end, with |-> with]

\* _insert_lines: before a node, or after all lines.
InsertLines(body, e) ==
  IF e.at <= Len(Nodes(body))
    THEN LET start == NodeRange(body, e.at).start IN
         Patch([start |-> start, end |-> start], Append(e.lines, Blank))
    ELSE Patch([start |-> Len(body), end |-> Len(body)],
               (IF Last(body) = Blank THEN <<>> ELSE <<Blank>>) \o e.lines)

PatchOf(body, e) ==
  IF e.type = "insert" THEN InsertLines(body, e)
                       ELSE Patch(NodeRange(body, At(body, e)), Instead(body, e))

Before(p, q) == p.start < q.start \/ (p.start = q.start /\ p.end <= q.end)

\* Mutant: nothing is refused.
OverlapNever(p, q) == FALSE

Overlap(p, q) ==
  q.start < p.end \/ (q.start = p.start /\ (q.start = q.end \/ p.start = p.end))

\* The patches of a request, in the order of their lines.  Two of the same lines
\* overlap, so in which order they come makes no difference.
Ordered(body, es) ==
  LET edits == {k \in DOMAIN es : es[k].type \in InBody}
      order == CHOOSE f \in [1..Cardinality(edits) -> edits] :
                 /\ IsInjective(f)
                 /\ \A k \in 1..(Cardinality(edits) - 1) :
                      Before(PatchOf(body, es[f[k]]), PatchOf(body, es[f[k + 1]]))
  IN [k \in DOMAIN order |-> PatchOf(body, es[order[k]])]

Replaced(lines, p) ==
  SubSeq(lines, 1, p.start) \o p.with \o SubSeq(lines, p.end + 1, Len(lines))

\* _apply_patches: the last patch first, so that the lines before it keep their
\* numbers.
Applied(body, patches) ==
  LET after[k \in 0..Len(patches)] ==
        IF k = 0 THEN body ELSE Replaced(after[k - 1], patches[Len(patches) + 1 - k])
  IN after[Len(patches)]

-----------------------------------------------------------------------------
(* Requests                                                                *)

CoverAfter(cover, e) ==
  CASE e.type = "cover" -> e.media [] e.type = "nocover" -> NoCover [] OTHER -> cover

\* The last of them counts.
Cover(cover, es) ==
  LET after[k \in 0..Len(es)] == IF k = 0 THEN cover ELSE CoverAfter(after[k - 1], es[k])
  IN after[Len(es)]

Described(es) == {es[k].media : k \in {j \in DOMAIN es : es[j].type = "describe"}}

Used(body, cover) == Referenced(body) \cup ({cover} \ {NoCover})

\* Mutant: an image that the draft lists is described anew.
KeptNever(d, m) == FALSE

Kept(d, m) == m \in DOMAIN d.media

\* _rebuild_media
Media(d, body, cover, es) ==
  [m \in Used(body, cover) |->
     CASE m \in Described(es) -> "edited"
       [] m \notin Described(es) /\ Kept(d, m) -> d.media[m]
       [] OTHER -> "workspace"]

\* apply_draft_edits, of edits whose patches leave these lines.
Possible(d, es, patches, after) ==
  LET cover == Cover(d.cover, es)
  IN /\ \A k \in 1..(Len(patches) - 1) : ~Overlap(patches[k], patches[k + 1])
     /\ Valid(after)
     /\ Used(after, cover) \subseteq Ready \cup DOMAIN d.media
     /\ Described(es) \subseteq Used(after, cover)

Result(d, es, after) ==
  LET cover == Cover(d.cover, es)
  IN [body |-> after, cover |-> cover, media |-> Media(d, after, cover, es)]

\* Texts that are put in; a source may have several paragraphs.
Sources == {<<Paragraph("new")>>, <<Paragraph("heading"), Blank, Paragraph("more")>>}

Edits(d) ==
  LET n == Len(Nodes(d.body)) IN
       {Edit("replace", k, 0, s, NoCover) : k \in 1..n, s \in Sources}
  \cup {Edit("insert", k, 0, s, NoCover) : k \in 1..(n + 1),
                                           s \in Sources \cup {<<Shown(m)>> : m \in Image}}
  \cup {Edit(type, k, 0, <<>>, NoCover) : type \in {"delete", "caption"}, k \in 1..n}
  \cup {Edit("media", k, i, <<>>, m) : k \in 1..n, i \in {1, 2}, m \in Image}
  \cup {Edit("item", k, i, <<>>, NoCover) : k \in 1..n, i \in {1, 2}}
  \cup {Edit("occurrence", k, 0, <<>>, m) : k \in 1..n, m \in Image}
  \cup {Edit(type, 0, 0, <<>>, m) : type \in {"first", "cover", "describe"}, m \in Image}
  \cup {Edit("nocover", 0, 0, <<>>, NoCover)}

\* The edits that would be carried out on their own: a request with another is
\* refused.
Compiled(d) == {e \in Edits(d) : e.type \in InBody => Applies(d.body, e)}

\* A directive becomes text.
Glues(body, e) == e.type = "replace" /\ IsDirective(Line(body, e))

\* Lines of a body.
Lines == [name : {"blank", "text", "image", "gallery", "person", "section"},
          words : Words \cup {"", "heading", "new", "more"}, media : Seq(Image)]

\* What the proofs assume: the first drafts are valid and consist of such lines, of
\* which only directives show media; a text has a blank line after it; and no image is
\* the absence of a cover.
Setting ==
  /\ MaxEdits \in Nat /\ MaxChanges \in Nat /\ NoCover \notin Image /\ Ready \subseteq Image
  /\ \A b \in Bodies :
       /\ b \in Seq(Lines) /\ Valid(b)
       /\ \A k \in DOMAIN b :
            /\ b[k].name = "blank" => b[k] = Blank
            /\ IsText(b[k]) => b[k].media = <<>> /\ (k = Len(b) \/ b[k + 1] = Blank)

FirstDraft(body, cover) ==
  [body |-> body, cover |-> cover, media |-> [m \in Used(body, cover) |-> "first"]]

EditsInit ==
  /\ doc \in {FirstDraft(b, NoCover) : b \in Bodies}
  /\ before = doc /\ asked = <<>> /\ changes = 0 /\ glued = FALSE

\* A request that is refused changes nothing.
ApplyEdits(es) ==
  /\ changes + Len(es) <= MaxChanges /\ changes' = changes + Len(es)
  /\ \E patches \in {Ordered(doc.body, es)} : \E after \in {Applied(doc.body, patches)} :
       Possible(doc, es, patches, after) /\ doc' = Result(doc, es, after)
  /\ before' = doc /\ asked' = es
  /\ glued' = (glued \/ \E k \in DOMAIN es : Glues(doc.body, es[k]))

EditsNext ==
  \E n \in 1..MaxEdits :
    changes + n <= MaxChanges /\ \E es \in [1..n -> Compiled(doc)] : ApplyEdits(es)

EditsSpec == EditsInit /\ [][EditsNext]_editVars

-----------------------------------------------------------------------------
(* Properties                                                              *)

EditsTypeOK ==
  /\ \A k \in DOMAIN doc.body : doc.body[k] \in Lines
  /\ doc.cover \in Image \cup {NoCover}
  /\ DOMAIN doc.media \subseteq Image
  /\ changes \in 0..MaxChanges /\ glued \in BOOLEAN

\* What a body shows, without the blank lines.
Content(lines) ==
  LET kept[k \in 0..Len(lines)] ==
        IF k = 0 THEN <<>>
        ELSE IF lines[k] = Blank THEN kept[k - 1] ELSE Append(kept[k - 1], lines[k])
  IN kept[Len(lines)]

\* The edits of a request that change a node, and those that put something before it.
Changing(body, es, n) ==
  {k \in DOMAIN es : es[k].type \in InBody \ {"insert"} /\ At(body, es[k]) = n}
Adding(es, n) == {k \in DOMAIN es : es[k].type = "insert" /\ es[k].at = n}

\* What they make of it; what comes after all nodes is no node.
Added(es, n) ==
  IF Adding(es, n) = {} THEN <<>> ELSE es[CHOOSE k \in Adding(es, n) : TRUE].lines
Changed(body, es, n) ==
  IF Changing(body, es, n) # {} THEN Instead(body, es[CHOOSE k \in Changing(body, es, n) : TRUE])
  ELSE IF n \in DOMAIN Nodes(body) THEN SubSeq(body, Nodes(body)[n][1], Nodes(body)[n][2])
  ELSE <<>>

Meant(body, es) ==
  LET upto[n \in 0..(Len(Nodes(body)) + 1)] ==
        IF n = 0 THEN <<>>
        ELSE upto[n - 1] \o (Content(Added(es, n)) \o Content(Changed(body, es, n)))
  IN upto[Len(Nodes(body)) + 1]

\* The request as its author means it: every edit changes the node that has its
\* index in the draft as it was sent, or comes before it, whatever the other edits
\* do to the numbers of lines and nodes, and no two edits are about the same.
EditsAreExact ==
  asked # <<>> =>
    /\ Content(doc.body) = Meant(before.body, asked)
    /\ \A n \in 1..(Len(Nodes(before.body)) + 1) :
         /\ \A j, k \in Changing(before.body, asked, n) : j = k
         /\ \A j, k \in Adding(asked, n) : j = k

\* Paragraphs stay apart through any number of requests, as long as no directive
\* was replaced by text.
ParagraphsStayApart ==
  glued \/ \A k \in 1..(Len(doc.body) - 1) : ~(IsText(doc.body[k]) /\ IsText(doc.body[k + 1]))

\* The draft lists what it shows, neither less nor more, and an image that stays in
\* the draft keeps its description.
MediaFollow ==
  /\ DOMAIN doc.media = Used(doc.body, doc.cover)
  /\ \A m \in DOMAIN doc.media \cap DOMAIN before.media :
       asked # <<>> /\ doc.media[m] # before.media[m] =>
         \E k \in DOMAIN asked : asked[k].type = "describe" /\ asked[k].media = m

\* "Neither operation clears the cover": and an image leaves the body only by an edit
\* of the node that showed it.
OnlyWhatWasAsked ==
  /\ doc.cover # before.cover => \E k \in DOMAIN asked : asked[k].type \in {"cover", "nocover"}
  /\ \A m \in Referenced(before.body) \ Referenced(doc.body) :
       \E k \in DOMAIN asked : /\ asked[k].type \in InBody \ {"insert", "caption"}
                               /\ m \in Images(Line(before.body, asked[k]))

\* An article's edits change what they name and nothing else.
EditsApply == EditsAreExact /\ ParagraphsStayApart /\ MediaFollow /\ OnlyWhatWasAsked
=============================================================================
