----------------------------- MODULE DerivedIndex -----------------------------
(***************************************************************************)
(* What `weave index` derives beside the code graph: Markdown notes, their *)
(* topics, sections and links (crates/weave-graph-cli/src/docs.rs), the    *)
(* full-text rows (crates/weave-graph-store-sqlite/src/fts.rs) and the     *)
(* embedding rows (vector.rs), over the rows of nodes they belong to; and  *)
(* the snapshot `weave sync push` takes of them (cli/src/sync.rs).         *)
(*                                                                         *)
(* An index pass works on a staged file and is one step here: Reindex has  *)
(* its inside, and the calls between symbols.  Row ids are SQLite's: one   *)
(* above the highest in use, so that an id may come back.                  *)
(***************************************************************************)
EXTENDS Naturals, Sequences, FiniteSets

CONSTANTS CodeFiles,    \* path -> its possible contents: symbol -> text
          NoteFiles,    \* path -> its possible contents: ParsedMarkdown, [there, tags, links, headings, refs]
          ShortOf,      \* symbol -> its last segment
          StemOf, DirOf,
          Lower,        \* heading or section -> in lower case
          MaxEdits

VARIABLES codeFiles, noteFiles,   \* the working tree
          db,          \* graph.db: [shape (of symbol_fts), nodes, edges, fts, vec]
          changed,     \* paths changed since the last pass
          exclude,     \* vector.exclude
          once,        \* paths that were ever excluded
          opening,     \* where ensure_fts_table is
          lost,        \* which full-text columns it has lost: of a kept database
          shipped,     \* the embedding rows of the pushed snapshot: paths they describe
          edits
derivedVars == <<codeFiles, noteFiles, db, changed, exclude, once, opening, lost, shipped, edits>>

Files == DOMAIN CodeFiles \cup DOMAIN NoteFiles
TopicPath == ""
NoNote == [there |-> FALSE, tags |-> {}, links |-> {}, headings |-> {}, refs |-> {}]
EmptyDb == [shape |-> "new", nodes |-> {}, edges |-> {}, fts |-> {}, vec |-> {}]

Ids(rows) == {r.id : r \in rows}
Without(rows, ids) == {r \in rows : r.id \notin ids}
Replace(rows, new) == Without(rows, Ids(new)) \cup new

\* The working tree has finitely many files, each of finite contents.
ASSUME DerivedAssumption ==
    /\ IsFiniteSet(DOMAIN CodeFiles) /\ IsFiniteSet(DOMAIN NoteFiles)
    /\ \A p \in DOMAIN CodeFiles : \A c \in CodeFiles[p] : IsFiniteSet(DOMAIN c)
    /\ \A p \in DOMAIN NoteFiles : \A c \in NoteFiles[p] : IsFiniteSet(c.tags) /\ IsFiniteSet(c.links)

-----------------------------------------------------------------------------
(* Rows of nodes, and the full-text row that goes with each.               *)

Symbol(n) == <<n.name, n.section>>
TextRow(n, body) == [id |-> n.id, name |-> Symbol(n), body |-> body]

\* The text of a node's span: notes and topics have none, and stand for their name.
Chunk(n) == <<Symbol(n), n.text>>

\* New rows are numbered one by one from the highest id in use.
Top(rows) == CHOOSE i \in Ids(rows) \cup {0} : \A j \in Ids(rows) : j <= i
Numbers(rows) == CHOOSE f \in [rows -> 1..Cardinality(rows)] : \A x, y \in rows : f[x] = f[y] => x = y

\* upsert_nodes and upsert_node: a row with the same path, symbol and kind is
\* reused when its signature or its line is; replace_row follows.
Upsert(d, batch, reuse) ==
    LET Old(x) == {n \in d.nodes : n.path = x.path /\ Symbol(n) = Symbol(x) /\ n.kind = x.kind /\ (reuse \/ n.text = x.text)}
        hit == UNION {{[x EXCEPT !.id = n.id] : n \in Old(x)} : x \in batch}
        missed == {x \in batch : Old(x) = {}}
        number == Numbers(missed)
        new == hit \cup {[x EXCEPT !.id = Top(d.nodes) + number[x]] : x \in missed}
    IN [d EXCEPT !.nodes = Replace(@, new), !.fts = Replace(@, {TextRow(n, <<>>) : n \in new})]

\* purge_file_nodes_except and purge_orphaned_nodes_by_kind.
Purge(d, nodes) == [d EXCEPT !.nodes = @ \ nodes, !.fts = Without(@, Ids(nodes))]

\* update_vector_index and rebuild_vector_index, over the nodes of some paths.
EmbedRows(d, paths) ==
    [d EXCEPT !.vec = Replace(@, {[id |-> n.id, chunk |-> Chunk(n)] : n \in {m \in d.nodes : m.path \in paths \ exclude}})]

\* update_fts_text and rebuild_fts_text, for rows that exist.
FillText(d, paths) ==
    [d EXCEPT !.fts = Replace(@, {TextRow(n, Chunk(n)) :
                                    n \in {m \in d.nodes : m.path \in paths \ exclude /\ m.id \in Ids(d.fts)}})]

\* purge_vector_paths, by the paths of the nodes there are.
PurgeVectors(d, paths) == [d EXCEPT !.vec = Without(@, Ids({n \in d.nodes : n.path \in paths}))]

-----------------------------------------------------------------------------
(* Markdown.                                                               *)

Node(p, name, kind, text) == [id |-> 0, path |-> p, name |-> name, section |-> "", kind |-> kind, text |-> text]
Edge(from, to, kind) == [from |-> from.id, to |-> to.id, kind |-> kind]
CodeNodes(paths) ==
    UNION {{Node(p, s, "code", codeFiles[p][s]) : s \in DOMAIN codeFiles[p]} : p \in paths \cap DOMAIN codeFiles}
NotesIn(paths) == {p \in paths \cap DOMAIN noteFiles : noteFiles[p].there}

\* upsert_doc_nodes: a note for each file, a topic for each tag and alias.
UpsertDocNodes(d, paths) ==
    Upsert(d, {Node(p, StemOf[p], "doc_note", 0) : p \in NotesIn(paths)} \cup
              UNION {{Node(TopicPath, t, "doc_topic", 0) : t \in noteFiles[p].tags} : p \in NotesIn(paths)}, TRUE)

\* resolve_code_ref and disambiguate.
ResolveCodeRef(d, ref, dir) ==
    LET code == {n \in d.nodes : n.kind = "code"}
        full == {n \in code : n.name = ref}
        found == IF full # {} THEN full ELSE {n \in code : ShortOf[n.name] = ShortOf[ref]}
        near == {n \in found : DirOf[n.path] = dir}
    IN IF Cardinality(near) = 1 THEN near ELSE found

\* section_target: a section exists when a heading of the note has its name.
HasHeading(p, section) == \E h \in noteFiles[p].headings : Lower[h] = Lower[section]
Section(p, section) == [Node(p, StemOf[p], "doc_section", 0) EXCEPT !.section = section]

\* The links from note to note, by title, and those of them that end at a section.
DocNotes(d) == {n \in d.nodes : n.kind = "doc_note" /\ n.path \in NotesIn(Files)}
DocLinks(d) ==
    LET Pointing(n) == {x \in noteFiles[n.path].links \X (DocNotes(d) \ {n}) : x[2].name = x[1].target}
    IN UNION {{[from |-> n, to |-> x[2], section |-> x[1].section] : x \in Pointing(n)} : n \in DocNotes(d)}
Narrow(links) == {l \in links : l.section # "" /\ HasHeading(l.to.path, l.section)}
Sections(links) == {Section(l.to.path, l.section) : l \in Narrow(links)}

\* upsert_doc_edges, over every note.
UpsertDocEdges(d) ==
    LET notes == DocNotes(d)
        links == DocLinks(d)
        narrow == Narrow(links)
        e == Upsert(d, Sections(links), TRUE)
        Target(l) == IF l \in narrow
                     THEN CHOOSE n \in e.nodes : [n EXCEPT !.id = 0] = Section(l.to.path, l.section) ELSE l.to
        Tags(n) == {t \in e.nodes : t.kind = "doc_topic" /\ t.name \in noteFiles[n.path].tags}
        Refs(n) == UNION {ResolveCodeRef(e, r, DirOf[n.path]) : r \in noteFiles[n.path].refs}
    IN [e EXCEPT !.edges = @ \cup {Edge(l.from, Target(l), "LINKS_TO") : l \in links}
                             \cup UNION {{Edge(n, t, "TAGGED") : t \in Tags(n)} : n \in notes}
                             \cup UNION {{Edge(n, t, "EXPLAINS_RATIONALE") : t \in Refs(n)} : n \in notes}]

\* Mutant form: the full-text rows of swept topics stay.
SweepTopicsOnly(d) == [d EXCEPT !.nodes = {n \in @ : n.kind # "doc_topic" \/ \E e \in d.edges : e.to = n.id}]

\* gc_orphaned_doc_topics.
SweepTopics(d) == Purge(d, {n \in d.nodes : n.kind = "doc_topic" /\ \A e \in d.edges : e.to # n.id})

-----------------------------------------------------------------------------
(* Passes.                                                                 *)

\* full_reindex.
FullPass ==
    LET d == SweepTopics(UpsertDocEdges(UpsertDocNodes(Upsert(EmptyDb, CodeNodes(Files), FALSE), Files)))
    IN FillText(EmbedRows(d, Files \cup {TopicPath}), Files \cup {TopicPath})

\* incremental_reindex.  The code nodes whose row moved are inserted before the old go.
IncrementalPass(reuse) ==
    LET touched == Ids({n \in db.nodes : n.path \in changed})
        d1 == PurgeVectors([db EXCEPT !.edges = {e \in @ : e.from \notin touched /\ e.to \notin touched}], changed)
        d2 == Upsert(d1, CodeNodes(changed), reuse)
        d3 == Purge(d2, {n \in d2.nodes : n.path \in changed /\ [n EXCEPT !.id = 0] \notin CodeNodes(changed)})
        d4 == FillText(EmbedRows(d3, changed), changed)
    IN SweepTopics(UpsertDocEdges(UpsertDocNodes(d4, changed)))

\* A pass is made, by the path IndexLifecycle chooses, the first one perhaps by an
\* older binary; every edit is behind it.
Index ==
    /\ opening = "no" /\ changed # {}
    /\ \/ db' = FullPass /\ lost' = {}
       \/ db.shape = "absent" /\ db' = [FullPass EXCEPT !.shape = "old"] /\ UNCHANGED lost
       \/ db.shape = "new" /\ UNCHANGED lost /\ \E reuse \in BOOLEAN : db' = IncrementalPass(reuse)
    /\ changed' = {}
    /\ UNCHANGED <<codeFiles, noteFiles, exclude, once, opening, shipped, edits>>

-----------------------------------------------------------------------------
(* Opening a database an older binary wrote (ensure_fts_table).            *)

\* Each statement commits by itself.
OpenDrop ==
    /\ opening = "no" /\ db.shape = "old"
    /\ db' = [db EXCEPT !.shape = "none", !.fts = {}]
    /\ opening' = "create"
    /\ UNCHANGED <<codeFiles, noteFiles, changed, exclude, once, lost, shipped, edits>>
OpenCreate ==
    /\ opening = "create"
    /\ db' = [db EXCEPT !.shape = "new"]
    /\ opening' = "fill"
    /\ UNCHANGED <<codeFiles, noteFiles, changed, exclude, once, lost, shipped, edits>>

\* rebuild, from nodes: the text of the bodies is not among them.
OpenFill ==
    /\ opening = "fill"
    /\ db' = [db EXCEPT !.fts = {TextRow(n, <<>>) : n \in db.nodes}]
    /\ lost' = lost \cup {"bodies"}
    /\ opening' = "no"
    /\ UNCHANGED <<codeFiles, noteFiles, changed, exclude, once, shipped, edits>>
OpenDies ==
    /\ opening # "no"
    /\ opening' = "no" /\ lost' = {"names", "bodies"}
    /\ UNCHANGED <<codeFiles, noteFiles, db, changed, exclude, once, shipped, edits>>

\* A table that is missing is made, and left empty.
OpenMissing ==
    /\ opening = "no" /\ db.shape = "none"
    /\ db' = [db EXCEPT !.shape = "new"]
    /\ UNCHANGED <<codeFiles, noteFiles, changed, exclude, once, opening, lost, shipped, edits>>

-----------------------------------------------------------------------------
(* The rest of the world.                                                  *)

Edit ==
    /\ edits < MaxEdits /\ edits' = edits + 1
    /\ \/ \E p \in DOMAIN CodeFiles : \E c \in CodeFiles[p] \ {codeFiles[p]} :
            codeFiles' = [codeFiles EXCEPT ![p] = c] /\ changed' = changed \cup {p} /\ UNCHANGED noteFiles
       \/ \E p \in DOMAIN NoteFiles : \E c \in NoteFiles[p] \ {noteFiles[p]} :
            noteFiles' = [noteFiles EXCEPT ![p] = c] /\ changed' = changed \cup {p} /\ UNCHANGED codeFiles
    /\ UNCHANGED <<db, exclude, once, opening, lost, shipped>>

\* vector.exclude is edited.
SetExclude(paths) ==
    /\ edits < MaxEdits /\ edits' = edits + 1
    /\ exclude' = paths /\ once' = once \cup paths
    /\ UNCHANGED <<codeFiles, noteFiles, db, changed, opening, lost, shipped>>

\* snapshot_for_push: the copy is purged of what is excluded now.
SnapshotForPush ==
    LET copy == IF exclude = {} THEN db ELSE PurgeVectors(db, exclude)
    IN /\ opening = "no" /\ db.shape = "new"
       /\ shipped' = [paths |-> {n.path : n \in {m \in copy.nodes : m.id \in Ids(copy.vec)}}, excluded |-> exclude]
       /\ UNCHANGED <<codeFiles, noteFiles, db, changed, exclude, once, opening, lost, edits>>

\* There is no index yet.
DerivedInit ==
    /\ codeFiles \in [DOMAIN CodeFiles -> UNION {CodeFiles[p] : p \in DOMAIN CodeFiles}]
    /\ \A p \in DOMAIN CodeFiles : codeFiles[p] \in CodeFiles[p]
    /\ noteFiles \in [DOMAIN NoteFiles -> UNION {NoteFiles[p] : p \in DOMAIN NoteFiles}]
    /\ \A p \in DOMAIN NoteFiles : noteFiles[p] \in NoteFiles[p]
    /\ exclude = {} /\ once = {} /\ changed = Files
    /\ db = [EmptyDb EXCEPT !.shape = "absent"]
    /\ opening = "no" /\ lost = {} /\ edits = 0
    /\ shipped = [paths |-> {}, excluded |-> {}]

DerivedNext ==
    \/ Index \/ OpenDrop \/ OpenCreate \/ OpenFill \/ OpenDies \/ OpenMissing
    \/ Edit \/ SnapshotForPush
    \/ \E p \in Files : SetExclude({p}) \/ SetExclude({})
DerivedSpec == DerivedInit /\ [][DerivedNext]_derivedVars

-----------------------------------------------------------------------------
(* Properties.                                                             *)

\* The full-text rows are those of the nodes, under their names, whatever passes
\* were made, unless an upgrade of the table was cut short; and the body of a code
\* symbol is the text it was indexed with, unless the table was upgraded in place
\* (fts.rs:1-3, 44-50).
RowsMatchNodes ==
    opening = "no" /\ "names" \notin lost =>
        /\ Cardinality(db.fts) = Cardinality(db.nodes)
        /\ \A n \in db.nodes : \E r \in db.fts :
              /\ r.id = n.id /\ r.name = Symbol(n)
              /\ n.kind = "code" /\ lost = {} /\ n.path \notin once => r.body = Chunk(n)
=============================================================================
