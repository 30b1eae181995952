------------------------------- MODULE Knowledge -------------------------------
(***************************************************************************)
(* The knowledge base (infra/knowledge.py, knowledge_chunks.py): sources   *)
(* that are synchronized or pushed to, spaces with folders and documents   *)
(* of their own, and the index of the published documents that is searched.*)
(*                                                                         *)
(* A request is one step of the event loop, but every statement commits by *)
(* itself: the actions of TornNext end in the middle of one.               *)
(***************************************************************************)
EXTENDS Naturals, Sequences, FiniteSets, SequencesExt

CONSTANTS
    SourceIds,      \* source ids, those of the spaces among them
    Spaces, Folders,
    Addresses,      \* <<source, external id>> of the documents
    DocOf,          \* their doc_id: both joined by a colon, which both may contain
    NativeOf,       \* the source id of a space
    Contents,       \* of documents
    Pages, MaxChars,    \* texts as sequences of lines, size of a chunk
    NoPlace             \* no space, no folder, no chunks yet

\* Documents are finitely many; a text is a sequence of lines.
ASSUME KnowledgeConstants ==
    /\ IsFiniteSet(Addresses) /\ Addresses \subseteq SourceIds \X {a[2] : a \in Addresses}
    /\ NoPlace \notin Spaces
    /\ MaxChars \in Nat
    /\ Pages \subseteq Seq([kind : {"heading", "blank", "text"}, chars : Nat])

Docs == {DocOf[a] : a \in Addresses}

VARIABLES
    library,        \* sources
    documents,
    index,          \* chunks of documents: the text they were cut from
    spaces, folders,
    torn,           \* documents whose last save was cut short, or whose removal was
    uncounted,      \* sources whose document_count was not brought up to date
    page, cut       \* a text and its chunks

knowledgeVars == <<library, documents, index, spaces, folders, torn, uncounted, page, cut>>

Source(kind) == [kind |-> kind, status |-> "active", count |-> 0]

Put(f, k, v) == [x \in DOMAIN f \cup {k} |-> IF x = k THEN v ELSE f[x]]

Less(f, S) == [x \in DOMAIN f \ S |-> f[x]]

-----------------------------------------------------------------------------
(* Documents.                                                              *)

(* Mutant: the chunks of what is not published stay.                       *)
ChunksStay(ix, d, doc) ==
    IF doc.published THEN Put(ix, d, doc.text) ELSE ix

Reindexed(ix, d, doc) ==
    IF doc.published THEN Put(ix, d, doc.text) ELSE Less(ix, {d})

\* A row keeps the source it was made with.
Upserted(docs, addr, doc) ==
    LET d == DocOf[addr]
    IN Put(docs, d, IF d \in DOMAIN docs
                   THEN [doc EXCEPT !.source = docs[d].source, !.ext = docs[d].ext] ELSE doc)

Pushed(addr, text) ==
    [source |-> addr[1], ext |-> addr[2], text |-> text, space |-> NoPlace, folder |-> NoPlace,
     published |-> TRUE]

Counted(lib, docs, s) ==
    IF s \notin DOMAIN lib THEN lib
    ELSE [lib EXCEPT ![s].count = Cardinality({d \in DOMAIN docs : docs[d].source = s})]

SavedAlso(acc, a, text) ==
    LET docs == Upserted(acc.docs, a, Pushed(a, text))
    IN [docs |-> docs, ix |-> Reindexed(acc.ix, DocOf[a], docs[DocOf[a]])]

\* All of one source's documents in turn, as far as they get.
SavedDocs(addrs, text) ==
    FoldLeft(LAMBDA acc, a : SavedAlso(acc, a, text), [docs |-> documents, ix |-> index],
             SetToSeq(addrs))

Stored(addrs, text) ==
    /\ documents' = SavedDocs(addrs, text).docs
    /\ index' = SavedDocs(addrs, text).ix
    /\ torn' = torn \ {DocOf[a] : a \in addrs}

OfSource(s) == {a \in Addresses : a[1] = s}

IngestDocuments(s, addrs, text) ==
    /\ s \in DOMAIN library /\ addrs # {}
    /\ Stored(addrs, text)
    /\ library' = Counted(library, documents', s)
    /\ uncounted' = uncounted \ {s}
    /\ UNCHANGED <<spaces, folders, page, cut>>

\* An upstream that cannot be asked leaves all as it was, but the status; an
\* error at a later document keeps the ones before it.
SyncSource(s, addrs, text, fails) ==
    /\ s \in DOMAIN library /\ library[s].status = "active"
    /\ library[s].kind = "native" => fails /\ addrs = {}
    /\ Stored(addrs, text)
    /\ IF fails THEN /\ UNCHANGED library
                     /\ uncounted' = IF addrs = {} THEN uncounted ELSE uncounted \cup {s}
       ELSE library' = Counted(library, documents', s) /\ uncounted' = uncounted \ {s}
    /\ UNCHANGED <<spaces, folders, page, cut>>

-----------------------------------------------------------------------------
(* Sources.                                                                *)

CreateSource(s, kind) ==
    /\ s \notin DOMAIN library
    /\ library' = Put(library, s, Source(kind))
    /\ UNCHANGED <<documents, index, spaces, folders, torn, uncounted, page, cut>>

UpdateSource(s, status) ==
    /\ s \in DOMAIN library
    /\ library' = [library EXCEPT ![s].status = status]
    /\ UNCHANGED <<documents, index, spaces, folders, torn, uncounted, page, cut>>

SpacesOf(s) == {sp \in DOMAIN spaces : spaces[sp] = s}

\* The space of the source goes with it.
DeleteSource(s) ==
    LET gone == {d \in DOMAIN documents : documents[d].source = s}
    IN /\ s \in DOMAIN library \/ gone # {} \/ SpacesOf(s) # {}
       /\ documents' = Less(documents, gone)
       /\ index' = Less(index, gone)
       /\ torn' = torn \ gone
       /\ folders' = Less(folders, {f \in DOMAIN folders : folders[f].space \in SpacesOf(s)})
       /\ spaces' = Less(spaces, SpacesOf(s))
       /\ library' = Less(library, {s})
       /\ uncounted' = uncounted \ {s}
       /\ UNCHANGED <<page, cut>>

-----------------------------------------------------------------------------
(* Spaces.                                                                 *)

\* Where the source id is taken the space stays without one of its own.
CreateSpace(sp) ==
    /\ sp \notin DOMAIN spaces
    /\ spaces' = Put(spaces, sp, NativeOf[sp])
    /\ library' = IF NativeOf[sp] \in DOMAIN library THEN library
                  ELSE Put(library, NativeOf[sp], Source("native"))
    /\ UNCHANGED <<documents, index, folders, torn, uncounted, page, cut>>

\* A folder id of another space is renamed and moved there, under a parent of
\* this one.
CreateFolder(sp, f, parent) ==
    /\ sp \in DOMAIN spaces
    /\ parent = NoPlace \/ (parent \in DOMAIN folders /\ folders[parent].space = sp)
    /\ folders' = Put(folders, f,
                    [space |-> IF f \in DOMAIN folders THEN folders[f].space ELSE sp,
                     parent |-> parent])
    /\ UNCHANGED <<library, documents, index, spaces, torn, uncounted, page, cut>>

\* What get_space_tree hangs below its roots.
Hung(sp) ==
    LET fs == {f \in DOMAIN folders : folders[f].space = sp}
        roots == {f \in fs : folders[f].parent \notin fs}
        below(S) == S \cup {f \in fs : folders[f].parent \in S}
    IN FoldLeft(LAMBDA S, i : below(S), roots, [i \in 1 .. Cardinality(fs) |-> i])

FolderIn(sp, f) == f = NoPlace \/ (f \in DOMAIN folders /\ folders[f].space = sp)

SaveNative(addr, doc) ==
    LET docs == Upserted(documents, addr, doc)
    IN /\ documents' = docs
       /\ index' = Reindexed(index, DocOf[addr], docs[DocOf[addr]])
       /\ torn' = torn \ {DocOf[addr]}
       /\ library' = Counted(library, docs, addr[1])
       /\ uncounted' = uncounted \ ({addr[1]} \cap DOMAIN library)

CreateNativeDoc(sp, addr, text, f, published) ==
    /\ sp \in DOMAIN spaces /\ spaces[sp] = addr[1] /\ FolderIn(sp, f)
    /\ SaveNative(addr, [source |-> addr[1], ext |-> addr[2], text |-> text, space |-> sp,
                         folder |-> f, published |-> published])
    /\ UNCHANGED <<spaces, folders, page, cut>>

\* publish_native_doc among them.
UpdateNativeDoc(addr, text, f, published) ==
    LET d == DocOf[addr]
    IN /\ d \in DOMAIN documents /\ documents[d].source = addr[1] /\ documents[d].ext = addr[2]
       /\ addr[1] \in DOMAIN library /\ library[addr[1]].kind = "native"
       /\ f = documents[d].folder \/ FolderIn(documents[d].space, f)
       /\ SaveNative(addr, [documents[d] EXCEPT !.text = text, !.folder = f, !.published = published])
    /\ UNCHANGED <<spaces, folders, page, cut>>

-----------------------------------------------------------------------------
(* Ends in the middle of a request.                                        *)

\* After the row, before or after the chunks were deleted.
TornSave(addr, doc) ==
    /\ documents' = Upserted(documents, addr, doc)
    /\ \/ UNCHANGED index
       \/ index' = Less(index, {DocOf[addr]})
    /\ torn' = torn \cup {DocOf[addr]}
    /\ uncounted' = uncounted \cup {addr[1]}
    /\ UNCHANGED <<library, spaces, folders, page, cut>>

\* The chunks went, and then the documents, and then the space.
TornDelete(s) ==
    LET gone == {d \in DOMAIN documents : documents[d].source = s}
    IN /\ gone # {}
       /\ index' = Less(index, gone)
       /\ \/ torn' = torn \cup gone /\ UNCHANGED <<documents, spaces, folders, uncounted>>
          \/ /\ documents' = Less(documents, gone)
             /\ torn' = torn \ gone
             /\ uncounted' = uncounted \cup {s}
             /\ \/ UNCHANGED <<spaces, folders>>
                \/ /\ spaces' = Less(spaces, SpacesOf(s))
                   /\ folders' = Less(folders, {f \in DOMAIN folders :
                                                  folders[f].space \in SpacesOf(s)})
       /\ UNCHANGED <<library, page, cut>>

\* A space without its source.
TornSpace(sp) ==
    /\ sp \notin DOMAIN spaces
    /\ spaces' = Put(spaces, sp, NativeOf[sp])
    /\ uncounted' = uncounted \cup ({NativeOf[sp]} \ DOMAIN library)
    /\ UNCHANGED <<library, documents, index, folders, torn, page, cut>>

-----------------------------------------------------------------------------
(* Chunks.  A line is a heading, a blank one or words, with its length.     *)
Blank(line) == line.kind = "blank"

Total(ns) == FoldLeft(LAMBDA m, n : m + n, 0, ns)

\* The characters of lines that are joined by line breaks.
Length(ls) == Total([i \in DOMAIN ls |-> ls[i].chars]) + Len(ls) - 1

\* The lines that are not blank.
Words(ls) == FlattenSeq([i \in DOMAIN ls |-> IF Blank(ls[i]) THEN <<>> ELSE <<ls[i]>>])

Strip(ls) ==
    LET full == {i \in DOMAIN ls : ~Blank(ls[i])}
        first == CHOOSE i \in full : \A j \in full : i <= j
        last  == CHOOSE i \in full : \A j \in full : i >= j
    IN IF full = {} THEN <<>> ELSE SubSeq(ls, first, last)

\* Runs of lines that begin with one of a kind.
LineRuns(ls, kind) ==
    FoldLeft(LAMBDA rows, line :
                IF rows = <<>> \/ line.kind = kind THEN Append(rows, <<line>>)
                ELSE [rows EXCEPT ![Len(rows)] = Append(@, line)], <<>>, ls)

Sections(ls) ==
    LET rows == LineRuns(Strip(ls), "heading")
    IN [i \in DOMAIN rows |-> Strip(rows[i])]

Paragraphs(ls) ==
    LET rows == LineRuns(ls, "blank")
    IN FlattenSeq([i \in DOMAIN rows |-> IF Words(rows[i]) = <<>> THEN <<>> ELSE <<Words(rows[i])>>])

\* A chunk is a sequence of paragraphs; its size is counted as the code does.
PackedAlso(acc, p) ==
    IF acc.size + Length(p) + 2 > MaxChars /\ acc.part # <<>>
    THEN [chunks |-> Append(acc.chunks, acc.part), part |-> <<p>>, size |-> Length(p)]
    ELSE [acc EXCEPT !.part = Append(@, p), !.size = @ + Length(p) + 2]

Packed(ps) ==
    LET end == FoldLeft(PackedAlso, [chunks |-> <<>>, part |-> <<>>, size |-> 0], ps)
    IN IF end.part = <<>> THEN end.chunks ELSE Append(end.chunks, end.part)

SplitIntoChunks(ls) ==
    FlattenSeq([i \in DOMAIN Sections(ls) |->
        IF Length(Sections(ls)[i]) <= MaxChars THEN <<<<Sections(ls)[i]>>>>
        ELSE Packed(Paragraphs(Sections(ls)[i]))])

Split ==
    /\ cut = NoPlace /\ page # <<>>
    /\ cut' = SplitIntoChunks(page)
    /\ UNCHANGED <<library, documents, index, spaces, folders, torn, uncounted, page>>

-----------------------------------------------------------------------------
KnowledgeInit ==
    /\ library = <<>> /\ documents = <<>> /\ index = <<>> /\ spaces = <<>> /\ folders = <<>>
    /\ torn = {} /\ uncounted = {}
    /\ page \in Pages /\ cut = NoPlace

Drafts(addr, text, published) ==
    [source |-> addr[1], ext |-> addr[2], text |-> text, published |-> published, folder |-> NoPlace,
     space |-> IF \E sp \in DOMAIN spaces : spaces[sp] = addr[1]
               THEN CHOOSE sp \in DOMAIN spaces : spaces[sp] = addr[1] ELSE NoPlace]

TornNext ==
    \/ \E a \in Addresses, t \in Contents :
          a[1] \in DOMAIN library /\ TornSave(a, Pushed(a, t))
    \/ \E a \in Addresses, t \in Contents, p \in BOOLEAN :
          (\E sp \in DOMAIN spaces : spaces[sp] = a[1]) /\ TornSave(a, Drafts(a, t, p))
    \/ \E s \in SourceIds : TornDelete(s)
    \/ \E sp \in Spaces : TornSpace(sp)

KnowledgeNext ==
    \/ \E s \in SourceIds : DeleteSource(s) \/ \E k \in {"custom", "native"} : CreateSource(s, k)
    \/ \E s \in SourceIds, status \in {"active", "paused"} : UpdateSource(s, status)
    \/ \E s \in SourceIds, t \in Contents : \E addrs \in SUBSET OfSource(s) :
          IngestDocuments(s, addrs, t) \/ \E fails \in BOOLEAN : SyncSource(s, addrs, t, fails)
    \/ \E sp \in Spaces : CreateSpace(sp)
    \/ \E sp \in Spaces, f \in Folders, p \in Folders \cup {NoPlace} : CreateFolder(sp, f, p)
    \/ \E sp \in Spaces, a \in Addresses, t \in Contents, f \in Folders \cup {NoPlace}, p \in BOOLEAN :
          CreateNativeDoc(sp, a, t, f, p)
    \/ \E a \in Addresses, t \in Contents, f \in Folders \cup {NoPlace}, p \in BOOLEAN :
          UpdateNativeDoc(a, t, f, p)
    \/ TornNext
    \/ Split

KnowledgeSpec == KnowledgeInit /\ [][KnowledgeNext]_knowledgeVars

KnowledgeTypeOK ==
    /\ DOMAIN library \subseteq SourceIds /\ DOMAIN documents \subseteq Docs
    /\ \A s \in DOMAIN library : library[s].count \in 0 .. Cardinality(Docs)
    /\ \A d \in DOMAIN documents : documents[d].text \in Contents
    /\ DOMAIN spaces \subseteq Spaces /\ DOMAIN folders \subseteq Folders
    /\ \A sp \in DOMAIN spaces : Hung(sp) \subseteq DOMAIN folders

-----------------------------------------------------------------------------
\* Two sources have a document with this id.
IsShared(d) == Cardinality({a \in Addresses : DocOf[a] = d}) > 1

(* The chunks that are searched are those of the published documents as    *)
(* they are now, unless a save or a removal was cut short; a document shown *)
(* in a space is of that space's source, unless two sources share its id;  *)
(* and a source's count is that of its documents, unless a synchronization *)
(* failed halfway (knowledge.py:392-598).                                  *)
IndexIsCurrent ==
    /\ DOMAIN index \subseteq DOMAIN documents
    /\ \A d \in DOMAIN documents \ torn :
          IF documents[d].published THEN d \in DOMAIN index /\ index[d] = documents[d].text
          ELSE d \notin DOMAIN index
    /\ \A d \in DOMAIN documents, sp \in DOMAIN spaces :
          documents[d].space = sp /\ ~IsShared(d) => documents[d].source = spaces[sp]
    /\ \A s \in DOMAIN library \ uncounted :
          library[s].count = Cardinality({d \in DOMAIN documents : documents[d].source = s})

(* Cutting a text into chunks loses and doubles no line, and only a single *)
(* paragraph makes a chunk longer than the limit (knowledge_chunks.py:16). *)
ChunksCover ==
    cut # NoPlace =>
        /\ Words(FlattenSeq(FlattenSeq(cut))) = Words(page)
        /\ \A i \in DOMAIN cut :
              Len(cut[i]) = 1 \/
              Total([j \in DOMAIN cut[i] |-> Length(cut[i][j]) + 2]) - 2 <= MaxChars

KnowledgeAgrees == IndexIsCurrent /\ ChunksCover
===============================================================================
