---------------------------- MODULE CorpusIndex ----------------------------
(***************************************************************************)
(* The index directory and the processes that share it: `primd index`      *)
(* writes signatures.bin and then manifest.json, `primd train` writes      *)
(* transitions.json, `primd serve` and `primd query` read what is there.   *)
(* No lock keeps them apart: a reader loads the manifest, takes the size   *)
(* of the signatures and maps them in three steps, a mapping shows what is *)
(* in the file now, and a writer may stop half way.                        *)
(*                                                                         *)
(* An embedder is a function of the text, two texts perhaps alike to it.   *)
(* A request sees one content of the file.  Of the search                  *)
(* (HierarchicalIndex) the nearest hit is kept, of a session's finalize    *)
(* (QueryContext) that its hits were found in the mapping.  Names sort as  *)
(* the numbers they are here.                                              *)
(*                                                                         *)
(* Every name is this module's own: PrimdServe_proofs extends it beside    *)
(* PrimdServe, whose sessions are conversations of one such server.        *)
(***************************************************************************)
EXTENDS HammingSpace, Sequences, FiniteSets

CONSTANTS
  Texts,         \* document texts and queries
  DocIds,        \* document ids
  EventNames,    \* event names, in the order of the scope map
  DefaultName,   \* "_default"
  Unnamed,       \* an entry without an event
  Embedders,     \* embedders, with their settings
  Encoding,      \* the signature an embedder gives a text
  Corpora,       \* the inputs indexed
  Transcripts,   \* the event sequences trained on
  Blank,         \* what a mapping shows past the end of its file: zeros
  UnknownId,     \* "?"
  NoFile,        \* not there; of a manifest also: does not parse
  Nobody,        \* no writer, no reader, no session, no answer
  MaxWriters,    \* bound: index and train runs
  MaxReaders     \* bound: serve and query processes

Names == EventNames \cup {DefaultName}
Entry == [id : DocIds, text : Texts, event : EventNames \cup {Unnamed}]

ASSUME CorpusAssumption ==
  /\ Names \subseteq Nat
  /\ Unnamed \notin EventNames
  /\ Corpora \subseteq Seq(Entry) \ {<<>>}        \* read_jsonl refuses an empty one
  /\ Transcripts \subseteq Seq(Nat)               \* of names, some perhaps not indexed
  /\ Encoding \in [Embedders \X Texts -> Signatures]
  /\ Blank \in Signatures
  /\ \A a, b \in Signatures : Hamming(a, b) = 0 => a = b

VARIABLES
  signatures,  \* signatures.bin
  manifest,    \* manifest.json
  transitions, \* transitions.json: successions of event numbers
  writer,      \* the index or train run under way
  dirty,       \* history: an index run has begun and not been completed
  reader,      \* the serve or query process
  prior,       \* the transitions a session of the server has loaded
  answer,      \* the first hit of the answer just given, if the last step gave one
  runs         \* bound counters

fileVars   == <<signatures, manifest, transitions>>
corpusVars == <<fileVars, writer, dirty, reader, prior, answer, runs>>

-----------------------------------------------------------------------------
(* What is written, and how it is read. *)

Signature(embedder, text) == Encoding[embedder, text]

EventKey(entry) == IF entry.event = Unnamed THEN DefaultName ELSE entry.event

\* The scope map: the positions of each event's entries.
ScopeOf(entries) ==
  [n \in {EventKey(entries[i]) : i \in DOMAIN entries} |->
     {i \in DOMAIN entries : EventKey(entries[i]) = n}]

SignaturesOf(entries, embedder) ==
  [i \in DOMAIN entries |-> Signature(embedder, entries[i].text)]

\* `entries` is history: what the manifest was made from.
ManifestOf(entries, embedder) ==
  [embedder |-> embedder,
   count    |-> Len(entries),
   ids      |-> [i \in DOMAIN entries |-> entries[i].id],
   texts    |-> [i \in DOMAIN entries |-> entries[i].text],
   scope    |-> ScopeOf(entries),
   entries  |-> entries]

\* Mutant: events are numbered from one by who trains, from zero by who serves.
NumberFromOne(names, n) == Cardinality({m \in names : m <= n})

\* Events are numbered in the order of the scope map.
NumberOf(names, n) == Cardinality({m \in names : m < n})

\* event_name_for_id: the name of a number, as the server has it.
NamesOf(names, number) == {n \in names : Cardinality({m \in names : m < n}) = number}

\* event_for: a position has the last event that lists it.
EventAt(scope, i) ==
  LET naming == {n \in DOMAIN scope : i \in scope[n]}
  IN  IF naming = {} THEN DefaultName
      ELSE CHOOSE n \in naming : \A m \in naming : m <= n

IdAt(ids, i) == IF i \in DOMAIN ids THEN ids[i] ELSE UnknownId

\* text_for_id: of two documents with one id, the later one's text.
TextFor(m, id) ==
  LET same == {i \in DOMAIN m.ids : m.ids[i] = id}
  IN  IF same = {} THEN id
      ELSE m.texts[CHOOSE i \in same : \A j \in same : j <= i]

CorpusInit ==
  /\ signatures = NoFile
  /\ manifest = NoFile
  /\ transitions = NoFile
  /\ writer = Nobody
  /\ dirty = FALSE
  /\ reader = Nobody
  /\ prior = Nobody
  /\ answer = Nobody
  /\ runs = [writers |-> 0, readers |-> 0]

Silent == answer' = Nobody

Begins(who, bound) == runs[who] < bound /\ runs' = [runs EXCEPT ![who] = @ + 1]

-----------------------------------------------------------------------------
(* primd index.  The entries are read and embedded before a file is touched, *)
(* so a bad line or a failing embedder leaves the directory as it was.       *)

IndexCorpus ==
  /\ writer = Nobody /\ Begins("writers", MaxWriters)
  /\ \E entries \in Corpora, embedder \in Embedders :
       writer' = [at |-> "truncate signatures", entries |-> entries, embedder |-> embedder]
  /\ dirty' = TRUE
  /\ reader' = IF reader = Nobody THEN Nobody ELSE [reader EXCEPT !.dirty = TRUE]
  /\ Silent
  /\ UNCHANGED <<fileVars, prior>>

\* History: the file changes under a reader that has taken its size.
Overtakes ==
  reader' = IF reader # Nobody /\ reader.at = "sized" THEN [reader EXCEPT !.overtaken = TRUE]
            ELSE reader

\* std::fs::write truncates the file it finds.
TruncateSignatures ==
  /\ writer # Nobody /\ writer.at = "truncate signatures"
  /\ signatures' = <<>>
  /\ writer' = [writer EXCEPT !.at = "write signatures"]
  /\ Overtakes
  /\ Silent
  /\ UNCHANGED <<manifest, transitions, dirty, prior, runs>>

\* The file grows under the write.
WriteSignatures ==
  /\ writer # Nobody /\ writer.at = "write signatures"
  /\ \E n \in Len(signatures) + 1 .. Len(writer.entries) :
       /\ signatures' = SubSeq(SignaturesOf(writer.entries, writer.embedder), 1, n)
       /\ writer' = IF n = Len(writer.entries) THEN [writer EXCEPT !.at = "truncate manifest"]
                    ELSE writer
  /\ Overtakes
  /\ Silent
  /\ UNCHANGED <<manifest, transitions, dirty, prior, runs>>

TruncateManifest ==
  /\ writer # Nobody /\ writer.at = "truncate manifest"
  /\ manifest' = NoFile
  /\ writer' = [writer EXCEPT !.at = "write manifest"]
  /\ Silent
  /\ UNCHANGED <<signatures, transitions, dirty, reader, prior, runs>>

WriteManifest ==
  /\ writer # Nobody /\ writer.at = "write manifest"
  /\ manifest' = ManifestOf(writer.entries, writer.embedder)
  /\ writer' = Nobody
  /\ dirty' = FALSE
  /\ Silent
  /\ UNCHANGED <<signatures, transitions, reader, prior, runs>>

-----------------------------------------------------------------------------
(* primd train: names become numbers by the manifest found; names it does   *)
(* not list are left out of the transcript.  Of what is learned only the     *)
(* successions of one event to the next are kept.                            *)

\* The positions i < j of listed names with no listed name between them.
Successions(names, seq) ==
  {p \in (DOMAIN seq) \X (DOMAIN seq) :
     /\ p[1] < p[2] /\ seq[p[1]] \in names /\ seq[p[2]] \in names
     /\ \A k \in DOMAIN seq : p[1] < k /\ k < p[2] => seq[k] \notin names}

\* `names` and `said` are history: the names numbered, and the successor meant.
TrainedOn(m, seq) ==
  LET names == DOMAIN m.scope
  IN  {[from |-> NumberOf(names, seq[p[1]]), to |-> NumberOf(names, seq[p[2]]),
        names |-> names, said |-> seq[p[2]]] : p \in Successions(names, seq)}

\* The file is truncated: it is there, and loads as no transitions.  Without a
\* succession it is left alone.
TrainPredictor ==
  /\ writer = Nobody /\ Begins("writers", MaxWriters)
  /\ manifest # NoFile
  /\ \E seq \in Transcripts :
       /\ TrainedOn(manifest, seq) # {}
       /\ writer' = [at |-> "write transitions", lessons |-> TrainedOn(manifest, seq)]
  /\ transitions' = {}
  /\ Silent
  /\ UNCHANGED <<signatures, manifest, dirty, reader, prior>>

WriteTransitions ==
  /\ writer # Nobody /\ writer.at = "write transitions"
  /\ transitions' = writer.lessons
  /\ writer' = Nobody
  /\ Silent
  /\ UNCHANGED <<signatures, manifest, dirty, reader, prior, runs>>

\* The write fails or the process is killed.  (Cut inside a signature, the
\* file is refused like the empty one.)
WriterStops ==
  /\ writer # Nobody
  /\ writer' = Nobody
  /\ Silent
  /\ UNCHANGED <<fileVars, dirty, reader, prior, runs>>

-----------------------------------------------------------------------------
(* primd serve and primd query.  Readers change nothing, so one at a time is *)
(* enough.                                                                   *)

\* Both begin with the manifest.
ReadManifest(kind) ==
  /\ reader = Nobody /\ Begins("readers", MaxReaders)
  /\ manifest # NoFile
  /\ reader' = [kind |-> kind, at |-> "opening", manifest |-> manifest, checked |-> 0, mapped |-> 0,
                shared |-> FALSE, dirty |-> dirty, overtaken |-> FALSE]
  /\ Silent
  /\ UNCHANGED <<fileVars, writer, dirty, prior>>

\* from_file takes the size, and no empty file.
SizeSignatures ==
  /\ reader # Nobody /\ reader.at = "opening"
  /\ signatures \notin {NoFile, <<>>}
  /\ reader' = [reader EXCEPT !.at = "sized", !.checked = Len(signatures)]
  /\ Silent
  /\ UNCHANGED <<fileVars, writer, dirty, prior, runs>>

\* Mutant: the number of signatures is not compared.
AcceptsAny(r) == TRUE

\* len(): the size taken has to be the manifest's number of entries.
Accepts(r) == r.checked = r.manifest.count

\* Mmap::map takes the size anew.  A server then finds out whether there are
\* shared transitions.
MapSignatures ==
  /\ reader # Nobody /\ reader.at = "sized"
  /\ Accepts(reader)
  /\ reader' = [reader EXCEPT !.at = "up", !.mapped = Len(signatures),
                              !.shared = transitions # NoFile]
  /\ Silent
  /\ UNCHANGED <<fileVars, writer, dirty, prior, runs>>

\* new_session reads the transitions again; a server that found none at its
\* start never has any.
OpenSession == prior' = IF reader.shared /\ transitions # NoFile THEN transitions ELSE {}

Serving == reader # Nobody /\ reader.kind = "serve" /\ reader.at = "up"

\* observe and warm, naming a session for the first time.
NewServerSession ==
  /\ Serving
  /\ OpenSession
  /\ Silent
  /\ UNCHANGED <<fileVars, writer, dirty, reader, runs>>

\* The mapping shows the file as it is now.  Past its end there are zeros, or
\* the process is killed (ReaderEnds).
Mapped(i) == IF i \in DOMAIN signatures THEN signatures[i] ELSE Blank

\* Mutant: the query is embedded with the default embedder.
QueryByDefault(m, text) == Signature(CHOOSE e \in Embedders : TRUE, text)

\* The query is embedded as the manifest says.
QueryOf(m, text) == Signature(m.embedder, text)

NearestAt(positions, query) ==
  {i \in positions : \A j \in positions : Hamming(Mapped(i), query) <= Hamming(Mapped(j), query)}

\* What may be rescanned after the full scan: nothing if there is one event;
\* otherwise the documents of events among its hits, the first hit's included
\* if the manifest lists it.
RescanScopes(m, first) ==
  IF Cardinality(DOMAIN m.scope) <= 1 THEN {{}}
  ELSE {UNION {m.scope[n] : n \in events} : events \in
          {some \in SUBSET DOMAIN m.scope :
             first \in DOMAIN m.ids => EventAt(m.scope, first) \in some}}

\* search: what may come first, and which scan found it.  Positions past the
\* mapping are skipped.
Rescanned(r, query, first, scope) ==
  IF scope = {} THEN {[at |-> first, by |-> "full_scan"]}
  ELSE {[at |-> i, by |-> "shard_scan"] : i \in NearestAt(scope \cap (1..r.mapped), query)}

Found(r, query) ==
  UNION {UNION {Rescanned(r, query, first, scope) : scope \in RescanScopes(r.manifest, first)} :
           first \in NearestAt(1..r.mapped, query)}

\* map_hits, and the body chat completions quote.
HitAt(m, i) ==
  [id |-> IdAt(m.ids, i), event |-> EventAt(m.scope, i), body |-> TextFor(m, IdAt(m.ids, i))]

\* `asked`, `session` and what follows are history.
Answers(r, text, found, session) ==
  answer' = [hit |-> HitAt(r.manifest, found.at), by |-> found.by, asked |-> text, session |-> session,
             from |-> r.manifest, dirty |-> r.dirty, overtaken |-> r.overtaken]

AnswerBySearch(r, session) ==
  \E text \in Texts : \E found \in Found(r, QueryOf(r.manifest, text)) : Answers(r, text, found, session)

\* /query, and chat completions without a user.
AnswerRequest ==
  /\ Serving
  /\ AnswerBySearch(reader, FALSE)
  /\ UNCHANGED <<fileVars, writer, dirty, reader, prior, runs>>

\* finalize in a session that has predicted, cached or drafted something: a hit
\* of the predicted scope or of an earlier scan.
AnswerFromSession(r) ==
  \E text \in Texts, i \in 1..r.mapped, by \in {"speculative", "delta_cache", "shard_scan"} :
    Answers(r, text, [at |-> i, by |-> by], TRUE)

\* finalize, and chat completions with a user; a new session can only search.
AnswerInSession ==
  /\ Serving
  /\ \/ OpenSession /\ AnswerBySearch(reader, TRUE)
     \/ prior # Nobody /\ UNCHANGED prior /\ (AnswerBySearch(reader, TRUE) \/ AnswerFromSession(reader))
  /\ UNCHANGED <<fileVars, writer, dirty, reader, runs>>

\* primd query: one answer, and the process ends.
AnswerCommand ==
  /\ reader # Nobody /\ reader.kind = "query" /\ reader.at = "up"
  /\ AnswerBySearch(reader, FALSE)
  /\ reader' = Nobody
  /\ UNCHANGED <<fileVars, writer, dirty, prior, runs>>

\* The files are refused, there are no hits, the process is stopped, or it dies
\* of a size cut inside a signature or a page no longer in the file.
ReaderEnds ==
  /\ reader # Nobody
  /\ reader' = Nobody
  /\ prior' = Nobody
  /\ Silent
  /\ UNCHANGED <<fileVars, writer, dirty, runs>>

CorpusNext ==
  \/ IndexCorpus \/ TruncateSignatures \/ WriteSignatures \/ TruncateManifest \/ WriteManifest
  \/ TrainPredictor \/ WriteTransitions \/ WriterStops
  \/ \E kind \in {"serve", "query"} : ReadManifest(kind)
  \/ SizeSignatures \/ MapSignatures \/ NewServerSession
  \/ AnswerRequest \/ AnswerInSession \/ AnswerCommand \/ ReaderEnds

CorpusSpec == CorpusInit /\ [][CorpusNext]_corpusVars

-----------------------------------------------------------------------------
(* Properties. *)

\* Asked for what the embedder gives a document's signature, a reader's search
\* names the id and the event of a document with that signature, and quotes that
\* document's text where the id is one document's: whatever was indexed,
\* trained, cut short or restarted before, in a session too where it says that
\* it scanned everything, unless an index run began and was not completed before
\* the reader opened the directory, or began while it was open.
Alone(entries, i) == \A j \in DOMAIN entries \ {i} : entries[j].id # entries[i].id

HitsOfOneEntry ==
  answer # Nobody /\ ~answer.dirty /\ (answer.session => answer.by = "full_scan") =>
    LET m       == answer.from
        entries == m.entries
        same    == {i \in DOMAIN entries :
                      Signature(m.embedder, entries[i].text) = Signature(m.embedder, answer.asked)}
    IN  same # {} =>
          \E i \in same : /\ answer.hit.id = entries[i].id
                          /\ answer.hit.event = EventKey(entries[i])
                          /\ Alone(entries, i) => answer.hit.body = entries[i].text

\* Whatever state the directory was found in, whatever is written to it under an
\* open reader, and from whichever part of a session, a hit has an id and an
\* event of the manifest loaded; or it is "?" of "_default", and then an index
\* run wrote the signatures between the reader's taking their size and mapping
\* them.
HitsAreListed ==
  answer # Nobody =>
    \/ \E i \in DOMAIN answer.from.entries :
         /\ answer.hit.id = answer.from.entries[i].id
         /\ answer.hit.event = EventKey(answer.from.entries[i])
    \/ answer.overtaken /\ answer.hit.id = UnknownId /\ answer.hit.event = DefaultName

\* A session predicts by number what training learned by name: the server's
\* name of a successor is the one the transcript had, across re-indexing,
\* training again and restarts, unless the list of events became another.
PredictedAsTaught ==
  prior # Nobody =>
    \A l \in prior : l.names = DOMAIN reader.manifest.scope =>
      NamesOf(DOMAIN reader.manifest.scope, l.to) = {l.said}

=============================================================================
