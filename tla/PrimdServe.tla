----------------------------- MODULE PrimdServe -----------------------------
(***************************************************************************)
(* `primd serve` (primd-cli cmd_serve.rs): the table of sessions, and the  *)
(* files in which a session's predictor and cold tier outlive it.  A file  *)
(* is read when a request first names its session and written when the     *)
(* session is reset; nothing else touches it.                              *)
(*                                                                         *)
(* Requests are handled one at a time, so a handler is an action, except   *)
(* that the writes of a reset are steps of their own: the process may end  *)
(* between them.  Of a conversation (module QueryContext) only what the    *)
(* files hold is kept: the transitions taught, and the last turn they are  *)
(* taught from.  Which session taught a transition is history.             *)
(***************************************************************************)
EXTENDS Naturals, Sequences

CONSTANTS
  SessionIds,   \* session ids and `user` fields of the requests
  Files,        \* file name stems
  FileOf,       \* sanitize_session_id: [SessionIds -> Files]
  Events,       \* the catalog's events
  NoEvent,      \* None :: Option<EventId>
  Indexer,      \* teacher of the shared transitions
  Prior,        \* <index>/transitions.json, {} if there is none
  ColdTiers,    \* cold tier contents
  EmptyCold,    \* DwmColdTier::empty
  NoCold,       \* no cold tier attached
  ColdAtStart,  \* the cold tier files found: [Files -> ColdTiers \cup {Absent}]
  Configs,      \* the ways serve may be started
  NoSession,    \* the session is not in the table
  Absent,       \* no such file
  Torn,         \* a file that does not parse: created or truncated, not written
  MaxRequests,  \* bound: requests and restarts explored
  MaxFaults     \* bound: failing reads and writes explored

Lesson == [by : SessionIds \cup {Indexer}, from : Events, to : Events]

ASSUME ServeAssumption ==
  /\ FileOf \in [SessionIds -> Files]
  /\ Indexer \notin SessionIds
  /\ NoEvent \notin Events
  /\ Prior \in SUBSET [by : {Indexer}, from : Events, to : Events]
  /\ EmptyCold \in ColdTiers
  /\ NoCold \notin ColdTiers
  /\ ColdAtStart \in [Files -> ColdTiers \cup {Absent}]
  /\ Configs \subseteq [predictor : {"markov", "sr", "hybrid"},
                        srStateDir : BOOLEAN, coldTierDir : BOOLEAN]
  /\ \A file \in ColdTiers \cup SUBSET Lesson : file \notin {Absent, Torn}
  /\ Absent # Torn
  /\ MaxRequests \in Nat
  /\ MaxFaults \in Nat

VARIABLES
  config,    \* the arguments of serve
  sessions,  \* sessions: the table
  disk,      \* file contents
  writes,    \* what the reset in progress has still to write
  open,      \* the first of them is truncated and not yet written
  saved,     \* history: what the last completed write for a session held
  spoiled,   \* history: files a fault or a crash came in the way of
  requests,  \* bound counter
  faults     \* bound counter

vars == <<config, sessions, disk, writes, open, saved, spoiled, requests, faults>>

Live(id) == sessions[id] # NoSession
Idle     == writes = <<>>

Session ==
  [taught : SUBSET Lesson, last : Events \cup {NoEvent}, cold : ColdTiers \cup {NoCold}]

Paths == {"markov", "cold"} \X Files

MarkovPath(id) == <<"markov", FileOf[id]>>
ColdPath(id)   == <<"cold", FileOf[id]>>

Contents(path) == IF path[1] = "markov" THEN SUBSET Lesson ELSE ColdTiers

Write == [by : SessionIds, path : Paths, content : ColdTiers \cup SUBSET Lesson]

TypeOK ==
  /\ config \in Configs
  /\ sessions \in [SessionIds -> Session \cup {NoSession}]
  /\ DOMAIN disk = Paths
  /\ \A path \in Paths : disk[path] \in {Absent, Torn} \cup Contents(path)
  /\ writes \in Seq(Write)
  /\ Len(writes) <= 2
  /\ \A i \in 1..Len(writes) : writes[i].content \in Contents(writes[i].path)
  /\ open \in BOOLEAN
  /\ open => ~Idle
  /\ saved \in [SessionIds -> SUBSET Lesson]
  /\ spoiled \in SUBSET Paths
  /\ requests \in 0..MaxRequests
  /\ faults \in 0..MaxFaults

Init ==
  /\ config \in Configs
  /\ sessions = [id \in SessionIds |-> NoSession]
  /\ disk = [path \in Paths |-> IF path[1] = "cold" THEN ColdAtStart[path[2]] ELSE Absent]
  /\ writes = <<>>
  /\ open = FALSE
  /\ saved = [id \in SessionIds |-> {}]
  /\ spoiled = {}
  /\ requests = 0
  /\ faults = 0

\* A request is taken up when the one before has been answered.
Request ==
  /\ Idle
  /\ requests < MaxRequests
  /\ requests' = requests + 1

-----------------------------------------------------------------------------
(* new_session *)

\* Mutant: the shared prior is preferred to the session's own file.
MarkovInPriorFirst(path) ==
  IF Prior = {} /\ disk[path] \notin {Absent, Torn} THEN disk[path] ELSE Prior

\* Mutant: sessions share one file.
MarkovInAnyFile(path) ==
  IF \E p \in Paths : p[1] = "markov" /\ disk[p] \notin {Absent, Torn}
  THEN disk[CHOOSE p \in Paths : p[1] = "markov" /\ disk[p] \notin {Absent, Torn}]
  ELSE Prior

\* Anything but a well-formed file means the shared prior.
MarkovIn(path) == IF disk[path] \in {Absent, Torn} THEN Prior ELSE disk[path]

\* Likewise for the cold tier, which then starts empty.
ColdIn(path) == IF disk[path] \in {Absent, Torn} THEN EmptyCold ELSE disk[path]

\* Markov and hybrid predictors keep a file per session, if told where.
KeepsMarkov == config.predictor # "sr" /\ config.srStateDir

TaughtAtStart(id) ==
  CASE KeepsMarkov             -> MarkovIn(MarkovPath(id))
    [] config.predictor = "sr" -> {}
    [] OTHER                   -> Prior

ColdAtStartOf(id) == IF config.coldTierDir THEN ColdIn(ColdPath(id)) ELSE NoCold

SessionFiles(id) ==
  (IF KeepsMarkov THEN {MarkovPath(id)} ELSE {})
    \cup (IF config.coldTierDir THEN {ColdPath(id)} ELSE {})

\* A file that cannot be read counts as not being there.
NewSession(id, unreadable) ==
  [taught |-> IF MarkovPath(id) \in unreadable THEN Prior ELSE TaughtAtStart(id),
   last   |-> NoEvent,
   cold   |-> IF ColdPath(id) \in unreadable THEN EmptyCold ELSE ColdAtStartOf(id)]

\* The session a request works on: the one in the table, or a new one.
SessionFor(id, unreadable) == IF Live(id) THEN sessions[id] ELSE NewSession(id, unreadable)

Fault ==
  /\ faults < MaxFaults
  /\ faults' = faults + 1

\* Files are read for a new session only.
Reads(id, unreadable) ==
  /\ unreadable \subseteq SessionFiles(id)
  /\ unreadable # {} => ~Live(id)
  /\ IF unreadable = {} THEN UNCHANGED faults ELSE Fault
  /\ spoiled' = spoiled \cup unreadable

-----------------------------------------------------------------------------
(* The handlers. *)

\* /query, chat completions without a user, and whatever is refused before a
\* session is looked up: the index is searched, no session has a part in it.
Stateless ==
  /\ Request
  /\ UNCHANGED <<config, sessions, disk, writes, open, saved, spoiled, faults>>

\* observe and warm: the session is in the table afterwards.
Touch(id, unreadable) ==
  /\ Request
  /\ Reads(id, unreadable)
  /\ sessions' = [sessions EXCEPT ![id] = SessionFor(id, unreadable)]
  /\ UNCHANGED <<config, disk, writes, open, saved>>

\* finish: a turn with an event is taught as the successor of the last one.
Learn(id, s, event) ==
  IF event = NoEvent THEN s
  ELSE [s EXCEPT
          !.last   = event,
          !.taught = IF s.last = NoEvent THEN @
                     ELSE @ \cup {[by |-> id, from |-> s.last, to |-> event]}]

\* finalize.
Finalize(id, event, unreadable) ==
  /\ Request
  /\ Reads(id, unreadable)
  /\ sessions' = [sessions EXCEPT ![id] = Learn(id, SessionFor(id, unreadable), event)]
  /\ UNCHANGED <<config, disk, writes, open, saved>>

\* chat completions: the `user` field names the session, the last user message
\* is finalized.
ChatCompletions(user, event, unreadable) == Finalize(user, event, unreadable)

\* Mutant: an empty cold tier is written back.
WritesOfEmptyCold(id, s) ==
  (IF KeepsMarkov
   THEN <<[by |-> id, path |-> MarkovPath(id), content |-> s.taught]>> ELSE <<>>)
  \o
  (IF s.cold # NoCold
   THEN <<[by |-> id, path |-> ColdPath(id), content |-> EmptyCold]>> ELSE <<>>)

\* What a reset writes: the Markov part of the predictor if it has one, then
\* the cold tier if one is attached.
WritesOf(id, s) ==
  (IF KeepsMarkov
   THEN <<[by |-> id, path |-> MarkovPath(id), content |-> s.taught]>> ELSE <<>>)
  \o
  (IF s.cold # NoCold
   THEN <<[by |-> id, path |-> ColdPath(id), content |-> s.cold]>> ELSE <<>>)

\* reset: the session leaves the table before anything is written.
Reset(id) ==
  /\ Request
  /\ IF Live(id)
     THEN /\ sessions' = [sessions EXCEPT ![id] = NoSession]
          /\ writes' = WritesOf(id, sessions[id])
     ELSE UNCHANGED <<sessions, writes>>
  /\ UNCHANGED <<config, disk, open, saved, spoiled, faults>>

-----------------------------------------------------------------------------
(* std::fs::write: the file is truncated, then written. *)

Truncate ==
  /\ ~Idle
  /\ ~open
  /\ disk' = [disk EXCEPT ![Head(writes).path] = Torn]
  /\ open' = TRUE
  /\ UNCHANGED <<config, sessions, writes, saved, spoiled, requests, faults>>

\* The write completes; `saved` and `spoiled` are history.
WriteOut ==
  /\ ~Idle
  /\ open
  /\ LET w == Head(writes)
     IN  /\ disk' = [disk EXCEPT ![w.path] = w.content]
         /\ IF w.path[1] = "markov"
            THEN /\ saved' = [saved EXCEPT ![w.by] = w.content]
                 /\ spoiled' = spoiled \ {w.path}
            ELSE UNCHANGED <<saved, spoiled>>
  /\ writes' = Tail(writes)
  /\ open' = FALSE
  /\ UNCHANGED <<config, sessions, requests, faults>>

\* Creating or writing the file fails: a warning, and the reset goes on.
WriteFails ==
  /\ ~Idle
  /\ Fault
  /\ spoiled' = IF open THEN spoiled \cup {Head(writes).path} ELSE spoiled
  /\ writes' = Tail(writes)
  /\ open' = FALSE
  /\ UNCHANGED <<config, sessions, disk, saved, requests>>

\* The process ends, in a reset or between requests, and is started again.
Restart ==
  /\ requests < MaxRequests
  /\ requests' = requests + 1
  /\ sessions' = [id \in SessionIds |-> NoSession]
  /\ spoiled' = IF open THEN spoiled \cup {Head(writes).path} ELSE spoiled
  /\ writes' = <<>>
  /\ open' = FALSE
  /\ UNCHANGED <<config, disk, saved, faults>>

Next ==
  \/ \E id \in SessionIds :
       \/ \E unreadable \in SUBSET SessionFiles(id) :
            \/ Touch(id, unreadable)
            \/ \E event \in Events \cup {NoEvent} :
                 \/ Finalize(id, event, unreadable)
                 \/ ChatCompletions(id, event, unreadable)
       \/ Reset(id)
  \/ Stateless
  \/ Truncate
  \/ WriteOut
  \/ WriteFails
  \/ Restart

Spec == Init /\ [][Next]_vars

-----------------------------------------------------------------------------
(* Properties. *)

\* What the predictor of a session holds or will be given: in the table, on
\* its way to the file, or in the file.
Pending(path) == {i \in DOMAIN writes : writes[i].path = path}

Remembered(id) ==
  IF Live(id) THEN sessions[id].taught
  ELSE IF \E i \in Pending(MarkovPath(id)) : writes[i].by = id
       THEN UNION {writes[i].content : i \in Pending(MarkovPath(id))}
       ELSE TaughtAtStart(id)

\* Conversations are apart: what a session knows beyond the shared prior was
\* taught under an id with the same file, in the table as on disk.
TaughtFor(file, lessons) ==
  \A l \in lessons \ Prior : l.by \in SessionIds /\ FileOf[l.by] = file

OwnLessonsOnly ==
  /\ \A id \in SessionIds : Live(id) => TaughtFor(FileOf[id], sessions[id].taught)
  /\ \A file \in Files :
       disk[<<"markov", file>>] \notin {Absent, Torn} =>
         TaughtFor(file, disk[<<"markov", file>>])

\* A session with a file to itself never loses what a reset has saved, while
\* live, during the next reset, after it or after a restart, unless a fault
\* or a crash came between a truncation and its write.
Unshared(id) == \A other \in SessionIds \ {id} : FileOf[other] # FileOf[id]

SavedIsRemembered ==
  \A id \in SessionIds :
    (Unshared(id) /\ MarkovPath(id) \notin spoiled) => saved[id] \subseteq Remembered(id)

\* The server reads and writes back cold tiers without changing them: what
\* was provisioned stays, in every session and on disk.
Provisioned(file) == IF ColdAtStart[file] = Absent THEN EmptyCold ELSE ColdAtStart[file]

ColdTiersKept ==
  \A id \in SessionIds : ColdPath(id) \notin spoiled =>
    /\ Live(id) => sessions[id].cold \in {NoCold, Provisioned(FileOf[id])}
    /\ disk[ColdPath(id)] \in {Absent, Torn, Provisioned(FileOf[id])}
    /\ disk[ColdPath(id)] = Absent => ColdAtStart[FileOf[id]] = Absent
    /\ disk[ColdPath(id)] = Torn => open /\ Head(writes).path = ColdPath(id)

=============================================================================
