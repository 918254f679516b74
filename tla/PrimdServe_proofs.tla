------------------------- MODULE PrimdServe_proofs -------------------------
(***************************************************************************)
(* Theorems about the session table and its files, for any ids, files,     *)
(* prior and provisioned cold tiers, any number of faults and restarts;    *)
(* about the index directory (CorpusIndex), for any corpora, transcripts   *)
(* and embedders, any number of writers and readers; and about the         *)
(* predictor of one session (Predictors), for any events, training,        *)
(* orders, smoothing and number of half-lives.                             *)
(***************************************************************************)
EXTENDS PrimdServe, CorpusIndex, Predictors, OrderLemmas

\* observe, warm, finalize, chat: a session, found or made, has a turn or none.
Served(id, unreadable, event) ==
  /\ Idle
  /\ Reads(id, unreadable)
  /\ sessions' = [sessions EXCEPT ![id] = Learn(id, SessionFor(id, unreadable), event)]
  /\ UNCHANGED <<config, disk, writes, open, saved>>

\* A stutter, or a request no session has a part in.
Unconcerned ==
  /\ requests' = requests \/ (requests < MaxRequests /\ requests' = requests + 1)
  /\ UNCHANGED <<config, sessions, disk, writes, open, saved, spoiled, faults>>

\* The ways a step can go.
LEMMA Steps ==
  ASSUME [Next]_vars
  PROVE  \/ \E id \in SessionIds : \E unreadable \in SUBSET SessionFiles(id),
                event \in Events \cup {NoEvent} :
              Request /\ Served(id, unreadable, event)
         \/ \E id \in SessionIds : Reset(id)
         \/ Truncate
         \/ WriteOut
         \/ WriteFails
         \/ Restart
         \/ Unconcerned
<1>1. CASE UNCHANGED vars
  BY <1>1 DEF vars, Unconcerned
<1>2. ASSUME NEW id \in SessionIds, NEW unreadable \in SUBSET SessionFiles(id),
             Touch(id, unreadable)
      PROVE  Request /\ Served(id, unreadable, NoEvent)
  BY <1>2 DEF Touch, Served, Request, Learn
<1>3. ASSUME NEW id \in SessionIds, NEW unreadable \in SUBSET SessionFiles(id),
             NEW event \in Events \cup {NoEvent}, Finalize(id, event, unreadable)
      PROVE  Request /\ Served(id, unreadable, event)
  BY <1>3 DEF Finalize, Served, Request
<1>4. ASSUME NEW id \in SessionIds, NEW unreadable \in SUBSET SessionFiles(id),
             NEW event \in Events \cup {NoEvent}, ChatCompletions(id, event, unreadable)
      PROVE  Request /\ Served(id, unreadable, event)
  BY <1>4 DEF ChatCompletions, Finalize, Served, Request
<1>5. CASE Stateless
  BY <1>5 DEF Stateless, Request, Unconcerned
<1> QED
  BY <1>1, <1>2, <1>3, <1>4, <1>5 DEF Next

\* What a session starts with has the right type.
LEMMA NewSessionType ==
  ASSUME TypeOK, NEW id \in SessionIds, NEW unreadable
  PROVE  NewSession(id, unreadable) \in Session
<1>1. MarkovPath(id) \in Paths /\ ColdPath(id) \in Paths
  BY ServeAssumption DEF MarkovPath, ColdPath, Paths
<1>2. Prior \in SUBSET Lesson
  BY ServeAssumption DEF Lesson
<1>3. TaughtAtStart(id) \in SUBSET Lesson
  <2>1. disk[MarkovPath(id)] \in {Absent, Torn} \cup SUBSET Lesson
    BY <1>1 DEF TypeOK, Contents, MarkovPath
  <2> QED
    BY <2>1, <1>2 DEF TaughtAtStart, MarkovIn, KeepsMarkov
<1>4. ColdAtStartOf(id) \in ColdTiers \cup {NoCold}
  <2>1. disk[ColdPath(id)] \in {Absent, Torn} \cup ColdTiers
    BY <1>1 DEF TypeOK, Contents, ColdPath
  <2> QED
    BY <2>1, ServeAssumption DEF ColdAtStartOf, ColdIn
<1> QED
  BY <1>2, <1>3, <1>4, ServeAssumption DEF NewSession, Session

\* A turn changes a session into a session.
LEMMA LearnType ==
  ASSUME NEW id \in SessionIds, NEW s \in Session, NEW event \in Events \cup {NoEvent}
  PROVE  Learn(id, s, event) \in Session
<1>1. CASE event = NoEvent
  BY <1>1 DEF Learn
<1>2. CASE event # NoEvent /\ s.last = NoEvent
  BY <1>2 DEF Learn, Session
<1>3. CASE event # NoEvent /\ s.last # NoEvent
  <2>1. [by |-> id, from |-> s.last, to |-> event] \in Lesson
    BY <1>3 DEF Lesson, Session
  <2> QED
    BY <1>3, <2>1 DEF Learn, Session
<1> QED
  BY <1>1, <1>2, <1>3

\* What a reset has to write: the taught transitions to the Markov file, the
\* cold tier to the cold file, each at most once.
LEMMA WritesOfShape ==
  ASSUME NEW id \in SessionIds, NEW s \in Session
  PROVE  LET ws == WritesOf(id, s) IN
         /\ ws \in Seq(Write)
         /\ Len(ws) <= 2
         /\ \A i \in 1..Len(ws) :
              /\ ws[i].by = id
              /\ \/ ws[i].path = MarkovPath(id) /\ ws[i].content = s.taught /\ KeepsMarkov
                 \/ ws[i].path = ColdPath(id) /\ ws[i].content = s.cold /\ s.cold # NoCold
         /\ \A i, j \in 1..Len(ws) : ws[i].path = ws[j].path => i = j
<1> DEFINE toMarkov == [by |-> id, path |-> MarkovPath(id), content |-> s.taught]
           toCold   == [by |-> id, path |-> ColdPath(id), content |-> s.cold]
<1>1. MarkovPath(id) \in Paths /\ ColdPath(id) \in Paths /\ MarkovPath(id) # ColdPath(id)
  BY ServeAssumption DEF MarkovPath, ColdPath, Paths
<1>2. toMarkov \in Write
  BY <1>1 DEF Write, Session
<1>3. s.cold # NoCold => toCold \in Write
  BY <1>1 DEF Write, Session
<1>4. CASE KeepsMarkov /\ s.cold # NoCold
  <2>1. WritesOf(id, s) = <<toMarkov>> \o <<toCold>>
    BY <1>4 DEF WritesOf
  <2> HIDE DEF toMarkov, toCold
  <2>2. toMarkov.path # toCold.path
    BY <1>1 DEF toMarkov, toCold
  <2>3. /\ toMarkov.by = id /\ toMarkov.path = MarkovPath(id) /\ toMarkov.content = s.taught
        /\ toCold.by = id /\ toCold.path = ColdPath(id) /\ toCold.content = s.cold
    BY DEF toMarkov, toCold
  <2>4. /\ WritesOf(id, s) \in Seq(Write)
        /\ Len(WritesOf(id, s)) = 2
        /\ WritesOf(id, s)[1] = toMarkov
        /\ WritesOf(id, s)[2] = toCold
    BY <1>2, <1>3, <1>4, <2>1
  <2> QED
    BY <1>4, <2>2, <2>3, <2>4
<1>5. CASE KeepsMarkov /\ s.cold = NoCold
  <2>1. WritesOf(id, s) = <<toMarkov>>
    BY <1>5 DEF WritesOf
  <2> QED
    BY <1>2, <1>5, <2>1
<1>6. CASE ~KeepsMarkov /\ s.cold # NoCold
  <2>1. WritesOf(id, s) = <<toCold>>
    BY <1>6 DEF WritesOf
  <2> QED
    BY <1>3, <1>6, <2>1
<1>7. CASE ~KeepsMarkov /\ s.cold = NoCold
  <2>1. WritesOf(id, s) = <<>>
    BY <1>7 DEF WritesOf
  <2> QED
    BY <2>1
<1> QED
  BY <1>4, <1>5, <1>6, <1>7

\* What is left when the first write is done with.
LEMMA WritesPopped ==
  ASSUME TypeOK, ~Idle
  PROVE  /\ Head(writes) = writes[1]
         /\ 1 \in 1..Len(writes)
         /\ writes[1] \in Write
         /\ Tail(writes) \in Seq(Write)
         /\ Len(Tail(writes)) <= 1
         /\ \A i \in 1..Len(Tail(writes)) :
              i + 1 \in 1..Len(writes) /\ Tail(writes)[i] = writes[i + 1]
BY DEF TypeOK, Idle

-----------------------------------------------------------------------------
(* Types. *)

\* Type correctness is preserved when a session is served.
LEMMA ServedType ==
  ASSUME TypeOK, Request, NEW id \in SessionIds, NEW unreadable \in SUBSET SessionFiles(id),
         NEW event \in Events \cup {NoEvent}, Served(id, unreadable, event)
  PROVE  TypeOK'
<1>1. SessionFor(id, unreadable) \in Session
  BY NewSessionType DEF SessionFor, TypeOK, Live
<1>2. Learn(id, SessionFor(id, unreadable), event) \in Session
  BY <1>1, LearnType
<1>3. sessions' \in [SessionIds -> Session \cup {NoSession}]
  BY <1>2 DEF Served, TypeOK
<1>4. unreadable \subseteq Paths
  BY ServeAssumption DEF SessionFiles, MarkovPath, ColdPath, Paths
<1>5. spoiled' \in SUBSET Paths
  BY <1>4 DEF Served, Reads, TypeOK
<1>6. faults' \in 0..MaxFaults
  BY ServeAssumption DEF Served, Reads, Fault, TypeOK
<1>7. requests' \in 0..MaxRequests
  BY ServeAssumption DEF Request, TypeOK
<1> QED
  BY <1>3, <1>5, <1>6, <1>7 DEF Served, TypeOK

\* What is pending has the type of the file it is for.
LEMMA PendingType ==
  ASSUME NEW id \in SessionIds, NEW s \in Session,
         NEW i \in 1..Len(WritesOf(id, s))
  PROVE  WritesOf(id, s)[i].content \in Contents(WritesOf(id, s)[i].path)
<1> DEFINE w == WritesOf(id, s)[i]
<1>1. CASE w.path = MarkovPath(id) /\ w.content = s.taught
  BY <1>1 DEF Contents, MarkovPath, Session
<1>2. CASE w.path = ColdPath(id) /\ w.content = s.cold /\ s.cold # NoCold
  BY <1>2 DEF Contents, ColdPath, Session
<1> QED
  BY <1>1, <1>2, WritesOfShape

\* Sessions, files and pending writes always have their types.
THEOREM TypeCorrect == Spec => []TypeOK
<1>1. Init => TypeOK
  <2> SUFFICES ASSUME Init
               PROVE  TypeOK
    OBVIOUS
  <2>1. \A path \in Paths : disk[path] \in {Absent, Torn} \cup Contents(path)
    <3> SUFFICES ASSUME NEW path \in Paths
                 PROVE  disk[path] \in {Absent, Torn} \cup Contents(path)
      OBVIOUS
    <3>1. CASE path[1] = "cold"
      BY <3>1, ServeAssumption DEF Init, Contents, Paths
    <3>2. CASE path[1] # "cold"
      BY <3>2 DEF Init
    <3> QED
      BY <3>1, <3>2
  <2>2. /\ writes \in Seq(Write)
        /\ Len(writes) <= 2
        /\ \A i \in 1..Len(writes) : writes[i].content \in Contents(writes[i].path)
    BY DEF Init
  <2>3. /\ config \in Configs
        /\ sessions \in [SessionIds -> Session \cup {NoSession}]
        /\ DOMAIN disk = Paths
        /\ open \in BOOLEAN
        /\ ~open
        /\ saved \in [SessionIds -> SUBSET Lesson]
        /\ spoiled \in SUBSET Paths
    BY DEF Init
  <2>4. requests \in 0..MaxRequests /\ faults \in 0..MaxFaults
    BY ServeAssumption DEF Init
  <2> QED
    BY <2>1, <2>2, <2>3, <2>4 DEF TypeOK, Idle
<1>2. TypeOK /\ [Next]_vars => TypeOK'
  <2> SUFFICES ASSUME TypeOK, [Next]_vars
               PROVE  TypeOK'
    OBVIOUS
  <2>1. ASSUME NEW id \in SessionIds, Reset(id)
        PROVE  TypeOK'
    <3>1. requests' \in 0..MaxRequests
      BY <2>1, ServeAssumption DEF Reset, Request, TypeOK
    <3>2. CASE ~Live(id)
      BY <2>1, <3>1, <3>2 DEF Reset, TypeOK, Idle
    <3>3. CASE Live(id)
      <4>1. sessions[id] \in Session
        BY <3>3 DEF TypeOK, Live
      <4>2. sessions' \in [SessionIds -> Session \cup {NoSession}]
        BY <2>1, <3>3 DEF Reset, TypeOK
      <4>3. /\ writes' \in Seq(Write)
            /\ Len(writes') <= 2
            /\ \A i \in 1..Len(writes') : writes'[i].content \in Contents(writes'[i].path)
        BY <2>1, <3>3, <4>1, WritesOfShape, PendingType DEF Reset
      <4>4. open' \in BOOLEAN /\ ~open'
        BY <2>1 DEF Reset, Request, TypeOK
      <4> QED
        BY <2>1, <3>1, <4>2, <4>3, <4>4 DEF Reset, TypeOK, Contents
    <3> QED
      BY <3>2, <3>3
  <2>2. CASE Truncate
    <3>1. DOMAIN disk' = Paths /\ \A path \in Paths : disk'[path] \in {disk[path], Torn}
      BY <2>2 DEF Truncate, TypeOK
    <3> QED
      BY <2>2, <3>1 DEF Truncate, TypeOK, Contents, Idle
  <2>3. ASSUME ~Idle, writes' = Tail(writes)
        PROVE  /\ writes' \in Seq(Write)
               /\ Len(writes') <= 2
               /\ \A i \in 1..Len(writes') : writes'[i].content \in Contents(writes'[i].path)
    BY <2>3, WritesPopped DEF TypeOK
  <2>4. CASE WriteOut
    <3>1. Head(writes) = writes[1] /\ writes[1] \in Write
          /\ writes[1].content \in Contents(writes[1].path)
      BY <2>4, WritesPopped DEF WriteOut, TypeOK
    <3>2. /\ DOMAIN disk' = Paths
          /\ \A path \in Paths :
               disk'[path] = IF path = writes[1].path THEN writes[1].content ELSE disk[path]
      BY <2>4, <3>1 DEF WriteOut, TypeOK
    <3>3. \A path \in Paths : disk'[path] \in {Absent, Torn} \cup Contents(path)
      BY <3>1, <3>2 DEF TypeOK
    <3>4. saved' \in [SessionIds -> SUBSET Lesson]
      BY <2>4, <3>1 DEF WriteOut, TypeOK, Contents, Write
    <3>5. spoiled' \in SUBSET Paths
      BY <2>4 DEF WriteOut, TypeOK
    <3>6. ~Idle /\ writes' = Tail(writes) /\ open' = FALSE
          /\ UNCHANGED <<config, sessions, requests, faults>>
      BY <2>4 DEF WriteOut
    <3> QED
      BY <3>2, <3>3, <3>4, <3>5, <3>6, <2>3 DEF TypeOK, Contents
  <2>5. CASE WriteFails
    <3>1. ~Idle /\ writes' = Tail(writes)
      BY <2>5 DEF WriteFails
    <3>2. spoiled' \in SUBSET Paths
      BY <2>5, WritesPopped DEF WriteFails, TypeOK, Write
    <3>3. faults' \in 0..MaxFaults
      BY <2>5, ServeAssumption DEF WriteFails, Fault, TypeOK
    <3> QED
      BY <2>5, <3>1, <3>2, <3>3, <2>3 DEF WriteFails, TypeOK, Contents
  <2>6. CASE Restart
    <3>1. requests' \in 0..MaxRequests
      BY <2>6, ServeAssumption DEF Restart, TypeOK
    <3>2. /\ writes' \in Seq(Write)
          /\ Len(writes') <= 2
          /\ \A i \in 1..Len(writes') : writes'[i].content \in Contents(writes'[i].path)
          /\ open' \in BOOLEAN
          /\ ~open'
      <4>1. writes' = <<>> /\ open' = FALSE
        BY <2>6 DEF Restart
      <4>2. writes' \in Seq(Write) /\ Len(writes') = 0
        BY <4>1
      <4>3. Len(writes') <= 2
        BY <4>2
      <4>4. \A i \in 1..Len(writes') : FALSE
        BY <4>2
      <4>5. open' \in BOOLEAN /\ ~open'
        BY <4>1
      <4> QED
        BY <4>2, <4>3, <4>4, <4>5
    <3>3. sessions' \in [SessionIds -> Session \cup {NoSession}]
      BY <2>6 DEF Restart
    <3>4. spoiled' \in SUBSET Paths
      <4>1. CASE ~open
        BY <2>6, <4>1 DEF Restart, TypeOK
      <4>2. CASE open
        <5>1. Head(writes).path \in Paths
          BY <4>2, WritesPopped DEF TypeOK, Write
        <5> QED
          BY <2>6, <4>2, <5>1 DEF Restart, TypeOK
      <4> QED
        BY <4>1, <4>2
    <3> QED
      BY <2>6, <3>1, <3>2, <3>3, <3>4 DEF Restart, TypeOK, Contents, Idle
  <2>7. CASE Unconcerned
    BY <2>7, ServeAssumption DEF Unconcerned, TypeOK, Contents, Idle
  <2> QED
    BY <2>1, <2>2, <2>4, <2>5, <2>6, <2>7, Steps, ServedType
<1> QED
  BY <1>1, <1>2, PTL DEF Spec

-----------------------------------------------------------------------------
(* Conversations are apart. *)

\* OwnLessonsOnly is not inductive: what a reset has taken out of the table
\* and not yet written must be one session's own as well.
PendingOwn ==
  \A i \in 1..Len(writes) :
    writes[i].path[1] = "markov" => TaughtFor(writes[i].path[2], writes[i].content)

\* A session starts with what was taught for its file.
LEMMA NewSessionOwn ==
  ASSUME TypeOK, OwnLessonsOnly, NEW id \in SessionIds, NEW unreadable
  PROVE  TaughtFor(FileOf[id], NewSession(id, unreadable).taught)
<1>1. FileOf[id] \in Files
  BY ServeAssumption
<1>2. TaughtFor(FileOf[id], Prior) /\ TaughtFor(FileOf[id], {})
  BY DEF TaughtFor
<1>3. TaughtFor(FileOf[id], MarkovIn(MarkovPath(id)))
  BY <1>1, <1>2 DEF OwnLessonsOnly, MarkovIn, MarkovPath
<1>4. TaughtFor(FileOf[id], TaughtAtStart(id))
  BY <1>2, <1>3 DEF TaughtAtStart
<1> QED
  BY <1>2, <1>4 DEF NewSession

\* A turn teaches what is the session's own.
LEMMA LearnOwn ==
  ASSUME NEW id \in SessionIds, NEW s \in Session, NEW event \in Events \cup {NoEvent},
         TaughtFor(FileOf[id], s.taught)
  PROVE  TaughtFor(FileOf[id], Learn(id, s, event).taught)
<1>1. CASE event = NoEvent
  BY <1>1 DEF Learn
<1>2. CASE event # NoEvent /\ s.last = NoEvent
  BY <1>2 DEF Learn, Session
<1>3. CASE event # NoEvent /\ s.last # NoEvent
  <2> DEFINE lesson == [by |-> id, from |-> s.last, to |-> event]
  <2>1. Learn(id, s, event).taught = s.taught \cup {lesson}
    BY <1>3 DEF Learn, Session
  <2>2. lesson.by = id
    OBVIOUS
  <2> HIDE DEF lesson
  <2> QED
    BY <2>1, <2>2 DEF TaughtFor
<1> QED
  BY <1>1, <1>2, <1>3

\* What a session knows beyond the shared prior, and what its file holds, was
\* taught under an id with that file.
THEOREM ConversationsApart == Spec => []OwnLessonsOnly
<1> DEFINE IInv == OwnLessonsOnly /\ PendingOwn
<1>1. Init => IInv
  <2> SUFFICES ASSUME Init
               PROVE  IInv
    OBVIOUS
  <2>1. \A id \in SessionIds : ~Live(id)
    BY DEF Init, Live
  <2>2. \A stem \in Files : disk[<<"markov", stem>>] = Absent
    BY DEF Init, Paths
  <2>3. PendingOwn
    BY DEF Init, PendingOwn
  <2> QED
    BY <2>1, <2>2, <2>3 DEF OwnLessonsOnly
<1>2. IInv /\ TypeOK /\ TypeOK' /\ [Next]_vars => IInv'
  <2> SUFFICES ASSUME OwnLessonsOnly, PendingOwn, TypeOK, TypeOK', [Next]_vars
               PROVE  OwnLessonsOnly' /\ PendingOwn'
    OBVIOUS
  <2> USE DEF TaughtFor
  <2>1. ASSUME NEW id \in SessionIds, NEW unreadable \in SUBSET SessionFiles(id),
               NEW event \in Events \cup {NoEvent}, Served(id, unreadable, event)
        PROVE  OwnLessonsOnly' /\ PendingOwn'
    <3> DEFINE s == SessionFor(id, unreadable)
    <3>1. s \in Session
      BY NewSessionType DEF SessionFor, TypeOK, Live
    <3>2. TaughtFor(FileOf[id], s.taught)
      BY NewSessionOwn DEF SessionFor, OwnLessonsOnly
    <3>3. TaughtFor(FileOf[id], Learn(id, s, event).taught)
      BY <3>1, <3>2, LearnOwn
    <3> HIDE DEF s
    <3>4. \A other \in SessionIds :
            sessions'[other] = IF other = id THEN Learn(id, s, event) ELSE sessions[other]
      BY <2>1 DEF Served, TypeOK, s
    <3>5. UNCHANGED <<disk, writes>>
      BY <2>1 DEF Served
    <3>6. \A other \in SessionIds :
            Live(other)' => TaughtFor(FileOf[other], sessions'[other].taught)
      BY <3>3, <3>4 DEF OwnLessonsOnly, Live
    <3> QED
      BY <3>5, <3>6 DEF OwnLessonsOnly, PendingOwn
  <2>2. ASSUME NEW id \in SessionIds, Reset(id)
        PROVE  OwnLessonsOnly' /\ PendingOwn'
    <3>1. \A other \in SessionIds : Live(other)' => sessions'[other] = sessions[other] /\ Live(other)
      BY <2>2 DEF Reset, TypeOK, Live
    <3>2. OwnLessonsOnly'
      BY <2>2, <3>1 DEF OwnLessonsOnly, Reset
    <3>3. CASE ~Live(id)
      BY <2>2, <3>2, <3>3 DEF Reset, PendingOwn
    <3>4. CASE Live(id)
      <4>1. sessions[id] \in Session /\ TaughtFor(FileOf[id], sessions[id].taught)
        BY <3>4 DEF TypeOK, Live, OwnLessonsOnly
      <4>2. ASSUME NEW i \in 1..Len(writes'), writes'[i].path[1] = "markov"
            PROVE  TaughtFor(writes'[i].path[2], writes'[i].content)
        <5>1. writes' = WritesOf(id, sessions[id])
          BY <2>2, <3>4 DEF Reset
        <5>2. writes'[i].path = MarkovPath(id) /\ writes'[i].content = sessions[id].taught
          BY <4>1, <4>2, <5>1, WritesOfShape DEF ColdPath
        <5> QED
          BY <4>1, <5>2 DEF MarkovPath
      <4> QED
        BY <3>2, <4>2 DEF PendingOwn
    <3> QED
      BY <3>2, <3>3, <3>4
  <2>3. CASE Truncate
    <3>1. UNCHANGED <<sessions, writes>>
      BY <2>3 DEF Truncate
    <3>2. \A stem \in Files :
            disk'[<<"markov", stem>>] \in {disk[<<"markov", stem>>], Torn}
      BY <2>3 DEF Truncate, TypeOK, Paths
    <3> QED
      BY <3>1, <3>2 DEF OwnLessonsOnly, PendingOwn, Live
  <2>4. ASSUME ~Idle, writes' = Tail(writes)
        PROVE  PendingOwn'
    BY <2>4, WritesPopped DEF PendingOwn
  <2>5. CASE WriteOut
    <3>1. ~Idle /\ writes' = Tail(writes) /\ UNCHANGED sessions
      BY <2>5 DEF WriteOut
    <3>2. /\ Head(writes) = writes[1]
          /\ writes[1].path[1] = "markov" => TaughtFor(writes[1].path[2], writes[1].content)
      BY <3>1, WritesPopped DEF PendingOwn
    <3>3. \A stem \in Files :
            disk'[<<"markov", stem>>] =
              IF <<"markov", stem>> = writes[1].path THEN writes[1].content
              ELSE disk[<<"markov", stem>>]
      BY <2>5, <3>2 DEF WriteOut, TypeOK, Paths
    <3>4. ASSUME NEW stem \in Files, disk'[<<"markov", stem>>] \notin {Absent, Torn}
          PROVE  TaughtFor(stem, disk'[<<"markov", stem>>])
      <4>1. CASE <<"markov", stem>> = writes[1].path
        <5>1. writes[1].path[1] = "markov" /\ writes[1].path[2] = stem
          BY <4>1
        <5> QED
          BY <3>2, <3>3, <4>1, <5>1
      <4>2. CASE <<"markov", stem>> # writes[1].path
        BY <3>3, <3>4, <4>2 DEF OwnLessonsOnly
      <4> QED
        BY <4>1, <4>2
    <3>5. \A id \in SessionIds : Live(id)' => TaughtFor(FileOf[id], sessions'[id].taught)
      BY <3>1 DEF OwnLessonsOnly, Live
    <3> QED
      BY <2>4, <3>1, <3>4, <3>5 DEF OwnLessonsOnly
  <2>6. CASE WriteFails
    <3>1. ~Idle /\ writes' = Tail(writes) /\ UNCHANGED <<sessions, disk>>
      BY <2>6 DEF WriteFails
    <3>2. PendingOwn'
      BY <2>4, <3>1
    <3> QED
      BY <3>1, <3>2 DEF OwnLessonsOnly, Live
  <2>7. CASE Restart
    <3>1. \A id \in SessionIds : ~Live(id)'
      BY <2>7 DEF Restart, Live
    <3>2. writes' = <<>> /\ UNCHANGED disk
      BY <2>7 DEF Restart
    <3>3. Len(writes') = 0
      BY <3>2
    <3>4. PendingOwn'
      BY <3>3 DEF PendingOwn
    <3> QED
      BY <3>1, <3>2, <3>4 DEF OwnLessonsOnly
  <2>8. CASE Unconcerned
    BY <2>8 DEF Unconcerned, OwnLessonsOnly, PendingOwn, Live
  <2> QED
    BY <2>1, <2>2, <2>3, <2>5, <2>6, <2>7, <2>8, Steps
<1>3. IInv => OwnLessonsOnly
  OBVIOUS
<1> QED
  BY <1>1, <1>2, <1>3, TypeCorrect, PTL DEF Spec

-----------------------------------------------------------------------------
(* What a reset has still to write. *)

\* Each pending write is for a file of its session, which is no longer in the
\* table; no file is written twice.
PendingShape ==
  /\ \A i \in 1..Len(writes) :
       /\ ~Live(writes[i].by)
       /\ \/ writes[i].path = MarkovPath(writes[i].by) /\ KeepsMarkov
          \/ writes[i].path = ColdPath(writes[i].by)
  /\ \A i, j \in 1..Len(writes) : writes[i].path = writes[j].path => i = j

\* The rest of the writes is like the whole.
LEMMA ShapePopped ==
  ASSUME TypeOK, ~Idle, PendingShape, writes' = Tail(writes), UNCHANGED <<config, sessions>>
  PROVE  PendingShape'
<1>1. UNCHANGED KeepsMarkov
  BY DEF KeepsMarkov
<1>2. ASSUME NEW i \in 1..Len(writes')
      PROVE  /\ sessions'[writes'[i].by] = NoSession
             /\ \/ writes'[i].path = MarkovPath(writes'[i].by) /\ KeepsMarkov
                \/ writes'[i].path = ColdPath(writes'[i].by)
  <2>1. i + 1 \in 1..Len(writes) /\ writes'[i] = writes[i + 1]
    BY <1>2, WritesPopped
  <2> QED
    BY <2>1 DEF PendingShape, Live
<1>3. ASSUME NEW i \in 1..Len(writes'), NEW j \in 1..Len(writes'),
             writes'[i].path = writes'[j].path
      PROVE  i = j
  <2>1. /\ i + 1 \in 1..Len(writes) /\ writes'[i] = writes[i + 1]
        /\ j + 1 \in 1..Len(writes) /\ writes'[j] = writes[j + 1]
    BY <1>3, WritesPopped
  <2>2. i + 1 = j + 1
    BY <1>3, <2>1 DEF PendingShape
  <2>3. i \in Nat /\ j \in Nat
    OBVIOUS
  <2> QED
    BY <2>2, <2>3
<1> QED
  BY <1>1, <1>2, <1>3 DEF PendingShape, MarkovPath, ColdPath, Live

\* A reset leaves the shape of what it has to write.
LEMMA ShapeReset ==
  ASSUME TypeOK, NEW id \in SessionIds, Reset(id)
  PROVE  PendingShape'
<1>1. UNCHANGED KeepsMarkov
  BY DEF Reset, KeepsMarkov
<1>2. CASE ~Live(id)
  <2>1. writes' = <<>>
    BY <1>2 DEF Reset, Request, Idle
  <2>2. Len(writes') = 0
    BY <2>1
  <2> QED
    BY <2>2 DEF PendingShape
<1>3. CASE Live(id)
  <2>1. sessions[id] \in Session
    BY <1>3 DEF TypeOK, Live
  <2>2. writes' = WritesOf(id, sessions[id]) /\ ~Live(id)'
    BY <1>3 DEF Reset, Live, TypeOK
  <2>3. \A i \in 1..Len(writes') :
          /\ writes'[i].by = id
          /\ \/ writes'[i].path = MarkovPath(id) /\ KeepsMarkov
             \/ writes'[i].path = ColdPath(id)
    BY <2>1, <2>2, WritesOfShape
  <2>4. \A i, j \in 1..Len(writes') : writes'[i].path = writes'[j].path => i = j
    BY <2>1, <2>2, WritesOfShape
  <2> QED
    BY <1>1, <2>2, <2>3, <2>4 DEF PendingShape, MarkovPath, ColdPath
<1> QED
  BY <1>2, <1>3

\* A writer is out of the table and writes its own files, each once.
LEMMA Shaped == Spec => []PendingShape
<1>1. Init => PendingShape
  <2>1. Init => Len(writes) = 0
    BY DEF Init
  <2> QED
    BY <2>1 DEF PendingShape
<1>2. PendingShape /\ TypeOK /\ [Next]_vars => PendingShape'
  <2> SUFFICES ASSUME PendingShape, TypeOK, [Next]_vars
               PROVE  PendingShape'
    OBVIOUS
  <2>1. ASSUME writes' = <<>>
        PROVE  PendingShape'
    <3>1. Len(writes') = 0
      BY <2>1
    <3> QED
      BY <3>1 DEF PendingShape
  <2>2. ASSUME NEW id \in SessionIds, NEW unreadable, NEW event, Served(id, unreadable, event)
        PROVE  PendingShape'
    BY <2>1, <2>2 DEF Served, Idle
  <2>3. CASE Truncate
    BY <2>3 DEF Truncate, PendingShape, Live, KeepsMarkov, MarkovPath, ColdPath
  <2>4. CASE WriteOut
    BY <2>4, ShapePopped DEF WriteOut
  <2>5. CASE WriteFails
    BY <2>5, ShapePopped DEF WriteFails
  <2>6. CASE Restart
    BY <2>6, <2>1 DEF Restart
  <2>7. CASE Unconcerned
    BY <2>7 DEF Unconcerned, PendingShape, Live, KeepsMarkov, MarkovPath, ColdPath
  <2> QED
    BY <2>2, <2>3, <2>4, <2>5, <2>6, <2>7, Steps, ShapeReset
<1> QED
  BY <1>1, <1>2, TypeCorrect, PTL DEF Spec

-----------------------------------------------------------------------------
(* Cold tiers. *)

\* What is on its way to a cold tier file is what was provisioned for it.
PendingProvisioned ==
  \A id \in SessionIds : ColdPath(id) \notin spoiled =>
    \A i \in 1..Len(writes) :
      writes[i].path = ColdPath(id) => writes[i].content = Provisioned(FileOf[id])

\* A new session is given the cold tier provisioned for its file.
LEMMA NewSessionProvisioned ==
  ASSUME TypeOK, ColdTiersKept, Idle, NEW id \in SessionIds, NEW unreadable,
         ColdPath(id) \notin spoiled, ColdPath(id) \notin unreadable
  PROVE  NewSession(id, unreadable).cold \in {NoCold, Provisioned(FileOf[id])}
<1>1. ~open
  BY DEF TypeOK
<1>2. disk[ColdPath(id)] # Torn
  BY <1>1 DEF ColdTiersKept
<1>3. CASE disk[ColdPath(id)] = Absent
  <2>1. ColdAtStart[FileOf[id]] = Absent
    BY <1>3 DEF ColdTiersKept
  <2> QED
    BY <1>3, <2>1 DEF NewSession, ColdAtStartOf, ColdIn, Provisioned
<1>4. CASE disk[ColdPath(id)] # Absent
  BY <1>2, <1>4 DEF ColdTiersKept, NewSession, ColdAtStartOf, ColdIn
<1> QED
  BY <1>3, <1>4

\* What was provisioned stays, in every session and on disk, unless a fault or
\* a crash comes between a truncation and its write, or a read fails.
THEOREM ColdTiersStay == Spec => []ColdTiersKept
<1> DEFINE IInv == ColdTiersKept /\ PendingProvisioned
<1>1. Init => IInv
  <2> SUFFICES ASSUME Init
               PROVE  IInv
    OBVIOUS
  <2>1. \A id \in SessionIds : ~Live(id) /\ disk[ColdPath(id)] = ColdAtStart[FileOf[id]]
    BY ServeAssumption DEF Init, Live, Paths, ColdPath
  <2>2. \A id \in SessionIds : ColdAtStart[FileOf[id]] \in ColdTiers \cup {Absent}
    BY ServeAssumption
  <2>3. ColdTiersKept
    BY <2>1, <2>2, ServeAssumption DEF ColdTiersKept, Provisioned
  <2>5. Len(writes) = 0
    BY DEF Init
  <2> QED
    BY <2>3, <2>5 DEF PendingProvisioned
<1>2. IInv /\ TypeOK /\ TypeOK' /\ [Next]_vars => IInv'
  <2> SUFFICES ASSUME ColdTiersKept, PendingProvisioned, TypeOK, TypeOK', [Next]_vars
               PROVE  ColdTiersKept' /\ PendingProvisioned'
    OBVIOUS
  <2>1. ASSUME NEW id \in SessionIds, NEW unreadable \in SUBSET SessionFiles(id),
               NEW event \in Events \cup {NoEvent}, Served(id, unreadable, event)
        PROVE  ColdTiersKept' /\ PendingProvisioned'
    <3> DEFINE s == SessionFor(id, unreadable)
    <3>1. Idle /\ UNCHANGED <<disk, writes, open>> /\ spoiled' = spoiled \cup unreadable
      BY <2>1 DEF Served, Reads
    <3>2. s \in Session
      BY NewSessionType DEF SessionFor, TypeOK, Live
    <3>3. Learn(id, s, event).cold = s.cold
      BY <3>2 DEF Learn, Session
    <3>4. ColdPath(id) \notin spoiled' => s.cold \in {NoCold, Provisioned(FileOf[id])}
      <4>1. CASE Live(id)
        BY <3>1, <4>1 DEF SessionFor, ColdTiersKept
      <4>2. CASE ~Live(id)
        BY <3>1, <4>2, NewSessionProvisioned DEF SessionFor
      <4> QED
        BY <4>1, <4>2
    <3> HIDE DEF s
    <3>5. \A other \in SessionIds :
            sessions'[other] = IF other = id THEN Learn(id, s, event) ELSE sessions[other]
      BY <2>1 DEF Served, TypeOK, s
    <3>6. \A other \in SessionIds : ColdPath(other) \notin spoiled' =>
            (Live(other)' => sessions'[other].cold \in {NoCold, Provisioned(FileOf[other])})
      BY <3>1, <3>3, <3>4, <3>5 DEF ColdTiersKept, Live
    <3> QED
      BY <3>1, <3>6 DEF ColdTiersKept, PendingProvisioned, ColdPath, Provisioned
  <2>2. ASSUME NEW id \in SessionIds, Reset(id)
        PROVE  ColdTiersKept' /\ PendingProvisioned'
    <3>1. UNCHANGED <<disk, open, spoiled>> /\ Idle /\ ~open
      BY <2>2 DEF Reset, Request, TypeOK
    <3>2. \A other \in SessionIds :
            Live(other)' => sessions'[other] = sessions[other] /\ Live(other)
      BY <2>2 DEF Reset, TypeOK, Live
    <3>3. ColdTiersKept'
      BY <3>1, <3>2 DEF ColdTiersKept, ColdPath, Provisioned
    <3>4. CASE ~Live(id)
      BY <2>2, <3>1, <3>3, <3>4 DEF Reset, PendingProvisioned, ColdPath, Provisioned
    <3>5. CASE Live(id)
      <4>1. sessions[id] \in Session
        BY <3>5 DEF TypeOK, Live
      <4>2. writes' = WritesOf(id, sessions[id])
        BY <2>2, <3>5 DEF Reset
      <4>3. ASSUME NEW other \in SessionIds, ColdPath(other) \notin spoiled,
                   NEW i \in 1..Len(writes'), writes'[i].path = ColdPath(other)
            PROVE  writes'[i].content = Provisioned(FileOf[other])
        <5>1. /\ ColdPath(other) = ColdPath(id)
              /\ writes'[i].content = sessions[id].cold
              /\ sessions[id].cold # NoCold
          BY <4>1, <4>2, <4>3, WritesOfShape DEF MarkovPath, ColdPath
        <5>2. FileOf[other] = FileOf[id]
          BY <5>1 DEF ColdPath
        <5> QED
          BY <3>5, <4>3, <5>1, <5>2 DEF ColdTiersKept
      <4>4. PendingProvisioned'
        BY <3>1, <4>3 DEF PendingProvisioned, ColdPath, Provisioned
      <4> QED
        BY <3>3, <4>4
    <3> QED
      BY <3>4, <3>5
  <2>3. CASE Truncate
    <3>1. UNCHANGED <<sessions, writes, spoiled>> /\ ~open /\ open'
      BY <2>3 DEF Truncate
    <3>2. \A id \in SessionIds :
            disk'[ColdPath(id)] = IF Head(writes).path = ColdPath(id) THEN Torn
                                  ELSE disk[ColdPath(id)]
      BY <2>3, ServeAssumption DEF Truncate, TypeOK, Paths, ColdPath
    <3>3. ColdTiersKept'
      BY <3>1, <3>2, ServeAssumption DEF ColdTiersKept, Live, ColdPath, Provisioned
    <3> QED
      BY <3>1, <3>3 DEF PendingProvisioned, ColdPath, Provisioned
  <2>4. ASSUME ~Idle, writes' = Tail(writes),
               \A id \in SessionIds : ColdPath(id) \notin spoiled' => ColdPath(id) \notin spoiled
        PROVE  PendingProvisioned'
    <3>1. \A i \in 1..Len(writes') : i + 1 \in 1..Len(writes) /\ writes'[i] = writes[i + 1]
      BY <2>4, WritesPopped
    <3>2. ASSUME NEW id \in SessionIds, ColdPath(id) \notin spoiled',
                 NEW i \in 1..Len(writes'), writes'[i].path = ColdPath(id)
          PROVE  writes'[i].content = Provisioned(FileOf[id])
      <4>1. i + 1 \in 1..Len(writes) /\ writes[i + 1].path = ColdPath(id)
        BY <3>1, <3>2
      <4>2. writes[i + 1].content = Provisioned(FileOf[id])
        BY <2>4, <3>2, <4>1 DEF PendingProvisioned
      <4> QED
        BY <3>1, <4>2
    <3> QED
      BY <3>2 DEF PendingProvisioned, ColdPath, Provisioned
  <2>5. CASE WriteOut
    <3>1. /\ ~Idle /\ writes' = Tail(writes) /\ UNCHANGED sessions /\ open /\ ~open'
          /\ Head(writes) = writes[1] /\ 1 \in 1..Len(writes) /\ writes[1] \in Write
          /\ writes[1].content \in Contents(writes[1].path)
      BY <2>5, WritesPopped DEF WriteOut, TypeOK
    <3>2. \A id \in SessionIds : ColdPath(id) \in spoiled <=> ColdPath(id) \in spoiled'
      BY <2>5, <3>1 DEF WriteOut, ColdPath
    <3>3. \A id \in SessionIds :
            disk'[ColdPath(id)] = IF writes[1].path = ColdPath(id) THEN writes[1].content
                                  ELSE disk[ColdPath(id)]
      BY <2>5, <3>1, ServeAssumption DEF WriteOut, TypeOK, Paths, ColdPath
    <3>4. \A id \in SessionIds : writes[1].path = ColdPath(id) =>
            writes[1].content \notin {Absent, Torn}
      BY <3>1, ServeAssumption DEF Contents, ColdPath
    <3>5. PendingProvisioned'
      BY <3>1, <3>2, <2>4
    <3>6. ASSUME NEW id \in SessionIds, ColdPath(id) \notin spoiled
          PROVE  /\ Live(id)' => sessions'[id].cold \in {NoCold, Provisioned(FileOf[id])}
                 /\ disk'[ColdPath(id)] \in {Absent, Torn, Provisioned(FileOf[id])}
                 /\ disk'[ColdPath(id)] = Absent => ColdAtStart[FileOf[id]] = Absent
                 /\ disk'[ColdPath(id)] # Torn
      <4>1. CASE writes[1].path = ColdPath(id)
        BY <3>1, <3>3, <3>4, <3>6, <4>1 DEF PendingProvisioned, ColdTiersKept, Live
      <4>2. CASE writes[1].path # ColdPath(id)
        BY <3>1, <3>3, <3>6, <4>2 DEF ColdTiersKept, Live
      <4> QED
        BY <4>1, <4>2
    <3> QED
      BY <3>2, <3>5, <3>6 DEF ColdTiersKept, ColdPath, Provisioned
  <2>6. CASE WriteFails \/ Restart
    <3>1. /\ UNCHANGED disk
          /\ \A id \in SessionIds : Live(id)' => Live(id) /\ sessions'[id] = sessions[id]
          /\ spoiled' = IF open THEN spoiled \cup {Head(writes).path} ELSE spoiled
      BY <2>6 DEF WriteFails, Restart, Live
    <3>2. \A id \in SessionIds : ColdPath(id) \notin spoiled' =>
            ColdPath(id) \notin spoiled /\ disk[ColdPath(id)] # Torn
      BY <3>1 DEF ColdTiersKept
    <3>3. ColdTiersKept'
      BY <3>1, <3>2 DEF ColdTiersKept, ColdPath, Provisioned
    <3>4. PendingProvisioned'
      <4>1. CASE WriteFails
        <5>1. ~Idle /\ writes' = Tail(writes)
          BY <4>1 DEF WriteFails
        <5> QED
          BY <3>2, <5>1, <2>4
      <4>2. CASE Restart
        <5>1. writes' = <<>>
          BY <4>2 DEF Restart
        <5>2. Len(writes') = 0
          BY <5>1
        <5> QED
          BY <5>2 DEF PendingProvisioned
      <4> QED
        BY <2>6, <4>1, <4>2
    <3> QED
      BY <3>3, <3>4
  <2>7. CASE Unconcerned
    BY <2>7 DEF Unconcerned, ColdTiersKept, PendingProvisioned, Live, ColdPath, Provisioned
  <2> QED
    BY <2>1, <2>2, <2>3, <2>5, <2>6, <2>7, Steps
<1>3. IInv => ColdTiersKept
  OBVIOUS
<1> QED
  BY <1>1, <1>2, <1>3, TypeCorrect, PTL DEF Spec

-----------------------------------------------------------------------------
(* Nothing saved is forgotten. *)

\* Where the saved transitions of a session with a file of its own are: in
\* the table if it is there, in what a reset has still to write, and in the
\* file unless that is truncated.
SavedHeld(id) ==
  /\ Live(id) => saved[id] \subseteq sessions[id].taught
  /\ \A i \in 1..Len(writes) :
       writes[i].path = MarkovPath(id) => saved[id] \subseteq writes[i].content
  /\ (saved[id] # {} /\ ~(open /\ Head(writes).path = MarkovPath(id))) =>
       /\ disk[MarkovPath(id)] \notin {Absent, Torn}
       /\ saved[id] \subseteq disk[MarkovPath(id)]

SavedKept ==
  \A id \in SessionIds :
    /\ saved[id] # {} => KeepsMarkov
    /\ (Unshared(id) /\ MarkovPath(id) \notin spoiled) => SavedHeld(id)

\* A session is made with what was saved for it.
LEMMA NewSessionRemembers ==
  ASSUME TypeOK, SavedKept, Idle, NEW id \in SessionIds, NEW unreadable,
         Unshared(id), MarkovPath(id) \notin spoiled, MarkovPath(id) \notin unreadable
  PROVE  saved[id] \subseteq NewSession(id, unreadable).taught
<1>1. ~open
  BY DEF TypeOK
<1>2. CASE saved[id] # {}
  <2>1. KeepsMarkov /\ SavedHeld(id)
    BY <1>2 DEF SavedKept
  <2>2. disk[MarkovPath(id)] \notin {Absent, Torn} /\ saved[id] \subseteq disk[MarkovPath(id)]
    BY <1>1, <1>2, <2>1 DEF SavedHeld
  <2>3. TaughtAtStart(id) = disk[MarkovPath(id)]
    BY <2>1, <2>2 DEF TaughtAtStart, MarkovIn, KeepsMarkov
  <2>4. NewSession(id, unreadable).taught = TaughtAtStart(id)
    BY DEF NewSession
  <2> QED
    BY <2>2, <2>3, <2>4
<1>3. CASE saved[id] = {}
  BY <1>3
<1> QED
  BY <1>2, <1>3

\* A turn only adds to what is taught.
LEMMA LearnAdds ==
  ASSUME NEW id \in SessionIds, NEW s \in Session, NEW event
  PROVE  s.taught \subseteq Learn(id, s, event).taught
BY DEF Learn, Session

\* While nothing happens to the writes of a session's Markov file and the file,
\* it is enough to look at the table.
LEMMA SavedHeldInTable ==
  ASSUME NEW id \in SessionIds, SavedHeld(id),
         UNCHANGED <<disk, writes, open, saved>>,
         Live(id)' => saved[id] \subseteq sessions'[id].taught
  PROVE  SavedHeld(id)'
BY DEF SavedHeld, MarkovPath, Live

\* Nothing a session with a file to itself has saved is ever forgotten, unless
\* a fault or a crash comes between a truncation and its write.
THEOREM SavedStaysRemembered == Spec => []SavedIsRemembered
<1>1. Init => SavedKept
  <2> SUFFICES ASSUME Init
               PROVE  SavedKept
    OBVIOUS
  <2>1. Len(writes) = 0 /\ \A id \in SessionIds : saved[id] = {} /\ ~Live(id)
    BY DEF Init, Live
  <2> QED
    BY <2>1 DEF SavedKept, SavedHeld
<1>2. SavedKept /\ TypeOK /\ TypeOK' /\ PendingShape /\ [Next]_vars => SavedKept'
  <2> SUFFICES ASSUME SavedKept, TypeOK, TypeOK', PendingShape, [Next]_vars
               PROVE  SavedKept'
    OBVIOUS
  <2>1. \A id \in SessionIds : MarkovPath(id) \in Paths /\ UNCHANGED MarkovPath(id)
    BY ServeAssumption DEF MarkovPath, Paths
  <2>2. ASSUME NEW id \in SessionIds, NEW unreadable \in SUBSET SessionFiles(id),
               NEW event \in Events \cup {NoEvent}, Served(id, unreadable, event)
        PROVE  SavedKept'
    <3> DEFINE s == SessionFor(id, unreadable)
    <3>1. Idle /\ UNCHANGED <<config, disk, writes, open, saved>>
          /\ spoiled' = spoiled \cup unreadable
      BY <2>2 DEF Served, Reads
    <3>2. s \in Session
      BY NewSessionType DEF SessionFor, TypeOK, Live
    <3>3. (Unshared(id) /\ MarkovPath(id) \notin spoiled') =>
            saved[id] \subseteq Learn(id, s, event).taught
      <4> SUFFICES ASSUME Unshared(id), MarkovPath(id) \notin spoiled'
                   PROVE  saved[id] \subseteq Learn(id, s, event).taught
        OBVIOUS
      <4>1. CASE Live(id)
        BY <3>1, <3>2, <4>1, LearnAdds DEF SessionFor, SavedKept, SavedHeld
      <4>2. CASE ~Live(id)
        BY <3>1, <3>2, <4>2, LearnAdds, NewSessionRemembers DEF SessionFor
      <4> QED
        BY <4>1, <4>2
    <3> HIDE DEF s
    <3>4. \A other \in SessionIds :
            sessions'[other] = IF other = id THEN Learn(id, s, event) ELSE sessions[other]
      BY <2>2 DEF Served, TypeOK, s
    <3>5. ASSUME NEW other \in SessionIds, Unshared(other), MarkovPath(other) \notin spoiled'
          PROVE  SavedHeld(other)'
      <4>1. SavedHeld(other)
        BY <3>1, <3>5 DEF SavedKept
      <4>2. Live(other)' => saved[other] \subseteq sessions'[other].taught
        BY <3>3, <3>4, <3>5, <4>1 DEF SavedHeld, Live
      <4> QED
        BY <3>1, <4>1, <4>2, SavedHeldInTable
    <3> QED
      BY <3>1, <3>5 DEF SavedKept, MarkovPath, Unshared, KeepsMarkov
  <2>3. ASSUME NEW id \in SessionIds, Reset(id)
        PROVE  SavedKept'
    <3>1. Idle /\ ~open /\ UNCHANGED <<config, disk, open, saved, spoiled>>
      BY <2>3 DEF Reset, Request, TypeOK
    <3>2. \A other \in SessionIds :
            Live(other)' => sessions'[other] = sessions[other] /\ Live(other)
      BY <2>3 DEF Reset, TypeOK, Live
    <3>3. ASSUME NEW other \in SessionIds, Unshared(other), SavedHeld(other)
          PROVE  SavedHeld(other)'
      <4>1. CASE ~Live(id)
        BY <2>3, <3>1, <3>2, <3>3, <4>1, SavedHeldInTable DEF Reset, SavedHeld
      <4>2. CASE Live(id)
        <5>1. sessions[id] \in Session
          BY <4>2 DEF TypeOK, Live
        <5>2. writes' = WritesOf(id, sessions[id])
          BY <2>3, <4>2 DEF Reset
        <5>3. ASSUME NEW i \in 1..Len(writes'), writes'[i].path = MarkovPath(other)
              PROVE  saved[other] \subseteq writes'[i].content
          <6>1. MarkovPath(other) = MarkovPath(id) /\ writes'[i].content = sessions[id].taught
            BY <5>1, <5>2, <5>3, WritesOfShape DEF MarkovPath, ColdPath
          <6>2. other = id
            BY <3>3, <6>1 DEF MarkovPath, Unshared
          <6> QED
            BY <3>3, <4>2, <6>1, <6>2 DEF SavedHeld
        <5> QED
          BY <3>1, <3>2, <3>3, <5>3 DEF SavedHeld, MarkovPath
      <4> QED
        BY <4>1, <4>2
    <3> QED
      BY <3>1, <3>3 DEF SavedKept, MarkovPath, Unshared, KeepsMarkov
  <2>4. CASE Truncate
    <3>1. UNCHANGED <<config, sessions, writes, saved, spoiled>> /\ ~open /\ open'
      BY <2>4 DEF Truncate
    <3>2. \A id \in SessionIds :
            Head(writes).path # MarkovPath(id) => disk'[MarkovPath(id)] = disk[MarkovPath(id)]
      BY <2>1, <2>4 DEF Truncate, TypeOK
    <3>3. ASSUME NEW id \in SessionIds, SavedHeld(id)
          PROVE  SavedHeld(id)'
      BY <3>1, <3>2, <3>3 DEF SavedHeld, MarkovPath, Live
    <3> QED
      BY <3>1, <3>3 DEF SavedKept, MarkovPath, Unshared, KeepsMarkov
  <2>5. CASE WriteOut
    <3>1. /\ ~Idle /\ writes' = Tail(writes) /\ UNCHANGED <<config, sessions>>
          /\ open /\ ~open'
          /\ Head(writes) = writes[1] /\ 1 \in 1..Len(writes) /\ writes[1] \in Write
      BY <2>5, WritesPopped DEF WriteOut
    <3>2. \A i \in 1..Len(writes') : i + 1 \in 1..Len(writes) /\ writes'[i] = writes[i + 1]
      BY <3>1, WritesPopped
    <3>3. /\ writes[1].by \in SessionIds /\ ~Live(writes[1].by)
          /\ \/ writes[1].path = MarkovPath(writes[1].by) /\ KeepsMarkov
             \/ writes[1].path = ColdPath(writes[1].by)
      BY <3>1 DEF PendingShape, Write
    <3>4. \A id \in SessionIds :
            disk'[MarkovPath(id)] = IF writes[1].path = MarkovPath(id) THEN writes[1].content
                                    ELSE disk[MarkovPath(id)]
      BY <2>1, <2>5, <3>1 DEF WriteOut, TypeOK
    <3>5. \A id \in SessionIds :
            saved'[id] = IF writes[1].path[1] = "markov" /\ id = writes[1].by
                         THEN writes[1].content ELSE saved[id]
      BY <2>5, <3>1 DEF WriteOut, TypeOK
    <3>6. \A id \in SessionIds : writes[1].path # MarkovPath(id) =>
            (MarkovPath(id) \in spoiled <=> MarkovPath(id) \in spoiled')
      BY <2>5, <3>1 DEF WriteOut
    <3>7. \A id \in SessionIds : saved'[id] # {} => KeepsMarkov
      BY <3>3, <3>5 DEF SavedKept, ColdPath
    <3>8. ASSUME NEW id \in SessionIds, Unshared(id), MarkovPath(id) \notin spoiled'
          PROVE  SavedHeld(id)'
      <4>1. CASE writes[1].path = MarkovPath(id)
        <5>1. writes[1].by = id /\ writes[1].path[1] = "markov"
          BY <3>3, <3>8, <4>1 DEF MarkovPath, ColdPath, Unshared
        <5>2. saved'[id] = writes[1].content /\ disk'[MarkovPath(id)] = writes[1].content
          BY <3>4, <3>5, <4>1, <5>1
        <5>3. writes[1].content \notin {Absent, Torn}
          BY <3>1, ServeAssumption DEF Write
        <5>4. ~Live(id)'
          BY <3>1, <3>3, <5>1 DEF Live
        <5>5. \A i \in 1..Len(writes') : writes'[i].path # MarkovPath(id)
          <6> SUFFICES ASSUME NEW i \in 1..Len(writes'), writes'[i].path = MarkovPath(id)
                       PROVE  FALSE
            OBVIOUS
          <6>1. i + 1 \in 1..Len(writes) /\ writes[i + 1].path = writes[1].path
            BY <3>2, <4>1
          <6>2. i + 1 = 1
            BY <3>1, <6>1 DEF PendingShape
          <6>3. i \in Nat /\ i >= 1
            OBVIOUS
          <6> QED
            BY <6>2, <6>3
        <5> QED
          BY <2>1, <5>2, <5>3, <5>4, <5>5 DEF SavedHeld
      <4>2. CASE writes[1].path # MarkovPath(id)
        <5>1. SavedHeld(id)
          BY <3>6, <3>8, <4>2 DEF SavedKept
        <5>2. saved'[id] = saved[id]
          BY <3>3, <3>5, <4>2 DEF ColdPath
        <5>3. disk'[MarkovPath(id)] = disk[MarkovPath(id)]
          BY <3>4, <4>2
        <5>4. \A i \in 1..Len(writes') :
                writes'[i].path = MarkovPath(id) => saved'[id] \subseteq writes'[i].content
          BY <3>2, <5>1, <5>2 DEF SavedHeld
        <5>5. Live(id)' => saved'[id] \subseteq sessions'[id].taught
          BY <3>1, <5>1, <5>2 DEF SavedHeld, Live
        <5> QED
          BY <2>1, <3>1, <4>2, <5>1, <5>2, <5>3, <5>4, <5>5 DEF SavedHeld
      <4> QED
        BY <4>1, <4>2
    <3> QED
      BY <3>1, <3>7, <3>8 DEF SavedKept, MarkovPath, Unshared, KeepsMarkov
  <2>6. CASE WriteFails \/ Restart
    <3>1. /\ UNCHANGED <<config, disk, saved>>
          /\ \A id \in SessionIds : Live(id)' => Live(id) /\ sessions'[id] = sessions[id]
          /\ spoiled' = IF open THEN spoiled \cup {Head(writes).path} ELSE spoiled
      BY <2>6 DEF WriteFails, Restart, Live
    <3>2. \A i \in 1..Len(writes') : i + 1 \in 1..Len(writes) /\ writes'[i] = writes[i + 1]
      <4>1. CASE WriteFails
        BY <4>1, WritesPopped DEF WriteFails
      <4>2. CASE Restart
        <5>1. writes' = <<>>
          BY <4>2 DEF Restart
        <5>2. Len(writes') = 0
          BY <5>1
        <5> QED
          BY <5>2
      <4> QED
        BY <2>6, <4>1, <4>2
    <3>3. ASSUME NEW id \in SessionIds, Unshared(id), MarkovPath(id) \notin spoiled'
          PROVE  SavedHeld(id)'
      <4>1. MarkovPath(id) \notin spoiled /\ ~(open /\ Head(writes).path = MarkovPath(id))
        BY <3>1, <3>3
      <4>2. SavedHeld(id)
        BY <3>3, <4>1 DEF SavedKept
      <4>3. \A i \in 1..Len(writes') :
              writes'[i].path = MarkovPath(id) => saved[id] \subseteq writes'[i].content
        BY <3>2, <4>2 DEF SavedHeld
      <4> QED
        BY <2>1, <3>1, <4>1, <4>2, <4>3 DEF SavedHeld
    <3> QED
      BY <3>1, <3>3 DEF SavedKept, MarkovPath, Unshared, KeepsMarkov
  <2>7. CASE Unconcerned
    BY <2>7 DEF Unconcerned, SavedKept, SavedHeld, Live, KeepsMarkov, MarkovPath, Unshared
  <2> QED
    BY <2>2, <2>3, <2>4, <2>5, <2>6, <2>7, Steps
<1>3. SavedKept /\ TypeOK /\ PendingShape => SavedIsRemembered
  <2> SUFFICES ASSUME SavedKept, TypeOK, PendingShape, NEW id \in SessionIds,
                      Unshared(id), MarkovPath(id) \notin spoiled
               PROVE  saved[id] \subseteq Remembered(id)
    BY DEF SavedIsRemembered
  <2>1. SavedHeld(id) /\ (saved[id] # {} => KeepsMarkov)
    BY DEF SavedKept
  <2>2. DOMAIN writes = 1..Len(writes)
    BY DEF TypeOK
  <2>3. CASE Live(id)
    BY <2>1, <2>3 DEF SavedHeld, Remembered
  <2>4. CASE ~Live(id) /\ \E i \in Pending(MarkovPath(id)) : writes[i].by = id
    BY <2>1, <2>2, <2>4 DEF SavedHeld, Remembered, Pending
  <2>5. CASE /\ ~Live(id)
             /\ ~\E i \in Pending(MarkovPath(id)) : writes[i].by = id
             /\ saved[id] # {}
    <3>1. ~(open /\ Head(writes).path = MarkovPath(id))
      <4> SUFFICES ASSUME open, Head(writes).path = MarkovPath(id)
                   PROVE  FALSE
        OBVIOUS
      <4>1. 1 \in 1..Len(writes) /\ Head(writes) = writes[1] /\ writes[1] \in Write
        BY WritesPopped DEF TypeOK
      <4>2. \/ writes[1].path = MarkovPath(writes[1].by)
            \/ writes[1].path = ColdPath(writes[1].by)
        BY <4>1 DEF PendingShape
      <4>3. writes[1].by = id
        BY <4>1, <4>2 DEF MarkovPath, ColdPath, Unshared, Write
      <4> QED
        BY <2>2, <2>5, <4>1, <4>3 DEF Pending
    <3>2. disk[MarkovPath(id)] \notin {Absent, Torn} /\ saved[id] \subseteq disk[MarkovPath(id)]
      BY <2>1, <2>5, <3>1 DEF SavedHeld
    <3>3. TaughtAtStart(id) = disk[MarkovPath(id)]
      BY <2>1, <2>5, <3>2 DEF TaughtAtStart, MarkovIn, KeepsMarkov
    <3>4. Remembered(id) = TaughtAtStart(id)
      BY <2>5 DEF Remembered
    <3> QED
      BY <3>2, <3>3, <3>4
  <2> QED
    BY <2>3, <2>4, <2>5
<1> QED
  BY <1>1, <1>2, <1>3, TypeCorrect, Shaped, PTL DEF Spec

-----------------------------------------------------------------------------
(* The index directory: what a manifest says of its entries. *)

Manifests == {ManifestOf(entries, embedder) : entries \in Corpora, embedder \in Embedders}

LEMMA ManifestFields ==
  ASSUME NEW m \in Manifests
  PROVE  /\ m.entries \in Corpora /\ m.embedder \in Embedders
         /\ m.count = Len(m.entries)
         /\ m.ids = [i \in DOMAIN m.entries |-> m.entries[i].id]
         /\ m.texts = [i \in DOMAIN m.entries |-> m.entries[i].text]
         /\ m.scope = ScopeOf(m.entries)
BY DEF Manifests, ManifestOf

LEMMA EntriesOf ==
  ASSUME NEW entries \in Corpora
  PROVE  /\ Len(entries) \in Nat /\ DOMAIN entries = 1..Len(entries)
         /\ \A i \in 1..Len(entries) :
              /\ entries[i].id \in DocIds /\ entries[i].text \in Texts
              /\ EventKey(entries[i]) \in Names
<1>1. entries \in Seq(Entry)
  BY CorpusAssumption
<1>2. Len(entries) \in Nat /\ DOMAIN entries = 1..Len(entries)
  BY <1>1, LenProperties
<1>3. \A i \in 1..Len(entries) : entries[i] \in Entry
  BY <1>1, <1>2, ElementOfSeq
<1> QED
  BY <1>2, <1>3 DEF Entry, EventKey, Names

\* A position has the event of its entry.
LEMMA EventOfEntry ==
  ASSUME NEW entries \in Corpora, NEW i \in DOMAIN entries
  PROVE  EventAt(ScopeOf(entries), i) = EventKey(entries[i])
<1>1. PICK n : n = EventKey(entries[i])
  OBVIOUS
<1>2. n \in Nat
  BY <1>1, EntriesOf, CorpusAssumption
<1>3. PICK scope : scope = ScopeOf(entries)
  OBVIOUS
<1>4. PICK naming : naming = {m \in DOMAIN scope : i \in scope[m]}
  OBVIOUS
<1>5. naming = {n}
  BY <1>1, <1>3, <1>4 DEF ScopeOf
<1>6. EventAt(scope, i) = CHOOSE m \in naming : \A l \in naming : l <= m
  BY <1>4, <1>5 DEF EventAt
<1> QED
  BY <1>1, <1>2, <1>3, <1>5, <1>6

\* A hit is its entry, and quotes it where the id is its own.
LEMMA HitIsEntry ==
  ASSUME NEW m \in Manifests, NEW i \in 1..m.count
  PROVE  /\ i \in DOMAIN m.entries
         /\ HitAt(m, i).id = m.entries[i].id
         /\ HitAt(m, i).event = EventKey(m.entries[i])
         /\ Alone(m.entries, i) => HitAt(m, i).body = m.entries[i].text
         /\ i \in DOMAIN m.ids /\ EventAt(m.scope, i) \in DOMAIN m.scope
         /\ i \in m.scope[EventAt(m.scope, i)]
<1>1. PICK entries \in Corpora : entries = m.entries
  BY ManifestFields
<1>2. i \in DOMAIN entries
  BY <1>1, EntriesOf, ManifestFields
<1>3. m.ids = [j \in DOMAIN entries |-> entries[j].id]
  BY <1>1, ManifestFields
<1>4. m.texts = [j \in DOMAIN entries |-> entries[j].text]
  BY <1>1, ManifestFields
<1>5. IdAt(m.ids, i) = entries[i].id
  BY <1>2, <1>3 DEF IdAt
<1>6. EventAt(m.scope, i) = EventKey(entries[i])
  BY Zenon, <1>1, <1>2, EventOfEntry, ManifestFields
<1>7. ASSUME Alone(entries, i)
      PROVE  TextFor(m, entries[i].id) = entries[i].text
  <2>1. PICK same : same = {j \in DOMAIN m.ids : m.ids[j] = entries[i].id}
    OBVIOUS
  <2>2. same = {i}
    BY <1>2, <1>3, <1>7, <2>1 DEF Alone
  <2>3. i \in Nat
    BY <1>2, EntriesOf
  <2>4. TextFor(m, entries[i].id) = m.texts[CHOOSE j \in same : \A l \in same : l <= j]
    BY <2>1, <2>2 DEF TextFor
  <2>5. (CHOOSE j \in same : \A l \in same : l <= j) = i
    BY <2>2, <2>3
  <2> QED
    BY <1>2, <1>4, <2>4, <2>5
<1>8. i \in DOMAIN m.ids
  BY <1>2, <1>3
<1>9. m.scope = ScopeOf(entries)
  BY <1>1, ManifestFields
<1>10. EventKey(entries[i]) \in DOMAIN m.scope /\ i \in m.scope[EventKey(entries[i])]
  BY <1>2, <1>9 DEF ScopeOf
<1> QED
  BY <1>1, <1>2, <1>5, <1>6, <1>7, <1>8, <1>10 DEF HitAt

\* A position no entry has is nobody's.
LEMMA HitOfNoEntry ==
  ASSUME NEW m \in Manifests, NEW i \in Nat, i > m.count
  PROVE  HitAt(m, i).id = UnknownId /\ HitAt(m, i).event = DefaultName
<1>1. PICK entries \in Corpora : entries = m.entries
  BY ManifestFields
<1>2. m.count = Len(entries) /\ m.ids = [j \in DOMAIN entries |-> entries[j].id]
  BY <1>1, ManifestFields
<1>3. i \notin DOMAIN entries
  BY <1>2, EntriesOf
<1>4. IdAt(m.ids, i) = UnknownId
  BY <1>2, <1>3 DEF IdAt
<1>5. m.scope = ScopeOf(entries)
  BY <1>1, ManifestFields
<1>6. PICK naming : naming = {n \in DOMAIN m.scope : i \in m.scope[n]}
  OBVIOUS
<1>7. naming = {}
  BY <1>3, <1>5, <1>6 DEF ScopeOf
<1>8. EventAt(m.scope, i) = DefaultName
  BY <1>6, <1>7 DEF EventAt
<1> QED
  BY <1>4, <1>8 DEF HitAt

-----------------------------------------------------------------------------
(* The index directory: events by number. *)

\* The names of a corpus are finitely many.
LEMMA NamesFinite ==
  ASSUME NEW entries \in Corpora
  PROVE  /\ IsFiniteSet(DOMAIN ScopeOf(entries))
         /\ DOMAIN ScopeOf(entries) \subseteq Nat
<1>1. DOMAIN ScopeOf(entries) = {EventKey(entries[i]) : i \in DOMAIN entries}
  BY DEF ScopeOf
<1>2. IsFiniteSet(DOMAIN entries)
  BY EntriesOf, FS_Interval
<1> DEFINE keys == {EventKey(entries[i]) : i \in DOMAIN entries}
           key  == [i \in DOMAIN entries |-> EventKey(entries[i])]
<1>3. key \in Surjection(DOMAIN entries, keys)
  BY DEF Surjection
<1>4. IsFiniteSet(keys)
  <2> HIDE DEF key, keys
  <2> QED
    BY <1>2, <1>3, FS_Surjection
<1>5. keys \subseteq Nat
  BY EntriesOf, CorpusAssumption
<1> QED
  BY <1>1, <1>4, <1>5

\* No two names have one number, so a number names what it was made from.
LEMMA NumbersName ==
  ASSUME NEW names \in SUBSET Nat, IsFiniteSet(names), NEW n \in names
  PROVE  NamesOf(names, NumberOf(names, n)) = {n}
<1> DEFINE below(k) == {m \in names : m < k}
<1>1. ASSUME NEW k \in names
      PROVE  IsFiniteSet(below(k)) /\ Cardinality(below(k)) \in Nat
  BY FS_Subset, FS_CardinalityType
<1>2. ASSUME NEW k \in names, NEW l \in names, k < l
      PROVE  Cardinality(below(k)) # Cardinality(below(l))
  <2>1. below(k) \subseteq below(l)
    <3>1. \A m \in names : m \in Nat
      OBVIOUS
    <3>2. \A m \in names : m < k => m < l
      BY <1>2, <3>1
    <3> QED
      BY Zenon, <3>2
  <2>2. k \in below(l) /\ k \notin below(k)
    BY <1>2
  <2> HIDE DEF below
  <2> QED
    BY <1>1, <2>1, <2>2, FS_Subset
<1>3. ASSUME NEW k \in names, Cardinality(below(k)) = Cardinality(below(n))
      PROVE  k = n
  <2>1. ~(k < n) /\ ~(n < k)
    BY Zenon, <1>2, <1>3
  <2> QED
    BY <2>1
<1>4. NamesOf(names, NumberOf(names, n)) = {k \in names : Cardinality(below(k)) = Cardinality(below(n))}
  BY DEF NamesOf, NumberOf
<1> HIDE DEF below
<1> QED
  BY <1>3, <1>4

-----------------------------------------------------------------------------
(* The index directory: the invariant. *)

ServerOrQuery ==
  [kind : {"serve", "query"}, at : {"opening", "sized", "up"}, manifest : Manifests,
   checked : Nat, mapped : Nat, shared : BOOLEAN, dirty : BOOLEAN, overtaken : BOOLEAN]

IndexRun ==
  [at : {"truncate signatures", "write signatures", "truncate manifest", "write manifest"},
   entries : Corpora, embedder : Embedders]

Indexing == writer # Nobody /\ writer.at # "write transitions"

Matching(m) == signatures = SignaturesOf(m.entries, m.embedder)

TaughtByName(l) == l.names \subseteq Nat /\ IsFiniteSet(l.names) /\ l.said \in l.names
                     /\ l.to = NumberOf(l.names, l.said)

\* While an index run is under way, everyone who has the directory open knows;
\* the manifest is written over signatures that match it.
WriterOK ==
  /\ Indexing =>
       /\ writer \in IndexRun
       /\ writer.at = "write signatures" => signatures \in Seq(Signatures)
       /\ dirty /\ (reader # Nobody => reader.dirty)
       /\ writer.at \in {"truncate manifest", "write manifest"} =>
            signatures = SignaturesOf(writer.entries, writer.embedder)
  /\ writer # Nobody /\ ~Indexing => \A l \in writer.lessons : TaughtByName(l)

FilesOK ==
  /\ dirty \in BOOLEAN
  /\ signatures # NoFile => signatures \in Seq(Signatures)
  /\ manifest # NoFile => manifest \in Manifests
  /\ manifest # NoFile /\ ~dirty => Matching(manifest)
  /\ transitions # NoFile => \A l \in transitions : TaughtByName(l)

ReaderOK ==
  reader # Nobody =>
    /\ reader \in ServerOrQuery
    /\ reader.at = "sized" =>
         /\ signatures \in Seq(Signatures)
         /\ reader.overtaken \/ reader.checked = Len(signatures)
    /\ reader.at = "up" => reader.overtaken \/ reader.mapped = reader.manifest.count
    /\ ~reader.dirty => Matching(reader.manifest) /\ ~reader.overtaken

PriorOK == prior # Nobody => \A l \in prior : TaughtByName(l)

CorpusInv == WriterOK /\ FilesOK /\ ReaderOK /\ PriorOK

LEMMA CorpusInvInit == CorpusInit => CorpusInv
BY DEF CorpusInit, CorpusInv, WriterOK, FilesOK, ReaderOK, PriorOK, Indexing

\* Training: what is learned by number is meant by name.
LEMMA TrainedByName ==
  ASSUME NEW m \in Manifests, NEW seq
  PROVE  \A l \in TrainedOn(m, seq) : TaughtByName(l)
<1>1. PICK names : names = DOMAIN m.scope
  OBVIOUS
<1>2. IsFiniteSet(names) /\ names \subseteq Nat
  BY <1>1, NamesFinite, ManifestFields
<1> TAKE l \in TrainedOn(m, seq)
<1>3. PICK p \in Successions(names, seq) :
        l = [from |-> NumberOf(names, seq[p[1]]), to |-> NumberOf(names, seq[p[2]]),
             names |-> names, said |-> seq[p[2]]]
  BY <1>1 DEF TrainedOn
<1>4. seq[p[2]] \in names
  BY DEF Successions
<1>5. l.names = names /\ l.said = seq[p[2]] /\ l.to = NumberOf(names, seq[p[2]])
  BY <1>3
<1> QED
  BY <1>2, <1>4, <1>5 DEF TaughtByName

\* The signatures change under a reader that knows of the run.
LEMMA OvertakenReader ==
  ASSUME ReaderOK, Overtakes, reader # Nobody => reader.dirty, signatures' \in Seq(Signatures)
  PROVE  ReaderOK' /\ (reader' # Nobody => reader'.dirty)
<1>1. CASE reader # Nobody /\ reader.at = "sized"
  <2>1. reader' = [reader EXCEPT !.overtaken = TRUE] /\ reader \in ServerOrQuery
    BY <1>1 DEF Overtakes, ReaderOK
  <2>2. /\ reader' \in ServerOrQuery /\ reader'.at = "sized" /\ reader'.overtaken
        /\ reader'.dirty = reader.dirty
    BY <1>1, <2>1 DEF ServerOrQuery
  <2> QED
    BY <1>1, <2>2 DEF ReaderOK
<1>2. CASE ~(reader # Nobody /\ reader.at = "sized")
  BY <1>2 DEF Overtakes, ReaderOK
<1> QED
  BY <1>1, <1>2

\* What a part of the file and the whole file hold.
LEMMA Written ==
  ASSUME NEW entries \in Corpora, NEW embedder \in Embedders
  PROVE  /\ SignaturesOf(entries, embedder) \in Seq(Signatures)
         /\ \A n \in 1..Len(entries) : SubSeq(SignaturesOf(entries, embedder), 1, n) \in Seq(Signatures)
         /\ SubSeq(SignaturesOf(entries, embedder), 1, Len(entries)) = SignaturesOf(entries, embedder)
<1>1. PICK all : all = SignaturesOf(entries, embedder)
  OBVIOUS
<1>2. \A i \in 1..Len(entries) : Signature(embedder, entries[i].text) \in Signatures
  BY EntriesOf, CorpusAssumption DEF Signature
<1>3. all = [i \in 1..Len(entries) |-> Signature(embedder, entries[i].text)] /\ Len(entries) \in Nat
  BY <1>1, EntriesOf DEF SignaturesOf
<1>4. all \in [1..Len(entries) -> Signatures]
  BY <1>2, <1>3
<1>5. all \in Seq(Signatures) /\ Len(all) = Len(entries)
  BY <1>3, <1>4
<1>6. \A n \in 1..Len(entries) : SubSeq(all, 1, n) \in Seq(Signatures)
  BY <1>3, <1>5
<1>7. SubSeq(all, 1, Len(entries)) = all
  BY <1>3, <1>4, <1>5
<1> QED
  BY <1>1, <1>5, <1>6, <1>7

LEMMA CorpusInvNext == CorpusInv /\ [CorpusNext]_corpusVars => CorpusInv'
<1> SUFFICES ASSUME CorpusInv, [CorpusNext]_corpusVars PROVE CorpusInv'
  OBVIOUS
<1> USE DEF CorpusInv
<1>1. CASE UNCHANGED corpusVars
  BY <1>1 DEF corpusVars, fileVars, WriterOK, FilesOK, ReaderOK, PriorOK, Indexing, Matching
<1>2. CASE IndexCorpus
  <2>1. PICK entries \in Corpora, embedder \in Embedders :
          writer' = [at |-> "truncate signatures", entries |-> entries, embedder |-> embedder]
    BY <1>2 DEF IndexCorpus
  <2>2. /\ dirty' = TRUE
        /\ reader' = IF reader = Nobody THEN Nobody ELSE [reader EXCEPT !.dirty = TRUE]
        /\ UNCHANGED <<signatures, manifest, transitions, prior>>
    BY <1>2 DEF IndexCorpus, fileVars
  <2>3. ReaderOK' /\ (reader' # Nobody => reader'.dirty)
    BY <2>2 DEF ReaderOK, ServerOrQuery
  <2>4. WriterOK'
    BY <2>1, <2>2, <2>3 DEF WriterOK, Indexing, IndexRun
  <2>5. FilesOK' /\ PriorOK'
    BY <2>2 DEF FilesOK, PriorOK, Matching
  <2> QED
    BY <2>3, <2>4, <2>5
<1>3. CASE TruncateSignatures
  <2>1. /\ Indexing /\ signatures' = <<>> /\ Overtakes
        /\ writer' = [writer EXCEPT !.at = "write signatures"]
        /\ writer.at = "truncate signatures"
        /\ UNCHANGED <<manifest, transitions, dirty, prior>>
    BY <1>3 DEF TruncateSignatures, Indexing
  <2>2. writer \in IndexRun /\ dirty /\ (reader # Nobody => reader.dirty)
    BY <2>1 DEF WriterOK
  <2>3. /\ writer' \in IndexRun /\ writer'.at = "write signatures"
        /\ writer'.entries = writer.entries /\ writer'.embedder = writer.embedder
    BY <2>1, <2>2 DEF IndexRun
  <2>4. signatures' \in Seq(Signatures)
    BY Zenon, <2>1, EmptySeq
  <2>5. ReaderOK' /\ (reader' # Nobody => reader'.dirty)
    BY <2>1, <2>2, <2>4, OvertakenReader
  <2>6. WriterOK'
    BY <2>1, <2>2, <2>3, <2>4, <2>5 DEF WriterOK, Indexing
  <2>7. FilesOK' /\ PriorOK'
    BY <2>1, <2>2, <2>4 DEF FilesOK, PriorOK
  <2> QED
    BY <2>5, <2>6, <2>7
<1>4. CASE WriteSignatures
  <2>1. /\ Indexing /\ Overtakes /\ writer.at = "write signatures"
        /\ UNCHANGED <<manifest, transitions, dirty, prior>>
    BY <1>4 DEF WriteSignatures, Indexing
  <2>2. /\ writer \in IndexRun /\ dirty /\ (reader # Nobody => reader.dirty)
        /\ signatures \in Seq(Signatures)
    BY <2>1 DEF WriterOK
  <2>3. PICK n \in Len(signatures) + 1 .. Len(writer.entries) :
          /\ signatures' = SubSeq(SignaturesOf(writer.entries, writer.embedder), 1, n)
          /\ writer' = IF n = Len(writer.entries) THEN [writer EXCEPT !.at = "truncate manifest"] ELSE writer
    BY <1>4 DEF WriteSignatures
  <2>4. writer.entries \in Corpora /\ writer.embedder \in Embedders
    BY <2>2 DEF IndexRun
  <2>5. n \in 1..Len(writer.entries)
    <3>1. Len(signatures) \in Nat /\ Len(writer.entries) \in Nat
      BY <2>2, <2>4, EntriesOf
    <3> QED
      BY <3>1
  <2>6. signatures' \in Seq(Signatures)
    BY <2>3, <2>4, <2>5, Written
  <2>7. n = Len(writer.entries) => signatures' = SignaturesOf(writer.entries, writer.embedder)
    BY <2>3, <2>4, Written
  <2>8. ReaderOK' /\ (reader' # Nobody => reader'.dirty)
    BY <2>1, <2>2, <2>6, OvertakenReader
  <2>9. /\ writer' \in IndexRun
        /\ writer'.at = IF n = Len(writer.entries) THEN "truncate manifest" ELSE "write signatures"
        /\ writer'.entries = writer.entries /\ writer'.embedder = writer.embedder
    BY <2>1, <2>2, <2>3 DEF IndexRun
  <2>10. WriterOK'
    BY <2>1, <2>2, <2>6, <2>7, <2>8, <2>9 DEF WriterOK, Indexing
  <2>11. FilesOK' /\ PriorOK'
    BY <2>1, <2>2, <2>6 DEF FilesOK, PriorOK
  <2> QED
    BY <2>8, <2>10, <2>11
<1>5. CASE TruncateManifest
  <2>1. /\ Indexing /\ manifest' = NoFile
        /\ writer' = [writer EXCEPT !.at = "write manifest"]
        /\ writer.at = "truncate manifest"
        /\ UNCHANGED <<signatures, transitions, dirty, reader, prior>>
    BY <1>5 DEF TruncateManifest, Indexing
  <2>2. /\ writer \in IndexRun /\ dirty /\ (reader # Nobody => reader.dirty)
        /\ signatures = SignaturesOf(writer.entries, writer.embedder)
    BY <2>1 DEF WriterOK
  <2>3. /\ writer' \in IndexRun /\ writer'.at = "write manifest"
        /\ writer'.entries = writer.entries /\ writer'.embedder = writer.embedder
    BY <2>1, <2>2 DEF IndexRun
  <2>4. WriterOK'
    BY <2>1, <2>2, <2>3 DEF WriterOK, Indexing
  <2>5. FilesOK' /\ ReaderOK' /\ PriorOK'
    BY <2>1, <2>2 DEF FilesOK, ReaderOK, PriorOK, Matching
  <2> QED
    BY <2>4, <2>5
<1>6. CASE WriteManifest
  <2>1. /\ Indexing /\ manifest' = ManifestOf(writer.entries, writer.embedder)
        /\ writer' = Nobody /\ writer.at = "write manifest" /\ dirty' = FALSE
        /\ UNCHANGED <<signatures, transitions, reader, prior>>
    BY <1>6 DEF WriteManifest, Indexing
  <2>2. /\ writer.entries \in Corpora /\ writer.embedder \in Embedders
        /\ signatures = SignaturesOf(writer.entries, writer.embedder)
    BY <2>1 DEF WriterOK, IndexRun
  <2>3. manifest' \in Manifests
    <3>1. \A E \in Corpora, b \in Embedders : ManifestOf(E, b) \in Manifests
      BY SMT DEF Manifests
    <3> QED
      BY <2>1, <2>2, <3>1
  <2>4. manifest'.entries = writer.entries /\ manifest'.embedder = writer.embedder
    BY <2>1 DEF ManifestOf
  <2>5. Matching(manifest)'
    BY Zenon, <2>1, <2>2, <2>4 DEF Matching
  <2> QED
    BY <2>1, <2>3, <2>5 DEF WriterOK, FilesOK, ReaderOK, PriorOK, Indexing, Matching
<1>7. CASE TrainPredictor
  <2>1. PICK seq : writer' = [at |-> "write transitions", lessons |-> TrainedOn(manifest, seq)]
    BY <1>7 DEF TrainPredictor
  <2>2. /\ manifest # NoFile /\ transitions' = {}
        /\ UNCHANGED <<signatures, manifest, dirty, reader, prior>>
    BY <1>7 DEF TrainPredictor
  <2>3. \A l \in TrainedOn(manifest, seq) : TaughtByName(l)
    BY <2>2, TrainedByName DEF FilesOK
  <2>4. WriterOK'
    BY <2>1, <2>3 DEF WriterOK, Indexing, TaughtByName
  <2> QED
    BY <2>2, <2>4 DEF FilesOK, ReaderOK, PriorOK, Matching
<1>8. CASE WriteTransitions
  <2>1. /\ writer # Nobody /\ ~Indexing /\ transitions' = writer.lessons /\ writer' = Nobody
        /\ UNCHANGED <<signatures, manifest, dirty, reader, prior>>
    BY <1>8 DEF WriteTransitions, Indexing
  <2> QED
    BY <2>1 DEF WriterOK, FilesOK, ReaderOK, PriorOK, Indexing, Matching
<1>9. CASE WriterStops
  BY <1>9 DEF WriterStops, fileVars, WriterOK, FilesOK, ReaderOK, PriorOK, Indexing, Matching
<1>10. ASSUME NEW role \in {"serve", "query"}, ReadManifest(role)
       PROVE  CorpusInv'
  <2>1. /\ manifest # NoFile
        /\ reader' = [kind |-> role, at |-> "opening", manifest |-> manifest, checked |-> 0,
                      mapped |-> 0, shared |-> FALSE, dirty |-> dirty, overtaken |-> FALSE]
        /\ UNCHANGED <<signatures, manifest, transitions, writer, dirty, prior>>
    BY <1>10 DEF ReadManifest, fileVars
  <2>2. manifest \in Manifests /\ dirty \in BOOLEAN /\ (~dirty => Matching(manifest))
    BY <2>1 DEF FilesOK
  <2>3. /\ reader' \in ServerOrQuery /\ reader'.dirty = dirty /\ reader'.at = "opening"
        /\ reader'.manifest = manifest /\ ~reader'.overtaken
    BY <2>1, <2>2 DEF ServerOrQuery
  <2>4. ReaderOK'
    BY <2>1, <2>2, <2>3 DEF ReaderOK, Matching
  <2> QED
    BY <2>1, <2>3, <2>4 DEF WriterOK, FilesOK, PriorOK, Indexing, Matching
<1>11. CASE SizeSignatures
  <2>1. /\ reader # Nobody /\ signatures # NoFile
        /\ reader' = [reader EXCEPT !.at = "sized", !.checked = Len(signatures)]
        /\ UNCHANGED <<signatures, manifest, transitions, writer, dirty, prior>>
    BY <1>11 DEF SizeSignatures, fileVars
  <2>2. /\ reader \in ServerOrQuery /\ (~reader.dirty => Matching(reader.manifest) /\ ~reader.overtaken)
        /\ signatures \in Seq(Signatures)
    BY <2>1 DEF ReaderOK, FilesOK
  <2>3. Len(signatures) \in Nat
    BY <2>2
  <2>4. /\ reader' \in ServerOrQuery /\ reader'.dirty = reader.dirty /\ reader'.at = "sized"
        /\ reader'.manifest = reader.manifest /\ reader'.checked = Len(signatures)
        /\ reader'.overtaken = reader.overtaken
    BY <2>1, <2>2, <2>3 DEF ServerOrQuery
  <2>5. ReaderOK'
    BY <2>1, <2>2, <2>4 DEF ReaderOK, Matching
  <2> QED
    BY <2>1, <2>4, <2>5 DEF WriterOK, FilesOK, PriorOK, Indexing, Matching
<1>12. CASE MapSignatures
  <2>1. /\ reader # Nobody /\ reader.at = "sized" /\ Accepts(reader)
        /\ reader' = [reader EXCEPT !.at = "up", !.mapped = Len(signatures),
                                    !.shared = transitions # NoFile]
        /\ UNCHANGED <<signatures, manifest, transitions, writer, dirty, prior>>
    BY <1>12 DEF MapSignatures, fileVars
  <2>2. /\ reader \in ServerOrQuery /\ (~reader.dirty => Matching(reader.manifest) /\ ~reader.overtaken)
        /\ signatures \in Seq(Signatures)
        /\ reader.overtaken \/ reader.checked = Len(signatures)
    BY <2>1 DEF ReaderOK
  <2>3. /\ Len(signatures) \in Nat
        /\ reader.overtaken \/ Len(signatures) = reader.manifest.count
    BY <2>1, <2>2 DEF Accepts
  <2>4. /\ reader' \in ServerOrQuery /\ reader'.dirty = reader.dirty /\ reader'.at = "up"
        /\ reader'.manifest = reader.manifest /\ reader'.mapped = Len(signatures)
        /\ reader'.overtaken = reader.overtaken
    BY <2>1, <2>2, <2>3 DEF ServerOrQuery
  <2>5. ReaderOK'
    BY <2>1, <2>2, <2>3, <2>4 DEF ReaderOK, Matching
  <2> QED
    BY <2>1, <2>4, <2>5 DEF WriterOK, FilesOK, PriorOK, Indexing, Matching
<1>13. ASSUME OpenSession \/ prior' = prior,
              UNCHANGED <<signatures, manifest, transitions, writer, dirty, reader>>
       PROVE  CorpusInv'
  <2>1. PriorOK'
    BY <1>13 DEF OpenSession, PriorOK, FilesOK, TaughtByName
  <2> QED
    BY <1>13, <2>1 DEF WriterOK, FilesOK, ReaderOK, Indexing, Matching
<1>14. CASE NewServerSession
  BY <1>13, <1>14 DEF NewServerSession, fileVars
<1>15. CASE AnswerRequest
  BY <1>13, <1>15 DEF AnswerRequest, fileVars
<1>16. CASE AnswerInSession
  BY <1>13, <1>16 DEF AnswerInSession, fileVars
<1>17. CASE AnswerCommand
  BY <1>17 DEF AnswerCommand, fileVars, WriterOK, FilesOK, ReaderOK, PriorOK, Indexing, Matching
<1>18. CASE ReaderEnds
  BY <1>18 DEF ReaderEnds, fileVars, WriterOK, FilesOK, ReaderOK, PriorOK, Indexing, Matching
<1> QED
  BY <1>1, <1>2, <1>3, <1>4, <1>5, <1>6, <1>7, <1>8, <1>9, <1>10, <1>11, <1>12, <1>14, <1>15,
     <1>16, <1>17, <1>18 DEF CorpusNext

LEMMA CorpusInvAlways == CorpusSpec => []CorpusInv
BY CorpusInvInit, CorpusInvNext, PTL DEF CorpusSpec

-----------------------------------------------------------------------------
(* The index directory: what is answered. *)

\* A document whose signature is the query's.
SameSignature(m, text, i) == Signature(m.embedder, m.entries[i].text) = Signature(m.embedder, text)

\* To an undisturbed reader a position is its entry's signature.
LEMMA MappedEntries ==
  ASSUME NEW m \in Manifests, Matching(m)
  PROVE  \A k \in 1..m.count : /\ Mapped(k) = Signature(m.embedder, m.entries[k].text)
                               /\ Mapped(k) \in Signatures
<1>1. m.entries \in Corpora /\ m.embedder \in Embedders /\ m.count = Len(m.entries)
  BY ManifestFields
<1>2. DOMAIN m.entries = 1..m.count /\ \A k \in 1..m.count : m.entries[k].text \in Texts
  BY <1>1, EntriesOf
<1>3. signatures = [k \in 1..m.count |-> Signature(m.embedder, m.entries[k].text)]
  BY <1>2 DEF Matching, SignaturesOf
<1>4. \A k \in 1..m.count : Signature(m.embedder, m.entries[k].text) \in Signatures
  BY <1>1, <1>2, CorpusAssumption DEF Signature
<1> QED
  BY <1>3, <1>4 DEF Mapped

\* The nearest of positions one of which has the query's signature has it too.
LEMMA NearestIsSame ==
  ASSUME NEW m \in Manifests, Matching(m), NEW text \in Texts,
         NEW positions \in SUBSET (1..m.count), NEW j \in positions, SameSignature(m, text, j),
         NEW i \in NearestAt(positions, QueryOf(m, text))
  PROVE  i \in positions /\ SameSignature(m, text, i)
<1>1. PICK query : query = Signature(m.embedder, text)
  OBVIOUS
<1>2. query \in Signatures /\ QueryOf(m, text) = query
  BY <1>1, ManifestFields, CorpusAssumption DEF Signature, QueryOf
<1>3. i \in positions /\ Hamming(Mapped(i), query) <= Hamming(Mapped(j), query)
  BY <1>2 DEF NearestAt
<1>4. /\ Mapped(i) = Signature(m.embedder, m.entries[i].text) /\ Mapped(i) \in Signatures
      /\ Mapped(j) = Signature(m.embedder, m.entries[j].text)
  BY <1>3, MappedEntries
<1>5. Mapped(j) = query
  BY <1>1, <1>4 DEF SameSignature
<1>6. Hamming(Mapped(j), query) = 0 /\ Hamming(Mapped(i), query) \in Nat
  BY <1>2, <1>4, <1>5, DistanceIsMetric, DistanceType DEF Hamming
<1>7. Hamming(Mapped(i), query) = 0
  BY <1>3, <1>6
<1>8. Mapped(i) = query
  BY <1>2, <1>4, <1>7, CorpusAssumption
<1> QED
  BY <1>1, <1>3, <1>4, <1>8 DEF SameSignature

\* What a search finds lies in the mapping; with no index run in the way it is a
\* document that is alike, if one is: the first hit of the full scan is one, and
\* its event is among those scanned again.
LEMMA SearchFinds ==
  ASSUME CorpusInv, reader # Nobody, reader.at = "up", NEW m \in Manifests, m = reader.manifest,
         NEW text \in Texts, NEW found \in Found(reader, QueryOf(m, text))
  PROVE  /\ found.at \in 1..reader.mapped
         /\ ~reader.dirty /\ (\E j \in 1..m.count : SameSignature(m, text, j)) => SameSignature(m, text, found.at)
<1>1. PICK query : query = QueryOf(m, text)
  OBVIOUS
<1>2. PICK first \in NearestAt(1..reader.mapped, query) :
        \E scope \in RescanScopes(m, first) : found \in Rescanned(reader, query, first, scope)
  BY <1>1 DEF Found
<1>3. PICK scope \in RescanScopes(m, first) : found \in Rescanned(reader, query, first, scope)
  BY <1>2
<1>4. first \in 1..reader.mapped
  BY DEF NearestAt
<1>5. CASE scope = {}
  <2>1. found.at = first
    BY <1>3, <1>5 DEF Rescanned
  <2>2. ASSUME ~reader.dirty, NEW j \in 1..m.count, SameSignature(m, text, j)
        PROVE  SameSignature(m, text, first)
    <3>1. Matching(m) /\ reader.mapped = m.count
      BY <2>2 DEF CorpusInv, ReaderOK
    <3>2. first \in NearestAt(1..m.count, QueryOf(m, text))
      BY <1>1, <3>1
    <3> QED
      BY <2>2, <3>1, <3>2, NearestIsSame
  <2> QED
    BY <1>4, <2>1, <2>2
<1>6. CASE scope # {}
  <2>1. PICK inside : inside = scope \cap (1..reader.mapped)
    OBVIOUS
  <2>2. found.at \in NearestAt(inside, query)
    <3>1. found \in {[at |-> i, by |-> "shard_scan"] : i \in NearestAt(inside, query)}
      BY <1>3, <1>6, <2>1 DEF Rescanned
    <3> QED
      BY <3>1
  <2>3. found.at \in 1..reader.mapped
    BY <2>1, <2>2 DEF NearestAt
  <2>4. ASSUME ~reader.dirty, NEW j \in 1..m.count, SameSignature(m, text, j)
        PROVE  SameSignature(m, text, found.at)
    <3>1. Matching(m) /\ reader.mapped = m.count
      BY <2>4 DEF CorpusInv, ReaderOK
    <3>2. first \in NearestAt(1..m.count, QueryOf(m, text)) /\ first \in 1..m.count
      BY <1>1, <1>4, <3>1
    <3>3. SameSignature(m, text, first)
      BY <2>4, <3>1, <3>2, NearestIsSame
    <3>4. first \in scope
      <4>1. PICK events \in SUBSET DOMAIN m.scope :
              /\ scope = UNION {m.scope[n] : n \in events}
              /\ first \in DOMAIN m.ids => EventAt(m.scope, first) \in events
        BY <1>3, <1>6 DEF RescanScopes
      <4>2. first \in DOMAIN m.ids /\ first \in m.scope[EventAt(m.scope, first)]
        BY <3>2, HitIsEntry
      <4> QED
        BY <4>1, <4>2
    <3>5. first \in inside /\ inside \in SUBSET (1..m.count)
      BY <2>1, <3>1, <3>2, <3>4
    <3>6. found.at \in NearestAt(inside, QueryOf(m, text))
      BY <1>1, <2>2
    <3> QED
      BY <3>1, <3>3, <3>5, <3>6, NearestIsSame
  <2> QED
    BY <2>3, <2>4
<1> QED
  BY <1>5, <1>6

\* An answer is the hit of a position of the mapping, of an entry unless the
\* reader was overtaken; given by an undisturbed reader's search, it is a
\* document that is alike, if one is.
Answered == AnswerRequest \/ AnswerInSession \/ AnswerCommand

LEMMA AnsweredFrom ==
  ASSUME CorpusInv, Answered
  PROVE  /\ answer'.from \in Manifests
         /\ \E i \in Nat \ {0} :
              /\ answer'.hit = HitAt(answer'.from, i)
              /\ i \in 1..answer'.from.count \/ answer'.overtaken
              /\ ~answer'.dirty => i \in 1..answer'.from.count
              /\ /\ ~answer'.dirty /\ (answer'.session => answer'.by = "full_scan")
                 /\ \E j \in 1..answer'.from.count : SameSignature(answer'.from, answer'.asked, j)
                 => SameSignature(answer'.from, answer'.asked, i)
<1>1. /\ reader # Nobody /\ reader.at = "up"
      /\ \/ \E session \in BOOLEAN : AnswerBySearch(reader, session)
         \/ AnswerFromSession(reader)
  BY DEF Answered, AnswerRequest, AnswerInSession, AnswerCommand, Serving
<1>2. PICK m \in Manifests : m = reader.manifest
  BY <1>1 DEF CorpusInv, ReaderOK, ServerOrQuery
<1>3. /\ reader.mapped \in Nat /\ m.count \in Nat
      /\ reader.overtaken \/ reader.mapped = m.count
      /\ ~reader.dirty => ~reader.overtaken
  BY <1>1, <1>2, ManifestFields, EntriesOf DEF CorpusInv, ReaderOK, ServerOrQuery
<1>4. ASSUME NEW text \in Texts, NEW found, NEW session, Answers(reader, text, found, session),
             found.at \in 1..reader.mapped,
             \/ session /\ found.by # "full_scan"
             \/ ~reader.dirty /\ (\E j \in 1..m.count : SameSignature(m, text, j)) => SameSignature(m, text, found.at)
      PROVE  /\ answer'.from \in Manifests
             /\ \E i \in Nat \ {0} :
                  /\ answer'.hit = HitAt(answer'.from, i)
                  /\ i \in 1..answer'.from.count \/ answer'.overtaken
                  /\ ~answer'.dirty => i \in 1..answer'.from.count
                  /\ /\ ~answer'.dirty /\ (answer'.session => answer'.by = "full_scan")
                     /\ \E j \in 1..answer'.from.count : SameSignature(answer'.from, answer'.asked, j)
                     => SameSignature(answer'.from, answer'.asked, i)
  <2>1. PICK i : i = found.at
    OBVIOUS
  <2>2. /\ answer'.hit = HitAt(m, i) /\ answer'.by = found.by /\ answer'.asked = text
        /\ answer'.session = session /\ answer'.from = m /\ answer'.dirty = reader.dirty
        /\ answer'.overtaken = reader.overtaken
    BY <1>2, <1>4, <2>1 DEF Answers
  <2>3. i \in Nat \ {0} /\ (i \in 1..m.count \/ reader.overtaken)
    BY <1>3, <1>4, <2>1
  <2> QED
    BY <1>3, <1>4, <2>1, <2>2, <2>3
<1>5. CASE \E session \in BOOLEAN : AnswerBySearch(reader, session)
  <2>1. PICK session \in BOOLEAN, text \in Texts :
          \E found \in Found(reader, QueryOf(m, text)) : Answers(reader, text, found, session)
    BY <1>2, <1>5 DEF AnswerBySearch
  <2>2. PICK found \in Found(reader, QueryOf(m, text)) : Answers(reader, text, found, session)
    BY <2>1
  <2>3. /\ found.at \in 1..reader.mapped
        /\ ~reader.dirty /\ (\E j \in 1..m.count : SameSignature(m, text, j)) => SameSignature(m, text, found.at)
    BY <1>1, <1>2, <2>2, SearchFinds
  <2> QED
    BY <1>4, <2>2, <2>3
<1>6. CASE AnswerFromSession(reader)
  <2>1. PICK text \in Texts, i \in 1..reader.mapped, by \in {"speculative", "delta_cache", "shard_scan"} :
          Answers(reader, text, [at |-> i, by |-> by], TRUE)
    BY <1>6 DEF AnswerFromSession
  <2>2. PICK found : found = [at |-> i, by |-> by]
    OBVIOUS
  <2>3. Answers(reader, text, found, TRUE) /\ found.at \in 1..reader.mapped /\ found.by # "full_scan"
    BY <2>1, <2>2
  <2> QED
    BY <1>4, <2>3
<1> QED
  BY <1>1, <1>5, <1>6

\* No other step answers.
LEMMA OthersAreSilent ==
  ASSUME [CorpusNext]_corpusVars, ~Answered
  PROVE  answer' = Nobody \/ answer' = answer
BY DEF Answered, CorpusNext, corpusVars, IndexCorpus, TruncateSignatures, WriteSignatures,
       TruncateManifest, WriteManifest, TrainPredictor, WriteTransitions, WriterStops, ReadManifest,
       SizeSignatures, MapSignatures, NewServerSession, ReaderEnds, Silent

\* Whatever state the directory was found in, and from whichever part of a
\* session, a hit has an id and an event of the manifest loaded, unless an index
\* run came between the reader's two looks at the size (map_hits, event_for,
\* from_file): proved for any corpora, any number of runs and any length of files.
THEOREM HitsAreListedAlways == CorpusSpec => []HitsAreListed
<1>1. CorpusInit => HitsAreListed
  BY DEF CorpusInit, HitsAreListed
<1>2. ASSUME CorpusInv, HitsAreListed, [CorpusNext]_corpusVars
      PROVE  HitsAreListed'
  <2>1. CASE Answered
    <3>1. PICK m \in Manifests : m = answer'.from
      BY <1>2, <2>1, AnsweredFrom
    <3>2. PICK i \in Nat \ {0} : /\ answer'.hit = HitAt(m, i)
                                 /\ i \in 1..m.count \/ answer'.overtaken
      BY <1>2, <2>1, <3>1, AnsweredFrom
    <3>3. CASE i \in 1..m.count
      BY <3>1, <3>2, <3>3, HitIsEntry DEF HitsAreListed
    <3>4. CASE i \notin 1..m.count
      <4>1. m.count \in Nat
        BY ManifestFields, EntriesOf
      <4>2. i > m.count
        BY <3>4, <4>1
      <4> QED
        BY <3>1, <3>2, <3>4, <4>2, HitOfNoEntry DEF HitsAreListed
    <3> QED
      BY <3>3, <3>4
  <2>2. CASE ~Answered
    BY <1>2, <2>2, OthersAreSilent DEF HitsAreListed
  <2> QED
    BY <2>1, <2>2
<1> QED
  BY <1>1, <1>2, CorpusInvAlways, PTL DEF CorpusSpec

\* Asked for what the embedder cannot tell from a document's text, an
\* undisturbed reader's search names and quotes a document of that signature,
\* the full scan and the rescan of its events together, for any corpora, any
\* embedders and any history of the directory (HierarchicalIndex::search).
THEOREM HitsOfOneEntryAlways == CorpusSpec => []HitsOfOneEntry
<1>1. CorpusInit => HitsOfOneEntry
  BY DEF CorpusInit, HitsOfOneEntry
<1>2. ASSUME CorpusInv, HitsOfOneEntry, [CorpusNext]_corpusVars
      PROVE  HitsOfOneEntry'
  <2>1. CASE Answered
    <3>1. PICK m \in Manifests : m = answer'.from
      BY <1>2, <2>1, AnsweredFrom
    <3>2. PICK text : text = answer'.asked
      OBVIOUS
    <3>3. PICK i \in Nat \ {0} :
            /\ answer'.hit = HitAt(m, i)
            /\ ~answer'.dirty => i \in 1..m.count
            /\ /\ ~answer'.dirty /\ (answer'.session => answer'.by = "full_scan")
               /\ \E j \in 1..m.count : SameSignature(m, text, j)
               => SameSignature(m, text, i)
      BY <1>2, <2>1, <3>1, <3>2, AnsweredFrom
    <3>4. PICK same : same = {j \in DOMAIN m.entries : SameSignature(m, text, j)}
      OBVIOUS
    <3>5. DOMAIN m.entries = 1..m.count
      BY ManifestFields, EntriesOf
    <3>6. ASSUME ~answer'.dirty, answer'.session => answer'.by = "full_scan", same # {}
          PROVE  \E k \in same : /\ answer'.hit.id = m.entries[k].id
                                 /\ answer'.hit.event = EventKey(m.entries[k])
                                 /\ Alone(m.entries, k) => answer'.hit.body = m.entries[k].text
      <4>1. \E j \in 1..m.count : SameSignature(m, text, j)
        BY <3>4, <3>5, <3>6
      <4>2. i \in 1..m.count /\ i \in same
        BY <3>3, <3>4, <3>5, <3>6, <4>1
      <4> QED
        BY <3>3, <4>2, HitIsEntry
    <3> QED
      BY <3>1, <3>2, <3>4, <3>6 DEF HitsOfOneEntry, SameSignature
  <2>2. CASE ~Answered
    BY <1>2, <2>2, OthersAreSilent DEF HitsOfOneEntry
  <2> QED
    BY <2>1, <2>2
<1> QED
  BY <1>1, <1>2, CorpusInvAlways, PTL DEF CorpusSpec

\* What a session loads predicts by number what was taught by name, across
\* indexing, training and restarts, as long as the list of events is the same
\* (event_name_for_id, load_or_new), for any names and any transcripts.
THEOREM PredictedAsTaughtAlways == CorpusSpec => []PredictedAsTaught
<1>1. CorpusInv => PredictedAsTaught
  BY NumbersName DEF CorpusInv, PriorOK, TaughtByName, PredictedAsTaught
<1> QED
  BY <1>1, CorpusInvAlways, PTL

-----------------------------------------------------------------------------
(* The predictor of a session: powers of two. *)

\* The recursive function of the powers exists, and is what it says.
LEMMA Pow2Unrolls ==
  /\ Pow2 \in [0..LastTick -> Nat]
  /\ Pow2[0] = 1
  /\ \A n \in 1..LastTick : Pow2[n] = 2 * Pow2[n - 1]
<1> DEFINE f == [a \in (1..LastTick) \X Nat |-> 2 * a[2]]
           By(g) == g = [n \in 0..LastTick |-> IF n = 0 THEN 1 ELSE 2 * g[n - 1]]
<1>1. LastTick \in Nat
  BY MarkovAssumption
<1>2. f \in [(1..LastTick) \X Nat -> Nat] /\ 1 \in Nat
  OBVIOUS
<1>3. \A i \in 1..LastTick, a \in Nat : f[<<i, a>>] = 2 * a
  OBVIOUS
<1> HIDE DEF f
<1>4. PICK g \in [0..LastTick -> Nat] : Unrolled(g, LastTick, 1, f)
  BY Zenon, <1>1, <1>2, Unrolls
<1>5. \A n \in 0..LastTick : g[n] = IF n = 0 THEN 1 ELSE 2 * g[n - 1]
  <2> TAKE n \in 0..LastTick
  <2>1. g[n] = IF n = 0 THEN 1 ELSE f[<<n, g[n - 1]>>]
    BY Zenon, <1>4 DEF Unrolled
  <2>2. n # 0 => n \in 1..LastTick /\ n - 1 \in 0..LastTick
    BY <1>1
  <2>3. n # 0 => g[n - 1] \in Nat
    BY <2>2
  <2> QED
    BY Zenon, <1>3, <2>1, <2>2, <2>3
<1>6. By(g)
  <2>1. g = [n \in 0..LastTick |-> g[n]]
    OBVIOUS
  <2> QED
    BY Zenon, <1>5, <2>1
<1>7. PICK pow : pow = CHOOSE h : By(h)
  OBVIOUS
<1>8. By(pow)
  BY Zenon, <1>6, <1>7
<1>9. Pow2 = pow
  BY Zenon, <1>7 DEF Pow2
<1>10. \A n \in 0..LastTick : pow[n] = IF n = 0 THEN 1 ELSE 2 * pow[n - 1]
  BY Zenon, <1>8
<1> HIDE DEF By
<1> DEFINE P == {n \in 0..LastTick : pow[n] \in Nat}
<1>11. 0 \in P /\ \A i \in 1..LastTick : i - 1 \in P => i \in P
  BY <1>1, <1>10
<1>12. \A n \in 0..LastTick : pow[n] \in Nat
  <2>1. 0..LastTick \subseteq P
    <3> HIDE DEF P
    <3> QED
      BY Zenon, <1>1, <1>11, UpwardInduction
  <2> QED
    BY <2>1
<1>13. pow \in [0..LastTick -> Nat]
  <2>1. pow = [n \in 0..LastTick |-> pow[n]]
    BY Zenon, <1>8 DEF By
  <2> QED
    BY <1>12, <2>1
<1>14. pow[0] = 1 /\ \A n \in 1..LastTick : pow[n] = 2 * pow[n - 1]
  BY <1>1, <1>10
<1> QED
  BY Zenon, <1>9, <1>13, <1>14

\* Half-lives add up.
LEMMA Pow2Adds ==
  ASSUME NEW a \in Nat, NEW b \in Nat, a + b <= LastTick
  PROVE  /\ Pow2[a] \in Nat \ {0} /\ Pow2[b] \in Nat \ {0}
         /\ Pow2[a + b] = Pow2[a] * Pow2[b]
<1>1. LastTick \in Nat
  BY MarkovAssumption
<1>2. PICK pow \in [0..LastTick -> Nat] : pow = Pow2
  BY Pow2Unrolls
<1>3. pow[0] = 1 /\ \A n \in 1..LastTick : pow[n] = 2 * pow[n - 1]
  BY Zenon, <1>2, Pow2Unrolls
<1> DEFINE P == {n \in 0..LastTick : pow[n] # 0}
<1>4. 0..LastTick \subseteq P
  <2>1. 0 \in P /\ \A i \in 1..LastTick : i - 1 \in P => i \in P
    BY <1>1, <1>3
  <2> HIDE DEF P
  <2> QED
    BY Zenon, <1>1, <2>1, UpwardInduction
<1> DEFINE Q == {n \in 0..b : pow[a + n] = pow[a] * pow[n]}
<1>5. 0..b \subseteq Q
  <2>1. 0 \in Q
    BY <1>1, <1>3
  <2>2. ASSUME NEW i \in 1..b, i - 1 \in Q
        PROVE  i \in Q
    <3>1. PICK x, y, z \in Nat : x = pow[a] /\ y = pow[i - 1] /\ z = pow[a + (i - 1)]
      BY <1>1
    <3>2. z = x * y
      BY <2>2, <3>1
    <3>3. pow[i] = 2 * y
      BY <1>1, <1>3, <3>1
    <3>4. pow[a + i] = 2 * z
      <4>1. a + i \in 1..LastTick /\ (a + i) - 1 = a + (i - 1)
        BY <1>1
      <4> QED
        BY Zenon, <1>3, <3>1, <4>1
    <3>5. 2 * (x * y) = x * (2 * y)
      OBVIOUS
    <3>6. i \in 0..b
      OBVIOUS
    <3> QED
      BY Zenon, <3>1, <3>2, <3>3, <3>4, <3>5, <3>6
  <2> HIDE DEF Q
  <2> QED
    BY Zenon, <2>1, <2>2, UpwardInduction
<1>6. a \in 0..LastTick /\ b \in 0..LastTick /\ b \in 0..b
  BY <1>1
<1> QED
  BY <1>2, <1>4, <1>5, <1>6

-----------------------------------------------------------------------------
(* Sums of maps. *)

Counts(f) == IsFiniteSet(DOMAIN f) /\ f \in [DOMAIN f -> Nat]

Sums(sum, f) ==
  /\ sum \in [SUBSET DOMAIN f -> Nat]
  /\ sum[{}] = 0
  /\ \A s \in SUBSET DOMAIN f : \A x \in s : sum[s] = f[x] + sum[s \ {x}]

\* A sum over a map does not depend on the order it is taken in.
LEMMA AddedSums ==
  ASSUME NEW f, Counts(f)
  PROVE  \E sum : Sums(sum, f) /\ Added(f) = sum[DOMAIN f]
<1> PICK D : D = DOMAIN f
  OBVIOUS
<1>0. IsFiniteSet(D) /\ f \in [D -> Nat]
  BY DEF Counts
<1> DEFINE pick == [s \in SUBSET D |-> CHOOSE x \in s : TRUE]
           plus == [a \in D \X Nat |-> f[a[1]] + a[2]]
           By(g) == g = [s \in SUBSET D |-> IF s = {} THEN 0
                                            ELSE LET x == CHOOSE x \in s : TRUE IN f[x] + g[s \ {x}]]
<1>1. plus \in [D \X Nat -> Nat] /\ 0 \in Nat
  BY <1>0
<1>2. \A s \in SUBSET D : s # {} => pick[s] \in s
  OBVIOUS
<1>3. \A x \in D, a \in Nat : plus[<<x, a>>] = f[x] + a
  OBVIOUS
<1>4. \A s \in SUBSET D : pick[s] = CHOOSE x \in s : TRUE
  OBVIOUS
<1> HIDE DEF pick, plus
<1>5. PICK g \in [SUBSET D -> Nat] : Folded(g, D, 0, pick, plus)
  BY Zenon, <1>0, <1>1, <1>2, Folds
<1>6. \A s \in SUBSET D : s # {} => g[s] = f[pick[s]] + g[s \ {pick[s]}]
  <2> TAKE s \in SUBSET D
  <2> SUFFICES ASSUME s # {} PROVE g[s] = f[pick[s]] + g[s \ {pick[s]}]
    OBVIOUS
  <2>1. g[s] = plus[<<pick[s], g[s \ {pick[s]}]>>]
    BY Zenon, <1>5 DEF Folded
  <2>2. pick[s] \in D /\ g[s \ {pick[s]}] \in Nat
    BY <1>2
  <2> QED
    BY Zenon, <1>3, <2>1, <2>2
<1>7. g[{}] = 0
  <2>1. {} \in SUBSET D
    OBVIOUS
  <2> QED
    BY Zenon, <1>5, <2>1 DEF Folded
<1>8. By(g)
  <2>1. ASSUME NEW s \in SUBSET D
        PROVE  g[s] = IF s = {} THEN 0
                      ELSE LET x == CHOOSE x \in s : TRUE IN f[x] + g[s \ {x}]
    <3>1. CASE s = {}
      BY Zenon, <1>7, <3>1
    <3>2. CASE s # {}
      BY Zenon, <1>4, <1>6, <3>2
    <3> QED
      BY Zenon, <3>1, <3>2
  <2>2. g = [s \in SUBSET D |-> g[s]]
    OBVIOUS
  <2> QED
    BY Zenon, <2>1, <2>2
<1>9. PICK sum : sum = CHOOSE h : By(h)
  OBVIOUS
<1>10. By(sum)
  <2> HIDE DEF By
  <2> QED
    BY Zenon, <1>8, <1>9
<1>11. Added(f) = sum[D]
  BY <1>9 DEF Added, FoldFunction, FoldFunctionOnSet, MapThenFoldSet
<1>12. /\ sum[{}] = 0
       /\ \A s \in SUBSET D : s # {} => sum[s] = f[pick[s]] + sum[s \ {pick[s]}]
  <2>1. \A s \in SUBSET D : sum[s] = IF s = {} THEN 0
                      ELSE LET x == CHOOSE x \in s : TRUE IN f[x] + sum[s \ {x}]
    BY Zenon, <1>10
  <2>2. {} \in SUBSET D
    OBVIOUS
  <2>3. \A s \in SUBSET D : s # {} => sum[s] = f[pick[s]] + sum[s \ {pick[s]}]
    BY Zenon, <1>4, <2>1
  <2> QED
    BY Zenon, <2>1, <2>2, <2>3
<1> DEFINE T == {s \in SUBSET D : sum[s] \in Nat}
<1>13. \A s \in SUBSET D : sum[s] \in Nat
  <2>1. {} \in T
    BY <1>12
  <2>2. ASSUME NEW s \in SUBSET D, NEW y \in s, \A x \in s : s \ {x} \in T
        PROVE  s \in T
    <3> PICK x : x = pick[s]
      OBVIOUS
    <3>1. x \in s /\ sum[s] = f[x] + sum[s \ {x}]
      BY <1>2, <1>12
    <3>2. s \ {x} \in T /\ x \in D
      BY <2>2, <3>1
    <3>3. sum[s \ {x}] \in Nat /\ f[x] \in Nat
      BY <1>0, <3>2
    <3>4. sum[s] \in Nat
      BY <3>1, <3>3
    <3> QED
      BY <3>4
  <2>3. GrowsInto(D, T)
    BY <2>1, <2>2 DEF GrowsInto
  <2> HIDE DEF T
  <2>4. SUBSET D \subseteq T
    BY Zenon, <1>0, <2>3, SubsetInduction
  <2> QED
    BY <2>4 DEF T
<1> DEFINE Q == {s \in SUBSET D : \A x \in s : sum[s] = f[x] + sum[s \ {x}]}
<1>14. SUBSET D \subseteq Q
  <2>1. {} \in Q
    OBVIOUS
  <2>2. ASSUME NEW s \in SUBSET D, NEW y \in s, \A x \in s : s \ {x} \in Q
        PROVE  sum[s] = f[y] + sum[s \ {y}]
    <3> PICK x : x = pick[s]
      OBVIOUS
    <3>1. x \in s /\ sum[s] = f[x] + sum[s \ {x}]
      BY <1>2, <1>12
    <3> SUFFICES ASSUME y # x PROVE sum[s] = f[y] + sum[s \ {y}]
      BY <3>1
    <3> PICK t : t = (s \ {x}) \ {y}
      OBVIOUS
    <3>2. t = (s \ {y}) \ {x} /\ y \in s \ {x} /\ x \in s \ {y}
      BY <3>1
    <3>3. sum[s \ {x}] = f[y] + sum[t]
      BY <2>2, <3>1, <3>2
    <3>4. sum[s \ {y}] = f[x] + sum[t]
      BY <2>2, <3>2
    <3>5. f[y] \in Nat /\ f[x] \in Nat /\ sum[t] \in Nat
      BY <1>0, <1>13, <3>1
    <3> QED
      BY <3>1, <3>3, <3>4, <3>5
  <2>3. GrowsInto(D, Q)
    BY <2>1, <2>2 DEF GrowsInto
  <2> HIDE DEF Q
  <2> QED
    BY Zenon, <1>0, <2>3, SubsetInduction
<1>15. sum \in [SUBSET D -> Nat]
  <2>1. sum = [s \in SUBSET D |-> sum[s]]
    BY Zenon, <1>10
  <2> QED
    BY <1>13, <2>1
<1>16. Sums(sum, f)
  BY <1>12, <1>14, <1>15 DEF Sums
<1> QED
  BY Zenon, <1>11, <1>16

Alike(f, g, s) == \A x \in s : f[x] = g[x]

Level(sum, other, s) == sum[s] = other[s]

\* Two sums agree where the maps do.
LEMMA SumsAgree ==
  ASSUME NEW f, Counts(f), NEW sum, Sums(sum, f), NEW g, NEW other, Sums(other, g),
         NEW s, s \subseteq DOMAIN f, s \subseteq DOMAIN g, Alike(f, g, s)
  PROVE  Level(sum, other, s)
<1> DEFINE P == {t \in SUBSET s : sum[t] = other[t]}
<1>1. IsFiniteSet(s)
  BY FS_Subset DEF Counts
<1>2. {} \in P
  BY DEF Sums
<1>3. ASSUME NEW t \in SUBSET s, NEW y \in t, \A x \in t : t \ {x} \in P
      PROVE  t \in P
  <2>1. sum[t] = f[y] + sum[t \ {y}] /\ other[t] = g[y] + other[t \ {y}]
    BY DEF Sums
  <2>2. sum[t \ {y}] = other[t \ {y}] /\ f[y] = g[y]
    BY <1>3 DEF Alike
  <2> QED
    BY <2>1, <2>2
<1>4. GrowsInto(s, P)
  BY <1>2, <1>3 DEF GrowsInto
<1>5. SUBSET s \subseteq P
  <2> HIDE DEF P
  <2> QED
    BY Zenon, <1>1, <1>4, SubsetInduction
<1> QED
  BY <1>5 DEF Level

\* A new value in the place of an old one.
LEMMA AddedPut ==
  ASSUME NEW f, Counts(f), NEW e, NEW v \in Nat
  PROVE  /\ Counts(Put(f, e, v))
         /\ Added(Put(f, e, v)) \in Nat /\ Added(f) \in Nat
         /\ Added(Put(f, e, v)) + At(f, e, 0) = Added(f) + v
<1>0. PICK g, D, E : g = Put(f, e, v) /\ D = DOMAIN f /\ E = D \cup {e}
  OBVIOUS
<1>1. IsFiniteSet(D) /\ f \in [D -> Nat]
  BY <1>0 DEF Counts
<1>2. g = [x \in E |-> IF x = e THEN v ELSE f[x]]
  BY <1>0 DEF Put
<1>3. DOMAIN g = E /\ g[e] = v /\ \A x \in D \ {e} : g[x] = f[x]
  BY <1>0, <1>2
<1>4. IsFiniteSet(E) /\ g \in [E -> Nat]
  <2>1. IsFiniteSet(E)
    BY <1>0, <1>1, FS_AddElement
  <2> QED
    BY <1>0, <1>1, <1>2, <2>1
<1>5. Counts(g)
  BY <1>3, <1>4 DEF Counts
<1>6. PICK sum : Sums(sum, f) /\ Added(f) = sum[D]
  BY Zenon, <1>0, AddedSums
<1>7. PICK other : Sums(other, g) /\ Added(g) = other[E]
  BY Zenon, <1>3, <1>5, AddedSums
<1>8. sum[D \ {e}] = other[D \ {e}]
  <2>1. D \ {e} \subseteq DOMAIN f /\ D \ {e} \subseteq DOMAIN g /\ Alike(f, g, D \ {e})
    BY <1>0, <1>3 DEF Alike
  <2>2. Sums(sum, f) /\ Sums(other, g)
    BY Zenon, <1>6, <1>7
  <2>3. PICK s : s = D \ {e}
    OBVIOUS
  <2>4. s \subseteq DOMAIN f /\ s \subseteq DOMAIN g /\ Alike(f, g, s)
    BY Zenon, <2>1, <2>3
  <2>5. Level(sum, other, s)
    BY Zenon, <2>2, <2>4, SumsAgree
  <2> QED
    BY Zenon, <2>3, <2>5 DEF Level
<1>9. other[E] = v + other[D \ {e}] /\ other[D \ {e}] \in Nat /\ other[E] \in Nat /\ sum[D] \in Nat
  <2>1. E \ {e} = D \ {e} /\ e \in E
    BY <1>0
  <2> QED
    BY <1>0, <1>3, <1>6, <1>7, <2>1 DEF Sums
<1>10. CASE e \in D
  <2>1. sum[D] = f[e] + sum[D \ {e}] /\ f[e] \in Nat /\ At(f, e, 0) = f[e]
    BY <1>0, <1>1, <1>6, <1>10 DEF Sums, At
  <2> QED
    BY <1>0, <1>5, <1>6, <1>7, <1>8, <1>9, <2>1
<1>11. CASE e \notin D
  <2>1. D \ {e} = D /\ At(f, e, 0) = 0
    BY <1>0, <1>11 DEF At
  <2> QED
    BY <1>0, <1>5, <1>6, <1>7, <1>8, <1>9, <2>1
<1> QED
  BY <1>10, <1>11

\* Every value times the same number.
Scaled(g, f, a) ==
  /\ DOMAIN g = DOMAIN f
  /\ g = [x \in DOMAIN g |-> g[x]]
  /\ \A x \in DOMAIN f : g[x] = f[x] * a

TotalScaled(g, f, a) == Added(g) = Added(f) * a

\* A multiple of every value is that multiple of the sum.
LEMMA AddedTimes ==
  ASSUME NEW f, Counts(f), NEW a \in Nat, NEW g, Scaled(g, f, a)
  PROVE  Counts(g) /\ TotalScaled(g, f, a) /\ Added(f) \in Nat
<1> USE DEF Scaled, TotalScaled
<1> PICK D : D = DOMAIN f
  OBVIOUS
<1>1. IsFiniteSet(D) /\ f \in [D -> Nat]
  BY DEF Counts
<1>2. Counts(g)
  <2>1. \A x \in D : g[x] \in Nat
    BY <1>1
  <2> QED
    BY <1>1, <2>1 DEF Counts
<1>3. PICK sum : Sums(sum, f) /\ Added(f) = sum[D]
  BY Zenon, AddedSums
<1>4. PICK other : Sums(other, g) /\ Added(g) = other[D]
  BY Zenon, <1>2, AddedSums
<1> DEFINE P == {s \in SUBSET D : other[s] = sum[s] * a}
<1>5. {} \in P
  BY <1>3, <1>4 DEF Sums
<1>6. ASSUME NEW s \in SUBSET D, NEW x \in s, \A y \in s : s \ {y} \in P
      PROVE  s \in P
  <2>1. PICK b, c \in Nat : b = f[x] /\ c = sum[s \ {x}]
    BY <1>1, <1>3 DEF Sums
  <2>2. sum[s] = b + c
    BY <1>3, <2>1 DEF Sums
  <2>3. other[s] = g[x] + other[s \ {x}]
    BY <1>4 DEF Sums
  <2>4. g[x] = b * a /\ other[s \ {x}] = c * a
    BY <1>6, <2>1
  <2>5. b * a + c * a = (b + c) * a
    OBVIOUS
  <2> QED
    BY Zenon, <2>2, <2>3, <2>4, <2>5
<1>7. GrowsInto(D, P)
  BY <1>5, <1>6 DEF GrowsInto
<1>8. SUBSET D \subseteq P
  <2> HIDE DEF P
  <2> QED
    BY Zenon, <1>1, <1>7, SubsetInduction
<1> QED
  BY <1>2, <1>3, <1>4, <1>8 DEF Sums

\* No values.
LEMMA AddedNone ==
  ASSUME NEW f, f = [x \in {} |-> x]
  PROVE  Counts(f) /\ Added(f) = 0
<1>1. DOMAIN f = {} /\ f \in [{} -> Nat]
  OBVIOUS
<1>2. Counts(f)
  BY <1>1, FS_EmptySet DEF Counts
<1>3. PICK sum : Sums(sum, f) /\ Added(f) = sum[DOMAIN f]
  BY Zenon, <1>2, AddedSums
<1> QED
  BY <1>1, <1>2, <1>3 DEF Sums

\* The map of no keys, which is also the empty sequence.
LEMMA EmptyMap == <<>> = [x \in {} |-> x] /\ \A S : <<>> \in [{} -> S]
OBVIOUS

\* The same values under other keys have the same sum.
Renames(p, g, f) ==
  /\ p \in [DOMAIN g -> DOMAIN f]
  /\ \A i, j \in DOMAIN g : i # j => p[i] # p[j]
  /\ \A x \in DOMAIN f : \E i \in DOMAIN g : p[i] = x
  /\ \A i \in DOMAIN g : g[i] = f[p[i]]

SameTotal(g, f) == Added(g) = Added(f)

LEMMA AddedRenamed ==
  ASSUME NEW f, NEW g, NEW p, Counts(f), Counts(g), Renames(p, g, f)
  PROVE  SameTotal(g, f)
<1> PICK D, E : D = DOMAIN f /\ E = DOMAIN g
  OBVIOUS
<1>1. PICK a : Sums(a, f) /\ Added(f) = a[D]
  BY AddedSums
<1>2. PICK b : Sums(b, g) /\ Added(g) = b[E]
  BY AddedSums
<1>3. /\ a[{}] = 0 /\ b[{}] = 0
      /\ \A s \in SUBSET D : \A x \in s : a[s] = f[x] + a[s \ {x}]
      /\ \A s \in SUBSET E : \A i \in s : b[s] = g[i] + b[s \ {i}]
  BY <1>1, <1>2 DEF Sums
<1>4. /\ \A i \in E : p[i] \in D /\ g[i] = f[p[i]]
      /\ \A i, j \in E : i # j => p[i] # p[j]
      /\ \A x \in D : \E i \in E : p[i] = x
  BY DEF Renames
<1> DEFINE image(s) == {p[i] : i \in s}
           T == {s \in SUBSET E : b[s] = a[image(s)]}
<1>5. ASSUME NEW s \in SUBSET E, \A i \in s : s \ {i} \in T
      PROVE  s \in T
  <2>1. CASE s = {}
    <3>1. image(s) = {}
      BY <2>1
    <3> QED
      BY <1>3, <2>1, <3>1
  <2>2. CASE s # {}
    <3>1. PICK i \in s : TRUE
      BY <2>2
    <3>2. image(s) \ {p[i]} = image(s \ {i})
      BY <1>4, <3>1
    <3>3. image(s) \subseteq D /\ p[i] \in image(s)
      BY <1>4, <3>1
    <3>4. b[s \ {i}] = a[image(s \ {i})]
      BY <1>5, <3>1
    <3> HIDE DEF image
    <3>5. a[image(s)] = f[p[i]] + a[image(s) \ {p[i]}]
      BY <1>3, <3>3
    <3>6. b[s] = g[i] + b[s \ {i}] /\ g[i] = f[p[i]]
      BY <1>3, <1>4, <3>1
    <3>7. b[s] = a[image(s)]
      BY Zenon, <3>2, <3>4, <3>5, <3>6
    <3> QED
      BY <3>7
  <2> QED
    BY <2>1, <2>2
<1>6. image(E) = D
  BY <1>4
<1> HIDE DEF T
<1>7. GrowsInto(E, T)
  BY Zenon, <1>5 DEF GrowsInto
<1>8. IsFiniteSet(E)
  BY DEF Counts
<1>9. E \in T
  <2>1. SUBSET E \subseteq T
    BY Zenon, <1>7, <1>8, SubsetInduction
  <2> QED
    BY <2>1
<1>10. b[E] = a[image(E)]
  BY <1>9 DEF T
<1> QED
  BY Zenon, <1>1, <1>2, <1>6, <1>10 DEF SameTotal

\* With more keys, and as much more at each of them.
Padded(w, f, a) ==
  /\ DOMAIN f \subseteq DOMAIN w
  /\ IsFiniteSet(DOMAIN w)
  /\ \A x \in DOMAIN w : w[x] = (IF x \in DOMAIN f THEN f[x] ELSE 0) + a

TotalPadded(w, f, a) == Added(w) = Added(f) + a * Cardinality(DOMAIN w)

LEMMA AddedPadded ==
  ASSUME NEW f, Counts(f), NEW w, Counts(w), NEW a \in Nat, Padded(w, f, a)
  PROVE  TotalPadded(w, f, a)
<1> PICK D, E : D = DOMAIN f /\ E = DOMAIN w
  OBVIOUS
<1>1. PICK sum : Sums(sum, f) /\ Added(f) = sum[D]
  BY AddedSums
<1>2. PICK more : Sums(more, w) /\ Added(w) = more[E]
  BY AddedSums
<1>3. /\ sum[{}] = 0 /\ more[{}] = 0
      /\ \A s \in SUBSET D : sum[s] \in Nat
      /\ \A s \in SUBSET D : \A x \in s : sum[s] = f[x] + sum[s \ {x}]
      /\ \A s \in SUBSET E : \A x \in s : more[s] = w[x] + more[s \ {x}]
  BY <1>1, <1>2 DEF Sums
<1>4. /\ D \subseteq E /\ IsFiniteSet(E)
      /\ \A x \in D : w[x] = f[x] + a /\ f[x] \in Nat
      /\ \A x \in E \ D : w[x] = a
  BY DEF Padded, Counts
<1> DEFINE T == {s \in SUBSET E : more[s] = sum[s \cap D] + a * Cardinality(s)}
<1>5. ASSUME NEW s \in SUBSET E, \A x \in s : s \ {x} \in T
      PROVE  s \in T
  <2>1. CASE s = {}
    <3>1. s \cap D = {} /\ Cardinality(s) = 0
      BY <2>1, FS_EmptySet
    <3> QED
      BY <1>3, <2>1, <3>1
  <2>2. CASE s # {}
    <3>1. PICK x \in s : TRUE
      BY <2>2
    <3>2. IsFiniteSet(s)
      BY <1>4, FS_Subset
    <3>3. PICK n \in Nat : n = Cardinality(s \ {x}) /\ Cardinality(s) = n + 1
      <4>1. IsFiniteSet(s \ {x}) /\ Cardinality(s \ {x}) = Cardinality(s) - 1
        BY <3>1, <3>2, FS_RemoveElement
      <4> QED
        BY <3>2, <4>1, FS_CardinalityType
    <3>4. PICK t \in SUBSET D : t = (s \ {x}) \cap D
      OBVIOUS
    <3>5. more[s \ {x}] = sum[t] + a * n
      BY <1>5, <3>1, <3>3, <3>4
    <3>6. more[s] = w[x] + (sum[t] + a * n)
      BY Zenon, <1>3, <3>1, <3>5
    <3>7. sum[t] \in Nat /\ a * n \in Nat /\ a * (n + 1) = a * n + a
      BY <1>3
    <3>8. sum[s \cap D] + a = w[x] + sum[t]
      <4>1. CASE x \in D
        <5>1. (s \cap D) \ {x} = t /\ x \in s \cap D /\ s \cap D \in SUBSET D
          BY <3>1, <3>4, <4>1
        <5>2. sum[s \cap D] = f[x] + sum[t]
          BY <1>3, <5>1
        <5>3. w[x] = f[x] + a /\ f[x] \in Nat
          BY <1>4, <4>1
        <5> QED
          BY <3>7, <5>2, <5>3
      <4>2. CASE x \notin D
        <5>1. s \cap D = t
          BY <3>4, <4>2
        <5>2. w[x] = a
          BY <1>4, <3>1, <4>2
        <5> QED
          BY <3>7, <5>1, <5>2
      <4> QED
        BY <4>1, <4>2
    <3>9. w[x] \in Nat /\ sum[s \cap D] \in Nat
      BY <1>3, <1>4, <3>1
    <3>10. more[s] = sum[s \cap D] + a * (n + 1)
      <4> PICK A \in Nat, B \in Nat : A = sum[t] /\ B = a * n
        BY <3>7
      <4> QED
        BY <3>6, <3>7, <3>8, <3>9
    <3> QED
      BY <3>3, <3>10
  <2> QED
    BY <2>1, <2>2
<1> HIDE DEF T
<1>6. GrowsInto(E, T)
  BY Zenon, <1>5 DEF GrowsInto
<1>7. E \in T
  <2>1. SUBSET E \subseteq T
    BY Zenon, <1>4, <1>6, SubsetInduction
  <2> QED
    BY <2>1
<1>8. more[E] = sum[E \cap D] + a * Cardinality(E) /\ E \cap D = D
  BY <1>4, <1>7 DEF T
<1> QED
  BY Zenon, <1>1, <1>2, <1>8 DEF TotalPadded

-----------------------------------------------------------------------------
(* Counts and their ages. *)

\* A weight last stamped at t is a multiple of Scale(t), its worth, which no
\* aging changes: what is left of it later is that multiple of a smaller scale.
Scale(t) == IF Decays THEN Pow2[LastTick - t] ELSE 1

Worth(count) == count.weight \div Scale(count.last)

CountsUpTo(now) ==
  {count \in [weight : Nat, last : 0..now] :
     \E q \in Nat : count.weight = q * Scale(count.last)}

\* An observation is worth this.
Gain(now) == IF Decays THEN Pow2[now] ELSE Pow2[LastTick]

\* A product divided by one factor is the other.
LEMMA TimesDiv ==
  ASSUME NEW q \in Nat, NEW d \in Nat \ {0}
  PROVE  q * d \in Nat /\ (q * d) \div d = q
<1>1. PICK n \in Nat : n = q * d
  OBVIOUS
<1>2. PICK p : p = n \div d
  OBVIOUS
<1>3. p \in Nat /\ p * d <= n /\ n < p * d + d
  BY <1>2
<1>4. ASSUME NEW a \in Nat, NEW b \in Nat, a < b
      PROVE  a * d + d <= b * d
  <2>1. PICK c \in Nat : b = a + 1 + c
    <3>1. b - a - 1 \in Nat /\ b = a + 1 + (b - a - 1)
      BY <1>4
    <3> QED
      BY <3>1
  <2>2. (a + 1 + c) * d = a * d + d + c * d
    OBVIOUS
  <2>3. c * d \in Nat /\ a * d \in Nat
    OBVIOUS
  <2> QED
    BY <2>1, <2>2, <2>3
<1>5. PICK x, y \in Nat : x = p * d /\ y = q * d
  BY <1>3
<1>6. ~(p < q)
  BY <1>1, <1>3, <1>4, <1>5
<1>7. ~(q < p)
  BY <1>1, <1>3, <1>4, <1>5
<1> QED
  BY <1>1, <1>2, <1>3, <1>6, <1>7

\* The scale of a time, and what an observation then is worth in it.
LEMMA Scales ==
  ASSUME NEW t \in 0..LastTick
  PROVE  /\ Scale(t) \in Nat \ {0}
         /\ Gain(t) \in Nat
         /\ Unit \in Nat \ {0}
         /\ Gain(t) * Scale(t) = Unit
<1>1. LastTick \in Nat /\ LastTick - t \in Nat /\ t \in Nat /\ t + (LastTick - t) = LastTick
  BY MarkovAssumption
<1>2. PICK u : u = LastTick - t
  OBVIOUS
<1>3. Pow2[t] \in Nat \ {0} /\ Pow2[u] \in Nat \ {0} /\ Pow2[t + u] = Pow2[t] * Pow2[u]
  BY <1>1, <1>2, Pow2Adds
<1>4. Pow2[LastTick] \in Nat \ {0}
  <2>1. 0 \in Nat /\ LastTick + 0 <= LastTick
    BY <1>1
  <2> QED
    BY <1>1, <2>1, Pow2Adds
<1>5. Pow2[LastTick] = Pow2[t] * Pow2[u]
  BY <1>1, <1>2, <1>3
<1> QED
  BY <1>2, <1>3, <1>4, <1>5 DEF Scale, Gain, Unit

\* What one scale is of a later one.
Fades(t, later, r) == Scale(t) = r * Scale(later)

\* From one time to a later one the scale falls by the half-lives between.
LEMMA ScaleFades ==
  ASSUME NEW later \in 0..LastTick, NEW t \in 0..later
  PROVE  /\ t \in 0..LastTick
         /\ \E r \in Nat \ {0} : Fades(t, later, r) /\ (Decays => r = Pow2[later - t])
<1>1. LastTick \in Nat /\ t \in 0..LastTick
  BY MarkovAssumption
<1>2. PICK a, b \in Nat : a = later - t /\ b = LastTick - later
  BY <1>1
<1>3. a + b <= LastTick /\ LastTick - t = a + b
  BY <1>1, <1>2
<1>4. Pow2[a] \in Nat \ {0} /\ Pow2[a + b] = Pow2[a] * Pow2[b]
  BY <1>3, Pow2Adds
<1>5. CASE Decays
  <2>1. Fades(t, later, Pow2[a])
    BY <1>2, <1>3, <1>4, <1>5 DEF Fades, Scale
  <2> QED
    BY Zenon, <1>1, <1>2, <1>4, <2>1
<1>6. CASE ~Decays
  <2>1. Fades(t, later, 1) /\ 1 \in Nat \ {0}
    BY <1>6 DEF Fades, Scale
  <2> QED
    BY Zenon, <1>1, <1>6, <2>1
<1> QED
  BY <1>5, <1>6

\* The worth of a count is the one multiple it is.
LEMMA WorthIs ==
  ASSUME NEW now \in 0..LastTick, NEW q \in Nat, NEW count,
         count.weight = q * Scale(count.last), count.last \in 0..now
  PROVE  Worth(count) = q
<1>1. count.last \in 0..LastTick
  BY MarkovAssumption
<1>2. Scale(count.last) \in Nat \ {0}
  BY <1>1, Scales
<1> QED
  BY <1>2, TimesDiv DEF Worth

\* What is left of a count at any later time is its worth in the scale of
\* that time (WeightedCount::current): aging loses nothing.
LEMMA Ages ==
  ASSUME NEW now \in 0..LastTick, NEW count \in CountsUpTo(now), NEW later \in now..LastTick
  PROVE  /\ Worth(count) \in Nat
         /\ Current(count, later) = Worth(count) * Scale(later)
         /\ Current(count, later) \in Nat
         /\ count.weight = Worth(count) * Scale(count.last)
<1>1. later \in 0..LastTick /\ count.last \in 0..later /\ count.weight \in Nat /\ count.last \in 0..now
  BY MarkovAssumption DEF CountsUpTo
<1>2. PICK q \in Nat : count.weight = q * Scale(count.last)
  BY DEF CountsUpTo
<1>3. Worth(count) = q
  BY <1>1, <1>2, WorthIs
<1>4. PICK r \in Nat \ {0} : Fades(count.last, later, r) /\ (Decays => r = Pow2[later - count.last])
  BY Zenon, <1>1, ScaleFades
<1>5. PICK s, S \in Nat : s = Scale(later) /\ S = Scale(count.last)
  BY <1>1, ScaleFades, Scales
<1>6. S = r * s
  BY <1>4, <1>5 DEF Fades
<1>7. count.weight = (q * s) * r
  <2>1. q * (r * s) = (q * s) * r
    OBVIOUS
  <2> QED
    BY <1>2, <1>5, <1>6, <2>1
<1>8. q * s \in Nat
  OBVIOUS
<1>9. CASE Decays
  <2>1. Current(count, later) = ((q * s) * r) \div r
    BY <1>4, <1>7, <1>9 DEF Current
  <2>2. ((q * s) * r) \div r = q * s
    BY <1>8, TimesDiv
  <2> QED
    BY <1>2, <1>3, <1>5, <1>8, <2>1, <2>2
<1>10. CASE ~Decays
  <2>1. Current(count, later) = q * S
    BY <1>2, <1>5, <1>10 DEF Current
  <2>2. s = S
    BY <1>5, <1>10 DEF Scale
  <2> QED
    BY <1>2, <1>3, <1>5, <1>8, <2>1, <2>2
<1> QED
  BY <1>9, <1>10

\* The count of nothing, of one more, and of a weight stamped anew.
LEMMA ZeroCounts ==
  ASSUME NEW now \in 0..LastTick
  PROVE  Zero(now) \in CountsUpTo(now) /\ Worth(Zero(now)) = 0
<1>1. Zero(now).weight = 0 /\ Zero(now).last = now /\ Zero(now) \in [weight : Nat, last : 0..now]
  BY MarkovAssumption DEF Zero
<1>2. Scale(now) \in Nat \ {0}
  BY Scales
<1>3. 0 \in Nat /\ 0 = 0 * Scale(now)
  BY <1>2
<1>4. Zero(now) \in CountsUpTo(now)
  BY <1>1, <1>3 DEF CountsUpTo
<1> QED
  BY <1>1, <1>3, <1>4, WorthIs

\* A multiple of the scale, stamped now.
LEMMA StampedCounts ==
  ASSUME NEW now \in 0..LastTick, NEW q \in Nat, NEW w, w = q * Scale(now)
  PROVE  /\ [weight |-> w, last |-> now] \in CountsUpTo(now)
         /\ Worth([weight |-> w, last |-> now]) = q
<1>1. PICK count : count = [weight |-> w, last |-> now]
  OBVIOUS
<1>2. Scale(now) \in Nat \ {0} /\ now \in 0..now
  BY Scales, MarkovAssumption
<1>3. w \in Nat
  BY <1>2
<1>4. count.weight = q * Scale(count.last) /\ count.last \in 0..now /\ count \in [weight : Nat, last : 0..now]
  BY <1>1, <1>2, <1>3
<1>5. count \in CountsUpTo(now)
  BY <1>4 DEF CountsUpTo
<1>6. Worth(count) = q
  BY <1>4, WorthIs
<1> QED
  BY <1>1, <1>5, <1>6

\* An observation adds its gain to the worth (WeightedCount::observe).
LEMMA ObservedCounts ==
  ASSUME NEW now \in 0..LastTick, NEW count \in CountsUpTo(now)
  PROVE  /\ Observed(count, now) \in CountsUpTo(now)
         /\ Worth(Observed(count, now)) = Worth(count) + Gain(now)
         /\ Worth(count) \in Nat /\ Gain(now) \in Nat
<1>1. now \in now..LastTick
  BY MarkovAssumption
<1>2. PICK q \in Nat : q = Worth(count) /\ Current(count, now) = q * Scale(now)
  BY <1>1, Ages
<1>3. PICK g, s \in Nat : g = Gain(now) /\ s = Scale(now) /\ g * s = Unit
  BY Scales
<1>4. q * s + g * s = (q + g) * s /\ q + g \in Nat
  OBVIOUS
<1>5. Current(count, now) + Unit = (q + g) * Scale(now)
  BY <1>2, <1>3, <1>4
<1> QED
  BY <1>2, <1>3, <1>4, <1>5, StampedCounts DEF Observed

\* A count is one later, too.
LEMMA CountsKeep ==
  ASSUME NEW now \in 0..LastTick, NEW t \in 0..now
  PROVE  CountsUpTo(t) \subseteq CountsUpTo(now)
BY MarkovAssumption DEF CountsUpTo

-----------------------------------------------------------------------------
(* Predictors whose rows and totals are worth the same. *)

MapsOf(D, V) == UNION {[S -> V] : S \in SUBSET D}

Worths(row) == [e \in DOMAIN row |-> Worth(row[e])]

Balanced(m, c) == Added(Worths(m.rows[c])) = Worth(m.totals[c])

\* What a row counts is in the vocabulary.
InVocab(m, c) == DOMAIN m.rows[c] \subseteq m.vocab

RowsUpTo(now) == MapsOf(EventIds, CountsUpTo(now))

MarkovTypes(now) ==
  [rows   : MapsOf(Contexts, RowsUpTo(now)),
   totals : MapsOf(Contexts, CountsUpTo(now)),
   vocab  : SUBSET EventIds]

MarkovsUpTo(now) ==
  {m \in MarkovTypes(now) :
     /\ DOMAIN m.rows = DOMAIN m.totals
     /\ \A c \in DOMAIN m.rows : Balanced(m, c) /\ InVocab(m, c)}

\* The maps from some of D to V.
LEMMA InMaps ==
  ASSUME NEW D, NEW V, NEW f
  PROVE  f \in MapsOf(D, V) <=> DOMAIN f \subseteq D /\ f \in [DOMAIN f -> V]
<1>1. ASSUME f \in MapsOf(D, V)
      PROVE  DOMAIN f \subseteq D /\ f \in [DOMAIN f -> V]
  BY <1>1 DEF MapsOf
<1>2. ASSUME DOMAIN f \subseteq D, f \in [DOMAIN f -> V]
      PROVE  f \in MapsOf(D, V)
  <2>1. DOMAIN f \in SUBSET D
    BY <1>2
  <2> QED
    BY <1>2, <2>1 DEF MapsOf
<1> QED
  BY <1>1, <1>2

IsPut(g, f, key, v) ==
  /\ DOMAIN g = DOMAIN f \cup {key}
  /\ g[key] = v
  /\ \A x \in DOMAIN f : x # key => g[x] = f[x]

\* HashMap::insert of a key and a value of the right types.
LEMMA PutInMaps ==
  ASSUME NEW D, NEW V, NEW f \in MapsOf(D, V), NEW key \in D, NEW v \in V
  PROVE  /\ Put(f, key, v) \in MapsOf(D, V)
         /\ IsPut(Put(f, key, v), f, key, v)
<1>1. PICK g : g = Put(f, key, v)
  OBVIOUS
<1>2. g = [x \in DOMAIN f \cup {key} |-> IF x = key THEN v ELSE f[x]]
  BY <1>1 DEF Put
<1>3. DOMAIN f \subseteq D /\ f \in [DOMAIN f -> V]
  BY InMaps
<1>4. DOMAIN g = DOMAIN f \cup {key} /\ g \in [DOMAIN g -> V]
  BY <1>2, <1>3
<1>5. g \in MapsOf(D, V)
  BY <1>3, <1>4, InMaps
<1> QED
  BY <1>1, <1>2, <1>4, <1>5 DEF IsPut

\* Every count of a row is a number of worths.
LEMMA WorthsCount ==
  ASSUME NEW now \in 0..LastTick, NEW row \in RowsUpTo(now)
  PROVE  Counts(Worths(row)) /\ DOMAIN Worths(row) = DOMAIN row /\ Added(Worths(row)) \in Nat
<1>1. DOMAIN row \subseteq EventIds /\ row \in [DOMAIN row -> CountsUpTo(now)]
  BY InMaps DEF RowsUpTo
<1>2. IsFiniteSet(DOMAIN row)
  BY <1>1, FS_Subset, PredictorsAssumption
<1>3. now \in now..LastTick
  BY MarkovAssumption
<1>4. \A e \in DOMAIN row : Worth(row[e]) \in Nat
  BY <1>1, <1>3, Ages
<1>5. PICK w : w = Worths(row)
  OBVIOUS
<1>6. DOMAIN w = DOMAIN row /\ w \in [DOMAIN row -> Nat]
  BY <1>4, <1>5 DEF Worths
<1>7. Counts(w)
  BY <1>2, <1>6 DEF Counts
<1>8. Added(w) \in Nat
  <2>1. PICK sum : Sums(sum, w) /\ Added(w) = sum[DOMAIN w]
    BY Zenon, <1>7, AddedSums
  <2> QED
    BY <2>1 DEF Sums
<1> QED
  BY <1>5, <1>6, <1>7, <1>8

\* The row of a context nothing followed.
LEMMA NoRow ==
  ASSUME NEW now \in 0..LastTick
  PROVE  <<>> \in RowsUpTo(now) /\ Added(Worths(<<>>)) = 0
<1>1. <<>> = [x \in {} |-> x] /\ <<>> \in [{} -> CountsUpTo(now)] /\ DOMAIN <<>> = {}
  BY EmptyMap
<1>2. <<>> \in RowsUpTo(now)
  BY <1>1, InMaps DEF RowsUpTo
<1>3. Worths(<<>>) = [x \in {} |-> x]
  BY <1>1 DEF Worths
<1> QED
  BY Zenon, <1>2, <1>3, AddedNone

\* HashMap::get with a default of the right type.
LEMMA AtInMaps ==
  ASSUME NEW D, NEW V, NEW f \in MapsOf(D, V), NEW key, NEW default \in V
  PROVE  At(f, key, default) \in V
BY InMaps DEF At

\* One more observation in a row is one more in its sum.
LEMMA RowObserved ==
  ASSUME NEW now \in 0..LastTick, NEW row \in RowsUpTo(now), NEW e \in EventIds
  PROVE  LET count == Observed(At(row, e, Zero(now)), now)
         IN  /\ Put(row, e, count) \in RowsUpTo(now)
             /\ Added(Worths(Put(row, e, count))) = Added(Worths(row)) + Gain(now)
<1>1. PICK old, count : old = At(row, e, Zero(now)) /\ count = Observed(old, now)
  OBVIOUS
<1>2. old \in CountsUpTo(now)
  BY <1>1, ZeroCounts, AtInMaps DEF RowsUpTo
<1>3. /\ count \in CountsUpTo(now) /\ Worth(count) = Worth(old) + Gain(now)
      /\ Worth(old) \in Nat /\ Gain(now) \in Nat
  BY <1>1, <1>2, ObservedCounts
<1>4. PICK new : new = Put(row, e, count)
  OBVIOUS
<1>5. /\ new \in RowsUpTo(now)
      /\ DOMAIN new = DOMAIN row \cup {e}
      /\ new[e] = count
      /\ \A x \in DOMAIN row : x # e => new[x] = row[x]
  <2>1. row \in MapsOf(EventIds, CountsUpTo(now)) /\ count \in CountsUpTo(now)
    BY Zenon, <1>3 DEF RowsUpTo
  <2>2. new \in RowsUpTo(now) /\ IsPut(new, row, e, count)
    BY Zenon, <1>4, <2>1, PutInMaps DEF RowsUpTo
  <2> QED
    BY Zenon, <2>2 DEF IsPut
<1>6. Worths(new) = Put(Worths(row), e, Worth(count))
  <2>1. \A x \in DOMAIN row \cup {e} :
          Worth(new[x]) = IF x = e THEN Worth(count) ELSE Worths(row)[x]
    BY <1>5 DEF Worths
  <2>2. DOMAIN Worths(row) = DOMAIN row
    BY DEF Worths
  <2>3. Worths(new) = [x \in DOMAIN row \cup {e} |-> Worth(new[x])]
    BY <1>5 DEF Worths
  <2> QED
    BY Zenon, <2>1, <2>2, <2>3 DEF Put
<1>7. Counts(Worths(row)) /\ DOMAIN Worths(row) = DOMAIN row
  BY WorthsCount
<1>8. Worth(count) \in Nat
  BY <1>3
<1>9. At(Worths(row), e, 0) = Worth(old)
  <2>1. CASE e \in DOMAIN row
    BY <1>1, <2>1 DEF At, Worths
  <2>2. CASE e \notin DOMAIN row
    <3>1. old = Zero(now)
      BY <1>1, <2>2 DEF At
    <3> QED
      BY <1>7, <2>2, <3>1, ZeroCounts DEF At
  <2> QED
    BY <2>1, <2>2
<1>10. PICK x, y : x = Added(Worths(new)) /\ y = Added(Worths(row))
  OBVIOUS
<1>11. x \in Nat /\ y \in Nat /\ x + Worth(old) = y + Worth(count)
  BY <1>6, <1>7, <1>8, <1>9, <1>10, AddedPut
<1>12. x = y + Gain(now)
  BY <1>3, <1>11
<1> QED
  BY <1>1, <1>4, <1>5, <1>10, <1>12

\* The contexts counted are the sequences of events of those lengths.
LEMMA ContextsAre ==
  ASSUME NEW c \in Seq(EventIds), Len(c) \in 1..MaxOrder
  PROVE  c \in Contexts
<1>1. c \in [1..Len(c) -> EventIds]
  OBVIOUS
<1> QED
  BY <1>1 DEF Contexts

\* An event is counted in its row and in the row's total alike.
LEMMA Recorded ==
  ASSUME NEW now \in 0..LastTick, NEW m \in MarkovsUpTo(now),
         NEW context \in Seq(EventIds), NEW next \in EventIds
  PROVE  Record(m, context, next, now) \in MarkovsUpTo(now)
<1>1. PICK vocab : vocab = m.vocab \cup Range(context) \cup {next}
  OBVIOUS
<1>2. vocab \in SUBSET EventIds
  BY <1>1 DEF MarkovsUpTo, MarkovTypes, Range
<1>3. /\ m.rows \in MapsOf(Contexts, RowsUpTo(now))
      /\ m.totals \in MapsOf(Contexts, CountsUpTo(now))
      /\ m \in MarkovTypes(now)
      /\ DOMAIN m.rows = DOMAIN m.totals
      /\ \A c \in DOMAIN m.rows : Balanced(m, c) /\ InVocab(m, c)
  BY DEF MarkovsUpTo, MarkovTypes
<1>4. CASE Len(context) \notin 1..MaxOrder
  <2>1. PICK n : n = [m EXCEPT !.vocab = vocab]
    OBVIOUS
  <2>2. n.rows = m.rows /\ n.totals = m.totals /\ n \in MarkovTypes(now)
    BY <1>2, <1>3, <2>1 DEF MarkovTypes
  <2>3. \A c \in DOMAIN n.rows : Balanced(n, c)
    BY Zenon, <1>3, <2>2 DEF Balanced
  <2>4. \A c \in DOMAIN n.rows : InVocab(n, c)
    <3>1. n.vocab = vocab /\ m.vocab \subseteq vocab
      BY <1>1, <1>3, <2>1 DEF MarkovTypes
    <3> QED
      BY <1>3, <2>2, <3>1 DEF InVocab
  <2>5. n \in MarkovsUpTo(now)
    BY Zenon, <1>3, <2>2, <2>3, <2>4 DEF MarkovsUpTo
  <2>6. Record(m, context, next, now) = n
    BY Zenon, <1>1, <1>4, <2>1 DEF Record
  <2> QED
    BY <2>5, <2>6
<1>5. CASE Len(context) \in 1..MaxOrder
  <2>1. context \in Contexts
    BY <1>5, ContextsAre
  <2>2. PICK row, count, total :
          /\ row = At(m.rows, context, <<>>)
          /\ count = Observed(At(row, next, Zero(now)), now)
          /\ total = Observed(At(m.totals, context, Zero(now)), now)
    OBVIOUS
  <2>3. row \in RowsUpTo(now)
    BY <1>3, <2>2, NoRow, AtInMaps
  <2>4. PICK new : new = Put(row, next, count)
    OBVIOUS
  <2>5. new \in RowsUpTo(now) /\ Added(Worths(new)) = Added(Worths(row)) + Gain(now)
    BY <2>2, <2>3, <2>4, RowObserved
  <2>6. At(m.totals, context, Zero(now)) \in CountsUpTo(now)
    BY <1>3, ZeroCounts, AtInMaps
  <2>7. /\ total \in CountsUpTo(now)
        /\ Worth(total) = Worth(At(m.totals, context, Zero(now))) + Gain(now)
    BY <2>2, <2>6, ObservedCounts
  <2>8. Added(Worths(row)) = Worth(At(m.totals, context, Zero(now)))
    <3>1. CASE context \in DOMAIN m.rows
      BY <1>3, <2>2, <3>1 DEF At, Balanced
    <3>2. CASE context \notin DOMAIN m.rows
      BY <1>3, <2>2, <3>2, NoRow, ZeroCounts DEF At
    <3> QED
      BY <3>1, <3>2
  <2>9. PICK n : n = [rows   |-> Put(m.rows, context, new),
                      totals |-> Put(m.totals, context, total),
                      vocab  |-> vocab]
    OBVIOUS
  <2>10. /\ n.rows \in MapsOf(Contexts, RowsUpTo(now))
         /\ DOMAIN n.rows = DOMAIN m.rows \cup {context}
         /\ n.rows[context] = new
         /\ \A c \in DOMAIN m.rows : c # context => n.rows[c] = m.rows[c]
    <3>1. n.rows = Put(m.rows, context, new)
      BY <2>9
    <3>2. PICK old : old = m.rows
      OBVIOUS
    <3>3. old \in MapsOf(Contexts, RowsUpTo(now)) /\ new \in RowsUpTo(now)
      BY <1>3, <2>5, <3>2
    <3>4. Put(old, context, new) \in MapsOf(Contexts, RowsUpTo(now)) /\ IsPut(Put(old, context, new), old, context, new)
      BY Zenon, <2>1, <3>3, PutInMaps
    <3> QED
      BY Zenon, <3>1, <3>2, <3>4 DEF IsPut
  <2>11. /\ n.totals \in MapsOf(Contexts, CountsUpTo(now))
         /\ DOMAIN n.totals = DOMAIN m.totals \cup {context}
         /\ n.totals[context] = total
         /\ \A c \in DOMAIN m.totals : c # context => n.totals[c] = m.totals[c]
    <3>1. n.totals = Put(m.totals, context, total)
      BY <2>9
    <3>2. PICK old : old = m.totals
      OBVIOUS
    <3>3. old \in MapsOf(Contexts, CountsUpTo(now)) /\ total \in CountsUpTo(now)
      BY <1>3, <2>7, <3>2
    <3>4. Put(old, context, total) \in MapsOf(Contexts, CountsUpTo(now)) /\ IsPut(Put(old, context, total), old, context, total)
      BY Zenon, <2>1, <3>3, PutInMaps
    <3> QED
      BY Zenon, <3>1, <3>2, <3>4 DEF IsPut
  <2>12. n \in MarkovTypes(now)
    BY <1>2, <2>9, <2>10, <2>11 DEF MarkovTypes
  <2>13. ASSUME NEW c \in DOMAIN n.rows
         PROVE  Balanced(n, c)
    <3>1. CASE c = context
      BY <2>5, <2>7, <2>8, <2>10, <2>11, <3>1 DEF Balanced
    <3>2. CASE c # context
      <4>1. n.rows[c] = m.rows[c] /\ n.totals[c] = m.totals[c] /\ c \in DOMAIN m.rows
        BY <1>3, <2>10, <2>11, <3>2
      <4> QED
        BY Zenon, <1>3, <4>1 DEF Balanced
    <3> QED
      BY <3>1, <3>2
  <2>14. \A c \in DOMAIN n.rows : InVocab(n, c)
    <3>1. n.vocab = vocab /\ m.vocab \subseteq vocab /\ next \in vocab
      BY <1>1, <2>9
    <3>2. DOMAIN new = DOMAIN row \cup {next}
      BY <2>4 DEF Put
    <3>3. context \in DOMAIN m.rows => DOMAIN row \subseteq m.vocab
      BY <1>3, <2>2 DEF At, InVocab
    <3>4. context \notin DOMAIN m.rows => DOMAIN row = {}
      BY <2>2, EmptyMap DEF At
    <3> QED
      BY <1>3, <2>10, <3>1, <3>2, <3>3, <3>4 DEF InVocab
  <2>15. n \in MarkovsUpTo(now)
    BY <1>3, <2>10, <2>11, <2>12, <2>13, <2>14 DEF MarkovsUpTo
  <2>16. Record(m, context, next, now) = n
    BY Zenon, <1>1, <1>5, <2>2, <2>4, <2>9 DEF Record
  <2> QED
    BY <2>15, <2>16
<1> QED
  BY <1>4, <1>5

-----------------------------------------------------------------------------
(* Training. *)

\* Whatever satisfies the equation of a fold of steps within a set is in it.
FoldSteps(h, S, V, base, pick, f) ==
  /\ h[{}] = base
  /\ \A s \in SUBSET S : s # {} /\ h[s \ {pick[s]}] \in V => h[s] = f[<<pick[s], h[s \ {pick[s]}]>>]

PicksFrom(pick, S) == \A s \in SUBSET S : s # {} => pick[s] \in s

\* The result of a fold is in the set its steps stay in.
LEMMA FoldStays ==
  ASSUME NEW S, IsFiniteSet(S), NEW V, NEW base \in V, NEW f \in [S \X V -> V],
         NEW pick, PicksFrom(pick, S), NEW h, FoldSteps(h, S, V, base, pick, f)
  PROVE  h[S] \in V
<1> DEFINE P == {s \in SUBSET S : h[s] \in V}
<1>1. ASSUME NEW s \in SUBSET S, \A x \in s : s \ {x} \in P
      PROVE  s \in P
  <2>1. CASE s = {}
    BY <2>1 DEF FoldSteps
  <2>2. CASE s # {}
    <3>1. pick[s] \in s /\ h[s \ {pick[s]}] \in V
      BY <1>1, <2>2 DEF PicksFrom
    <3>2. h[s] = f[<<pick[s], h[s \ {pick[s]}]>>]
      BY <2>2, <3>1 DEF FoldSteps
    <3>3. <<pick[s], h[s \ {pick[s]}]>> \in S \X V
      BY <3>1
    <3> QED
      BY <3>2, <3>3
  <2> QED
    BY <2>1, <2>2
<1> HIDE DEF P
<1>2. GrowsInto(S, P)
  BY Zenon, <1>1 DEF GrowsInto
<1>3. SUBSET S \subseteq P
  BY Zenon, <1>2, SubsetInduction
<1> QED
  BY <1>3 DEF P

\* A new predictor is balanced.
LEMMA NothingLearned ==
  ASSUME NEW now \in 0..LastTick
  PROVE  NewMarkov \in MarkovsUpTo(now)
<1>1. NewMarkov.rows = <<>> /\ NewMarkov.totals = <<>> /\ NewMarkov.vocab = {}
  BY DEF NewMarkov
<1>2. \A D, V : <<>> \in MapsOf(D, V)
  <2>1. \A V : <<>> \in [{} -> V] /\ DOMAIN <<>> = {}
    BY EmptyMap
  <2> QED
    BY <2>1, InMaps
<1>3. DOMAIN <<>> = {}
  BY EmptyMap
<1>4. NewMarkov \in MarkovTypes(now)
  <2>1. <<>> \in MapsOf(Contexts, RowsUpTo(now)) /\ <<>> \in MapsOf(Contexts, CountsUpTo(now))
    BY Zenon, <1>2
  <2> QED
    BY <2>1 DEF NewMarkov, MarkovTypes
<1> QED
  BY <1>1, <1>3, <1>4 DEF MarkovsUpTo

\* The vocabulary grows by what a sequence names before any of it is counted.
LEMMA Heard ==
  ASSUME NEW now \in 0..LastTick, NEW m \in MarkovsUpTo(now), NEW more \in SUBSET EventIds
  PROVE  [m EXCEPT !.vocab = @ \cup more] \in MarkovsUpTo(now)
<1>1. PICK n : n = [m EXCEPT !.vocab = @ \cup more]
  OBVIOUS
<1>2. n.rows = m.rows /\ n.totals = m.totals /\ n \in MarkovTypes(now)
  BY <1>1 DEF MarkovsUpTo, MarkovTypes
<1>3. DOMAIN m.rows = DOMAIN m.totals /\ \A c \in DOMAIN m.rows : Balanced(m, c) /\ InVocab(m, c)
  BY DEF MarkovsUpTo
<1>4. \A c \in DOMAIN n.rows : Balanced(n, c)
  BY Zenon, <1>2, <1>3 DEF Balanced
<1>5. \A c \in DOMAIN n.rows : InVocab(n, c)
  <2>1. m.vocab \subseteq n.vocab
    BY <1>1 DEF MarkovsUpTo, MarkovTypes
  <2> QED
    BY <1>2, <1>3, <2>1 DEF InVocab
<1>6. n \in MarkovsUpTo(now)
  BY Zenon, <1>2, <1>3, <1>4, <1>5 DEF MarkovsUpTo
<1> QED
  BY <1>1, <1>6

\* Counting a sequence keeps rows and totals balanced (observe_sequence).
LEMMA SequenceObserved ==
  ASSUME NEW now \in 0..LastTick, NEW m \in MarkovsUpTo(now), NEW events \in Seq(EventIds)
  PROVE  ObserveSequence(m, events, now) \in MarkovsUpTo(now)
<1> DEFINE V == MarkovsUpTo(now)
           W == {w \in (2..Len(events)) \X (1..MaxOrder) : w[1] > w[2]}
           base == [m EXCEPT !.vocab = @ \cup Range(events)]
           record(w, acc) == Record(acc, SubSeq(events, w[1] - w[2], w[1] - 1), events[w[1]], now)
           By(g) == g = [s \in SUBSET W |-> IF s = {} THEN base
                                            ELSE LET x == CHOOSE x \in s : TRUE IN record(x, g[s \ {x}])]
           pick == [s \in SUBSET W |-> CHOOSE x \in s : TRUE]
           f == [a \in W \X V |-> record(a[1], a[2])]
<1>1. IsFiniteSet(W)
  <2>1. IsFiniteSet(2..Len(events)) /\ IsFiniteSet(1..MaxOrder)
    BY FS_Interval, MarkovAssumption
  <2>2. IsFiniteSet((2..Len(events)) \X (1..MaxOrder))
    BY <2>1, FS_Product
  <2> QED
    BY <2>2, FS_Subset
<1>2. base \in V
  <2>1. Range(events) \in SUBSET EventIds
    BY DEF Range
  <2> QED
    BY <2>1, Heard
<1>3. \A w \in W, acc \in V : record(w, acc) \in V
  <2> TAKE w \in W, acc \in V
  <2>1. SubSeq(events, w[1] - w[2], w[1] - 1) \in Seq(EventIds) /\ events[w[1]] \in EventIds
    <3>1. PICK i \in 2..Len(events), n \in 1..MaxOrder : w[1] = i /\ w[2] = n /\ i > n
      OBVIOUS
    <3>2. i - n \in 1..Len(events) /\ i - 1 \in 1..Len(events) /\ i \in 1..Len(events)
      BY <3>1, MarkovAssumption
    <3>3. SubSeq(events, i - n, i - 1) \in Seq(EventIds) /\ events[i] \in EventIds
      BY <3>2
    <3> QED
      BY <3>1, <3>3
  <2> QED
    BY <2>1, Recorded
<1>4. f \in [W \X V -> V] /\ \A w \in W, acc \in V : f[<<w, acc>>] = record(w, acc)
  <2> HIDE DEF W, V, record
  <2> QED
    BY <1>3
<1>5. /\ PicksFrom(pick, W)
      /\ \A s \in SUBSET W : pick[s] = CHOOSE x \in s : TRUE
  BY DEF PicksFrom
<1>6. ObserveSequence(m, events, now) = (CHOOSE g : By(g))[W]
  BY DEF ObserveSequence, FoldSet, MapThenFoldSet
<1> HIDE DEF W, V, record, base, f, pick
<1>7. PICK g \in [SUBSET W -> V] : Folded(g, W, base, pick, f)
  BY Zenon, <1>1, <1>2, <1>4, <1>5, Folds DEF PicksFrom
<1>8. By(g)
  <2>1. ASSUME NEW s \in SUBSET W
        PROVE  g[s] = IF s = {} THEN base
                      ELSE LET x == CHOOSE x \in s : TRUE IN record(x, g[s \ {x}])
    <3>1. g[s] = IF s = {} THEN base ELSE f[<<pick[s], g[s \ {pick[s]}]>>]
      BY Zenon, <1>7 DEF Folded
    <3>2. s # {} => pick[s] \in W /\ g[s \ {pick[s]}] \in V
      BY <1>5 DEF PicksFrom
    <3>3. s # {} => f[<<pick[s], g[s \ {pick[s]}]>>] = record(pick[s], g[s \ {pick[s]}])
      BY Zenon, <1>4, <3>2
    <3> QED
      BY Zenon, <1>5, <3>1, <3>3
  <2>2. g = [s \in SUBSET W |-> g[s]]
    OBVIOUS
  <2> QED
    BY Zenon, <2>1, <2>2
<1>9. PICK h : h = CHOOSE g_1 : By(g_1)
  OBVIOUS
<1>10. By(h)
  <2> HIDE DEF By
  <2> QED
    BY Zenon, <1>8, <1>9
<1>11. FoldSteps(h, W, V, base, pick, f)
  <2>1. h[{}] = base
    <3>1. {} \in SUBSET W
      OBVIOUS
    <3> QED
      BY Zenon, <1>10, <3>1
  <2>2. ASSUME NEW s \in SUBSET W, s # {}, h[s \ {pick[s]}] \in V
        PROVE  h[s] = f[<<pick[s], h[s \ {pick[s]}]>>]
    <3>1. h[s] = record(pick[s], h[s \ {pick[s]}])
      BY Zenon, <1>5, <1>10, <2>2
    <3>2. pick[s] \in W
      BY <1>5, <2>2 DEF PicksFrom
    <3> QED
      BY Zenon, <1>4, <2>2, <3>1, <3>2
  <2> QED
    BY Zenon, <2>1, <2>2 DEF FoldSteps
<1>12. h[W] \in V
  BY Zenon, <1>1, <1>2, <1>4, <1>5, <1>11, FoldStays
<1> QED
  BY Zenon, <1>6, <1>9, <1>12 DEF V

Chosen(s, indices, n, G) ==
  /\ n \in Nat
  /\ Len(s) = n
  /\ \A i \in 1..n : i \in indices => s[i] \in G

\* What is kept of a sequence is a sequence of what was kept.
LEMMA KeptIs ==
  ASSUME NEW s, NEW indices, NEW n, NEW G, Chosen(s, indices, n, G)
  PROVE  Kept(s, indices) \in Seq(G)
<1> DEFINE V == Seq(G)
           f == [a \in (1..n) \X V |-> IF a[1] \in indices THEN Append(a[2], s[a[1]]) ELSE a[2]]
           By(g) == g = [i \in 0..n |-> IF i = 0 THEN <<>>
                                        ELSE IF i \in indices THEN Append(g[i - 1], s[i]) ELSE g[i - 1]]
<1>1. n \in Nat /\ Len(s) = n /\ \A i \in 1..n : i \in indices => s[i] \in G
  BY DEF Chosen
<1>2. \A i \in 1..n, t \in V : (IF i \in indices THEN Append(t, s[i]) ELSE t) \in V
  BY <1>1
<1>3. /\ f \in [(1..n) \X V -> V]
      /\ \A i \in 1..n, t \in V : f[<<i, t>>] = IF i \in indices THEN Append(t, s[i]) ELSE t
  <2> HIDE DEF V
  <2> QED
    BY <1>2
<1>4. <<>> \in V
  OBVIOUS
<1> HIDE DEF V, f
<1>5. PICK g \in [0..n -> V] : Unrolled(g, n, <<>>, f)
  BY Zenon, <1>1, <1>3, <1>4, Unrolls
<1>6. \A i \in 1..n : i # 0 /\ i \in 0..n /\ i - 1 \in 0..n
  BY <1>1
<1>7. By(g)
  <2>1. ASSUME NEW i \in 0..n
        PROVE  g[i] = IF i = 0 THEN <<>>
                      ELSE IF i \in indices THEN Append(g[i - 1], s[i]) ELSE g[i - 1]
    <3>1. g[i] = IF i = 0 THEN <<>> ELSE f[<<i, g[i - 1]>>]
      BY Zenon, <1>5 DEF Unrolled
    <3>2. i # 0 => i \in 1..n /\ g[i - 1] \in V
      BY <1>1
    <3> QED
      BY Zenon, <1>3, <3>1, <3>2
  <2>2. g = [i \in 0..n |-> g[i]]
    OBVIOUS
  <2> QED
    BY Zenon, <2>1, <2>2
<1>8. PICK h : h = CHOOSE g_1 : By(g_1)
  OBVIOUS
<1>9. By(h)
  <2> HIDE DEF By
  <2> QED
    BY Zenon, <1>7, <1>8
<1>10. Kept(s, indices) = h[n]
  BY <1>1, <1>8 DEF Kept
<1> DEFINE P == {i \in 0..n : h[i] \in V}
<1>11. 0 \in P
  <2>1. 0 \in 0..n
    BY <1>1
  <2>2. h[0] = <<>>
    BY Zenon, <1>9, <2>1
  <2> QED
    BY <1>4, <2>1, <2>2
<1>12. ASSUME NEW i \in 1..n, i - 1 \in P
       PROVE  i \in P
  <2>1. h[i] = IF i \in indices THEN Append(h[i - 1], s[i]) ELSE h[i - 1]
    BY Zenon, <1>6, <1>9
  <2> QED
    BY <1>2, <1>6, <1>12, <2>1
<1>13. 0..n \subseteq P
  <2> HIDE DEF P
  <2> QED
    BY Zenon, <1>1, <1>11, <1>12, UpwardInduction
<1> QED
  BY <1>1, <1>10, <1>13 DEF V

\* The members of a finite set, listed.
LEMMA Listed ==
  ASSUME NEW S, IsFiniteSet(S)
  PROVE  SetToSeq(S) \in Seq(S)
<1>1. PICK n \in Nat : n = Cardinality(S)
  BY FS_CardinalityType
<1>2. IsFiniteSet(1..n) /\ Cardinality(1..n) = n
  BY FS_Interval
<1>3. ExistsBijection(1..n, S)
  BY Zenon, <1>1, <1>2, FS_SameCardinalityBij
<1>4. PICK f \in [1..n -> S] : IsInjective(f)
  BY <1>3 DEF ExistsBijection, Bijection, Injection, IsInjective
<1>5. SetToSeq(S) \in [1..n -> S]
  BY <1>1, <1>4 DEF SetToSeq, IsInjective
<1> QED
  BY <1>5

\* primd train gives the predictor sequences of events it knows.
LEMMA TranscribedEvents ==
  ASSUME NEW lines \in TrainingSets
  PROVE  TranscriptSequences(lines, EventIds) \in Seq(Seq(EventIds))
<1> DEFINE Whole(l) == "events" \in DOMAIN l
           whole == Kept(lines, {i \in DOMAIN lines : Whole(lines[i])})
           turns == Kept(lines, {i \in DOMAIN lines : ~Whole(lines[i])})
           speakers == SetToSeq({l.session : l \in Range(turns)})
           said(s) == Kept(turns, {i \in DOMAIN turns : turns[i].session = s})
           Said(s) == [i \in DOMAIN said(s) |-> said(s)[i].event]
           entire == [i \in DOMAIN whole |-> whole[i].events]
           gathered == [i \in DOMAIN speakers |-> Said(speakers[i])]
           all == entire \o gathered
           heard == [i \in DOMAIN all |-> Kept(all[i], {n \in DOMAIN all[i] : all[i][n] \in EventIds})]
           G == Nat \cup {l.event : l \in Range(lines)}
<1>1. lines \in Seq(Range(lines)) /\ \A l \in Range(lines) : "events" \in DOMAIN l => l.events \in Seq(Nat)
  BY PredictorsAssumption
<1>2. PICK n \in Nat : n = Len(lines) /\ DOMAIN lines = 1..n
  BY <1>1
<1>3. whole \in Seq({l \in Range(lines) : Whole(l)})
  <2>1. \A i \in 1..n : i \in {j \in DOMAIN lines : Whole(lines[j])} =>
          lines[i] \in {l \in Range(lines) : Whole(l)}
    BY <1>2 DEF Range
  <2> HIDE DEF Whole
  <2> QED
    BY Zenon, <1>2, <2>1, KeptIs DEF Chosen
<1>4. turns \in Seq(Range(lines))
  <2>1. \A i \in 1..n : i \in {j \in DOMAIN lines : ~Whole(lines[j])} => lines[i] \in Range(lines)
    BY <1>2 DEF Range
  <2> HIDE DEF Whole
  <2> QED
    BY Zenon, <1>2, <2>1, KeptIs DEF Chosen
<1> HIDE DEF whole, turns
<1>5. PICK m \in Nat : m = Len(turns) /\ DOMAIN turns = 1..m
  BY <1>4
<1>6. ASSUME NEW s
      PROVE  Said(s) \in Seq(G)
  <2>1. \A i \in 1..m : i \in {j \in DOMAIN turns : turns[j].session = s} => turns[i] \in Range(lines)
    BY <1>4, <1>5
  <2>2. said(s) \in Seq(Range(lines))
    BY Zenon, <1>5, <2>1, KeptIs DEF Chosen
  <2> HIDE DEF said
  <2>3. PICK k \in Nat : DOMAIN said(s) = 1..k /\ \A i \in 1..k : said(s)[i] \in Range(lines)
    BY <2>2
  <2>4. Said(s) \in [1..k -> G]
    BY <2>3
  <2> QED
    BY <2>4
<1> HIDE DEF Said, said
<1>7. entire \in Seq(Seq(G))
  <2>1. PICK k \in Nat : DOMAIN whole = 1..k /\ \A i \in 1..k : whole[i] \in Range(lines) /\ Whole(whole[i])
    BY <1>3
  <2>2. \A i \in 1..k : whole[i].events \in Seq(Nat)
    BY <1>1, <2>1
  <2>3. \A t : t \in Seq(Nat) => t \in Seq(G)
    OBVIOUS
  <2>4. entire \in [1..k -> Seq(G)]
    BY <2>1, <2>2, <2>3
  <2> HIDE DEF G
  <2> QED
    BY <2>4
<1>8. gathered \in Seq(Seq(G))
  <2>1. IsFiniteSet(Range(turns))
    <3>1. turns \in Surjection(1..m, Range(turns))
      BY <1>4, <1>5 DEF Range, Surjection
    <3>2. IsFiniteSet(1..m)
      BY <1>5, FS_Interval
    <3> QED
      BY Zenon, <3>1, <3>2, FS_Surjection
  <2>2. IsFiniteSet({l.session : l \in Range(turns)})
    <3> DEFINE T == {l.session : l \in Range(turns)}
               g == [l \in Range(turns) |-> l.session]
    <3>1. g \in Surjection(Range(turns), T)
      BY DEF Surjection
    <3> HIDE DEF g
    <3> QED
      BY Zenon, <2>1, <3>1, FS_Surjection
  <2>3. PICK S : speakers \in Seq(S)
    BY Zenon, <2>2, Listed
  <2> HIDE DEF speakers
  <2>4. PICK k \in Nat : DOMAIN speakers = 1..k
    BY <2>3
  <2> HIDE DEF G
  <2>5. gathered \in [1..k -> Seq(G)]
    BY <1>6, <2>4
  <2> QED
    BY <2>5
<1> HIDE DEF entire, gathered, G
<1>9. all \in Seq(Seq(G))
  BY <1>7, <1>8
<1> HIDE DEF all
<1>10. PICK k \in Nat : k = Len(all) /\ DOMAIN all = 1..k /\ \A i \in 1..k : all[i] \in Seq(G)
  BY <1>9
<1>11. ASSUME NEW i \in 1..k
       PROVE  Kept(all[i], {x \in DOMAIN all[i] : all[i][x] \in EventIds}) \in Seq(EventIds)
  <2>1. PICK t, j : t = all[i] /\ j = Len(t) /\ j \in Nat /\ DOMAIN t = 1..j
    BY <1>10
  <2>2. Chosen(t, {x \in DOMAIN t : t[x] \in EventIds}, j, EventIds)
    BY <2>1 DEF Chosen
  <2>3. Kept(t, {x \in DOMAIN t : t[x] \in EventIds}) \in Seq(EventIds)
    BY Zenon, <2>2, KeptIs
  <2> QED
    BY Zenon, <2>1, <2>3
<1>12. heard \in [1..k -> Seq(EventIds)]
  BY <1>10, <1>11
<1>13. TranscriptSequences(lines, EventIds) = Kept(heard, {i \in DOMAIN heard : Len(heard[i]) >= 2})
  BY DEF TranscriptSequences, heard, all, entire, gathered, Said, said, speakers, whole, turns
<1> HIDE DEF heard
<1>14. Chosen(heard, {i \in DOMAIN heard : Len(heard[i]) >= 2}, k, Seq(EventIds))
  BY <1>12 DEF Chosen
<1> QED
  BY Zenon, <1>13, <1>14, KeptIs

\* Training from sequences of known events gives a balanced predictor.
LEMMA Trained ==
  ASSUME NEW now \in 0..LastTick, NEW sequences \in Seq(Seq(EventIds))
  PROVE  TrainSequences(sequences, now) \in MarkovsUpTo(now)
<1> DEFINE V == MarkovsUpTo(now)
           D == DOMAIN sequences
           learn(m, s) == IF Len(s) >= 2 THEN ObserveSequence(m, s, now) ELSE m
           By(g) == g = [s \in SUBSET D |-> IF s = {} THEN NewMarkov
                                            ELSE LET x == Max(s) IN learn(g[s \ {x}], sequences[x])]
           pick == [s \in SUBSET D |-> Max(s)]
           f == [a \in D \X V |-> learn(a[2], sequences[a[1]])]
<1>1. PICK n \in Nat : D = 1..n
  OBVIOUS
<1>2. IsFiniteSet(D)
  BY <1>1, FS_Interval
<1>3. NewMarkov \in V
  BY NothingLearned
<1>4. \A i \in D, m \in V : learn(m, sequences[i]) \in V
  BY SequenceObserved
<1>5. f \in [D \X V -> V] /\ \A i \in D, m \in V : f[<<i, m>>] = learn(m, sequences[i])
  <2> HIDE DEF D, V, learn
  <2> QED
    BY <1>4
<1>6. /\ PicksFrom(pick, D)
      /\ \A s \in SUBSET D : pick[s] = Max(s)
  <2>1. ASSUME NEW s \in SUBSET D, s # {}
        PROVE  Max(s) \in s
    <3>1. s \in SUBSET (0..n)
      BY <1>1
    <3> QED
      BY Zenon, <2>1, <3>1, MaxIsGreatest
  <2> QED
    BY <2>1 DEF PicksFrom
<1>7. TrainSequences(sequences, now) = (CHOOSE g : By(g))[D]
  BY DEF TrainSequences, FoldLeft, MapThenFoldSet
<1> HIDE DEF D, V, learn, f, pick
<1>8. PICK g \in [SUBSET D -> V] : Folded(g, D, NewMarkov, pick, f)
  BY Zenon, <1>2, <1>3, <1>5, <1>6, Folds DEF PicksFrom
<1>9. By(g)
  <2>1. ASSUME NEW s \in SUBSET D
        PROVE  g[s] = IF s = {} THEN NewMarkov
                      ELSE LET x == Max(s) IN learn(g[s \ {x}], sequences[x])
    <3>1. g[s] = IF s = {} THEN NewMarkov ELSE f[<<pick[s], g[s \ {pick[s]}]>>]
      BY Zenon, <1>8 DEF Folded
    <3>2. s # {} => pick[s] \in D /\ g[s \ {pick[s]}] \in V
      BY <1>6 DEF PicksFrom
    <3>3. s # {} => f[<<pick[s], g[s \ {pick[s]}]>>] = learn(g[s \ {pick[s]}], sequences[pick[s]])
      BY Zenon, <1>5, <3>2
    <3> QED
      BY Zenon, <1>6, <3>1, <3>3
  <2>2. g = [s \in SUBSET D |-> g[s]]
    OBVIOUS
  <2> QED
    BY Zenon, <2>1, <2>2
<1>10. PICK h : h = CHOOSE g_1 : By(g_1)
  OBVIOUS
<1>11. By(h)
  <2> HIDE DEF By
  <2> QED
    BY Zenon, <1>9, <1>10
<1>12. FoldSteps(h, D, V, NewMarkov, pick, f)
  <2>1. h[{}] = NewMarkov
    <3>1. {} \in SUBSET D
      OBVIOUS
    <3> QED
      BY Zenon, <1>11, <3>1
  <2>2. ASSUME NEW s \in SUBSET D, s # {}, h[s \ {pick[s]}] \in V
        PROVE  h[s] = f[<<pick[s], h[s \ {pick[s]}]>>]
    <3>1. h[s] = learn(h[s \ {pick[s]}], sequences[pick[s]])
      BY Zenon, <1>6, <1>11, <2>2
    <3>2. pick[s] \in D
      BY <1>6, <2>2 DEF PicksFrom
    <3> QED
      BY Zenon, <1>5, <2>2, <3>1, <3>2
  <2> QED
    BY Zenon, <2>1, <2>2 DEF FoldSteps
<1>13. h[D] \in V
  BY Zenon, <1>2, <1>3, <1>5, <1>6, <1>12, FoldStays
<1> QED
  BY Zenon, <1>7, <1>10, <1>13 DEF V

-----------------------------------------------------------------------------
(* Files. *)

FilesAt(now) ==
  {f \in [vocab : SUBSET EventIds, rows : MapsOf(Contexts, MapsOf(EventIds, Nat))] :
     \A c \in DOMAIN f.rows :
       /\ InVocab(f, c)
       /\ \A e \in DOMAIN f.rows[c] : \E q \in Nat : f.rows[c][e] = q * Scale(now)}

\* A context is a sequence of events of a length that is counted.
LEMMA ContextLengths ==
  ASSUME NEW c \in Contexts
  PROVE  c \in Seq(EventIds) /\ Len(c) \in 1..MaxOrder
<1>1. PICK n \in 1..MaxOrder : c \in [1..n -> EventIds]
  BY DEF Contexts
<1> QED
  BY <1>1, MarkovAssumption

\* The parts of a balanced predictor have their types.
LEMMA MarkovParts ==
  ASSUME NEW now \in 0..LastTick, NEW m \in MarkovsUpTo(now)
  PROVE  /\ m.vocab \subseteq EventIds
         /\ DOMAIN m.rows = DOMAIN m.totals
         /\ \A c \in DOMAIN m.rows :
              /\ c \in Contexts
              /\ m.rows[c] \in RowsUpTo(now)
              /\ DOMAIN m.rows[c] \subseteq EventIds
              /\ \A e \in DOMAIN m.rows[c] : m.rows[c][e] \in CountsUpTo(now)
              /\ m.totals[c] \in CountsUpTo(now)
              /\ Balanced(m, c) /\ InVocab(m, c)
<1>1. /\ m.vocab \subseteq EventIds
      /\ m.rows \in MapsOf(Contexts, RowsUpTo(now))
      /\ m.totals \in MapsOf(Contexts, CountsUpTo(now))
      /\ DOMAIN m.rows = DOMAIN m.totals
      /\ \A c \in DOMAIN m.rows : Balanced(m, c) /\ InVocab(m, c)
  BY DEF MarkovsUpTo, MarkovTypes
<1>2. DOMAIN m.rows \subseteq Contexts /\ m.rows \in [DOMAIN m.rows -> RowsUpTo(now)]
  BY Zenon, <1>1, InMaps
<1>3. m.totals \in [DOMAIN m.totals -> CountsUpTo(now)]
  BY Zenon, <1>1, InMaps
<1>4. \A row \in RowsUpTo(now) :
        DOMAIN row \subseteq EventIds /\ \A e \in DOMAIN row : row[e] \in CountsUpTo(now)
  BY InMaps DEF RowsUpTo
<1> QED
  BY <1>1, <1>2, <1>3, <1>4

\* What is saved is a file as of now.
LEMMA SavedFiles ==
  ASSUME NEW now \in 0..LastTick, NEW m \in MarkovsUpTo(now)
  PROVE  Saved(m, now) \in FilesAt(now)
<1>1. now \in now..LastTick
  BY MarkovAssumption
<1>2. \A c \in DOMAIN m.rows : \A e \in DOMAIN m.rows[c] :
        /\ Current(m.rows[c][e], now) \in Nat
        /\ \E q \in Nat : Current(m.rows[c][e], now) = q * Scale(now)
  BY <1>1, MarkovParts, Ages
<1>3. PICK rows : rows = [c \in DOMAIN m.rows |-> [e \in DOMAIN m.rows[c] |-> Current(m.rows[c][e], now)]]
  OBVIOUS
<1>4. PICK f : f = [vocab |-> m.vocab, rows |-> rows]
  OBVIOUS
<1>5. \A c \in DOMAIN m.rows : rows[c] \in MapsOf(EventIds, Nat)
  <2> TAKE c \in DOMAIN m.rows
  <2>1. rows[c] = [e \in DOMAIN m.rows[c] |-> Current(m.rows[c][e], now)]
    BY <1>3
  <2>2. DOMAIN rows[c] \subseteq EventIds /\ rows[c] \in [DOMAIN rows[c] -> Nat]
    BY <1>2, <2>1, MarkovParts
  <2> QED
    BY <2>2, InMaps
<1>6. rows \in MapsOf(Contexts, MapsOf(EventIds, Nat))
  <2>1. DOMAIN rows \subseteq Contexts /\ rows \in [DOMAIN rows -> MapsOf(EventIds, Nat)]
    BY <1>3, <1>5, MarkovParts
  <2> QED
    BY Zenon, <2>1, InMaps
<1>7. \A c \in DOMAIN rows : \A e \in DOMAIN rows[c] : \E q \in Nat : rows[c][e] = q * Scale(now)
  BY <1>2, <1>3
<1>8. \A c \in DOMAIN rows : InVocab(f, c)
  <2>1. f.rows = rows /\ f.vocab = m.vocab
    BY <1>4
  <2>2. \A c \in DOMAIN rows : c \in DOMAIN m.rows /\ DOMAIN rows[c] = DOMAIN m.rows[c]
    BY <1>3
  <2>3. \A c \in DOMAIN m.rows : InVocab(m, c)
    BY MarkovParts
  <2> QED
    BY <2>1, <2>2, <2>3 DEF InVocab
<1>9. f \in FilesAt(now)
  BY <1>4, <1>6, <1>7, <1>8, MarkovParts DEF FilesAt
<1>10. Saved(m, now) = f
  BY Zenon, <1>3, <1>4 DEF Saved
<1> QED
  BY <1>9, <1>10

\* A file is as good later as it was: a save is a multiple of every smaller
\* scale.
LEMMA FilesKeep ==
  ASSUME NEW now \in 0..LastTick, NEW t \in 0..now
  PROVE  FilesAt(t) \subseteq FilesAt(now)
<1>1. PICK r \in Nat \ {0} : Fades(t, now, r)
  BY Zenon, ScaleFades
<1>2. PICK s, S \in Nat : s = Scale(now) /\ S = Scale(t) /\ S = r * s
  BY <1>1, ScaleFades, Scales DEF Fades
<1>3. ASSUME NEW w, NEW q \in Nat, w = q * S
      PROVE  \E p \in Nat : w = p * s
  <2>1. q * r \in Nat /\ q * (r * s) = (q * r) * s
    OBVIOUS
  <2> QED
    BY <1>2, <1>3, <2>1
<1>4. \A f \in FilesAt(t) : \A c \in DOMAIN f.rows : \A e \in DOMAIN f.rows[c] :
        \E q \in Nat : f.rows[c][e] = q * S
  BY <1>2 DEF FilesAt
<1>5. \A f \in FilesAt(t) : \A c \in DOMAIN f.rows : \A e \in DOMAIN f.rows[c] :
        \E q \in Nat : f.rows[c][e] = q * s
  BY <1>3, <1>4
<1> QED
  BY <1>2, <1>5 DEF FilesAt

\* A balanced predictor is one later, too.
LEMMA MarkovsKeep ==
  ASSUME NEW now \in 0..LastTick, NEW t \in 0..now
  PROVE  MarkovsUpTo(t) \subseteq MarkovsUpTo(now)
<1>1. CountsUpTo(t) \subseteq CountsUpTo(now)
  BY CountsKeep
<1>2. ASSUME NEW D, NEW V, NEW W, V \subseteq W
      PROVE  MapsOf(D, V) \subseteq MapsOf(D, W)
  <2>1. ASSUME NEW f \in MapsOf(D, V)
        PROVE  f \in MapsOf(D, W)
    <3>1. DOMAIN f \subseteq D /\ f \in [DOMAIN f -> V]
      BY InMaps
    <3>2. f \in [DOMAIN f -> W]
      BY <1>2, <3>1
    <3> QED
      BY <3>1, <3>2, InMaps
  <2> QED
    BY <2>1
<1>3. RowsUpTo(t) \subseteq RowsUpTo(now)
  BY Zenon, <1>1, <1>2 DEF RowsUpTo
<1>4. MarkovTypes(t) \subseteq MarkovTypes(now)
  <2>1. /\ MapsOf(Contexts, RowsUpTo(t)) \subseteq MapsOf(Contexts, RowsUpTo(now))
        /\ MapsOf(Contexts, CountsUpTo(t)) \subseteq MapsOf(Contexts, CountsUpTo(now))
    BY Zenon, <1>1, <1>2, <1>3
  <2> QED
    BY <2>1 DEF MarkovTypes
<1> QED
  BY <1>4 DEF MarkovsUpTo

\* What is loaded has the rows of the file, each with its sum.
LEMMA LoadedBalances ==
  ASSUME NEW now \in 0..LastTick, NEW f \in FilesAt(now)
  PROVE  Loaded(f, now) \in MarkovsUpTo(now)
<1> DEFINE Stamped(w) == [weight |-> w, last |-> now]
<1>1. /\ f.vocab \in SUBSET EventIds
      /\ f.rows \in MapsOf(Contexts, MapsOf(EventIds, Nat))
      /\ \A c \in DOMAIN f.rows : InVocab(f, c)
      /\ \A c \in DOMAIN f.rows : \A e \in DOMAIN f.rows[c] :
           \E q \in Nat : f.rows[c][e] = q * Scale(now)
  BY DEF FilesAt
<1>2. DOMAIN f.rows \subseteq Contexts /\ f.rows \in [DOMAIN f.rows -> MapsOf(EventIds, Nat)]
  BY Zenon, <1>1, InMaps
<1>3. {c \in DOMAIN f.rows : Len(c) \in 1..MaxOrder} = DOMAIN f.rows
  BY <1>2, ContextLengths
<1>4. PICK rows, totals :
        /\ rows = [c \in DOMAIN f.rows |-> [e \in DOMAIN f.rows[c] |-> Stamped(f.rows[c][e])]]
        /\ totals = [c \in DOMAIN f.rows |-> Stamped(Added(f.rows[c]))]
  OBVIOUS
<1>5. PICK n : n = [vocab |-> f.vocab, rows |-> rows, totals |-> totals]
  OBVIOUS
<1>6. Loaded(f, now) = n
  BY Zenon, <1>3, <1>4, <1>5 DEF Loaded
<1>7. Scale(now) \in Nat \ {0}
  BY Scales
<1>8. ASSUME NEW c \in DOMAIN f.rows
      PROVE  /\ rows[c] \in RowsUpTo(now)
             /\ totals[c] \in CountsUpTo(now)
             /\ Added(Worths(rows[c])) = Worth(totals[c])
  <2>1. PICK row : row = f.rows[c]
    OBVIOUS
  <2>2. DOMAIN row \subseteq EventIds /\ row \in [DOMAIN row -> Nat]
    BY <1>2, <2>1, InMaps
  <2>3. rows[c] = [e \in DOMAIN row |-> Stamped(row[e])]
    BY <1>4, <2>1
  <2>4. \A e \in DOMAIN row : Stamped(row[e]) \in CountsUpTo(now) /\ row[e] = Worth(Stamped(row[e])) * Scale(now)
    <3> TAKE e \in DOMAIN row
    <3>1. PICK q \in Nat : row[e] = q * Scale(now)
      BY <1>1, <2>1
    <3> QED
      BY <3>1, StampedCounts
  <2>5. rows[c] \in RowsUpTo(now)
    <3>1. DOMAIN rows[c] \subseteq EventIds /\ rows[c] \in [DOMAIN rows[c] -> CountsUpTo(now)]
      <4> HIDE DEF Stamped
      <4> QED
        BY <2>2, <2>3, <2>4
    <3> QED
      BY <3>1, InMaps DEF RowsUpTo
  <2>6. Scaled(row, Worths(rows[c]), Scale(now))
    <3> HIDE DEF Stamped
    <3>1. DOMAIN rows[c] = DOMAIN row
      BY <2>3
    <3>2. \A e \in DOMAIN row : Worths(rows[c])[e] = Worth(Stamped(row[e]))
      BY <2>3 DEF Worths
    <3>3. DOMAIN Worths(rows[c]) = DOMAIN row
      BY <3>1 DEF Worths
    <3>4. row = [e \in DOMAIN row |-> row[e]]
      BY <2>2
    <3> QED
      BY Zenon, <2>4, <3>2, <3>3, <3>4 DEF Scaled
  <2>7. Counts(Worths(rows[c]))
    BY <2>5, WorthsCount
  <2>8. TotalScaled(row, Worths(rows[c]), Scale(now)) /\ Added(Worths(rows[c])) \in Nat
    BY Zenon, <1>7, <2>6, <2>7, AddedTimes
  <2>9. PICK q \in Nat : q = Added(Worths(rows[c])) /\ Added(row) = q * Scale(now)
    BY <2>8 DEF TotalScaled
  <2>10. totals[c] = Stamped(Added(row))
    BY <1>4, <2>1
  <2>11. totals[c] \in CountsUpTo(now) /\ Worth(totals[c]) = q
    BY <2>9, <2>10, StampedCounts
  <2> QED
    BY <2>5, <2>9, <2>11
<1>9. rows \in MapsOf(Contexts, RowsUpTo(now)) /\ totals \in MapsOf(Contexts, CountsUpTo(now))
  <2> HIDE DEF Stamped
  <2>1. DOMAIN rows = DOMAIN f.rows /\ DOMAIN totals = DOMAIN f.rows
    BY <1>4
  <2>2. rows = [c \in DOMAIN rows |-> rows[c]] /\ totals = [c \in DOMAIN totals |-> totals[c]]
    BY <1>4
  <2>3. rows \in [DOMAIN rows -> RowsUpTo(now)] /\ totals \in [DOMAIN totals -> CountsUpTo(now)]
    BY <1>8, <2>1, <2>2
  <2> QED
    BY Zenon, <1>2, <2>1, <2>3, InMaps
<1>10. n.rows = rows /\ n.totals = totals /\ n \in MarkovTypes(now) /\ DOMAIN rows = DOMAIN f.rows /\ DOMAIN totals = DOMAIN f.rows
  BY <1>1, <1>4, <1>5, <1>9 DEF MarkovTypes
<1>11. \A c \in DOMAIN n.rows : Balanced(n, c)
  BY Zenon, <1>8, <1>10 DEF Balanced
<1>12. \A c \in DOMAIN n.rows : InVocab(n, c)
  <2>1. \A c \in DOMAIN f.rows : DOMAIN rows[c] = DOMAIN f.rows[c]
    BY <1>4
  <2>2. n.vocab = f.vocab
    BY <1>5
  <2> QED
    BY <1>1, <1>10, <2>1, <2>2 DEF InVocab
<1>13. n \in MarkovsUpTo(now)
  BY Zenon, <1>10, <1>11, <1>12 DEF MarkovsUpTo
<1> QED
  BY <1>6, <1>13

-----------------------------------------------------------------------------
(* A session's predictor and its files. *)

\* The session's predictor, its file and the one it was trained with are of
\* counts that are multiples of their scale, and rows and totals of one worth.
AgedAlike ==
  /\ clock \in 0..LastTick
  /\ markov \in MarkovsUpTo(clock)
  /\ trained \in FilesAt(clock)
  /\ file # NeverSaved => file \in FilesAt(clock)
  /\ recent \in Seq(EventIds)

\* The last turns with one more.
LEMMA RecentTurns ==
  ASSUME NEW s \in Seq(EventIds), NEW e \in EventIds, NEW n \in Nat, n <= Len(s) + 1
  PROVE  /\ Suffix(Append(s, e), n) \in Seq(EventIds)
         /\ Len(Suffix(Append(s, e), n)) = n
         /\ n > 0 => Last(Suffix(Append(s, e), n)) = e
<1>1. PICK t, m : t = Append(s, e) /\ m = Len(t)
  OBVIOUS
<1>2. t \in Seq(EventIds) /\ m = Len(s) + 1 /\ m \in Nat /\ t[m] = e /\ m = Len(t)
  BY <1>1
<1>3. \E i \in 1..(m + 1) : i = m - n + 1
  <2>1. m - n + 1 \in 1..(m + 1)
    BY <1>2
  <2> QED
    BY Zenon, <2>1
<1>4. PICK i \in 1..(m + 1) : i = m - n + 1
  BY <1>3
<1>5. m - i + 1 = n
  BY <1>2, <1>4
<1>6. /\ SubSeq(t, i, m) \in Seq(EventIds)
      /\ Len(SubSeq(t, i, m)) = n
      /\ \A j \in 1..n : SubSeq(t, i, m)[j] = t[i + j - 1]
  BY <1>2, <1>4, <1>5
<1>7. n > 0 => SubSeq(t, i, m)[n] = e
  BY <1>2, <1>4, <1>6
<1>8. Suffix(t, n) = SubSeq(t, i, m)
  BY <1>2, <1>4 DEF Suffix
<1> QED
  BY <1>1, <1>6, <1>7, <1>8 DEF Last

\* Whatever ages, is saved, lost, loaded and observed, predictor and files stay
\* balanced.
LEMMA AgedAlikeAlways == PredictorSpec => []AgedAlike
<1>1. PredictorInit => AgedAlike
  <2> SUFFICES ASSUME PredictorInit PROVE AgedAlike
    OBVIOUS
  <2>1. 0 \in 0..LastTick
    BY MarkovAssumption
  <2>2. PICK lines \in TrainingSets : trained = Saved(TrainSequences(TranscriptSequences(lines, EventIds), 0), 0)
    BY DEF PredictorInit
  <2>3. trained \in FilesAt(0)
    BY Zenon, <2>1, <2>2, TranscribedEvents, Trained, SavedFiles
  <2>4. clock = 0 /\ markov = NewMarkov /\ file = NeverSaved /\ recent = <<>>
    BY DEF PredictorInit
  <2>5. NewMarkov \in MarkovsUpTo(0)
    BY <2>1, NothingLearned
  <2> QED
    BY <2>1, <2>3, <2>4, <2>5 DEF AgedAlike
<1>2. AgedAlike /\ [PredictorNext]_predictorVars => AgedAlike'
  <2> SUFFICES ASSUME AgedAlike, [PredictorNext]_predictorVars PROVE AgedAlike'
    OBVIOUS
  <2> USE DEF AgedAlike
  <2>0. clock \in 0..LastTick
    OBVIOUS
  <2>1. NewMarkov \in MarkovsUpTo(clock)
    BY <2>0, NothingLearned
  <2>2. CASE Tick
    <3>1. clock' \in 0..LastTick /\ clock \in 0..clock'
      BY <2>2, MarkovAssumption DEF Tick
    <3>2. MarkovsUpTo(clock) \subseteq MarkovsUpTo(clock') /\ FilesAt(clock) \subseteq FilesAt(clock')
      BY Zenon, <3>1, MarkovsKeep, FilesKeep
    <3>3. markov' = markov /\ trained' = trained /\ file' = file /\ recent' = recent
      BY <2>2 DEF Tick
    <3> QED
      BY <3>1, <3>2, <3>3
  <2>3. CASE Return
    <3>1. clock' = clock /\ trained' = trained /\ file' = file /\ recent' = recent
      BY <2>3 DEF Return
    <3>2. PICK f : f = IF file # NeverSaved THEN file ELSE trained
      OBVIOUS
    <3>3. f \in FilesAt(clock)
      BY <3>2
    <3>4. Loaded(f, clock) \in MarkovsUpTo(clock)
      BY <2>0, <3>3, LoadedBalances
    <3>5. markov' = IF HasMarkov THEN Loaded(f, clock) ELSE NewMarkov
      BY <2>3, <3>2 DEF Return
    <3> QED
      BY <2>1, <3>1, <3>4, <3>5
  <2>4. ASSUME NEW e \in EventIds, Turn(e)
        PROVE  AgedAlike'
    <3>1. clock' = clock /\ trained' = trained /\ file' = file
      BY <2>4 DEF Turn
    <3>2. PICK n : n = IF Len(recent) < ContextTurns THEN Len(recent) + 1 ELSE ContextTurns
      OBVIOUS
    <3>3. n \in Nat /\ n <= Len(recent) + 1
      BY <3>2 DEF ContextTurns
    <3>4. recent' \in Seq(EventIds)
      <4>1. recent' = Suffix(Append(recent, e), n)
        BY <2>4, <3>2 DEF Turn
      <4> QED
        BY <3>3, <4>1, RecentTurns
    <3>5. markov' \in MarkovsUpTo(clock)
      <4>1. CASE recent = <<>>
        BY <2>4, <4>1 DEF Turn
      <4>2. CASE recent # <<>>
        <5>1. Last(recent) \in EventIds
          BY <4>2 DEF Last
        <5>2. <<Last(recent)>> \in Seq(EventIds)
          BY <5>1
        <5>3. Observe(markov, Last(recent), e, clock) \in MarkovsUpTo(clock)
          BY <2>0, <5>2, Recorded DEF Observe
        <5>4. markov' = IF HasMarkov THEN Observe(markov, Last(recent), e, clock) ELSE markov
          BY <2>4, <4>2 DEF Turn
        <5> QED
          BY <5>3, <5>4
      <4> QED
        BY <4>1, <4>2
    <3> QED
      BY <3>1, <3>4, <3>5
  <2>5. ASSUME NEW kept \in BOOLEAN, End(kept)
        PROVE  AgedAlike'
    <3>1. clock' = clock /\ trained' = trained /\ recent' = <<>> /\ markov' = NewMarkov
      BY <2>5 DEF End
    <3>2. file' = IF kept /\ HasMarkov THEN Saved(markov, clock) ELSE file
      BY <2>5 DEF End
    <3>3. Saved(markov, clock) \in FilesAt(clock)
      BY <2>0, SavedFiles
    <3> QED
      BY <2>1, <3>1, <3>2, <3>3
  <2>6. CASE UNCHANGED predictorVars
    BY <2>6 DEF predictorVars
  <2> QED
    BY <2>2, <2>3, <2>4, <2>5, <2>6 DEF PredictorNext
<1> QED
  BY <1>1, <1>2, PTL DEF PredictorSpec

\* A context's total is what its row adds up to, now and at any later time.
AddsUp(m, c, later) ==
  Current(m.totals[c], later) = Added([e \in DOMAIN m.rows[c] |-> Current(m.rows[c][e], later)])

\* Of the same worth, a row and its total are of the same weight at any time.
LEMMA BalancedAdds ==
  ASSUME NEW now \in 0..LastTick, NEW m \in MarkovsUpTo(now), NEW c \in DOMAIN m.rows,
         NEW later \in now..LastTick
  PROVE  AddsUp(m, c, later)
<1>1. /\ m.rows[c] \in RowsUpTo(now) /\ m.totals[c] \in CountsUpTo(now) /\ Balanced(m, c)
      /\ \A e \in DOMAIN m.rows[c] : m.rows[c][e] \in CountsUpTo(now)
  BY MarkovParts
<1>2. PICK row, aged : /\ row = m.rows[c]
                       /\ aged = [e \in DOMAIN row |-> Current(row[e], later)]
  OBVIOUS
<1>3. later \in 0..LastTick
  BY MarkovAssumption
<1>4. Scale(later) \in Nat
  BY <1>3, Scales
<1>5. \A e \in DOMAIN row : aged[e] = Worths(row)[e] * Scale(later)
  BY <1>1, <1>2, Ages DEF Worths
<1>6. Counts(Worths(row)) /\ DOMAIN Worths(row) = DOMAIN row
  BY <1>1, <1>2, WorthsCount
<1>7. Scaled(aged, Worths(row), Scale(later))
  <2>1. DOMAIN aged = DOMAIN row /\ aged = [e \in DOMAIN aged |-> aged[e]]
    BY <1>2
  <2> QED
    BY Zenon, <1>5, <1>6, <2>1 DEF Scaled
<1>8. TotalScaled(aged, Worths(row), Scale(later))
  BY Zenon, <1>4, <1>6, <1>7, AddedTimes
<1>9. Current(m.totals[c], later) = Worth(m.totals[c]) * Scale(later)
  BY <1>1, Ages
<1> QED
  BY Zenon, <1>1, <1>2, <1>8, <1>9 DEF TotalScaled, Balanced, AddsUp

\* However the two were observed, aged and reloaded (WeightedCount::observe,
\* load_from_file), a context's total is what its row adds up to, now and at
\* any later time, for any number of half-lives.
THEOREM RowsAlwaysAddUp == PredictorSpec => []RowsAddUp
<1>1. AgedAlike => RowsAddUp
  <2> SUFFICES ASSUME AgedAlike PROVE RowsAddUp
    OBVIOUS
  <2>1. clock \in 0..LastTick /\ markov \in MarkovsUpTo(clock)
    BY DEF AgedAlike
  <2>2. DOMAIN markov.rows = DOMAIN markov.totals
    BY <2>1, MarkovParts
  <2> QED
    BY Zenon, <2>1, <2>2, BalancedAdds DEF RowsAddUp, AddsUp
<1> QED
  BY <1>1, AgedAlikeAlways, PTL

-----------------------------------------------------------------------------
(* Restarts. *)

\* Two predictors that weigh everything alike at the times they are asked.
WeighAlike(m, t, n, u) ==
  /\ n.vocab = m.vocab
  /\ DOMAIN n.rows = DOMAIN m.rows
  /\ DOMAIN m.totals = DOMAIN m.rows /\ DOMAIN n.totals = DOMAIN m.rows
  /\ \A c \in DOMAIN m.rows :
       /\ Current(n.totals[c], u) = Current(m.totals[c], t)
       /\ DOMAIN n.rows[c] = DOMAIN m.rows[c]
       /\ \A e \in DOMAIN m.rows[c] : Current(n.rows[c][e], u) = Current(m.rows[c][e], t)

\* No observations weigh nothing.
LEMMA ZeroIsNothing ==
  ASSUME NEW t \in 0..LastTick
  PROVE  Current(Zero(t), t) = 0
<1>1. t \in t..LastTick
  BY MarkovAssumption
<1>2. Zero(t) \in CountsUpTo(t) /\ Worth(Zero(t)) = 0
  BY ZeroCounts
<1>3. Current(Zero(t), t) = Worth(Zero(t)) * Scale(t)
  BY <1>1, <1>2, Ages
<1>4. Scale(t) \in Nat
  BY Scales
<1> QED
  BY <1>2, <1>3, <1>4

\* Stamped now, a weight is itself now.
LEMMA StampedIsItself ==
  ASSUME NEW t \in 0..LastTick, NEW w \in Nat
  PROVE  Current([weight |-> w, last |-> t], t) = w
<1>1. t - t = 0 /\ Pow2[0] = 1
  BY Pow2Unrolls
<1> QED
  BY <1>1 DEF Current

\* What was saved and is loaded later weighs then what it weighed when saved.
LEMMA ReloadedWeighsAlike ==
  ASSUME NEW t \in 0..LastTick, NEW m \in MarkovsUpTo(t), NEW u \in t..LastTick
  PROVE  WeighAlike(m, t, Loaded(Saved(m, t), u), u)
<1> DEFINE Stamped(w) == [weight |-> w, last |-> u]
<1>1. u \in 0..LastTick /\ t \in 0..u /\ t \in t..LastTick
  BY MarkovAssumption
<1>2. PICK f : f = Saved(m, t)
  OBVIOUS
<1>3. PICK n : n = Loaded(f, u)
  OBVIOUS
<1>4. /\ f.vocab = m.vocab
      /\ f.rows = [c \in DOMAIN m.rows |-> [e \in DOMAIN m.rows[c] |-> Current(m.rows[c][e], t)]]
  BY <1>2 DEF Saved
<1>5. {c \in DOMAIN f.rows : Len(c) \in 1..MaxOrder} = DOMAIN m.rows
  <2>1. \A c \in DOMAIN m.rows : Len(c) \in 1..MaxOrder
    BY MarkovParts, ContextLengths
  <2> QED
    BY <1>4, <2>1
<1>6. /\ n.vocab = f.vocab
      /\ n.rows = [c \in DOMAIN m.rows |-> [e \in DOMAIN f.rows[c] |-> Stamped(f.rows[c][e])]]
      /\ n.totals = [c \in DOMAIN m.rows |-> Stamped(Added(f.rows[c]))]
  BY <1>3, <1>5 DEF Loaded
<1>7. ASSUME NEW c \in DOMAIN m.rows
      PROVE  /\ Current(n.totals[c], u) = Current(m.totals[c], t)
             /\ DOMAIN n.rows[c] = DOMAIN m.rows[c]
             /\ \A e \in DOMAIN m.rows[c] : Current(n.rows[c][e], u) = Current(m.rows[c][e], t)
  <2>1. f.rows[c] = [e \in DOMAIN m.rows[c] |-> Current(m.rows[c][e], t)]
    BY <1>4
  <2>2. \A e \in DOMAIN m.rows[c] : Current(m.rows[c][e], t) \in Nat
    BY <1>1, MarkovParts, Ages
  <2>3. Current(m.totals[c], t) \in Nat
    BY <1>1, MarkovParts, Ages
  <2>4. Current(m.totals[c], t) = Added(f.rows[c])
    <3>1. AddsUp(m, c, t)
      BY Zenon, <1>1, BalancedAdds
    <3> QED
      BY Zenon, <2>1, <3>1 DEF AddsUp
  <2>5. n.totals[c] = Stamped(Added(f.rows[c]))
    BY <1>6
  <2>6. Current(n.totals[c], u) = Added(f.rows[c])
    BY Zenon, <1>1, <2>3, <2>4, <2>5, StampedIsItself
  <2>7. n.rows[c] = [e \in DOMAIN m.rows[c] |-> Stamped(Current(m.rows[c][e], t))]
    BY <1>6, <2>1
  <2>8. \A e \in DOMAIN m.rows[c] : Current(n.rows[c][e], u) = Current(m.rows[c][e], t)
    BY Zenon, <1>1, <2>2, <2>7, StampedIsItself
  <2> QED
    BY <2>4, <2>6, <2>7, <2>8
<1>8. DOMAIN n.rows = DOMAIN m.rows /\ DOMAIN n.totals = DOMAIN m.rows /\ DOMAIN m.totals = DOMAIN m.rows
  BY <1>6, MarkovParts
<1>9. WeighAlike(m, t, n, u)
  BY Zenon, <1>4, <1>6, <1>7, <1>8 DEF WeighAlike
<1> QED
  BY Zenon, <1>2, <1>3, <1>9

AskedAlike(m, t, n, u, c) ==
  /\ Current(At(n.totals, c, Zero(u)), u) = Current(At(m.totals, c, Zero(t)), t)
  /\ \A e : Current(At(At(n.rows, c, <<>>), e, Zero(u)), u)
              = Current(At(At(m.rows, c, <<>>), e, Zero(t)), t)

\* They also answer alike for what they have not counted.
LEMMA WeighedAlike ==
  ASSUME NEW t \in 0..LastTick, NEW u \in 0..LastTick, NEW m, NEW n, WeighAlike(m, t, n, u), NEW c
  PROVE  AskedAlike(m, t, n, u, c)
<1> USE DEF AskedAlike
<1>1. CASE c \in DOMAIN m.rows
  <2>1. /\ At(n.totals, c, Zero(u)) = n.totals[c] /\ At(m.totals, c, Zero(t)) = m.totals[c]
        /\ At(n.rows, c, <<>>) = n.rows[c] /\ At(m.rows, c, <<>>) = m.rows[c]
    BY Zenon, <1>1 DEF At, WeighAlike
  <2>2. \A e : Current(At(n.rows[c], e, Zero(u)), u) = Current(At(m.rows[c], e, Zero(t)), t)
    <3> TAKE e
    <3>1. CASE e \in DOMAIN m.rows[c]
      BY Zenon, <1>1, <3>1 DEF At, WeighAlike
    <3>2. CASE e \notin DOMAIN m.rows[c]
      <4>1. At(n.rows[c], e, Zero(u)) = Zero(u) /\ At(m.rows[c], e, Zero(t)) = Zero(t)
        BY Zenon, <1>1, <3>2 DEF At, WeighAlike
      <4> QED
        BY Zenon, <4>1, ZeroIsNothing
    <3> QED
      BY <3>1, <3>2
  <2> QED
    BY Zenon, <1>1, <2>1, <2>2 DEF WeighAlike
<1>2. CASE c \notin DOMAIN m.rows
  <2>1. /\ At(n.totals, c, Zero(u)) = Zero(u) /\ At(m.totals, c, Zero(t)) = Zero(t)
        /\ At(n.rows, c, <<>>) = <<>> /\ At(m.rows, c, <<>>) = <<>>
    BY Zenon, <1>2 DEF At, WeighAlike
  <2>2. \A e : At(<<>>, e, Zero(u)) = Zero(u) /\ At(<<>>, e, Zero(t)) = Zero(t)
    <3>1. DOMAIN <<>> = {}
      BY EmptyMap
    <3> QED
      BY <3>1 DEF At
  <2> QED
    BY Zenon, <2>1, <2>2, ZeroIsNothing
<1> QED
  BY <1>1, <1>2

\* A trusted context has a row.
LEMMA TrustedIsCounted ==
  ASSUME NEW t \in 0..LastTick, NEW m, DOMAIN m.totals = DOMAIN m.rows, NEW c, TrustedOrders(m, c, t) # {}
  PROVE  Suffix(c, Max(TrustedOrders(m, c, t))) \in DOMAIN m.rows
<1>1. PICK trusted : trusted = TrustedOrders(m, c, t)
  OBVIOUS
<1>2. PICK key : key = Suffix(c, Max(trusted))
  OBVIOUS
<1>3. Max(trusted) \in trusted
  <2>1. PICK j \in Nat : j = MaxOrder
    BY MarkovAssumption
  <2>2. trusted \in SUBSET (0..j)
    BY <1>1, <2>1 DEF TrustedOrders
  <2>3. trusted # {}
    BY Zenon, <1>1
  <2> QED
    BY Zenon, <2>2, <2>3, MaxIsGreatest
<1>4. Current(At(m.totals, key, Zero(t)), t) >= MinContextObservations
  BY Zenon, <1>1, <1>2, <1>3 DEF TrustedOrders
<1>5. MinContextObservations \in Nat /\ MinContextObservations > 0
  BY Scales DEF MinContextObservations
<1>6. ~(0 >= MinContextObservations)
  BY <1>5
<1>7. key \in DOMAIN m.rows
  BY Zenon, <1>4, <1>6, ZeroIsNothing DEF At
<1> QED
  BY Zenon, <1>1, <1>2, <1>7

PredictAlike(m, t, n, u, c, k) == Predict(n, c, k, u) = Predict(m, c, k, t)

\* Such predictors give the same predictions.
LEMMA SamePredictions ==
  ASSUME NEW t \in 0..LastTick, NEW u \in 0..LastTick, NEW m, NEW n, WeighAlike(m, t, n, u),
         NEW c \in Seq(EventIds), NEW k
  PROVE  PredictAlike(m, t, n, u, c, k)
<1>0. \A key : AskedAlike(m, t, n, u, key)
  BY Zenon, WeighedAlike
<1>1. TrustedOrders(n, c, u) = TrustedOrders(m, c, t)
  <2>1. \A i \in 1..MaxOrder :
          (i <= Len(c) /\ Current(At(n.totals, Suffix(c, i), Zero(u)), u) >= MinContextObservations)
          <=> (i <= Len(c) /\ Current(At(m.totals, Suffix(c, i), Zero(t)), t) >= MinContextObservations)
    BY Zenon, <1>0 DEF AskedAlike
  <2> QED
    BY Zenon, <2>1 DEF TrustedOrders
<1>2. n.vocab = m.vocab
  BY DEF WeighAlike
<1>3. PICK trusted : trusted = TrustedOrders(m, c, t)
  OBVIOUS
<1>4. CASE trusted = {}
  BY Zenon, <1>1, <1>2, <1>3, <1>4 DEF PredictAlike, Predict, Uniform
<1>5. CASE trusted # {}
  <2>1. PICK key : key = Suffix(c, Max(trusted))
    OBVIOUS
  <2>2. key \in DOMAIN m.rows
    BY Zenon, <1>3, <1>5, <2>1, TrustedIsCounted DEF WeighAlike
  <2>3. Current(n.totals[key], u) = Current(m.totals[key], t)
    BY Zenon, <2>2 DEF WeighAlike
  <2>4. PICK a, b : /\ a = [e \in m.vocab |-> Current(At(At(m.rows, key, <<>>), e, Zero(t)), t) + Smoothing]
                    /\ b = [e \in m.vocab |-> Current(At(At(n.rows, key, <<>>), e, Zero(u)), u) + Smoothing]
    OBVIOUS
  <2>5. a = b
    <3>1. \A e \in m.vocab : Current(At(At(n.rows, key, <<>>), e, Zero(u)), u) + Smoothing
                              = Current(At(At(m.rows, key, <<>>), e, Zero(t)), t) + Smoothing
      BY Zenon, <1>0 DEF AskedAlike
    <3> QED
      BY Zenon, <2>4, <3>1
  <2>6. Score(n, key, k, u) = Score(m, key, k, t)
    BY Zenon, <1>2, <2>3, <2>4, <2>5 DEF Score
  <2> QED
    BY Zenon, <1>1, <1>3, <1>5, <2>1, <2>6 DEF PredictAlike, Predict
<1> QED
  BY <1>4, <1>5

\* A reset that saves and a return that loads, whenever that is, change no
\* prediction (save_to_file, load_from_file), for any contexts and counts.
THEOREM RestartsStayInvisible == PredictorSpec => []RestartInvisible
<1>1. AgedAlike => RestartInvisible
  <2> SUFFICES ASSUME AgedAlike PROVE RestartInvisible
    OBVIOUS
  <2>1. clock \in 0..LastTick /\ markov \in MarkovsUpTo(clock)
    BY DEF AgedAlike
  <2> SUFFICES ASSUME NEW c \in Contexts, NEW k \in TopNs, NEW later \in clock..LastTick
               PROVE  Predict(Loaded(Saved(markov, clock), later), c, k, later) = Predict(markov, c, k, clock)
    BY DEF RestartInvisible
  <2>2. later \in 0..LastTick /\ clock \in clock..LastTick
    BY <2>1, MarkovAssumption
  <2>3. WeighAlike(markov, clock, Loaded(Saved(markov, clock), later), later)
    BY Zenon, <2>1, ReloadedWeighsAlike
  <2>4. c \in Seq(EventIds)
    BY ContextLengths
  <2> QED
    <3>1. PICK n, m : n = Loaded(Saved(markov, clock), later) /\ m = markov
      OBVIOUS
    <3>2. WeighAlike(m, clock, n, later)
      BY Zenon, <2>3, <3>1
    <3>3. PredictAlike(m, clock, n, later, c, k)
      BY Zenon, <2>1, <2>2, <2>4, <3>2, SamePredictions
    <3> QED
      BY Zenon, <3>1, <3>3 DEF PredictAlike
<1> QED
  BY <1>1, AgedAlikeAlways, PTL

-----------------------------------------------------------------------------
(* The successor representation. *)

SrTypes ==
  [stored : MapsOf(EventIds, SUBSET EventIds), positive : MapsOf(EventIds, SUBSET EventIds), t : Nat]

\* Every event known has its own cell, and that cell is positive.
SelfVisits(s) ==
  /\ s \in SrTypes
  /\ DOMAIN s.positive = DOMAIN s.stored
  /\ \A e \in DOMAIN s.stored : e \in s.stored[e] /\ e \in s.positive[e]

\* After some events have been made known.
MadeKnown(n, s, known) ==
  /\ SelfVisits(n)
  /\ n.t = s.t
  /\ DOMAIN n.stored = DOMAIN s.stored \cup known
  /\ \A x \in DOMAIN n.stored :
       n.positive[x] = IF x \in DOMAIN s.stored THEN s.positive[x] ELSE {x}

\* The parts of a successor representation have their types.
LEMMA SrParts ==
  ASSUME NEW s, SelfVisits(s)
  PROVE  /\ DOMAIN s.stored \subseteq EventIds
         /\ \A e \in DOMAIN s.stored : s.stored[e] \in SUBSET EventIds /\ s.positive[e] \in SUBSET EventIds
         /\ s.t \in Nat
         /\ s = [stored |-> s.stored, positive |-> s.positive, t |-> s.t]
         /\ s.stored \in MapsOf(EventIds, SUBSET EventIds) /\ s.positive \in MapsOf(EventIds, SUBSET EventIds)
<1>1. /\ s.stored \in MapsOf(EventIds, SUBSET EventIds) /\ s.positive \in MapsOf(EventIds, SUBSET EventIds)
      /\ s.t \in Nat /\ s = [stored |-> s.stored, positive |-> s.positive, t |-> s.t]
      /\ DOMAIN s.positive = DOMAIN s.stored
  BY DEF SelfVisits, SrTypes
<1> QED
  BY <1>1, InMaps

\* ensure_self_visit makes an event known and changes no other.
LEMMA Visited ==
  ASSUME NEW s, SelfVisits(s), NEW e \in EventIds
  PROVE  MadeKnown(EnsureSelfVisit(s, e), s, {e})
<1>1. PICK cells, positive :
        /\ cells = At(s.stored, e, {}) \cup {e}
        /\ positive = IF e \in At(s.stored, e, {}) THEN s.positive[e] ELSE {e}
  OBVIOUS
<1>2. PICK n : n = EnsureSelfVisit(s, e)
  OBVIOUS
<1>3. s = [stored |-> s.stored, positive |-> s.positive, t |-> s.t]
  BY SrParts
<1>4. n = [stored |-> Put(s.stored, e, cells), positive |-> Put(s.positive, e, positive), t |-> s.t]
  <2>1. n = [s EXCEPT !.stored = Put(s.stored, e, cells), !.positive = Put(s.positive, e, positive)]
    BY Zenon, <1>1, <1>2 DEF EnsureSelfVisit
  <2>2. PICK a, b : a = Put(s.stored, e, cells) /\ b = Put(s.positive, e, positive)
    OBVIOUS
  <2>3. n = [s EXCEPT !.stored = a, !.positive = b]
    BY Zenon, <2>1, <2>2
  <2>4. n = [stored |-> a, positive |-> b, t |-> s.t]
    BY <1>3, <2>3
  <2> QED
    BY Zenon, <2>2, <2>4
<1>5. /\ cells \in SUBSET EventIds /\ e \in cells
      /\ positive = IF e \in DOMAIN s.stored THEN s.positive[e] ELSE {e}
      /\ positive \in SUBSET EventIds /\ e \in positive
  <2>1. CASE e \in DOMAIN s.stored
    BY <1>1, <2>1, SrParts DEF At, SelfVisits
  <2>2. CASE e \notin DOMAIN s.stored
    BY <1>1, <2>2 DEF At
  <2> QED
    BY <2>1, <2>2
<1>6. n.stored \in MapsOf(EventIds, SUBSET EventIds) /\ IsPut(n.stored, s.stored, e, cells)
  <2>1. PICK old, new : old = s.stored /\ new = Put(old, e, cells) /\ n.stored = new
    BY <1>4
  <2>2. old \in MapsOf(EventIds, SUBSET EventIds)
    BY <2>1, SrParts
  <2>3. cells \in SUBSET EventIds
    BY <1>5
  <2>4. /\ Put(old, e, cells) \in MapsOf(EventIds, SUBSET EventIds)
        /\ IsPut(Put(old, e, cells), old, e, cells)
    BY Zenon, <2>2, <2>3, PutInMaps
  <2> QED
    BY Zenon, <2>1, <2>4
<1>7. n.positive \in MapsOf(EventIds, SUBSET EventIds) /\ IsPut(n.positive, s.positive, e, positive)
  <2>1. PICK old, new : old = s.positive /\ new = Put(old, e, positive) /\ n.positive = new
    BY <1>4
  <2>2. old \in MapsOf(EventIds, SUBSET EventIds)
    BY <2>1, SrParts
  <2>3. positive \in SUBSET EventIds
    BY <1>5
  <2>4. /\ Put(old, e, positive) \in MapsOf(EventIds, SUBSET EventIds)
        /\ IsPut(Put(old, e, positive), old, e, positive)
    BY Zenon, <2>2, <2>3, PutInMaps
  <2> QED
    BY Zenon, <2>1, <2>4
<1>8. n.t = s.t /\ n \in SrTypes
  BY <1>4, <1>6, <1>7, SrParts DEF SrTypes
<1>9. SelfVisits(n)
  BY <1>5, <1>6, <1>7, <1>8 DEF SelfVisits, IsPut
<1>10. MadeKnown(n, s, {e})
  <2>1. DOMAIN n.stored = DOMAIN s.stored \cup {e}
    BY <1>6 DEF IsPut
  <2>2. ASSUME NEW x \in DOMAIN n.stored
        PROVE  n.positive[x] = IF x \in DOMAIN s.stored THEN s.positive[x] ELSE {x}
    BY <1>5, <1>7, <2>1, <2>2 DEF IsPut, SelfVisits
  <2> QED
    BY <1>8, <1>9, <2>1, <2>2 DEF MadeKnown
<1> QED
  BY Zenon, <1>2, <1>10

\* What one observation does.
Learned(n, s, prev, next) ==
  /\ SelfVisits(n)
  /\ n.t = s.t + 1
  /\ DOMAIN n.stored = DOMAIN s.stored \cup {prev, next}
  /\ \A x \in DOMAIN n.stored :
       LET known(e) == IF e \in DOMAIN s.stored THEN s.positive[e] ELSE {e}
       IN  n.positive[x] = IF x = prev THEN known(prev) \cup known(next) ELSE known(x)

\* What one observation changes: the row of the event before gains the positive
\* cells of the next one.
LEMMA SrLearns ==
  ASSUME NEW s, SelfVisits(s), NEW prev \in EventIds, NEW next \in EventIds
  PROVE  Learned(SrObserve(s, prev, next), s, prev, next)
<1>1. PICK one, seen : one = EnsureSelfVisit(s, prev) /\ seen = EnsureSelfVisit(one, next)
  OBVIOUS
<1>2. MadeKnown(one, s, {prev})
  BY Zenon, <1>1, Visited
<1>3. MadeKnown(seen, one, {next})
  <2>1. SelfVisits(one)
    BY Zenon, <1>2 DEF MadeKnown
  <2>2. MadeKnown(EnsureSelfVisit(one, next), one, {next})
    BY Zenon, <2>1, Visited
  <2> QED
    BY Zenon, <1>1, <2>2
<1>4. /\ SelfVisits(seen) /\ seen.t = s.t
      /\ DOMAIN seen.stored = DOMAIN s.stored \cup {prev, next}
  BY <1>2, <1>3 DEF MadeKnown
<1>5. \A x \in DOMAIN seen.stored :
        seen.positive[x] = IF x \in DOMAIN s.stored THEN s.positive[x] ELSE {x}
  <2>1. ASSUME NEW x \in DOMAIN seen.stored
        PROVE  seen.positive[x] = IF x \in DOMAIN s.stored THEN s.positive[x] ELSE {x}
    <3>1. x \in DOMAIN one.stored => one.positive[x] = IF x \in DOMAIN s.stored THEN s.positive[x] ELSE {x}
      BY <1>2 DEF MadeKnown
    <3>2. seen.positive[x] = IF x \in DOMAIN one.stored THEN one.positive[x] ELSE {x}
      BY <1>3 DEF MadeKnown
    <3>3. DOMAIN s.stored \subseteq DOMAIN one.stored
      BY <1>2 DEF MadeKnown
    <3> QED
      BY <3>1, <3>2, <3>3
  <2> QED
    BY <2>1
<1>6. PICK cells, positive : cells = DOMAIN seen.stored /\ positive = seen.positive[prev] \cup {prev} \cup seen.positive[next]
  OBVIOUS
<1>7. PICK n : n = SrObserve(s, prev, next)
  OBVIOUS
<1>8. n = [stored   |-> [seen.stored EXCEPT ![prev] = cells],
           positive |-> [seen.positive EXCEPT ![prev] = positive],
           t        |-> seen.t + 1]
  <2>1. n = [seen EXCEPT !.stored[prev] = cells, !.positive[prev] = positive, !.t = seen.t + 1]
    BY Zenon, <1>1, <1>6, <1>7 DEF SrObserve, SrVocab
  <2>2. seen = [stored |-> seen.stored, positive |-> seen.positive, t |-> seen.t]
    BY <1>4, SrParts
  <2> QED
    BY <2>1, <2>2
<1>9. /\ seen.stored \in [DOMAIN seen.stored -> SUBSET EventIds]
      /\ seen.positive \in [DOMAIN seen.stored -> SUBSET EventIds]
      /\ DOMAIN seen.stored \subseteq EventIds /\ seen.t \in Nat
      /\ prev \in DOMAIN seen.stored /\ next \in DOMAIN seen.stored
  <2>1. DOMAIN seen.positive = DOMAIN seen.stored
    BY <1>4 DEF SelfVisits
  <2>2. /\ seen.stored \in MapsOf(EventIds, SUBSET EventIds) /\ seen.positive \in MapsOf(EventIds, SUBSET EventIds)
        /\ DOMAIN seen.stored \subseteq EventIds /\ seen.t \in Nat
    BY <1>4, SrParts
  <2>3. seen.stored \in [DOMAIN seen.stored -> SUBSET EventIds] /\ seen.positive \in [DOMAIN seen.positive -> SUBSET EventIds]
    BY Zenon, <2>2, InMaps
  <2> QED
    BY <1>4, <2>1, <2>2, <2>3
<1>10. cells \in SUBSET EventIds /\ positive \in SUBSET EventIds
  BY <1>6, <1>9
<1>11. /\ DOMAIN n.stored = DOMAIN seen.stored /\ DOMAIN n.positive = DOMAIN seen.stored
       /\ n.stored \in [DOMAIN n.stored -> SUBSET EventIds] /\ n.positive \in [DOMAIN n.positive -> SUBSET EventIds]
       /\ n.t = seen.t + 1
  BY <1>8, <1>9, <1>10
<1>12. n \in SrTypes
  <2>1. n.stored \in MapsOf(EventIds, SUBSET EventIds) /\ n.positive \in MapsOf(EventIds, SUBSET EventIds)
    BY <1>9, <1>11, InMaps
  <2> QED
    BY <1>8, <1>9, <1>11, <2>1 DEF SrTypes
<1>13. \A x \in DOMAIN seen.stored :
         /\ n.stored[x] = IF x = prev THEN cells ELSE seen.stored[x]
         /\ n.positive[x] = IF x = prev THEN positive ELSE seen.positive[x]
  BY <1>8, <1>9
<1>14. \A x \in DOMAIN seen.stored : x \in seen.stored[x] /\ x \in seen.positive[x]
  BY <1>4 DEF SelfVisits
<1>15. SelfVisits(n)
  BY <1>6, <1>9, <1>11, <1>12, <1>13, <1>14 DEF SelfVisits
<1>16. positive = seen.positive[prev] \cup seen.positive[next]
  BY <1>6, <1>9, <1>14
<1>17. Learned(n, s, prev, next)
  BY <1>4, <1>5, <1>9, <1>11, <1>13, <1>15, <1>16 DEF Learned
<1> QED
  BY Zenon, <1>7, <1>17

-----------------------------------------------------------------------------
(* What the successor representation expects. *)

\* The steps of a set of transitions, and what they lead to.
FollowsBy(P, S) == {t \in EventIds : \E s \in S : <<s, t>> \in P}

ReachedBy(P, s) ==
  {t \in EventIds : \A S \in SUBSET EventIds : s \in S /\ FollowsBy(P, S) \subseteq S => t \in S}

Ends(P) == UNION {{p[1], p[2]} : p \in P}

Foresees(s, P) ==
  /\ P \subseteq EventIds \X EventIds
  /\ SelfVisits(s)
  /\ DOMAIN s.stored = Ends(P)
  /\ \A e \in Ends(P) : FollowsBy(P, {e}) \subseteq s.positive[e] /\ s.positive[e] \subseteq ReachedBy(P, e)

\* More transitions lead to no less.
LEMMA MoreReached ==
  ASSUME NEW P, NEW Q, P \subseteq Q, NEW s
  PROVE  ReachedBy(P, s) \subseteq ReachedBy(Q, s)
<1>1. \A S : FollowsBy(P, S) \subseteq FollowsBy(Q, S)
  BY DEF FollowsBy
<1> QED
  BY <1>1 DEF ReachedBy

\* What an event leads to includes what its followers lead to.
LEMMA ReachedOn ==
  ASSUME NEW P, NEW s \in EventIds, NEW t \in EventIds, <<s, t>> \in P
  PROVE  /\ ReachedBy(P, t) \subseteq ReachedBy(P, s)
         /\ s \in ReachedBy(P, s) /\ t \in ReachedBy(P, t)
<1>1. \A S \in SUBSET EventIds : s \in S /\ FollowsBy(P, S) \subseteq S => t \in S
  BY DEF FollowsBy
<1> QED
  BY <1>1 DEF ReachedBy

\* An observation teaches one transition.
LEMMA ForeseesMore ==
  ASSUME NEW s, NEW P, Foresees(s, P), NEW prev \in EventIds, NEW next \in EventIds
  PROVE  Foresees(SrObserve(s, prev, next), P \cup {<<prev, next>>})
<1>1. PICK n, Q : n = SrObserve(s, prev, next) /\ Q = P \cup {<<prev, next>>}
  OBVIOUS
<1>2. Learned(n, s, prev, next)
  BY Zenon, <1>1, SrLearns DEF Foresees
<1> DEFINE known(e) == IF e \in DOMAIN s.stored THEN s.positive[e] ELSE {e}
<1>3. /\ SelfVisits(n)
      /\ DOMAIN n.stored = DOMAIN s.stored \cup {prev, next}
      /\ \A x \in DOMAIN n.stored :
           n.positive[x] = IF x = prev THEN known(prev) \cup known(next) ELSE known(x)
  BY <1>2 DEF Learned
<1>4. Q \subseteq EventIds \X EventIds /\ P \subseteq Q /\ <<prev, next>> \in Q
  BY <1>1 DEF Foresees
<1>5. Ends(Q) = Ends(P) \cup {prev, next}
  <2>1. \A R, x : x \in Ends(R) <=> \E p \in R : x = p[1] \/ x = p[2]
    BY DEF Ends
  <2> PICK a : a = <<prev, next>>
    OBVIOUS
  <2>2. a[1] = prev /\ a[2] = next
    OBVIOUS
  <2>3. a \in Q /\ P \subseteq Q /\ \A p \in Q : p \in P \/ p = a
    BY <1>1, <2>2
  <2> HIDE DEF Ends
  <2>4. \A x : x \in Ends(Q) <=> x \in Ends(P) \/ x = prev \/ x = next
    <3> TAKE x
    <3>1. x \in Ends(Q) => x \in Ends(P) \/ x = prev \/ x = next
      BY <2>1, <2>2, <2>3
    <3>2. x \in Ends(P) => x \in Ends(Q)
      BY <2>1, <2>3
    <3>3. prev \in Ends(Q) /\ next \in Ends(Q)
      BY <2>1, <2>2, <2>3
    <3> QED
      BY <3>1, <3>2, <3>3
  <2> QED
    BY <2>4
<1>6. DOMAIN s.stored = Ends(P)
  BY DEF Foresees
<1>7. Ends(Q) \subseteq EventIds
  BY <1>4 DEF Ends
<1>8. \A e \in EventIds : e \in ReachedBy(Q, e)
  BY DEF ReachedBy
<1>9. \A e \in Ends(Q) : known(e) \subseteq ReachedBy(Q, e)
  <2> TAKE e \in Ends(Q)
  <2>1. CASE e \in Ends(P)
    <3>1. s.positive[e] \subseteq ReachedBy(P, e)
      BY <2>1 DEF Foresees
    <3>2. ReachedBy(P, e) \subseteq ReachedBy(Q, e)
      BY <1>4, MoreReached
    <3> QED
      BY <1>6, <2>1, <3>1, <3>2
  <2>2. CASE e \notin Ends(P)
    BY <1>6, <1>7, <1>8, <2>2
  <2> QED
    BY <2>1, <2>2
<1>10. \A e \in Ends(Q) : e \in known(e) /\ FollowsBy(P, {e}) \subseteq known(e)
  <2> TAKE e \in Ends(Q)
  <2>1. CASE e \in Ends(P)
    BY <1>6, <2>1 DEF Foresees, SelfVisits
  <2>2. CASE e \notin Ends(P)
    <3>1. FollowsBy(P, {e}) = {}
      BY <2>2 DEF FollowsBy, Ends
    <3> QED
      BY <1>6, <2>2, <3>1
  <2> QED
    BY <2>1, <2>2
<1> HIDE DEF known
<1>11. ASSUME NEW e \in Ends(Q)
       PROVE  FollowsBy(Q, {e}) \subseteq n.positive[e] /\ n.positive[e] \subseteq ReachedBy(Q, e)
  <2>1. e \in DOMAIN n.stored /\ prev \in Ends(Q) /\ next \in Ends(Q)
    BY <1>3, <1>5, <1>6
  <2>2. CASE e = prev
    <3>1. n.positive[e] = known(prev) \cup known(next)
      BY <1>3, <2>1, <2>2
    <3>2. FollowsBy(Q, {e}) \subseteq FollowsBy(P, {e}) \cup {next}
      BY <1>1 DEF FollowsBy
    <3>3. known(next) \subseteq ReachedBy(Q, prev)
      BY <1>4, <1>9, <2>1, ReachedOn
    <3> QED
      BY <1>9, <1>10, <2>1, <2>2, <3>1, <3>2, <3>3
  <2>3. CASE e # prev
    <3>1. n.positive[e] = known(e)
      BY <1>3, <2>1, <2>3
    <3>2. FollowsBy(Q, {e}) \subseteq FollowsBy(P, {e})
      BY <1>1, <2>3 DEF FollowsBy
    <3> QED
      BY <1>9, <1>10, <3>1, <3>2
  <2> QED
    BY <2>2, <2>3
<1>12. Foresees(n, Q)
  BY <1>3, <1>4, <1>5, <1>6, <1>11 DEF Foresees
<1> QED
  BY Zenon, <1>1, <1>12

\* A new session expects nothing and was taught nothing.
LEMMA ForeseesNothing == Foresees(NewSr, {})
<1>1. DOMAIN <<>> = {} /\ \A S : <<>> \in [{} -> S]
  BY EmptyMap
<1>2. <<>> \in MapsOf(EventIds, SUBSET EventIds)
  BY <1>1, InMaps
<1>3. NewSr \in SrTypes /\ NewSr.stored = <<>> /\ NewSr.positive = <<>>
  BY <1>2 DEF NewSr, SrTypes
<1>4. Ends({}) = {}
  BY DEF Ends
<1> QED
  BY <1>1, <1>3, <1>4 DEF Foresees, SelfVisits

SrForeseesTaught == Foresees(sr, taught)

\* Turn by turn, expectations and what was taught stay together.
LEMMA ForeseesAlways == PredictorSpec => []SrForeseesTaught
<1>1. PredictorInit => SrForeseesTaught
  BY ForeseesNothing DEF PredictorInit, SrForeseesTaught
<1>2. AgedAlike /\ SrForeseesTaught /\ [PredictorNext]_predictorVars => SrForeseesTaught'
  <2> SUFFICES ASSUME AgedAlike, SrForeseesTaught, [PredictorNext]_predictorVars PROVE SrForeseesTaught'
    OBVIOUS
  <2> USE DEF SrForeseesTaught
  <2>1. CASE Tick
    BY <2>1 DEF Tick
  <2>2. CASE Return
    BY <2>2, ForeseesNothing DEF Return
  <2>3. ASSUME NEW e \in EventIds, Turn(e)
        PROVE  SrForeseesTaught'
    <3>1. CASE recent = <<>>
      BY <2>3, <3>1 DEF Turn
    <3>2. CASE recent # <<>>
      <4>1. PICK prev \in EventIds : prev = Last(recent)
        BY <3>2 DEF Last, AgedAlike
      <4>2. Foresees(SrObserve(sr, prev, e), taught \cup {<<prev, e>>})
        BY Zenon, ForeseesMore
      <4>3. /\ sr' = IF HasSr THEN SrObserve(sr, prev, e) ELSE sr
            /\ taught' = IF HasSr THEN taught \cup {<<prev, e>>} ELSE taught
        BY <2>3, <3>2, <4>1 DEF Turn
      <4> QED
        BY Zenon, <4>2, <4>3
    <3> QED
      BY <3>1, <3>2
  <2>4. ASSUME NEW kept \in BOOLEAN, End(kept)
        PROVE  SrForeseesTaught'
    BY <2>4, ForeseesNothing DEF End
  <2>5. CASE UNCHANGED predictorVars
    BY <2>5 DEF predictorVars
  <2> QED
    BY <2>1, <2>2, <2>3, <2>4, <2>5 DEF PredictorNext
<1> QED
  BY <1>1, <1>2, AgedAlikeAlways, PTL DEF PredictorSpec

\* What the successor representation expects after an event is what it was
\* taught to follow, and nothing that no chain of such steps leads to
\* (ensure_self_visit, observe).
THEOREM SrAlwaysForesees == PredictorSpec => []SrForesees
<1>1. SrForeseesTaught => SrForesees
  <2>1. \A S : Follows(S) = FollowsBy(taught, S)
    BY DEF Follows, FollowsBy
  <2>2. \A s : ReachedFrom(s) = ReachedBy(taught, s)
    BY <2>1 DEF ReachedFrom, ReachedBy
  <2> QED
    BY Zenon, <2>1, <2>2 DEF SrForeseesTaught, Foresees, SrForesees, SrVocab, Ends
<1> QED
  BY <1>1, ForeseesAlways, PTL

-----------------------------------------------------------------------------
(* What predictors answer. *)

\* A list of some elements of a set, none of them twice.
NoneTwice(r, S) == r \in Seq(S) /\ IsInjective(r)

\* An answer to a request for k predictions.
Proposes(r, k) == Len(r) <= k /\ IsInjective(r)

\* Ranking lists every event once.
LEMMA RankedLists ==
  ASSUME NEW weight, NEW D, D \subseteq Nat, IsFiniteSet(D), weight \in [D -> Nat]
  PROVE  /\ NoneTwice(Ranked(weight), D) /\ (D # {} => Ranked(weight) # <<>>)
         /\ Len(Ranked(weight)) = Cardinality(D)
<1>1. DOMAIN weight = D
  OBVIOUS
<1>2. PICK R : R = {p \in D \X D : Likelier(weight, p[1], p[2])}
  OBVIOUS
<1>3. \A a, b \in D : <<a, b>> \in R <=> Likelier(weight, a, b)
  BY <1>2
<1>4. StrictOrder(D, R)
  BY <1>3 DEF StrictOrder, Likelier
<1>5. \A e \in D : {d \in DOMAIN weight : Likelier(weight, d, e)} = Ahead(D, R, e)
  BY <1>1, <1>3 DEF Ahead
<1>6. PICK n \in Nat : n = Cardinality(D)
  BY FS_CardinalityType
<1>7. PICK s : s = Ranked(weight)
  OBVIOUS
<1>8. s = [r \in 1..Cardinality(DOMAIN weight) |->
             CHOOSE e \in DOMAIN weight : Cardinality({d \in DOMAIN weight : Likelier(weight, d, e)}) = r - 1]
  BY Zenon, <1>7 DEF Ranked
<1>9. ASSUME NEW r \in 1..n
      PROVE  s[r] \in D /\ Cardinality({d \in DOMAIN weight : Likelier(weight, d, s[r])}) = r - 1
  <2>1. PICK e \in D : Cardinality(Ahead(D, R, e)) = r - 1
    BY Zenon, <1>4, <1>6, EveryRankTaken
  <2>2. e \in DOMAIN weight /\ Cardinality({d \in DOMAIN weight : Likelier(weight, d, e)}) = r - 1
    BY Zenon, <1>1, <1>5, <2>1
  <2>3. s[r] = CHOOSE f \in DOMAIN weight : Cardinality({d \in DOMAIN weight : Likelier(weight, d, f)}) = r - 1
    BY Zenon, <1>1, <1>6, <1>8
  <2> QED
    BY Zenon, <1>1, <2>2, <2>3
<1>10. s \in Seq(D) /\ DOMAIN s = 1..n /\ Len(s) = n
  <2>1. \A r \in 1..Cardinality(DOMAIN weight) :
          (CHOOSE e \in DOMAIN weight : Cardinality({d \in DOMAIN weight : Likelier(weight, d, e)}) = r - 1) \in D
    BY Zenon, <1>1, <1>6, <1>8, <1>9
  <2>2. s \in [1..Cardinality(DOMAIN weight) -> D]
    BY Zenon, <1>8, <2>1
  <2> QED
    BY <1>1, <1>6, <2>2
<1>11. \A i, j \in 1..n : i # j => s[i] # s[j]
  <2> TAKE i, j \in 1..n
  <2>1. i # j => i - 1 # j - 1
    OBVIOUS
  <2> QED
    BY Zenon, <1>9, <2>1
<1>12. IsInjective(s)
  BY Zenon, <1>10, <1>11 DEF IsInjective
<1>13. D # {} => n # 0
  BY <1>6, FS_EmptySet
<1>14. D # {} => s # <<>>
  BY <1>10, <1>13
<1> QED
  BY Zenon, <1>6, <1>7, <1>10, <1>12, <1>14 DEF NoneTwice

\* Taking the first k keeps that.
LEMMA FirstOfLists ==
  ASSUME NEW S, NEW s, NoneTwice(s, S), NEW k \in Nat
  PROVE  /\ NoneTwice(FirstOf(s, k), S)
         /\ Len(FirstOf(s, k)) <= k
         /\ s # <<>> /\ k # 0 => FirstOf(s, k) # <<>>
<1>1. s \in Seq(S) /\ IsInjective(s) /\ Len(s) \in Nat
  BY DEF NoneTwice
<1>2. PICK n \in Nat : n = IF k <= Len(s) THEN k ELSE Len(s)
  BY <1>1
<1>3. n <= k /\ n <= Len(s)
  BY <1>1, <1>2
<1>4. PICK f : f = SubSeq(s, 1, n)
  OBVIOUS
<1>5. f \in Seq(S) /\ Len(f) = n /\ \A i \in 1..n : f[i] = s[i]
  BY <1>1, <1>3, <1>4
<1>6. IsInjective(f)
  <2>1. DOMAIN f = 1..n /\ 1..n \subseteq DOMAIN s
    BY <1>1, <1>3, <1>5
  <2> QED
    BY Zenon, <1>1, <1>5, <2>1 DEF IsInjective
<1>7. s # <<>> /\ k # 0 => f # <<>>
  BY <1>1, <1>2, <1>5
<1>8. FirstOf(s, k) = f
  BY Zenon, <1>2, <1>4 DEF FirstOf
<1> QED
  BY Zenon, <1>3, <1>5, <1>6, <1>7, <1>8 DEF NoneTwice

\* One list after another of something else.
LEMMA ListsJoin ==
  ASSUME NEW S, NEW A, NEW B, A \subseteq S, B \subseteq S, A \cap B = {},
         NEW p, NoneTwice(p, A), NEW q, NoneTwice(q, B)
  PROVE  NoneTwice(p \o q, S) /\ (p # <<>> => p \o q # <<>>)
<1>1. p \in Seq(A) /\ q \in Seq(B) /\ IsInjective(p) /\ IsInjective(q)
  BY DEF NoneTwice
<1>2. PICK m, n, s : m = Len(p) /\ n = Len(q) /\ s = p \o q
  OBVIOUS
<1>3. m \in Nat /\ n \in Nat /\ DOMAIN p = 1..m /\ DOMAIN q = 1..n
  BY <1>1, <1>2
<1>4. /\ \A i \in 1..m : p[i] \in A
      /\ \A i \in 1..n : q[i] \in B
  BY <1>1, <1>3
<1>5. s \in Seq(S) /\ Len(s) = m + n /\ DOMAIN s = 1..(m + n)
  BY <1>1, <1>2, <1>3
<1>6. /\ \A i \in 1..m : s[i] = p[i]
      /\ \A i \in (m + 1)..(m + n) : s[i] = q[i - m]
  BY <1>1, <1>2, <1>3
<1>7. ASSUME NEW i \in 1..(m + n), NEW j \in 1..(m + n), s[i] = s[j]
      PROVE  i = j
  <2>1. CASE i <= m /\ j <= m
    <3>1. i \in DOMAIN p /\ j \in DOMAIN p /\ p[i] = p[j]
      BY <1>3, <1>6, <1>7, <2>1
    <3> QED
      BY Zenon, <1>1, <3>1 DEF IsInjective
  <2>2. CASE i > m /\ j > m
    <3>1. PICK a, b : a = i - m /\ b = j - m
      OBVIOUS
    <3>2. a \in DOMAIN q /\ b \in DOMAIN q /\ q[a] = q[b]
      BY <1>3, <1>6, <1>7, <2>2, <3>1
    <3>3. a = b
      BY Zenon, <1>1, <3>2 DEF IsInjective
    <3> QED
      BY <1>3, <3>1, <3>3
  <2>3. CASE i <= m /\ j > m
    <3>1. s[i] \in A
      BY <1>3, <1>4, <1>6, <2>3
    <3>2. j - m \in 1..n /\ j \in (m + 1)..(m + n)
      BY <1>3, <2>3
    <3>3. s[j] \in B
      BY <1>4, <1>6, <3>2
    <3> QED
      BY <1>7, <3>1, <3>3
  <2>4. CASE i > m /\ j <= m
    <3>1. s[j] \in A
      BY <1>3, <1>4, <1>6, <2>4
    <3>2. i - m \in 1..n /\ i \in (m + 1)..(m + n)
      BY <1>3, <2>4
    <3>3. s[i] \in B
      BY <1>4, <1>6, <3>2
    <3> QED
      BY <1>7, <3>1, <3>3
  <2> QED
    BY <1>3, <2>1, <2>2, <2>3, <2>4
<1>8. IsInjective(s)
  BY Zenon, <1>5, <1>7 DEF IsInjective
<1>9. p # <<>> => s # <<>>
  BY <1>1, <1>2, <1>3, <1>5
<1> QED
  BY Zenon, <1>2, <1>5, <1>8, <1>9 DEF NoneTwice

\* What a Markov predictor that knows an event predicts.
LEMMA MarkovAnswers ==
  ASSUME NEW now \in 0..LastTick, NEW m \in MarkovsUpTo(now), NEW c, NEW k \in Nat
  PROVE  /\ Proposes(EventsOf(Predict(m, c, k, now)), k)
         /\ m.vocab # {} /\ k # 0 => EventsOf(Predict(m, c, k, now)) # <<>>
<1>1. m.vocab \subseteq Nat /\ IsFiniteSet(m.vocab)
  BY MarkovParts, PredictorsAssumption, FS_Subset
<1>2. ASSUME NEW weight \in [m.vocab -> Nat], NEW mass
      PROVE  /\ Proposes(EventsOf(Scored(weight, mass, k)), k)
             /\ m.vocab # {} /\ k # 0 => EventsOf(Scored(weight, mass, k)) # <<>>
  <2>1. PICK s : s = Ranked(weight)
    OBVIOUS
  <2>2. NoneTwice(s, m.vocab) /\ (m.vocab # {} => s # <<>>)
    BY Zenon, <1>1, <2>1, RankedLists
  <2>3. PICK f : f = FirstOf(s, k)
    OBVIOUS
  <2>4. NoneTwice(f, m.vocab) /\ Len(f) <= k /\ (s # <<>> /\ k # 0 => f # <<>>)
    BY Zenon, <2>2, <2>3, FirstOfLists
  <2>5. EventsOf(Scored(weight, mass, k)) = [i \in DOMAIN f |-> f[i]]
    BY <2>1, <2>3 DEF EventsOf, Scored
  <2>6. f = [i \in DOMAIN f |-> f[i]]
    BY <2>4 DEF NoneTwice
  <2> QED
    BY Zenon, <2>2, <2>4, <2>5, <2>6 DEF Proposes, NoneTwice
<1>3. PICK trusted : trusted = TrustedOrders(m, c, now)
  OBVIOUS
<1>4. CASE trusted = {}
  <2>1. [e \in m.vocab |-> 1] \in [m.vocab -> Nat]
    OBVIOUS
  <2>2. Predict(m, c, k, now) = Scored([e \in m.vocab |-> 1], Cardinality(m.vocab), k)
    BY Zenon, <1>3, <1>4 DEF Predict, Uniform
  <2> QED
    BY Zenon, <1>2, <2>1, <2>2
<1>5. CASE trusted # {}
  <2>1. PICK key, row : key = Suffix(c, Max(trusted)) /\ row = At(m.rows, key, <<>>)
    OBVIOUS
  <2>2. \A e \in m.vocab : Current(At(row, e, Zero(now)), now) \in Nat
    <3>1. m.rows \in MapsOf(Contexts, RowsUpTo(now))
      BY DEF MarkovsUpTo, MarkovTypes
    <3>2. row \in RowsUpTo(now)
      BY Zenon, <2>1, <3>1, AtInMaps, NoRow
    <3>3. \A e : At(row, e, Zero(now)) \in CountsUpTo(now)
      BY Zenon, <3>2, AtInMaps, ZeroCounts DEF RowsUpTo
    <3>4. now \in now..LastTick
      BY MarkovAssumption
    <3> QED
      BY Zenon, <3>3, <3>4, Ages
  <2>3. PICK weight : weight = [e \in m.vocab |-> Current(At(row, e, Zero(now)), now) + Smoothing]
    OBVIOUS
  <2>4. weight \in [m.vocab -> Nat]
    BY <2>2, <2>3, MarkovAssumption
  <2>5. \E mass : Predict(m, c, k, now) = Scored(weight, mass, k)
    BY Zenon, <1>3, <1>5, <2>1, <2>3 DEF Predict, Score
  <2> QED
    BY Zenon, <1>2, <2>4, <2>5
<1> QED
  BY <1>4, <1>5

\* What the successor representation predicts, if anything.
LEMMA SrAnswers ==
  ASSUME NEW s, SelfVisits(s), NEW c, NEW k \in Nat, NEW r \in SrPredict(s, c, k)
  PROVE  Proposes(r, k)
<1>1. CASE r = <<>>
  <2>1. Len(r) = 0 /\ DOMAIN r = {}
    BY <1>1
  <2> QED
    BY <2>1 DEF Proposes, IsInjective
<1>2. CASE r # <<>>
  <2>1. PICK e : e = Last(c)
    OBVIOUS
  <2> DEFINE ahead == s.positive[e] \ {e}
             behind == s.stored[e] \ (ahead \cup {e})
             none == [x \in behind |-> 0]
             lines == {FirstOf(p \o Ranked(none), k) : p \in Orders(ahead)}
  <2>2. e \in DOMAIN s.stored /\ r \in lines
    <3>1. SrPredict(s, c, k) =
            IF k = 0 \/ c = <<>> \/ e \notin DOMAIN s.stored THEN {<<>>}
            ELSE IF ahead = {} THEN {<<>>} ELSE lines
      BY Zenon, <2>1 DEF SrPredict, SrVocab
    <3> HIDE DEF ahead, lines
    <3> QED
      BY <1>2, <3>1
  <2>3. PICK p \in Orders(ahead) : r = FirstOf(p \o Ranked(none), k)
    BY <2>2
  <2>4. ahead \subseteq EventIds /\ behind \subseteq EventIds /\ ahead \cap behind = {}
    BY <2>2, SrParts
  <2>5. behind \subseteq Nat /\ IsFiniteSet(behind) /\ IsFiniteSet(ahead)
    <3> HIDE DEF ahead, behind
    <3> QED
      BY <2>4, PredictorsAssumption, FS_Subset
  <2>6. none \in [behind -> Nat]
    OBVIOUS
  <2> HIDE DEF ahead, behind, none
  <2>7. NoneTwice(Ranked(none), behind)
    BY Zenon, <2>5, <2>6, RankedLists
  <2>8. NoneTwice(p, ahead)
    <3>1. PICK n \in Nat : n = Cardinality(ahead)
      BY <2>5, FS_CardinalityType
    <3>2. p \in [1..n -> ahead] /\ Range(p) = ahead
      BY <3>1 DEF Orders
    <3>3. p \in Surjection(1..n, ahead)
      BY <3>2 DEF Surjection, Range
    <3>4. IsFiniteSet(1..n) /\ Cardinality(1..n) = Cardinality(ahead)
      BY <3>1, FS_Interval
    <3>5. p \in Injection(1..n, ahead)
      BY <3>3, <3>4, FS_SurjSameCardinalityImpliesInj
    <3>6. p \in Seq(ahead)
      BY <3>2
    <3> QED
      BY <3>5, <3>6 DEF NoneTwice, Injection
  <2>9. NoneTwice(p \o Ranked(none), EventIds)
    BY Zenon, <2>4, <2>7, <2>8, ListsJoin
  <2> QED
    BY Zenon, <2>3, <2>9, FirstOfLists DEF NoneTwice, Proposes
<1> QED
  BY <1>1, <1>2

\* A hybrid that knows any event has a prediction whenever it is asked, of at
\* most as many events as asked for and none twice, and until the successor
\* representation is warm it is the Markov predictor's (HybridPredictor).
THEOREM HybridAlwaysSpeaks == PredictorSpec => []HybridSpeaks
<1>1. AgedAlike /\ SrForeseesTaught => HybridSpeaks
  <2> SUFFICES ASSUME AgedAlike, SrForeseesTaught, markov.vocab # {},
                      NEW k \in TopNs \ {0}
               PROVE  LET answers == HybridPredict(sr, markov, recent, k, clock)
                      IN  /\ \A r \in answers : r # <<>> /\ Len(r) <= k /\ IsInjective(r)
                          /\ 2 * sr.t < Warmup => answers = {EventsOf(Predict(markov, recent, k, clock))}
    BY DEF HybridSpeaks
  <2>1. clock \in 0..LastTick /\ markov \in MarkovsUpTo(clock) /\ SelfVisits(sr)
    BY DEF AgedAlike, SrForeseesTaught, Foresees
  <2>2. k \in Nat /\ k # 0
    BY PredictorsAssumption
  <2>3. PICK backup : backup = EventsOf(Predict(markov, recent, k, clock))
    OBVIOUS
  <2>4. Proposes(backup, k) /\ backup # <<>>
    BY Zenon, <2>1, <2>2, <2>3, MarkovAnswers
  <2>5. PICK own : own = IF IsWarm(sr) THEN SrPredict(sr, recent, k) ELSE {<<>>}
    OBVIOUS
  <2>6. \A r \in own : r # <<>> => Proposes(r, k)
    BY Zenon, <2>1, <2>2, <2>5, SrAnswers
  <2>7. HybridPredict(sr, markov, recent, k, clock)
          = (own \ {<<>>}) \cup (IF <<>> \in own THEN {backup} ELSE {})
    BY Zenon, <2>3, <2>5 DEF HybridPredict
  <2>8. ASSUME 2 * sr.t < Warmup
        PROVE  HybridPredict(sr, markov, recent, k, clock) = {backup}
    <3>1. ~IsWarm(sr)
      BY <2>1, <2>8, SrParts, WarmupAssumption DEF IsWarm
    <3>2. own = {<<>>}
      BY <2>5, <3>1
    <3> QED
      BY <2>7, <3>2
  <2>9. \A r \in HybridPredict(sr, markov, recent, k, clock) : r # <<>> /\ Proposes(r, k)
    BY <2>4, <2>6, <2>7
  <2> QED
    BY Zenon, <2>3, <2>8, <2>9 DEF Proposes
<1> QED
  BY <1>1, AgedAlikeAlways, ForeseesAlways, PTL

-----------------------------------------------------------------------------
(* Probabilities. *)

\* A list of as many of a finite set as there are has them all.
LEMMA NoneTwiceIsAll ==
  ASSUME NEW D, IsFiniteSet(D), NEW s, NoneTwice(s, D), Len(s) = Cardinality(D)
  PROVE  \A e \in D : \E i \in DOMAIN s : s[i] = e
<1>1. PICK n \in Nat : n = Cardinality(D)
  BY FS_CardinalityType
<1>2. s \in [1..n -> D] /\ DOMAIN s = 1..n /\ IsInjective(s)
  BY <1>1 DEF NoneTwice
<1>3. s \in Injection(1..n, D)
  BY <1>2 DEF Injection
<1>4. IsFiniteSet(1..n) /\ Cardinality(1..n) = n
  BY <1>1, FS_Interval
<1>5. s \in Surjection(1..n, D)
  BY <1>1, <1>3, <1>4, FS_Injection
<1> QED
  BY <1>2, <1>5 DEF Surjection

\* A list of predictions for D, of these weights and out of this mass.
Predicts(all, D, weight, mass) ==
  /\ Len(all) = Cardinality(D)
  /\ Added([j \in DOMAIN all |-> all[j].weight]) = Added(weight)
  /\ \A i \in DOMAIN all : all[i].mass = mass

\* Asked for them all, the scores are of every event.
LEMMA ScoresAll ==
  ASSUME NEW D, D \subseteq Nat, IsFiniteSet(D), NEW weight \in [D -> Nat], NEW mass
  PROVE  Predicts(Scored(weight, mass, Cardinality(D)), D, weight, mass)
<1>1. PICK n \in Nat : n = Cardinality(D)
  BY FS_CardinalityType
<1>2. PICK s : s = Ranked(weight)
  OBVIOUS
<1>3. NoneTwice(s, D) /\ Len(s) = n
  BY Zenon, <1>1, <1>2, RankedLists
<1>4. s \in Seq(D) /\ DOMAIN s = 1..n /\ IsInjective(s)
  BY <1>3 DEF NoneTwice
<1>5. FirstOf(s, n) = s
  <2>1. SubSeq(s, 1, n) = s
    BY <1>3, <1>4
  <2> QED
    BY <1>3, <2>1 DEF FirstOf
<1>6. PICK all : all = Scored(weight, mass, n)
  OBVIOUS
<1>7. all = [i \in DOMAIN s |-> [event |-> s[i], weight |-> weight[s[i]], mass |-> mass]]
  BY Zenon, <1>2, <1>5, <1>6 DEF Scored
<1>8. DOMAIN all = 1..n /\ Len(all) = n
  BY <1>4, <1>7
<1>9. PICK g : g = [j \in DOMAIN all |-> all[j].weight]
  OBVIOUS
<1>10. DOMAIN g = 1..n /\ \A i \in 1..n : s[i] \in D /\ g[i] = weight[s[i]]
  BY <1>4, <1>7, <1>8, <1>9
<1>11. Counts(weight) /\ DOMAIN weight = D
  BY DEF Counts
<1>12. Counts(g)
  <2>1. IsFiniteSet(1..n)
    BY <1>1, FS_Interval
  <2>2. g \in [1..n -> Nat]
    BY <1>8, <1>9, <1>10
  <2> QED
    BY <1>10, <2>1, <2>2 DEF Counts
<1>13. Renames(s, g, weight)
  <2>1. s \in [1..n -> D]
    BY <1>4
  <2>2. \A i, j \in 1..n : i # j => s[i] # s[j]
    BY <1>4 DEF IsInjective
  <2>3. \A e \in D : \E i \in 1..n : s[i] = e
    <3>1. Len(s) = Cardinality(D)
      BY <1>1, <1>3
    <3>2. \A e \in D : \E i \in DOMAIN s : s[i] = e
      BY <1>3, <3>1, NoneTwiceIsAll
    <3> QED
      BY <1>4, <3>2
  <2> QED
    BY Zenon, <1>10, <1>11, <2>1, <2>2, <2>3 DEF Renames
<1>14. SameTotal(g, weight)
  BY Zenon, <1>11, <1>12, <1>13, AddedRenamed
<1>15. \A i \in DOMAIN all : all[i].mass = mass
  BY <1>7
<1> QED
  BY Zenon, <1>1, <1>6, <1>8, <1>9, <1>14, <1>15 DEF Predicts, SameTotal

\* What it predicts of the events it knows, when asked for them all.
AddUp(m, c, t) ==
  LET all == Predict(m, c, Cardinality(m.vocab), t)
  IN  /\ Len(all) = Cardinality(m.vocab)
      /\ \A i \in DOMAIN all : Added([j \in DOMAIN all |-> all[j].weight]) = all[i].mass

LEMMA PredictsAddUp ==
  ASSUME NEW m, NEW c, NEW t, NEW weight, NEW mass, Added(weight) = mass,
         Predicts(Predict(m, c, Cardinality(m.vocab), t), m.vocab, weight, mass)
  PROVE  AddUp(m, c, t)
BY Zenon DEF AddUp, Predicts

\* The weights of a row's events make up its total, and the smoothing adds as
\* much for every event known.
LEMMA MarkovAddsUp ==
  ASSUME NEW now \in 0..LastTick, NEW m \in MarkovsUpTo(now), NEW c
  PROVE  AddUp(m, c, now)
<1>1. PICK V : V = m.vocab
  OBVIOUS
<1>2. V \subseteq Nat /\ IsFiniteSet(V)
  BY <1>1, MarkovParts, PredictorsAssumption, FS_Subset
<1>3. PICK n \in Nat : n = Cardinality(V)
  BY <1>2, FS_CardinalityType
<1>4. PICK trusted : trusted = TrustedOrders(m, c, now)
  OBVIOUS
<1>5. CASE trusted = {}
  <2>1. PICK weight : weight = [e \in V |-> 1]
    OBVIOUS
  <2>2. weight \in [V -> Nat] /\ Counts(weight)
    BY <1>2, <2>1 DEF Counts
  <2>3. Predict(m, c, n, now) = Scored(weight, n, n)
    BY Zenon, <1>1, <1>3, <1>4, <1>5, <2>1 DEF Predict, Uniform
  <2>4. Predicts(Scored(weight, n, n), V, weight, n)
    BY Zenon, <1>2, <1>3, <2>2, ScoresAll
  <2>5. PICK f : f = <<>> /\ Counts(f) /\ Added(f) = 0 /\ DOMAIN f = {}
    <3>1. DOMAIN <<>> = {}
      OBVIOUS
    <3> QED
      BY Zenon, <3>1, EmptyMap, AddedNone
  <2>6. Padded(weight, f, 1)
    BY <1>2, <2>1, <2>5 DEF Padded
  <2>7. 1 \in Nat
    OBVIOUS
  <2>8. TotalPadded(weight, f, 1)
    BY Zenon, <2>2, <2>5, <2>6, <2>7, AddedPadded
  <2>9. Added(weight) = n
    BY <1>3, <2>1, <2>5, <2>8 DEF TotalPadded
  <2> QED
    BY Zenon, <1>1, <1>3, <2>3, <2>4, <2>9, PredictsAddUp
<1>6. CASE trusted # {}
  <2>1. PICK key : key = Suffix(c, Max(trusted))
    OBVIOUS
  <2>2. key \in DOMAIN m.rows
    <3>1. DOMAIN m.totals = DOMAIN m.rows
      BY MarkovParts
    <3> QED
      BY Zenon, <1>4, <1>6, <2>1, <3>1, TrustedIsCounted
  <2>3. PICK row : row = m.rows[key]
    OBVIOUS
  <2>4. row \in RowsUpTo(now) /\ m.totals[key] \in CountsUpTo(now) /\ DOMAIN row \subseteq V
    BY <1>1, <2>2, <2>3, MarkovParts DEF InVocab
  <2>5. now \in now..LastTick
    BY MarkovAssumption
  <2>6. PICK r : r = [e \in DOMAIN row |-> Current(row[e], now)]
    OBVIOUS
  <2>7. PICK total : total = Current(m.totals[key], now)
    OBVIOUS
  <2>8. total = Added(r)
    <3>1. AddsUp(m, key, now)
      BY Zenon, <2>2, <2>5, BalancedAdds
    <3> QED
      BY Zenon, <2>3, <2>6, <2>7, <3>1 DEF AddsUp
  <2>9. \A e \in DOMAIN row : Current(row[e], now) \in Nat
    <3>1. row \in [DOMAIN row -> CountsUpTo(now)]
      BY <2>4, InMaps DEF RowsUpTo
    <3>2. \A e \in DOMAIN row : row[e] \in CountsUpTo(now)
      BY <3>1
    <3> QED
      BY Zenon, <2>5, <3>2, Ages
  <2>10. Counts(r) /\ DOMAIN r = DOMAIN row
    <3>1. DOMAIN r = DOMAIN row /\ r \in [DOMAIN row -> Nat]
      BY <2>6, <2>9
    <3>2. IsFiniteSet(DOMAIN row)
      BY <1>2, <2>4, FS_Subset
    <3> QED
      BY <3>1, <3>2 DEF Counts
  <2>11. PICK weight : weight = [e \in V |-> Current(At(row, e, Zero(now)), now) + Smoothing]
    OBVIOUS
  <2>12. \A e \in V : Current(At(row, e, Zero(now)), now) = IF e \in DOMAIN r THEN r[e] ELSE 0
    <3> TAKE e \in V
    <3>1. CASE e \in DOMAIN row
      <4>1. At(row, e, Zero(now)) = row[e]
        BY <3>1 DEF At
      <4> QED
        BY <2>6, <3>1, <4>1
    <3>2. CASE e \notin DOMAIN row
      <4>1. At(row, e, Zero(now)) = Zero(now)
        BY <3>2 DEF At
      <4> QED
        BY Zenon, <2>10, <3>2, <4>1, ZeroIsNothing
    <3> QED
      BY <3>1, <3>2
  <2>13. /\ DOMAIN weight = V
         /\ \A e \in V : weight[e] = (IF e \in DOMAIN r THEN r[e] ELSE 0) + Smoothing
    BY Zenon, <2>11, <2>12
  <2>14. \A e \in V : weight[e] \in Nat
    <3>1. \A e \in DOMAIN r : r[e] \in Nat
      BY <2>10 DEF Counts
    <3> QED
      BY <2>13, <3>1, MarkovAssumption
  <2>15. weight \in [V -> Nat] /\ Counts(weight)
    BY <1>2, <2>11, <2>13, <2>14 DEF Counts
  <2>16. Padded(weight, r, Smoothing)
    BY Zenon, <1>2, <2>4, <2>10, <2>13 DEF Padded
  <2>17. TotalPadded(weight, r, Smoothing)
    BY Zenon, <2>10, <2>15, <2>16, AddedPadded, MarkovAssumption
  <2>18. Added(weight) = total + Smoothing * n
    BY Zenon, <1>3, <2>8, <2>13, <2>17 DEF TotalPadded
  <2>19. Predict(m, c, n, now) = Scored(weight, total + Smoothing * n, n)
    <3>1. At(m.rows, key, <<>>) = row
      BY <2>2, <2>3 DEF At
    <3>2. Predict(m, c, n, now) = Score(m, key, n, now)
      BY Zenon, <1>4, <1>6, <2>1 DEF Predict
    <3> QED
      BY Zenon, <1>1, <1>3, <2>7, <2>11, <3>1, <3>2 DEF Score
  <2>20. Predicts(Scored(weight, total + Smoothing * n, n), V, weight, total + Smoothing * n)
    BY Zenon, <1>2, <1>3, <2>15, ScoresAll
  <2> QED
    BY Zenon, <1>1, <1>3, <2>18, <2>19, <2>20, PredictsAddUp
<1> QED
  BY <1>5, <1>6

\* However long the context trusted (predict_with_context_at) and whatever has
\* been observed, aged and reloaded, the probabilities of all the events a
\* predictor knows are 1 together: a row counts no event outside the
\* vocabulary the smoothing is taken over.
THEOREM ProbabilitiesAlwaysAddUp == PredictorSpec => []ProbabilitiesAddUp
<1>1. AgedAlike => ProbabilitiesAddUp
  <2> SUFFICES ASSUME AgedAlike PROVE ProbabilitiesAddUp
    OBVIOUS
  <2>1. clock \in 0..LastTick /\ markov \in MarkovsUpTo(clock)
    BY DEF AgedAlike
  <2>2. \A c \in Contexts : AddUp(markov, c, clock)
    BY Zenon, <2>1, MarkovAddsUp
  <2> QED
    BY Zenon, <2>2 DEF ProbabilitiesAddUp, AddUp
<1> QED
  BY <1>1, AgedAlikeAlways, PTL

=============================================================================
