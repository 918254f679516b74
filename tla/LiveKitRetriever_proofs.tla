----------------------- MODULE LiveKitRetriever_proofs -----------------------
(***************************************************************************)
(* Theorems about the LiveKit client, for any number of utterances and of  *)
(* partials, any texts that are too short, with and without faults.        *)
(***************************************************************************)
EXTENDS LiveKitRetriever, SequenceTheorems, TLAPS

Fin(u) == <<"finalize", u, 0>>

\* A coroutine that finalizes is the one of its utterance; only one closes.
LEMMA TaskShape ==
  /\ Close \in Task /\ Kind(Close) = "close"
  /\ \A t \in Task :
       /\ Kind(t) \in {"observe", "finalize", "warm", "close"}
       /\ Kind(t) = "finalize" => Utterance(t) \in Uttered /\ t = Fin(Utterance(t))
       /\ Kind(t) = "close" => t = Close
  /\ \A u \in Uttered : Fin(u) \in Task /\ Kind(Fin(u)) = "finalize" /\ Utterance(Fin(u)) = u
<1>1. ASSUME NEW t \in Task
      PROVE  \/ t \in Observes \/ t \in Finalizes \/ t \in Warms \/ t = Close
  BY DEF Task
<1>2. ASSUME NEW t \in Observes
      PROVE  Kind(t) = "observe"
  BY DEF Observes, Kind
<1>3. ASSUME NEW t \in Finalizes
      PROVE  Kind(t) = "finalize" /\ Utterance(t) \in Uttered /\ t = Fin(Utterance(t))
  BY DEF Finalizes, Kind, Utterance, Fin
<1>4. ASSUME NEW t \in Warms
      PROVE  Kind(t) = "warm"
  BY DEF Warms, Kind
<1>5. Close \in Task /\ Kind(Close) = "close"
  BY DEF Task, Kind, Close
<1>6. ASSUME NEW u \in Uttered
      PROVE  Fin(u) \in Task /\ Kind(Fin(u)) = "finalize" /\ Utterance(Fin(u)) = u
  BY DEF Fin, Kind, Utterance, Task, Finalizes
<1> QED
  BY <1>1, <1>2, <1>3, <1>4, <1>5, <1>6

\* Nothing but the coroutines, the wire, and what follows from them.
StartStep(t) == Start(t) /\ UNCHANGED <<told, shut, owned, live, turns>>

\* The ways a step can go.
LEMMA Steps ==
  ASSUME TypeOK, [Next]_vars
  PROVE  /\ spoken' \in [utt : 1..(Utterances + 1), n : 0..Partials]
         /\ \/ \E t \in Task : StartStep(t)
            \/ \E t \in Task : GiveUp(t)
            \/ \E t \in Task : Tell(t)
            \/ \E t \in Task : Told(t)
            \/ \E t \in Task : Return(t)
            \/ \E t \in Task : Serve(t)
            \/ \E t \in Task : Refuse(t)
            \/ \E t \in Task : Lose(t)
            \/ UNCHANGED <<task, wire, told, shut, owned, live, turns, late>>
<1> USE LiveKitAssumption
<1>1. ASSUME Interim
      PROVE  /\ spoken' \in [utt : 1..(Utterances + 1), n : 0..Partials]
             /\ \E t \in Task : StartStep(t)
  <2>1. spoken' \in [utt : 1..(Utterances + 1), n : 0..Partials] /\ spoken'.n \in 1..Partials
    <3>1. spoken.utt \in 1..(Utterances + 1) /\ spoken.n \in 0..Partials
      BY DEF TypeOK
    <3>2. spoken' = [spoken EXCEPT !.n = spoken.n + 1] /\ spoken.n < Partials
      BY <1>1 DEF Interim
    <3>3. spoken' = [utt |-> spoken.utt, n |-> spoken.n + 1]
      BY <3>2 DEF TypeOK
    <3>4. spoken.n + 1 \in 1..Partials
      BY <3>1, <3>2
    <3> QED
      BY <3>1, <3>3, <3>4
  <2>2. <<"observe", spoken.utt, spoken'.n>> \in Task
    BY <1>1, <2>1 DEF Interim, Task, Observes
  <2> QED
    BY <1>1, <2>1, <2>2 DEF Interim, StartStep, server
<1>2. ASSUME Committed
      PROVE  /\ spoken' \in [utt : 1..(Utterances + 1), n : 0..Partials]
             /\ \E t \in Task : StartStep(t)
  <2>1. spoken' \in [utt : 1..(Utterances + 1), n : 0..Partials]
    BY <1>2 DEF Committed, TypeOK, Uttered
  <2>2. Fin(spoken.utt) \in Task
    BY <1>2, TaskShape DEF Committed
  <2> QED
    BY <1>2, <2>1, <2>2 DEF Committed, StartStep, server, Fin
<1>3. ASSUME NEW u \in Replies, AgentSpeaks(u)
      PROVE  /\ spoken' \in [utt : 1..(Utterances + 1), n : 0..Partials]
             /\ \E t \in Task : StartStep(t)
  <2>1. <<"warm", u, 0>> \in Task
    BY DEF Task, Warms
  <2> QED
    BY <1>3, <2>1 DEF AgentSpeaks, StartStep, server, TypeOK
<1>4. ASSUME Closes
      PROVE  /\ spoken' \in [utt : 1..(Utterances + 1), n : 0..Partials]
             /\ \E t \in Task : StartStep(t)
  BY <1>4, TaskShape DEF Closes, StartStep, server, TypeOK
<1>5. ASSUME NEW t \in Task,
             GiveUp(t) \/ Tell(t) \/ Told(t) \/ Return(t) \/ Serve(t) \/ Refuse(t) \/ Lose(t)
      PROVE  spoken' = spoken
  BY <1>5 DEF GiveUp, Tell, Told, Return, Serve, Refuse, Lose, Arrives
<1>6. CASE UNCHANGED vars
  BY <1>6 DEF vars, server, TypeOK
<1> QED
  BY <1>1, <1>2, <1>3, <1>4, <1>5, <1>6 DEF Next, TypeOK

\* Shape of the state (retriever.py:69).
THEOREM TypeCorrect == Spec => []TypeOK
<1> USE LiveKitAssumption
<1>1. Init => TypeOK
  <2> SUFFICES ASSUME Init PROVE TypeOK
    OBVIOUS
  <2>1. spoken \in [utt : 1..(Utterances + 1), n : 0..Partials]
    BY DEF Init
  <2>2. told \in Seq(Uttered) /\ turns \in Seq(Uttered)
    BY DEF Init
  <2>3. task \in [Task -> States]
    BY DEF Init, States
  <2> QED
    BY <2>1, <2>2, <2>3 DEF Init, TypeOK
<1>2. TypeOK /\ [Next]_vars => TypeOK'
  <2> SUFFICES ASSUME TypeOK, [Next]_vars
               PROVE  TypeOK'
    OBVIOUS
  <2>1. spoken' \in [utt : 1..(Utterances + 1), n : 0..Partials]
    BY Steps
  <2>2. ASSUME NEW t \in Task, StartStep(t)
        PROVE  TypeOK'
    BY <2>1, <2>2 DEF StartStep, Start, Move, TypeOK, States
  <2>3. ASSUME NEW t \in Task, GiveUp(t)
        PROVE  TypeOK'
    BY <2>1, <2>3 DEF GiveUp, Move, Leaves, TypeOK, States, server
  <2>4. ASSUME NEW t \in Task, Tell(t)
        PROVE  TypeOK'
    <3>1. told' \in Seq(Uttered)
      BY <2>4, TaskShape DEF Tell, TypeOK
    <3> QED
      BY <2>1, <2>4, <3>1 DEF Tell, Move, TypeOK, States, server
  <2>5. ASSUME NEW t \in Task, Told(t)
        PROVE  TypeOK'
    BY <2>1, <2>5 DEF Told, Move, TypeOK, States, server
  <2>6. ASSUME NEW t \in Task, Return(t)
        PROVE  TypeOK'
    BY <2>1, <2>6 DEF Return, Move, Leaves, TypeOK, States, server
  <2>7. ASSUME NEW t \in Task, Serve(t)
        PROVE  TypeOK'
    <3>1. turns' \in Seq(Uttered)
      BY <2>7, TaskShape DEF Serve, TypeOK
    <3> QED
      BY <2>1, <2>7, <3>1 DEF Serve, Arrives, TypeOK, States
  <2>8. ASSUME NEW t \in Task, Refuse(t)
        PROVE  TypeOK'
    BY <2>1, <2>8 DEF Refuse, Arrives, TypeOK, States, server
  <2>9. ASSUME NEW t \in Task, Lose(t)
        PROVE  TypeOK'
    BY <2>1, <2>9 DEF Lose, TypeOK, server
  <2>10. CASE UNCHANGED <<task, wire, told, shut, owned, live, turns, late>>
    BY <2>1, <2>10 DEF TypeOK
  <2> QED
    BY <2>2, <2>3, <2>4, <2>5, <2>6, <2>7, <2>8, <2>9, <2>10, Steps
<1> QED
  BY <1>1, <1>2, PTL DEF Spec

-----------------------------------------------------------------------------
(* An utterance is taught and told once. *)

InTurns(u) == \E i \in DOMAIN turns : turns[i] = u
InTold(u)  == \E i \in DOMAIN told : told[i] = u

LEMMA AppendHolds ==
  ASSUME NEW s \in Seq(Uttered), NEW u \in Uttered, NEW v
  PROVE  (\E i \in DOMAIN Append(s, u) : Append(s, u)[i] = v)
           <=> (\E i \in DOMAIN s : s[i] = v) \/ v = u
<1>1. DOMAIN Append(s, u) = 1..(Len(s) + 1) /\ DOMAIN s = 1..Len(s) /\ Len(s) \in Nat
  OBVIOUS
<1>2. Append(s, u)[Len(s) + 1] = u
  OBVIOUS
<1>3. \A i \in 1..Len(s) : Append(s, u)[i] = s[i]
  OBVIOUS
<1>4. 1..(Len(s) + 1) = 1..Len(s) \cup {Len(s) + 1}
  BY <1>1
<1> QED
  BY <1>1, <1>2, <1>3, <1>4

\* A request is made once, when its coroutine starts; an answered finalize was
\* served; whoever is told is being told or was.
Progress ==
  /\ \A t \in wire : task[t] # "idle"
  /\ \A u \in Uttered :
       /\ InTurns(u) => Fin(u) \notin wire /\ task[Fin(u)] # "idle"
       /\ task[Fin(u)] \in {"answered", "telling"} => InTurns(u)
       /\ InTold(u) => InTurns(u) /\ task[Fin(u)] \in {"telling", "done"}

\* However coroutines overtake each other and whatever is given up, the server
\* is taught an utterance once and on_context is run once for it, with an
\* answer to it (retriever.py:177).
THEOREM TaughtAndToldOnceAlways == Spec => []TaughtAndToldOnce
<1> DEFINE IInv == Progress /\ TaughtAndToldOnce
<1>1. Init => IInv
  BY TaskShape DEF Init, Progress, TaughtAndToldOnce, InTurns, InTold
<1>2. IInv /\ TypeOK /\ TypeOK' /\ [Next]_vars => IInv'
  <2> SUFFICES ASSUME IInv, TypeOK, TypeOK', [Next]_vars
               PROVE  IInv'
    OBVIOUS
  <2>1. \A i \in DOMAIN turns : turns[i] \in Uttered
    BY DEF TypeOK
  <2>2. \A i \in DOMAIN told : told[i] \in Uttered
    BY DEF TypeOK
  \* Steps that teach and tell nobody.
  <2>3. ASSUME UNCHANGED <<turns, told>>, Progress'
        PROVE  IInv'
    BY <2>3 DEF TaughtAndToldOnce
  <2>4. ASSUME NEW t \in Task, StartStep(t)
        PROVE  IInv'
    <3>1. /\ UNCHANGED <<turns, told>>
          /\ task[t] = "idle"
          /\ task' = [task EXCEPT ![t] = task'[t]]
          /\ task'[t] \in {"asking", "done"}
          /\ wire' = wire \/ wire' = wire \cup {t}
      BY <2>4 DEF StartStep, Start, Move, TypeOK
    <3>2. \A u \in Uttered : InTurns(u)' = InTurns(u) /\ InTold(u)' = InTold(u)
      BY <3>1 DEF InTurns, InTold
    <3>3. Progress'
      BY <3>1, <3>2, TaskShape DEF Progress, TypeOK
    <3> QED
      BY <2>3, <3>1, <3>3
  <2>5. ASSUME NEW t \in Task, GiveUp(t) \/ Told(t) \/ Return(t)
        PROVE  IInv'
    <3>1. /\ UNCHANGED <<turns, told, wire>>
          /\ task[t] # "idle"
          /\ task' = [task EXCEPT ![t] = "done"]
      BY <2>5 DEF GiveUp, Told, Return, Move, server
    <3>2. \A u \in Uttered : InTurns(u)' = InTurns(u) /\ InTold(u)' = InTold(u)
      BY <3>1 DEF InTurns, InTold
    <3>3. Progress'
      BY <3>1, <3>2, TaskShape DEF Progress, TypeOK
    <3> QED
      BY <2>3, <3>1, <3>3
  <2>6. ASSUME NEW t \in Task, Tell(t)
        PROVE  IInv'
    <3> DEFINE u == Utterance(t)
    <3>1. u \in Uttered /\ t = Fin(u)
      BY <2>6, TaskShape DEF Tell
    <3>2. /\ UNCHANGED <<turns, wire>>
          /\ task[t] = "answered"
          /\ task' = [task EXCEPT ![t] = "telling"]
          /\ told' = Append(told, u)
      BY <2>6 DEF Tell, Move, server
    <3>3. InTurns(u) /\ ~InTold(u)
      BY <3>1, <3>2 DEF Progress
    <3>4. \A v \in Uttered : InTurns(v)' = InTurns(v)
      BY <3>2 DEF InTurns
    <3>5. ASSUME NEW v \in Uttered
          PROVE  InTold(v)' <=> InTold(v) \/ v = u
      <4>1. told \in Seq(Uttered)
        BY DEF TypeOK
      <4>2. (\E i \in DOMAIN Append(told, u) : Append(told, u)[i] = v)
              <=> (\E i \in DOMAIN told : told[i] = v) \/ v = u
        BY <3>1, <4>1, AppendHolds
      <4> QED
        BY <3>2, <4>2 DEF InTold
    <3>6. Progress'
      <4>1. \A w \in wire' : task'[w] # "idle"
        BY <3>2 DEF Progress, TypeOK
      <4>2. ASSUME NEW v \in Uttered
            PROVE  /\ InTurns(v)' => Fin(v) \notin wire' /\ task'[Fin(v)] # "idle"
                   /\ task'[Fin(v)] \in {"answered", "telling"} => InTurns(v)'
                   /\ InTold(v)' => InTurns(v)' /\ task'[Fin(v)] \in {"telling", "done"}
        <5>1. CASE v = u
          BY <5>1, <3>1, <3>2, <3>3, <3>4, TaskShape DEF Progress, TypeOK
        <5>2. CASE v # u
          <6>1. Fin(v) # t /\ Fin(v) \in Task
            BY <5>2, <3>1, TaskShape
          <6>2. task'[Fin(v)] = task[Fin(v)]
            BY <6>1, <3>2 DEF TypeOK
          <6> QED
            BY <5>2, <6>2, <3>2, <3>4, <3>5 DEF Progress
        <5> QED
          BY <5>1, <5>2
      <4> QED
        BY <4>1, <4>2 DEF Progress
    <3>7. \A i, j \in DOMAIN told' : told'[i] = told'[j] => i = j
      BY <3>1, <3>2, <3>3 DEF TaughtAndToldOnce, InTold, TypeOK
    <3>8. \A i \in DOMAIN told' : \E j \in DOMAIN turns' : turns'[j] = told'[i]
      BY <3>1, <3>2, <3>3 DEF TaughtAndToldOnce, InTurns, TypeOK
    <3>9. TaughtAndToldOnce'
      BY <3>2, <3>7, <3>8 DEF TaughtAndToldOnce
    <3> QED
      BY <3>6, <3>9
  <2>7. ASSUME NEW t \in Task, Serve(t), Kind(t) = "finalize"
        PROVE  IInv'
    <3> DEFINE u == Utterance(t)
    <3>1. u \in Uttered /\ t = Fin(u)
      BY <2>7, TaskShape
    <3>2. /\ told' = told
          /\ t \in wire
          /\ wire' = wire \ {t}
          /\ turns' = Append(turns, u)
          /\ \/ task' = [task EXCEPT ![t] = IF @ = "asking" THEN "answered" ELSE @]
             \/ task' = [task EXCEPT ![t] = IF @ = "asking" THEN "asking" ELSE @]
      BY <2>7 DEF Serve, Arrives
    <3>3. task[t] # "idle" /\ ~InTurns(u)
      BY <3>1, <3>2 DEF Progress
    <3>4. \A v \in Uttered : InTold(v)' = InTold(v)
      BY <3>2 DEF InTold
    <3>5. ASSUME NEW v \in Uttered
          PROVE  InTurns(v)' <=> InTurns(v) \/ v = u
      <4>1. turns \in Seq(Uttered)
        BY DEF TypeOK
      <4>2. (\E i \in DOMAIN Append(turns, u) : Append(turns, u)[i] = v)
              <=> (\E i \in DOMAIN turns : turns[i] = v) \/ v = u
        BY <3>1, <4>1, AppendHolds
      <4> QED
        BY <3>2, <4>2 DEF InTurns
    <3>6. Progress'
      <4>1. \A w \in wire' : task'[w] # "idle"
        BY <3>2, <3>3 DEF Progress, TypeOK
      <4>2. ASSUME NEW v \in Uttered
            PROVE  /\ InTurns(v)' => Fin(v) \notin wire' /\ task'[Fin(v)] # "idle"
                   /\ task'[Fin(v)] \in {"answered", "telling"} => InTurns(v)'
                   /\ InTold(v)' => InTurns(v)' /\ task'[Fin(v)] \in {"telling", "done"}
        <5>1. CASE v = u
          BY <5>1, <3>1, <3>2, <3>3, <3>4, <3>5, TaskShape DEF Progress, TypeOK
        <5>2. CASE v # u
          <6>1. Fin(v) # t /\ Fin(v) \in Task
            BY <5>2, <3>1, TaskShape
          <6>2. task'[Fin(v)] = task[Fin(v)] /\ (Fin(v) \in wire' => Fin(v) \in wire)
            BY <6>1, <3>2 DEF TypeOK
          <6> QED
            BY <5>2, <6>2, <3>4, <3>5 DEF Progress
        <5> QED
          BY <5>1, <5>2
      <4> QED
        BY <4>1, <4>2 DEF Progress
    <3>7. \A i, j \in DOMAIN turns' : turns'[i] = turns'[j] => i = j
      BY <3>1, <3>2, <3>3 DEF TaughtAndToldOnce, InTurns, TypeOK
    <3>8. \A i \in DOMAIN told' : \E j \in DOMAIN turns' : turns'[j] = told'[i]
      <4>1. ASSUME NEW i \in DOMAIN told
            PROVE  \E j \in DOMAIN turns' : turns'[j] = told[i]
        BY <3>2, <4>1, <2>2, <3>5 DEF TaughtAndToldOnce, InTurns, TypeOK
      <4> QED
        BY <3>2, <4>1
    <3>9. TaughtAndToldOnce'
      BY <3>2, <3>7, <3>8 DEF TaughtAndToldOnce
    <3> QED
      BY <3>6, <3>9
  \* What arrives otherwise: to the server or not, it does not teach.
  <2>8. ASSUME NEW t \in Task, \/ Serve(t) /\ Kind(t) # "finalize"
                               \/ Refuse(t)
                               \/ Lose(t)
        PROVE  IInv'
    <3>1. /\ UNCHANGED <<turns, told>>
          /\ t \in wire
          /\ wire' = wire \ {t}
          /\ task[t] # "idle"
          /\ \A w \in Task \ {t} : task'[w] = task[w]
          /\ \/ task'[t] = task[t]
             \/ task[t] = "asking" /\ Kind(t) = "finalize" /\ task'[t] = "failed"
             \/ task[t] = "asking" /\ Kind(t) # "finalize" /\ task'[t] # "idle"
      <4>1. t \in wire
        BY <2>8 DEF Serve, Refuse, Lose, Arrives
      <4>2. task[t] # "idle"
        BY <4>1 DEF Progress
      <4>3. CASE Serve(t) /\ Kind(t) # "finalize"
        BY <4>1, <4>2, <4>3 DEF Serve, Arrives, TypeOK
      <4>4. CASE Refuse(t)
        BY <4>1, <4>2, <4>4 DEF Refuse, Arrives, TypeOK, server
      <4>5. CASE Lose(t)
        BY <4>1, <4>2, <4>5 DEF Lose, server
      <4> QED
        BY <2>8, <4>3, <4>4, <4>5
    <3>2. \A u \in Uttered : InTurns(u)' = InTurns(u) /\ InTold(u)' = InTold(u)
      BY <3>1 DEF InTurns, InTold
    <3>3. Progress'
      <4>1. \A w \in wire' : task'[w] # "idle"
        BY <3>1 DEF Progress, TypeOK
      <4>2. ASSUME NEW v \in Uttered
            PROVE  /\ InTurns(v)' => Fin(v) \notin wire' /\ task'[Fin(v)] # "idle"
                   /\ task'[Fin(v)] \in {"answered", "telling"} => InTurns(v)'
                   /\ InTold(v)' => InTurns(v)' /\ task'[Fin(v)] \in {"telling", "done"}
        <5>1. Fin(v) \in Task /\ Kind(Fin(v)) = "finalize"
          BY TaskShape
        <5>2. \/ task'[Fin(v)] = task[Fin(v)]
              \/ task[Fin(v)] = "asking" /\ task'[Fin(v)] = "failed"
          BY <5>1, <3>1
        <5>3. Fin(v) \in wire' => Fin(v) \in wire
          BY <3>1
        <5> QED
          BY <5>2, <5>3, <3>2 DEF Progress
      <4> QED
        BY <4>1, <4>2 DEF Progress
    <3> QED
      BY <2>3, <3>1, <3>3
  <2>9. CASE UNCHANGED <<task, wire, told, shut, owned, live, turns, late>>
    BY <2>9 DEF Progress, TaughtAndToldOnce, InTurns, InTold
  <2> QED
    BY <2>4, <2>5, <2>6, <2>7, <2>8, <2>9, Steps
<1> QED
  BY <1>1, <1>2, TypeCorrect, PTL DEF Spec

-----------------------------------------------------------------------------
(* A closed session stays gone. *)

\* What the close relies on while nothing was given up or awaited beside it.
CloseOrderly ==
  /\ task[Close] \in {"idle", "asking", "answered", "done"}
  /\ shut => task[Close] = "done"
  /\ ~late =>
       /\ \A t \in wire : task[t] = "asking"
       /\ task[Close] # "idle" => \A t \in Task \ {Close} : task[t] # "asking"
       /\ task[Close] \in {"answered", "done"} => ~live

\* A session whose close is over does not come back, if no request was given
\* up or awaited beside the close (retriever.py:90).
THEOREM ClosedStaysGoneAlways == Spec => []ClosedStaysGone
<1> USE LiveKitAssumption
<1>1. Init => CloseOrderly
  BY TaskShape DEF Init, CloseOrderly
<1>2. CloseOrderly /\ TypeOK /\ [Next]_vars => CloseOrderly'
  <2> SUFFICES ASSUME CloseOrderly, TypeOK, [Next]_vars
               PROVE  CloseOrderly'
    OBVIOUS
  <2>1. Close \in Task /\ Kind(Close) = "close" /\ \A t \in Task : Kind(t) = "close" => t = Close
    BY TaskShape
  <2>2. ASSUME NEW t \in Task, StartStep(t)
        PROVE  CloseOrderly'
    <3>1. Close \notin Short
      BY <2>1, TaskShape DEF Observes, Finalizes, Kind
    <3>2. CASE t \in Short \/ shut
      BY <2>1, <2>2, <3>1, <3>2 DEF StartStep, Start, Move, CloseOrderly, TypeOK
    <3>3. CASE ~(t \in Short \/ shut)
      <4>1. /\ task[t] = "idle"
            /\ task' = [task EXCEPT ![t] = "asking"]
            /\ wire' = wire \cup {t}
            /\ late' = (late \/ task[Close] # "idle"
                          \/ (t = Close /\ \E u \in Task : task[u] = "asking"))
            /\ UNCHANGED <<shut, live>>
        BY <2>2, <3>3 DEF StartStep, Start, Move
      <4>2. CASE t = Close
        <5>1. task'[Close] = "asking" /\ \A u \in Task \ {Close} : task'[u] = task[u]
          BY <2>1, <4>1, <4>2 DEF TypeOK
        <5>2. ~shut'
          BY <4>1, <4>2 DEF CloseOrderly
        <5>3. ~late' => ~late /\ \A u \in Task : task[u] # "asking"
          BY <4>1, <4>2
        <5>4. ~late' => wire = {}
          BY <5>3 DEF CloseOrderly, TypeOK
        <5>5. ~late' => \A w \in wire' : task'[w] = "asking"
          BY <4>1, <4>2, <5>1, <5>4
        <5>6. ~late' => \A u \in Task \ {Close} : task'[u] # "asking"
          BY <5>1, <5>3
        <5> QED
          BY <5>1, <5>2, <5>5, <5>6 DEF CloseOrderly
      <4>3. CASE t # Close
        BY <2>1, <4>1, <4>3 DEF CloseOrderly, TypeOK
      <4> QED
        BY <4>2, <4>3
    <3> QED
      BY <3>2, <3>3
  <2>3. ASSUME NEW t \in Task, GiveUp(t)
        PROVE  CloseOrderly'
    BY <2>1, <2>3 DEF GiveUp, Move, Leaves, CloseOrderly, TypeOK
  <2>4. ASSUME NEW t \in Task, Tell(t) \/ Told(t)
        PROVE  CloseOrderly'
    <3>1. t # Close
      BY <2>1, <2>4 DEF Tell, Told, Move, CloseOrderly
    <3> QED
      BY <2>1, <2>4, <3>1 DEF Tell, Told, Move, CloseOrderly, TypeOK, server
  <2>5. ASSUME NEW t \in Task, Return(t)
        PROVE  CloseOrderly'
    BY <2>1, <2>5 DEF Return, Move, Leaves, CloseOrderly, TypeOK, server
  <2>6. ASSUME NEW t \in Task, Serve(t)
        PROVE  CloseOrderly'
    <3>1. /\ t \in wire
          /\ wire' = wire \ {t}
          /\ UNCHANGED <<shut, late>>
          /\ live' = (t # Close)
          /\ \/ task' = [task EXCEPT ![t] = IF @ = "asking" THEN "answered" ELSE @]
             \/ task' = [task EXCEPT ![t] = IF @ = "asking" THEN "asking" ELSE @]
      BY <2>6 DEF Serve, Arrives
    <3>2. CASE t = Close
      BY <2>1, <3>1, <3>2 DEF CloseOrderly, TypeOK
    <3>3. CASE t # Close
      BY <2>1, <3>1, <3>3 DEF CloseOrderly, TypeOK
    <3> QED
      BY <3>2, <3>3
  <2>7. ASSUME NEW t \in Task, Refuse(t) \/ Lose(t)
        PROVE  CloseOrderly'
    <3>1. CASE Refuse(t)
      <4>1. t # Close
        BY <2>1, <3>1 DEF Refuse
      <4> QED
        BY <2>1, <3>1, <4>1 DEF Refuse, Arrives, CloseOrderly, TypeOK, server
    <3>2. CASE Lose(t)
      BY <2>1, <3>2 DEF Lose, CloseOrderly, TypeOK, server
    <3> QED
      BY <2>7, <3>1, <3>2
  <2>8. CASE UNCHANGED <<task, wire, told, shut, owned, live, turns, late>>
    BY <2>8 DEF CloseOrderly
  <2> QED
    BY <2>2, <2>3, <2>4, <2>5, <2>6, <2>7, <2>8, Steps
<1>3. CloseOrderly => ClosedStaysGone
  BY DEF CloseOrderly, ClosedStaysGone
<1> QED
  BY <1>1, <1>2, <1>3, TypeCorrect, PTL DEF Spec

=============================================================================
