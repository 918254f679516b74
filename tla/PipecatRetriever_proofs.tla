----------------------- MODULE PipecatRetriever_proofs -----------------------
(***************************************************************************)
(* Theorems about the Pipecat client, for any number of utterances and     *)
(* partials, any way of the bot's frames, and any behaviour of the network *)
(* and the server.                                                         *)
(***************************************************************************)
EXTENDS PipecatRetriever, TLAPS

\* A frame is a transcript of some utterance or the bot's, and no reset.
LEMMA FrameFacts ==
  ASSUME NEW f \in Frame
  PROVE  /\ f.utt \in Uttered
         /\ f.kind \in {"interim", "final", "bot"}
         /\ f.kind = "final" => f \in Transcript
         /\ f # Reset
         /\ f # NoFrame
<1>1. /\ f.utt \in Uttered
      /\ f.kind \in {"interim", "final", "bot"}
      /\ f.kind = "final" => f \in Transcript
  <2>1. CASE f \in Transcript
    BY <2>1 DEF Transcript
  <2>2. CASE f \in BotFrame
    BY <2>2 DEF BotFrame
  <2> QED
    BY <2>1, <2>2 DEF Frame
<1>2. Reset.kind = "reset"
  BY DEF Reset
<1> QED
  BY <1>1, <1>2, ClientAssumption DEF Request

\* Types are kept, and a frame is awaited only in the phase for it.
THEOREM TypeCorrect == Spec => []TypeOK
<1>1. Init => TypeOK
  <2> SUFFICES ASSUME Init
               PROVE  TypeOK
    OBVIOUS
  <2>1. spoken \in [utt : 1..(Utterances + 1), n : 0..Partials]
    BY ClientAssumption DEF Init
  <2>2. inbox \in Seq(Frame) /\ turns \in Seq(Uttered)
        /\ pushed \in Seq(Frame \cup {Context(f) : f \in Transcript})
    BY DEF Init
  <2> QED
    BY <2>1, <2>2, ClientAssumption DEF Init, TypeOK, Awaiting, Request
<1>2. TypeOK /\ [Next]_vars => TypeOK'
  <2> SUFFICES ASSUME TypeOK, [Next]_vars
               PROVE  TypeOK'
    OBVIOUS
  <2> USE ClientAssumption
  <2>1. ASSUME NEW f \in Frame, Arrive(f)
        PROVE  inbox' \in Seq(Frame)
    BY <2>1 DEF Arrive, TypeOK
  <2>2. ASSUME NEW kind \in {"interim", "final"}, NEW short \in BOOLEAN, Speak(kind, short)
        PROVE  TypeOK'
    <3> DEFINE f == [kind |-> kind, utt |-> spoken.utt, n |-> spoken'.n, short |-> short,
                     dir |-> "down"]
    <3>1. spoken.utt \in Uttered /\ spoken.n \in 0..Partials /\ spoken.utt \in Nat
      BY <2>2 DEF Speak, TypeOK, Uttered
    <3>2. spoken' \in [utt : 1..(Utterances + 1), n : 0..Partials]
      <4>1. CASE kind = "interim"
        BY <2>2, <3>1, <4>1 DEF Speak, TypeOK
      <4>2. CASE kind = "final"
        BY <2>2, <3>1, <4>2 DEF Speak, TypeOK, Uttered
      <4> QED
        BY <4>1, <4>2
    <3>3. f \in Frame
      BY <3>1, <3>2 DEF Frame, Transcript
    <3>4. Arrive(f) /\ UNCHANGED botSpoke
      BY <2>2 DEF Speak
    <3> HIDE DEF f
    <3>5. inbox' \in Seq(Frame)
      BY <3>3, <3>4, <2>1
    <3> QED
      BY <3>2, <3>4, <3>5 DEF Arrive, TypeOK, Awaiting
  <2>3. ASSUME NEW u \in Uttered, NEW dir \in BotDirections, BotSpeaks(u, dir)
        PROVE  TypeOK'
    <3> DEFINE f == [kind |-> "bot", utt |-> u, n |-> 0, short |-> FALSE, dir |-> dir]
    <3>1. f \in Frame
      BY DEF Frame, BotFrame
    <3>2. Arrive(f) /\ UNCHANGED spoken /\ botSpoke' = botSpoke \cup {u}
      BY <2>3 DEF BotSpeaks
    <3> HIDE DEF f
    <3>3. inbox' \in Seq(Frame)
      BY <3>1, <3>2, <2>1
    <3> QED
      BY <3>2, <3>3 DEF Arrive, TypeOK, Awaiting
  <2>4. ASSUME Ready
        PROVE  Head(inbox) \in Frame /\ Tail(inbox) \in Seq(Frame)
    BY <2>4 DEF Ready, TypeOK
  <2>5. CASE Pass
    <3>1. Head(inbox) \in Frame /\ inbox' \in Seq(Frame)
      BY <2>4, <2>5 DEF Pass
    <3>2. pushed' \in Seq(Frame \cup {Context(f) : f \in Transcript})
      BY <2>5, <3>1 DEF Pass, TypeOK
    <3> QED
      BY <2>5, <3>1, <3>2 DEF Pass, TypeOK, Awaiting, source
  <2>6. CASE Call
    <3>1. Head(inbox) \in Frame /\ inbox' \in Seq(Frame) /\ Head(inbox) # Reset
      BY <2>4, <2>6, FrameFacts DEF Call
    <3> QED
      BY <2>6, <3>1 DEF Call, Ready, TypeOK, Awaiting, Request, source
  <2>7. ASSUME phase = "running", Awaiting, NEW found
        PROVE  /\ current \in Frame
               /\ Outcome(found) \in Seq(Frame \cup {Context(f) : f \in Transcript})
    <3>1. current \in Frame
      BY <2>7 DEF TypeOK, Awaiting, Request
    <3>2. current.kind = "final" =>
            Context(current) \in Frame \cup {Context(f) : f \in Transcript}
      BY <3>1, FrameFacts
    <3> DEFINE context == Context(current)
               Pushable == Frame \cup {Context(f) : f \in Transcript}
    <3>3. current.kind = "final" => context \in Pushable
      BY <3>2
    <3>4. current \in Pushable
      BY <3>1
    <3>5. CASE current.kind = "final" /\ found = "hits"
      <4>1. Outcome(found) = <<context, current>>
        BY <3>5 DEF Outcome
      <4> HIDE DEF context, Pushable
      <4>2. <<context, current>> \in Seq(Pushable)
        BY <3>3, <3>4, <3>5
      <4> QED
        BY <3>1, <4>1, <4>2 DEF Pushable
    <3>6. CASE ~(current.kind = "final" /\ found = "hits")
      <4>1. Outcome(found) = <<current>>
        BY <3>6 DEF Outcome
      <4> HIDE DEF context, Pushable
      <4> QED
        BY <3>1, <3>4, <4>1 DEF Pushable
    <3> QED
      BY <3>5, <3>6
  <2>8. CASE Return
    <3>1. phase = "running" /\ Awaiting
      BY <2>8 DEF Return, TypeOK
    <3>2. pushed' \in Seq(Frame \cup {Context(f) : f \in Transcript})
      BY <2>7, <2>8, <3>1 DEF Return, TypeOK
    <3>3. answered' \subseteq Uttered
      BY <2>7, <2>8, <3>1, FrameFacts DEF Return, TypeOK
    <3>4. /\ UNCHANGED <<source, inbox, sent, phase, owned, live, turns, abandoned, wasReset>>
          /\ current' = NoFrame /\ reply' = "none"
      BY <2>8 DEF Return
    <3> QED
      BY <3>1, <3>2, <3>3, <3>4 DEF TypeOK, Awaiting, source, Request
  <2>9. CASE GiveUp
    <3>1. phase = "running" /\ Awaiting
      BY <2>9 DEF GiveUp
    <3>2. pushed' \in Seq(Frame \cup {Context(f) : f \in Transcript})
      BY <2>7, <2>9, <3>1 DEF GiveUp, TypeOK
    <3> QED
      BY <2>9, <3>1, <3>2 DEF GiveUp, TypeOK, Awaiting, source, Request
  <2>10. CASE Cleanup
    <3>1. /\ inbox' = <<>> /\ reply' = "none" /\ abandoned' \in BOOLEAN
          /\ UNCHANGED <<source, pushed, owned, live, turns, answered, wasReset>>
      BY <2>10 DEF Cleanup, TypeOK
    <3>2. \/ phase' = "closing" /\ current' = Reset /\ sent' = sent \cup {Reset}
          \/ phase' = "closed" /\ current' = NoFrame /\ sent' = sent
      BY <2>10 DEF Cleanup
    <3>3. inbox' \in Seq(Frame)
      BY <3>1
    <3> QED
      BY <3>1, <3>2, <3>3 DEF TypeOK, Awaiting, source, Request
  <2>11. ASSUME NEW inTime \in BOOLEAN, Close(inTime)
         PROVE  TypeOK'
    BY <2>11 DEF Close, TypeOK, Awaiting, source, Request
  <2>12. ASSUME NEW f \in sent, NEW found \in {"hits", "nohits"}, Serve(f, found)
         PROVE  TypeOK'
    <3>1. f \in Request
      BY DEF TypeOK
    <3>2. turns' \in Seq(Uttered)
      <4>1. CASE f.kind = "final"
        <5>1. f.utt \in Uttered
          BY <3>1, <4>1, FrameFacts DEF Request, Reset
        <5> QED
          BY <2>12, <4>1, <5>1 DEF Serve, TypeOK
      <4>2. CASE f.kind # "final"
        BY <2>12, <4>2 DEF Serve, TypeOK
      <4> QED
        BY <4>1, <4>2
    <3>3. live' \in BOOLEAN
      BY <2>12 DEF Serve
    <3>4. reply' \in {"none", "hits", "nohits", "error"} /\ (reply' # "none" => Awaiting)
      BY <2>12, <3>1 DEF Serve, Answer, TypeOK, Awaiting
    <3> QED
      BY <2>12, <3>2, <3>3, <3>4 DEF Serve, TypeOK, Awaiting, source, Request
  <2>13. ASSUME NEW f \in sent, Refuse(f)
         PROVE  TypeOK'
    <3>1. f \in Request
      BY DEF TypeOK
    <3>2. reply' \in {"none", "hits", "nohits", "error"} /\ (reply' # "none" => Awaiting)
      BY <2>13, <3>1 DEF Refuse, Answer, TypeOK, Awaiting
    <3> QED
      BY <2>13, <3>2 DEF Refuse, TypeOK, Awaiting, source, Request
  <2>14. ASSUME NEW f \in sent, Lose(f)
         PROVE  TypeOK'
    BY <2>14 DEF Lose, TypeOK, Awaiting, source, Request
  <2>15. CASE UNCHANGED vars
    BY <2>15 DEF vars, source, TypeOK, Awaiting
  <2> QED
    BY <2>2, <2>3, <2>5, <2>6, <2>8, <2>9, <2>10, <2>11, <2>12, <2>13, <2>14, <2>15 DEF Next
<1> QED
  BY <1>1, <1>2, PTL DEF Spec

-----------------------------------------------------------------------------
(* At most once. *)

\* Where the final transcript of an utterance may be: in the inbox, or on its
\* way to the server, or finalized, and once only.
Waiting(u) == \E i \in 1..Len(inbox) : inbox[i].kind = "final" /\ inbox[i].utt = u

InboxOnce ==
  /\ \A i \in 1..Len(inbox) : inbox[i].kind = "final" => inbox[i].utt < spoken.utt
  /\ \A i, j \in 1..Len(inbox) :
       (/\ inbox[i].kind = "final" /\ inbox[j].kind = "final"
        /\ inbox[i].utt = inbox[j].utt) => i = j

SentOnce ==
  /\ \A f \in sent : f.kind = "final" =>
       /\ f.utt < spoken.utt
       /\ ~Waiting(f.utt)
       /\ \A t \in 1..Len(turns) : turns[t] # f.utt
  /\ \A f, g \in sent : (f.kind = "final" /\ g.kind = "final" /\ f.utt = g.utt) => f = g

TurnsOnce ==
  /\ \A t \in 1..Len(turns) : turns[t] < spoken.utt /\ ~Waiting(turns[t])
  /\ \A t, v \in 1..Len(turns) : turns[t] = turns[v] => t = v

\* What appending and taking do to the inbox.
LEMMA InboxAppended ==
  ASSUME TypeOK, NEW f \in Frame, inbox' = Append(inbox, f)
  PROVE  /\ Len(inbox') = Len(inbox) + 1
         /\ \A i \in 1..Len(inbox) : inbox'[i] = inbox[i]
         /\ inbox'[Len(inbox')] = f
         /\ \A i \in 1..Len(inbox') : i = Len(inbox') \/ i \in 1..Len(inbox)
BY DEF TypeOK

LEMMA InboxTaken ==
  ASSUME TypeOK, Ready, inbox' = Tail(inbox)
  PROVE  /\ 1 \in 1..Len(inbox) /\ Head(inbox) = inbox[1] /\ inbox[1] \in Frame
         /\ \A i \in 1..Len(inbox') : i + 1 \in 1..Len(inbox) /\ inbox'[i] = inbox[i + 1]
         /\ \A i \in 1..Len(inbox') : i \in Nat /\ i + 1 # 1
BY DEF TypeOK, Ready

\* Steps that neither speak nor take from the inbox, nor ask or finalize, keep
\* every transcript where it is, or lose it.
LEMMA OnceKept ==
  ASSUME TypeOK, InboxOnce, SentOnce, TurnsOnce,
         spoken' = spoken, turns' = turns,
         inbox' = inbox \/ inbox' = <<>>,
         sent' \subseteq sent \cup {Reset}
  PROVE  InboxOnce' /\ SentOnce' /\ TurnsOnce'
<1>1. \A u : Waiting(u)' => Waiting(u)
  <2>1. CASE inbox' = inbox
    BY <2>1 DEF Waiting
  <2>2. CASE inbox' = <<>>
    <3>1. Len(inbox') = 0
      BY <2>2
    <3> QED
      BY <3>1 DEF Waiting
  <2> QED
    BY <2>1, <2>2
<1>2. InboxOnce'
  <2>1. CASE inbox' = inbox
    BY <2>1 DEF InboxOnce
  <2>2. CASE inbox' = <<>>
    <3>1. Len(inbox') = 0
      BY <2>2
    <3> QED
      BY <3>1 DEF InboxOnce
  <2> QED
    BY <2>1, <2>2
<1>3. Reset.kind # "final"
  BY DEF Reset
<1>4. SentOnce'
  BY <1>1, <1>3 DEF SentOnce
<1>5. TurnsOnce'
  BY <1>1 DEF TurnsOnce
<1> QED
  BY <1>2, <1>4, <1>5

\* A final transcript is in one place, and there once.
THEOREM InOnePlace == Spec => [](InboxOnce /\ SentOnce /\ TurnsOnce)
<1> DEFINE IInv == InboxOnce /\ SentOnce /\ TurnsOnce
<1>1. Init => IInv
  <2> SUFFICES ASSUME Init
               PROVE  IInv
    OBVIOUS
  <2>1. Len(inbox) = 0 /\ Len(turns) = 0 /\ sent = {}
    BY DEF Init
  <2> QED
    BY <2>1 DEF InboxOnce, SentOnce, TurnsOnce
<1>2. IInv /\ TypeOK /\ [Next]_vars => IInv'
  <2> SUFFICES ASSUME InboxOnce, SentOnce, TurnsOnce, TypeOK, [Next]_vars
               PROVE  InboxOnce' /\ SentOnce' /\ TurnsOnce'
    OBVIOUS
  <2>0. /\ spoken.utt \in Nat
        /\ \A t \in 1..Len(turns) : turns[t] \in Nat
        /\ \A i \in 1..Len(inbox) : inbox[i].utt \in Nat
        /\ \A f \in sent : f.kind = "final" => f.utt \in Nat
    <3>1. \A f \in sent : f.kind = "final" => f.utt \in Nat
      BY FrameFacts DEF TypeOK, Request, Reset, Uttered
    <3>2. \A i \in 1..Len(inbox) : inbox[i].utt \in Nat
      BY FrameFacts DEF TypeOK, Uttered
    <3> QED
      BY <3>1, <3>2, ClientAssumption DEF TypeOK, Uttered
  <2>1. ASSUME NEW f \in Frame, inbox' = Append(inbox, f), UNCHANGED <<sent, turns>>,
               \/ f.kind # "final" /\ spoken'.utt = spoken.utt
               \/ f.utt = spoken.utt /\ spoken'.utt = spoken.utt + 1
        PROVE  InboxOnce' /\ SentOnce' /\ TurnsOnce'
    <3>1. /\ Len(inbox') = Len(inbox) + 1
          /\ \A i \in 1..Len(inbox) : inbox'[i] = inbox[i]
          /\ inbox'[Len(inbox')] = f
          /\ \A i \in 1..Len(inbox') : i = Len(inbox') \/ i \in 1..Len(inbox)
      BY <2>1, InboxAppended
    <3>2. \A u \in Nat : u < spoken.utt /\ Waiting(u)' => Waiting(u)
      BY <2>0, <2>1, <3>1 DEF Waiting
    <3>3. \A i \in 1..Len(inbox') : inbox'[i].kind = "final" => inbox'[i].utt < spoken'.utt
      BY <2>0, <2>1, <3>1 DEF InboxOnce
    <3>4. \A i, j \in 1..Len(inbox') :
            (/\ inbox'[i].kind = "final" /\ inbox'[j].kind = "final"
             /\ inbox'[i].utt = inbox'[j].utt) => i = j
      BY <2>0, <2>1, <3>1 DEF InboxOnce
    <3>5. SentOnce'
      BY <2>0, <2>1, <3>2 DEF SentOnce
    <3>6. TurnsOnce'
      BY <2>0, <2>1, <3>2 DEF TurnsOnce
    <3> QED
      BY <3>3, <3>4, <3>5, <3>6 DEF InboxOnce
  <2>2. ASSUME NEW kind \in {"interim", "final"}, NEW short \in BOOLEAN, Speak(kind, short)
        PROVE  InboxOnce' /\ SentOnce' /\ TurnsOnce'
    <3> DEFINE f == [kind |-> kind, utt |-> spoken.utt, n |-> spoken'.n, short |-> short,
                     dir |-> "down"]
    <3>1. spoken.utt \in Uttered /\ spoken.n \in 0..Partials
      BY <2>0, <2>2, ClientAssumption DEF Speak, TypeOK, Uttered
    <3>2. spoken'.n \in 0..Partials
      BY <2>2, <3>1, ClientAssumption DEF Speak, TypeOK
    <3>3. f \in Frame
      BY <3>1, <3>2 DEF Frame, Transcript
    <3>4. f.kind = kind /\ f.utt = spoken.utt
      OBVIOUS
    <3>5. inbox' = Append(inbox, f) /\ UNCHANGED <<sent, turns>>
      BY <2>2 DEF Speak, Arrive
    <3>6. IF kind = "interim" THEN spoken'.utt = spoken.utt ELSE spoken'.utt = spoken.utt + 1
      BY <2>2 DEF Speak, TypeOK
    <3> HIDE DEF f
    <3> QED
      BY <2>1, <3>3, <3>4, <3>5, <3>6
  <2>3. ASSUME NEW u \in Uttered, NEW dir \in BotDirections, BotSpeaks(u, dir)
        PROVE  InboxOnce' /\ SentOnce' /\ TurnsOnce'
    <3> DEFINE f == [kind |-> "bot", utt |-> u, n |-> 0, short |-> FALSE, dir |-> dir]
    <3>1. f \in Frame
      BY ClientAssumption DEF Frame, BotFrame
    <3>2. f.kind # "final"
      OBVIOUS
    <3>3. inbox' = Append(inbox, f) /\ UNCHANGED <<sent, turns, spoken>>
      BY <2>3 DEF BotSpeaks, Arrive
    <3> HIDE DEF f
    <3> QED
      BY <2>1, <3>1, <3>2, <3>3
  <2>4. ASSUME Ready, inbox' = Tail(inbox), UNCHANGED <<spoken, turns>>,
               sent' = sent \/ sent' = sent \cup {Head(inbox)}
        PROVE  InboxOnce' /\ SentOnce' /\ TurnsOnce'
    <3>1. /\ 1 \in 1..Len(inbox) /\ Head(inbox) = inbox[1] /\ inbox[1] \in Frame
          /\ \A i \in 1..Len(inbox') : i + 1 \in 1..Len(inbox) /\ inbox'[i] = inbox[i + 1]
          /\ \A i \in 1..Len(inbox') : i \in Nat /\ i + 1 # 1
      BY <2>4, InboxTaken
    <3>2. \A u : Waiting(u)' => Waiting(u)
      BY <3>1 DEF Waiting
    <3>3. InboxOnce'
      <4>1. \A i \in 1..Len(inbox') : inbox'[i].kind = "final" => inbox'[i].utt < spoken'.utt
        BY <2>4, <3>1 DEF InboxOnce
      <4>2. ASSUME NEW i \in 1..Len(inbox'), NEW j \in 1..Len(inbox'),
                   inbox'[i].kind = "final", inbox'[j].kind = "final",
                   inbox'[i].utt = inbox'[j].utt
            PROVE  i = j
        <5>1. i + 1 = j + 1
          BY <3>1, <4>2 DEF InboxOnce
        <5>2. i \in Nat /\ j \in Nat
          BY <3>1
        <5> QED
          BY <5>1, <5>2
      <4> QED
        BY <4>1, <4>2 DEF InboxOnce
    <3>4. TurnsOnce'
      BY <2>4, <3>2 DEF TurnsOnce
    <3>5. CASE sent' = sent
      BY <2>4, <3>2, <3>3, <3>4, <3>5 DEF SentOnce
    <3>6. CASE sent' = sent \cup {Head(inbox)} /\ inbox[1].kind = "final"
      <4>0. PICK f \in Frame : f = inbox[1]
        BY <3>1
      <4>1. Waiting(f.utt) /\ f.utt < spoken.utt
        BY <3>1, <3>6, <4>0 DEF Waiting, InboxOnce
      <4>2. \A i \in 1..Len(inbox') : ~(inbox'[i].kind = "final" /\ inbox'[i].utt = f.utt)
        <5> SUFFICES ASSUME NEW i \in 1..Len(inbox'), inbox'[i].kind = "final",
                            inbox'[i].utt = f.utt
                     PROVE  FALSE
          OBVIOUS
        <5>1. i + 1 = 1
          BY <3>1, <3>6, <4>0 DEF InboxOnce
        <5> QED
          BY <3>1, <5>1
      <4>3. \A t \in 1..Len(turns) : turns[t] # f.utt
        BY <4>1 DEF TurnsOnce
      <4>4. \A g \in sent : g.kind = "final" => g.utt # f.utt
        BY <4>1 DEF SentOnce
      <4>5. sent' = sent \cup {f}
        BY <3>1, <3>6, <4>0
      <4>6. \A g \in sent' : g.kind = "final" =>
              /\ g.utt < spoken'.utt
              /\ ~Waiting(g.utt)'
              /\ \A t \in 1..Len(turns') : turns'[t] # g.utt
        <5>1. ASSUME NEW g \in sent, g.kind = "final"
              PROVE  /\ g.utt < spoken'.utt
                     /\ ~Waiting(g.utt)'
                     /\ \A t \in 1..Len(turns') : turns'[t] # g.utt
          BY <2>4, <3>2, <5>1 DEF SentOnce
        <5>2. /\ f.utt < spoken'.utt
              /\ ~Waiting(f.utt)'
              /\ \A t \in 1..Len(turns') : turns'[t] # f.utt
          BY <2>4, <4>1, <4>2, <4>3 DEF Waiting
        <5> QED
          BY <4>5, <5>1, <5>2
      <4>7. \A g, h \in sent' :
              (g.kind = "final" /\ h.kind = "final" /\ g.utt = h.utt) => g = h
        BY <4>4, <4>5 DEF SentOnce
      <4>8. SentOnce'
        BY <4>6, <4>7 DEF SentOnce
      <4> QED
        BY <3>3, <3>4, <4>8
    <3>7. CASE sent' = sent \cup {Head(inbox)} /\ inbox[1].kind # "final"
      BY <2>4, <3>1, <3>2, <3>3, <3>4, <3>7 DEF SentOnce
    <3> QED
      BY <2>4, <3>5, <3>6, <3>7
  <2>5. CASE Pass \/ Call
    BY <2>4, <2>5 DEF Pass, Call, source
  <2>6. CASE Return \/ GiveUp \/ Cleanup \/ \E inTime \in BOOLEAN : Close(inTime)
    <3>1. spoken' = spoken /\ turns' = turns /\ (inbox' = inbox \/ inbox' = <<>>)
          /\ sent' \subseteq sent \cup {Reset}
      BY <2>6 DEF Return, GiveUp, Cleanup, Close, source
    <3> QED
      BY <3>1, OnceKept
  <2>7. ASSUME NEW f \in sent, NEW found \in {"hits", "nohits"}, Serve(f, found)
        PROVE  InboxOnce' /\ SentOnce' /\ TurnsOnce'
    <3>1. UNCHANGED <<spoken, inbox>> /\ sent' = sent \ {f}
      BY <2>7 DEF Serve, source
    <3>2. InboxOnce'
      BY <3>1 DEF InboxOnce
    <3>3. CASE f.kind # "final"
      <4>1. turns' = turns
        BY <2>7, <3>3 DEF Serve
      <4> QED
        BY <3>1, <4>1, OnceKept
    <3>4. CASE f.kind = "final"
      <4>1. f.utt < spoken.utt /\ ~Waiting(f.utt) /\ \A t \in 1..Len(turns) : turns[t] # f.utt
        BY <3>4 DEF SentOnce
      <4>2. turns' = Append(turns, f.utt)
        BY <2>7, <3>4 DEF Serve
      <4>3. /\ Len(turns') = Len(turns) + 1
            /\ turns'[Len(turns')] = f.utt
            /\ \A t \in 1..Len(turns') :
                 t = Len(turns') \/ (t \in 1..Len(turns) /\ turns'[t] = turns[t])
        BY <4>2 DEF TypeOK
      <4>4. \A g \in sent' : g.kind = "final" => g.utt # f.utt
        BY <3>1, <3>4 DEF SentOnce
      <4>5. SentOnce'
        BY <3>1, <4>3, <4>4 DEF SentOnce, Waiting
      <4>6. TurnsOnce'
        BY <3>1, <4>1, <4>3 DEF TurnsOnce, Waiting
      <4> QED
        BY <3>2, <4>5, <4>6
    <3> QED
      BY <3>3, <3>4
  <2>8. ASSUME NEW f \in sent, Refuse(f) \/ Lose(f)
        PROVE  InboxOnce' /\ SentOnce' /\ TurnsOnce'
    BY <2>8, OnceKept DEF Refuse, Lose, source
  <2>9. CASE UNCHANGED vars
    BY <2>9, OnceKept DEF vars, source
  <2> QED
    BY <2>2, <2>3, <2>5, <2>6, <2>7, <2>8, <2>9 DEF Next
<1> QED
  BY <1>1, <1>2, TypeCorrect, PTL DEF Spec

\* No utterance is finalized twice, whatever times out, is lost or comes late
\* (retriever.py, the request of process_frame).
THEOREM FinalizedAtMostOnce == Spec => []FinalizedOnce
<1>1. InboxOnce /\ SentOnce /\ TurnsOnce /\ TypeOK => FinalizedOnce
  BY DEF TurnsOnce, FinalizedOnce, TypeOK
<1> QED
  BY <1>1, TypeCorrect, InOnePlace, PTL

-----------------------------------------------------------------------------
(* In order.  Transcripts wait in the order they were spoken in; the one   *)
(* whose answer is awaited comes after those answered, and once the server *)
(* has finalized it in time, it did so after them.                         *)

AwaitsFinal == Awaiting /\ current.kind = "final"

WaitInOrder ==
  /\ \A i, j \in 1..Len(inbox) :
       (inbox[i].kind = "final" /\ inbox[j].kind = "final" /\ i < j) => inbox[i].utt < inbox[j].utt
  /\ AwaitsFinal =>
       /\ current.utt < spoken.utt
       /\ \A i \in 1..Len(inbox) : inbox[i].kind = "final" => current.utt < inbox[i].utt

AnsweredBefore ==
  \A u \in answered :
    /\ \E t \in 1..Len(turns) : turns[t] = u
    /\ \A i \in 1..Len(inbox) : inbox[i].kind = "final" => u < inbox[i].utt
    /\ AwaitsFinal => u < current.utt

FinalizedAfter ==
  (AwaitsFinal /\ reply \in {"hits", "nohits"}) =>
    \E t \in 1..Len(turns) :
      /\ turns[t] = current.utt
      /\ \A i \in 1..Len(turns) : turns[i] \in answered => i < t

AnsweredSorted ==
  \A i, j \in 1..Len(turns) :
    (i < j /\ turns[i] \in answered /\ turns[j] \in answered) => turns[i] < turns[j]

OrderInv == WaitInOrder /\ AnsweredBefore /\ FinalizedAfter /\ AnsweredSorted

Once == InboxOnce /\ SentOnce /\ TurnsOnce

LEMMA Numbers ==
  ASSUME TypeOK
  PROVE  /\ spoken.utt \in Nat
         /\ answered \subseteq Nat
         /\ Len(turns) \in Nat
         /\ Len(inbox) \in Nat
         /\ \A t \in 1..Len(turns) : turns[t] \in Nat
         /\ \A i \in 1..Len(inbox) : inbox[i] \in Frame /\ inbox[i].utt \in Nat
         /\ AwaitsFinal => current.utt \in Nat
<1>1. \A i \in 1..Len(inbox) : inbox[i] \in Frame /\ inbox[i].utt \in Nat
  BY FrameFacts DEF TypeOK, Uttered
<1>2. AwaitsFinal => current.utt \in Nat
  BY FrameFacts DEF AwaitsFinal, Awaiting, TypeOK, Request, Reset, Uttered
<1> QED
  BY <1>1, <1>2, ClientAssumption DEF TypeOK, Uttered

\* Steps that neither speak nor take from the inbox, nor finalize or answer.
LEMMA OrderKept ==
  ASSUME TypeOK, OrderInv,
         UNCHANGED <<spoken, turns, answered>>,
         inbox' = inbox \/ inbox' = <<>>,
         \/ ~AwaitsFinal'
         \/ current' = current /\ (reply' = reply \/ reply' = "error")
  PROVE  OrderInv'
<1>1. \A i \in 1..Len(inbox') : i \in 1..Len(inbox) /\ inbox'[i] = inbox[i]
  <2>1. CASE inbox' = inbox
    BY <2>1
  <2>2. CASE inbox' = <<>>
    <3>1. Len(inbox') = 0
      BY <2>2
    <3> QED
      BY <3>1
  <2> QED
    BY <2>1, <2>2
<1>2. AwaitsFinal' => AwaitsFinal /\ current' = current /\ (reply' = reply \/ reply' = "error")
  BY DEF AwaitsFinal, Awaiting
<1>3. WaitInOrder'
  BY <1>1, <1>2 DEF OrderInv, WaitInOrder
<1>4. AnsweredBefore'
  BY <1>1, <1>2 DEF OrderInv, AnsweredBefore
<1>5. FinalizedAfter'
  BY <1>2 DEF OrderInv, FinalizedAfter
<1>6. AnsweredSorted'
  BY DEF OrderInv, AnsweredSorted
<1> QED
  BY <1>3, <1>4, <1>5, <1>6 DEF OrderInv

\* A frame that arrives is the latest.
LEMMA OrderArrives ==
  ASSUME TypeOK, OrderInv, Once,
         NEW f \in Frame, inbox' = Append(inbox, f),
         UNCHANGED <<current, reply, turns, answered>>,
         \/ f.kind # "final" /\ spoken'.utt = spoken.utt
         \/ f.utt = spoken.utt /\ spoken'.utt = spoken.utt + 1
  PROVE  OrderInv'
<1>1. /\ Len(inbox') = Len(inbox) + 1
      /\ \A i \in 1..Len(inbox) : inbox'[i] = inbox[i]
      /\ inbox'[Len(inbox')] = f
      /\ \A i \in 1..Len(inbox') : i = Len(inbox') \/ i \in 1..Len(inbox)
  BY InboxAppended
<1>2. f.kind = "final" => f.utt = spoken.utt
  OBVIOUS
<1>3. \A i \in 1..Len(inbox) : inbox[i].kind = "final" => inbox[i].utt < spoken.utt
  BY DEF Once, InboxOnce
<1>4. \A u \in answered : u < spoken.utt
  BY DEF OrderInv, AnsweredBefore, Once, TurnsOnce
<1>5. AwaitsFinal' <=> AwaitsFinal
  BY DEF AwaitsFinal, Awaiting
<1>6. WaitInOrder'
  <2>1. \A i, j \in 1..Len(inbox') :
          (inbox'[i].kind = "final" /\ inbox'[j].kind = "final" /\ i < j)
            => inbox'[i].utt < inbox'[j].utt
    BY <1>1, <1>2, <1>3, Numbers DEF OrderInv, WaitInOrder
  <2>2. AwaitsFinal' =>
          /\ current'.utt < spoken'.utt
          /\ \A i \in 1..Len(inbox') : inbox'[i].kind = "final" => current'.utt < inbox'[i].utt
    BY <1>1, <1>2, <1>5, Numbers DEF OrderInv, WaitInOrder
  <2> QED
    BY <2>1, <2>2 DEF WaitInOrder
<1>7. AnsweredBefore'
  BY <1>1, <1>2, <1>4, <1>5 DEF OrderInv, AnsweredBefore
<1>8. FinalizedAfter' /\ AnsweredSorted'
  BY <1>5 DEF OrderInv, FinalizedAfter, AnsweredSorted
<1> QED
  BY <1>6, <1>7, <1>8 DEF OrderInv

\* A frame is taken, and passed on or asked about.
LEMMA OrderTaken ==
  ASSUME TypeOK, OrderInv, Once, Ready, inbox' = Tail(inbox),
         UNCHANGED <<spoken, reply, turns, answered>>,
         current' = current \/ current' = Head(inbox)
  PROVE  OrderInv'
<1>1. /\ 1 \in 1..Len(inbox) /\ Head(inbox) = inbox[1]
      /\ \A i \in 1..Len(inbox') : i + 1 \in 1..Len(inbox) /\ inbox'[i] = inbox[i + 1]
      /\ \A i \in 1..Len(inbox') : i \in Nat /\ i + 1 # 1
  BY InboxTaken
<1>2. ~AwaitsFinal /\ reply = "none"
  BY DEF Ready, AwaitsFinal, TypeOK
<1>3. AwaitsFinal' => current' = inbox[1] /\ inbox[1].kind = "final"
  BY <1>1, <1>2 DEF AwaitsFinal, Awaiting
<1>4. WaitInOrder'
  <2>1. ASSUME NEW i \in 1..Len(inbox'), NEW j \in 1..Len(inbox'),
               inbox'[i].kind = "final", inbox'[j].kind = "final", i < j
        PROVE  inbox'[i].utt < inbox'[j].utt
    <3>1. i + 1 < j + 1 /\ i + 1 \in 1..Len(inbox) /\ j + 1 \in 1..Len(inbox)
      BY <1>1, <2>1
    <3> QED
      BY <1>1, <2>1, <3>1 DEF OrderInv, WaitInOrder
  <2>2. ASSUME AwaitsFinal'
        PROVE  current'.utt < spoken'.utt
    BY <1>1, <1>3, <2>2 DEF Once, InboxOnce
  <2>3. ASSUME AwaitsFinal', NEW i \in 1..Len(inbox'), inbox'[i].kind = "final"
        PROVE  current'.utt < inbox'[i].utt
    <3>1. 1 < i + 1 /\ i + 1 \in 1..Len(inbox)
      BY <1>1
    <3> QED
      BY <1>1, <1>3, <2>3, <3>1 DEF OrderInv, WaitInOrder
  <2> QED
    BY <2>1, <2>2, <2>3 DEF WaitInOrder
<1>5. AnsweredBefore'
  BY <1>1, <1>3 DEF OrderInv, AnsweredBefore
<1>6. FinalizedAfter' /\ AnsweredSorted'
  BY <1>2 DEF OrderInv, FinalizedAfter, AnsweredSorted
<1> QED
  BY <1>4, <1>5, <1>6 DEF OrderInv

\* The answer comes: its turn joins those answered, as the last of them.
LEMMA OrderReturns ==
  ASSUME TypeOK, OrderInv, Once, Return
  PROVE  OrderInv'
<1>1. /\ UNCHANGED <<spoken, inbox, turns>> /\ current' = NoFrame /\ reply' = "none"
  BY DEF Return, source
<1>2. ~AwaitsFinal'
  BY <1>1 DEF AwaitsFinal, Awaiting
<1>3. CASE answered' = answered
  BY <1>1, <1>2, <1>3, OrderKept
<1>4. CASE answered' # answered
  <2>1. /\ answered' = answered \cup {current.utt}
        /\ AwaitsFinal /\ reply \in {"hits", "nohits"}
    BY <1>4 DEF Return, TypeOK, AwaitsFinal
  <2>2. PICK t \in 1..Len(turns) :
          /\ turns[t] = current.utt
          /\ \A i \in 1..Len(turns) : turns[i] \in answered => i < t
    BY <2>1 DEF OrderInv, FinalizedAfter
  <2>3. WaitInOrder'
    BY <1>1, <1>2 DEF OrderInv, WaitInOrder
  <2>4. AnsweredBefore'
    BY <1>1, <1>2, <2>1, <2>2 DEF OrderInv, WaitInOrder, AnsweredBefore
  <2>5. FinalizedAfter'
    BY <1>2 DEF FinalizedAfter
  <2>6. ASSUME NEW i \in 1..Len(turns), NEW j \in 1..Len(turns), i < j,
               turns[i] \in answered', turns[j] \in answered'
        PROVE  turns[i] < turns[j]
    <3>1. CASE turns[i] \in answered /\ turns[j] \in answered
      BY <2>6, <3>1 DEF OrderInv, AnsweredSorted
    <3>2. CASE turns[i] \in answered /\ turns[j] = current.utt
      BY <2>1, <3>2 DEF OrderInv, AnsweredBefore
    <3>3. CASE turns[i] = current.utt /\ turns[j] \in answered
      <4>1. i = t
        BY <2>2, <3>3 DEF Once, TurnsOnce
      <4>2. j < t
        BY <2>2, <3>3
      <4> QED
        BY <2>6, <4>1, <4>2, Numbers
    <3>4. CASE turns[i] = current.utt /\ turns[j] = current.utt
      <4>1. i = j
        BY <3>4 DEF Once, TurnsOnce
      <4> QED
        BY <2>6, <4>1, Numbers
    <3> QED
      BY <2>1, <2>6, <3>1, <3>2, <3>3, <3>4
  <2>7. AnsweredSorted'
    BY <1>1, <2>6 DEF AnsweredSorted
  <2> QED
    BY <2>3, <2>4, <2>5, <2>7 DEF OrderInv
<1> QED
  BY <1>3, <1>4

\* The server finalizes a turn: one it did not finalize before, so none that
\* was answered.
LEMMA OrderServed ==
  ASSUME TypeOK, OrderInv, Once, NEW f \in sent, NEW found \in {"hits", "nohits"},
         Serve(f, found)
  PROVE  OrderInv'
<1>1. UNCHANGED <<spoken, inbox, current, answered>>
  BY DEF Serve, source
<1>2. CASE f.kind # "final"
  <2>1. turns' = turns
    BY <1>2 DEF Serve
  <2>2. ~AwaitsFinal' \/ reply' = reply
    BY <1>1, <1>2 DEF Serve, Answer, AwaitsFinal
  <2> QED
    BY <1>1, <2>1, <2>2, OrderKept
<1>3. CASE f.kind = "final"
  <2>1. turns' = Append(turns, f.utt) /\ \A t \in 1..Len(turns) : turns[t] # f.utt
    BY <1>3 DEF Serve, Once, SentOnce
  <2>2. f.utt \notin answered
    BY <2>1 DEF OrderInv, AnsweredBefore
  <2>3. PICK n \in Nat : n = Len(turns)
    BY Numbers
  <2>4. /\ Len(turns') = n + 1
        /\ turns'[n + 1] = f.utt
        /\ \A t \in 1..n : turns'[t] = turns[t] /\ t \in 1..(n + 1) /\ t < n + 1
        /\ \A t \in 1..(n + 1) : t = n + 1 \/ t \in 1..n
    BY <2>1, <2>3 DEF TypeOK
  <2>5. AwaitsFinal' <=> AwaitsFinal
    BY <1>1 DEF AwaitsFinal, Awaiting
  <2>6. WaitInOrder'
    BY <1>1, <2>5 DEF OrderInv, WaitInOrder
  <2>7. AnsweredBefore'
    <3>1. \A u \in answered : \E t \in 1..Len(turns') : turns'[t] = u
      BY <2>3, <2>4 DEF OrderInv, AnsweredBefore
    <3> QED
      BY <1>1, <2>5, <3>1 DEF OrderInv, AnsweredBefore
  <2>8. AnsweredSorted'
    BY <1>1, <2>2, <2>3, <2>4 DEF OrderInv, AnsweredSorted
  <2>9. FinalizedAfter'
    <3>1. CASE f = current
      <4>1. \A i \in 1..(n + 1) : turns'[i] \in answered => i < n + 1
        BY <2>2, <2>4
      <4>2. n + 1 \in 1..Len(turns') /\ turns'[n + 1] = current'.utt
        BY <1>1, <2>3, <2>4, <3>1
      <4> QED
        BY <1>1, <2>4, <4>1, <4>2 DEF FinalizedAfter
    <3>2. CASE f # current
      <4>1. reply' = reply
        BY <3>2 DEF Serve, Answer
      <4> SUFFICES ASSUME AwaitsFinal, reply \in {"hits", "nohits"}
                   PROVE  \E t \in 1..Len(turns') :
                            /\ turns'[t] = current'.utt
                            /\ \A i \in 1..Len(turns') : turns'[i] \in answered' => i < t
        BY <2>5, <4>1 DEF FinalizedAfter
      <4>2. PICK t \in 1..n :
              /\ turns[t] = current.utt
              /\ \A i \in 1..n : turns[i] \in answered => i < t
        BY <2>3 DEF OrderInv, FinalizedAfter
      <4>3. \A i \in 1..(n + 1) : turns'[i] \in answered' => i < t
        BY <1>1, <2>2, <2>4, <4>2
      <4> QED
        BY <1>1, <2>4, <4>2, <4>3
    <3> QED
      BY <3>1, <3>2
  <2> QED
    BY <2>6, <2>7, <2>8, <2>9 DEF OrderInv
<1> QED
  BY <1>2, <1>3

THEOREM OrderInvariant == Spec => []OrderInv
<1>1. Init => OrderInv
  <2> SUFFICES ASSUME Init
               PROVE  OrderInv
    OBVIOUS
  <2>1. Len(inbox) = 0 /\ Len(turns) = 0 /\ answered = {} /\ ~AwaitsFinal
    BY DEF Init, AwaitsFinal, Awaiting
  <2> QED
    BY <2>1 DEF OrderInv, WaitInOrder, AnsweredBefore, FinalizedAfter, AnsweredSorted
<1>2. OrderInv /\ Once /\ TypeOK /\ [Next]_vars => OrderInv'
  <2> SUFFICES ASSUME OrderInv, Once, TypeOK, [Next]_vars
               PROVE  OrderInv'
    OBVIOUS
  <2>1. ASSUME NEW kind \in {"interim", "final"}, NEW short \in BOOLEAN, Speak(kind, short)
        PROVE  OrderInv'
    <3> DEFINE f == [kind |-> kind, utt |-> spoken.utt, n |-> spoken'.n, short |-> short,
                     dir |-> "down"]
    <3>1. spoken.utt \in Uttered /\ spoken.n \in 0..Partials
      BY <2>1, Numbers, ClientAssumption DEF Speak, TypeOK, Uttered
    <3>2. spoken'.n \in 0..Partials
      BY <2>1, <3>1, ClientAssumption DEF Speak, TypeOK
    <3>3. f \in Frame
      BY <3>1, <3>2 DEF Frame, Transcript
    <3>4. f.kind = kind /\ f.utt = spoken.utt
      OBVIOUS
    <3>5. inbox' = Append(inbox, f) /\ UNCHANGED <<current, reply, turns, answered>>
      BY <2>1 DEF Speak, Arrive
    <3>6. IF kind = "interim" THEN spoken'.utt = spoken.utt ELSE spoken'.utt = spoken.utt + 1
      BY <2>1 DEF Speak, TypeOK
    <3> HIDE DEF f
    <3> QED
      BY <3>3, <3>4, <3>5, <3>6, OrderArrives
  <2>2. ASSUME NEW u \in Uttered, NEW dir \in BotDirections, BotSpeaks(u, dir)
        PROVE  OrderInv'
    <3> DEFINE f == [kind |-> "bot", utt |-> u, n |-> 0, short |-> FALSE, dir |-> dir]
    <3>1. f \in Frame /\ f.kind # "final"
      BY ClientAssumption DEF Frame, BotFrame
    <3>2. inbox' = Append(inbox, f) /\ UNCHANGED <<current, reply, turns, answered, spoken>>
      BY <2>2 DEF BotSpeaks, Arrive
    <3> HIDE DEF f
    <3> QED
      BY <3>1, <3>2, OrderArrives
  <2>3. CASE Pass \/ Call
    BY <2>3, OrderTaken DEF Pass, Call, source
  <2>4. CASE Return
    BY <2>4, OrderReturns
  <2>5. CASE GiveUp \/ Cleanup \/ \E inTime \in BOOLEAN : Close(inTime)
    <3>1. /\ UNCHANGED <<spoken, turns, answered>>
          /\ inbox' = inbox \/ inbox' = <<>>
          /\ current' \in {NoFrame, Reset}
      BY <2>5 DEF GiveUp, Cleanup, Close, source
    <3>2. ~AwaitsFinal'
      BY <3>1 DEF AwaitsFinal, Awaiting, Reset
    <3> QED
      BY <3>1, <3>2, OrderKept
  <2>6. ASSUME NEW f \in sent, NEW found \in {"hits", "nohits"}, Serve(f, found)
        PROVE  OrderInv'
    BY <2>6, OrderServed
  <2>7. ASSUME NEW f \in sent, Refuse(f) \/ Lose(f)
        PROVE  OrderInv'
    <3>1. /\ UNCHANGED <<spoken, turns, answered, inbox, current>>
          /\ reply' = reply \/ reply' = "error"
      BY <2>7 DEF Refuse, Lose, Answer, source
    <3> QED
      BY <3>1, OrderKept
  <2>8. CASE UNCHANGED vars
    BY <2>8, OrderKept DEF vars, source
  <2> QED
    BY <2>1, <2>2, <2>3, <2>4, <2>5, <2>6, <2>7, <2>8 DEF Next
<1> QED
  BY <1>1, <1>2, TypeCorrect, InOnePlace, PTL DEF Spec, Once

\* Of the turns that were answered, the server was taught in the order in
\* which they were spoken, whatever is given up and comes late (retriever.py,
\* process_frame awaits the finalize of one transcript before the next).
THEOREM AnsweredInOrderAlways == Spec => []AnsweredInOrder
<1>1. OrderInv /\ TypeOK => AnsweredInOrder
  BY DEF OrderInv, AnsweredSorted, AnsweredInOrder, TypeOK
<1> QED
  BY <1>1, TypeCorrect, OrderInvariant, PTL

-----------------------------------------------------------------------------
(* What was found comes first.  A transcript that was pushed is nowhere else. *)

PushedGone ==
  \A j \in 1..Len(pushed) : pushed[j].kind = "final" =>
    /\ pushed[j].utt < spoken.utt
    /\ ~Waiting(pushed[j].utt)
    /\ AwaitsFinal => current.utt # pushed[j].utt

ContextFirst ==
  \A i \in 1..Len(pushed) : pushed[i].kind = "context" =>
    /\ \E t \in 1..Len(turns) : turns[t] = pushed[i].utt
    /\ \A j \in 1..i : ~(pushed[j].kind = "final" /\ pushed[j].utt = pushed[i].utt)

\* Steps that push nothing, and put no transcript where it was not.
LEMMA NothingPushed ==
  ASSUME TypeOK, PushedGone, ContextFirst, pushed' = pushed,
         spoken'.utt >= spoken.utt,
         \A u \in Nat : Waiting(u)' => Waiting(u) \/ u >= spoken.utt,
         AwaitsFinal' => \/ AwaitsFinal /\ current' = current
                         \/ Waiting(current'.utt),
         \A t \in 1..Len(turns) : \E v \in 1..Len(turns') : turns'[v] = turns[t],
         spoken'.utt \in Nat,
         \A j \in 1..Len(pushed) : pushed[j].kind = "final" => pushed[j].utt \in Nat
  PROVE  PushedGone' /\ ContextFirst'
<1>1. ASSUME NEW j \in 1..Len(pushed), pushed[j].kind = "final"
      PROVE  /\ pushed[j].utt < spoken'.utt
             /\ ~Waiting(pushed[j].utt)'
             /\ AwaitsFinal' => current'.utt # pushed[j].utt
  <2>1. pushed[j].utt \in Nat /\ pushed[j].utt < spoken.utt /\ ~Waiting(pushed[j].utt)
    BY <1>1 DEF PushedGone
  <2>2. ~Waiting(pushed[j].utt)'
    BY <2>1, Numbers
  <2>3. AwaitsFinal' => current'.utt # pushed[j].utt
    BY <1>1, <2>1 DEF PushedGone
  <2> QED
    BY <2>1, <2>2, <2>3, Numbers
<1>2. PushedGone'
  BY <1>1 DEF PushedGone
<1>3. ContextFirst'
  <2> SUFFICES ASSUME NEW i \in 1..Len(pushed), pushed[i].kind = "context"
               PROVE  /\ \E t \in 1..Len(turns') : turns'[t] = pushed[i].utt
                      /\ \A j \in 1..i :
                           ~(pushed[j].kind = "final" /\ pushed[j].utt = pushed[i].utt)
    BY Zenon DEF ContextFirst
  <2>1. PICK t \in 1..Len(turns) : turns[t] = pushed[i].utt
    BY DEF ContextFirst
  <2>2. PICK v \in 1..Len(turns') : turns'[v] = turns[t]
    BY <2>1
  <2> QED
    BY <2>1, <2>2 DEF ContextFirst
<1> QED
  BY <1>2, <1>3

LEMMA PushedUtterances ==
  ASSUME TypeOK
  PROVE  \A j \in 1..Len(pushed) : pushed[j].kind = "final" => pushed[j].utt \in Nat
<1>1. \A f \in Transcript : Context(f).kind = "context"
  BY DEF Context, Transcript
<1>2. \A f \in Frame : f.kind = "final" => f.utt \in Nat
  BY FrameFacts DEF Uttered
<1>3. \A j \in 1..Len(pushed) : pushed[j] \in Frame \cup {Context(f) : f \in Transcript}
  BY DEF TypeOK
<1> QED
  BY <1>1, <1>2, <1>3

\* Pushing one frame that waits no more.
LEMMA FramePushed ==
  ASSUME TypeOK, PushedGone, ContextFirst, UNCHANGED <<spoken, turns>>,
         NEW f \in Frame, pushed' = Append(pushed, f),
         \A u : Waiting(u)' => Waiting(u),
         ~AwaitsFinal',
         f.kind = "final" => f.utt < spoken.utt /\ ~Waiting(f.utt)'
  PROVE  PushedGone' /\ ContextFirst'
<1>1. PICK n \in Nat : n = Len(pushed)
  BY DEF TypeOK
<1>2. /\ Len(pushed') = n + 1
      /\ pushed'[n + 1] = f
      /\ \A i \in 1..n : pushed'[i] = pushed[i]
      /\ \A i \in 1..(n + 1) : i = n + 1 \/ i \in 1..n
      /\ \A i \in 1..n : \A j \in 1..i : j \in 1..n
  BY <1>1 DEF TypeOK
<1>3. f.kind # "context"
  BY FrameFacts
<1>4. PushedGone'
  BY <1>1, <1>2 DEF PushedGone
<1>5. ContextFirst'
  BY <1>1, <1>2, <1>3 DEF ContextFirst
<1> QED
  BY <1>4, <1>5

LEMMA TwoAppended ==
  ASSUME NEW S, NEW s \in Seq(S), NEW a \in S, NEW b \in S, NEW n \in Nat, n = Len(s)
  PROVE  /\ Len(s \o <<a, b>>) = n + 2
         /\ (s \o <<a, b>>)[n + 1] = a
         /\ (s \o <<a, b>>)[n + 2] = b
         /\ \A i \in 1..n : (s \o <<a, b>>)[i] = s[i]
OBVIOUS

\* What was found for a transcript is pushed, and the transcript.
LEMMA FoundPushed ==
  ASSUME TypeOK, PushedGone, ContextFirst, UNCHANGED <<spoken, turns>>,
         NEW f \in Frame, f.kind = "final", AwaitsFinal, f = current, ~AwaitsFinal',
         pushed' = pushed \o <<Context(f), f>>,
         \A u : Waiting(u)' => Waiting(u),
         f.utt < spoken.utt, ~Waiting(f.utt)',
         \E t \in 1..Len(turns) : turns[t] = f.utt
  PROVE  PushedGone' /\ ContextFirst'
<1>1. PICK n \in Nat : n = Len(pushed)
  BY DEF TypeOK
<1>2. PICK c : c = Context(f)
  OBVIOUS
<1>3. f \in Transcript /\ c.kind = "context" /\ c.utt = f.utt
  <2>1. f \in Transcript
    BY FrameFacts
  <2>2. \A g \in Transcript : Context(g).kind = "context" /\ Context(g).utt = g.utt
    BY DEF Context, Transcript
  <2> QED
    BY <1>2, <2>1, <2>2
<1>4. PICK s, S : /\ s = pushed /\ S = Frame \cup {Context(g) : g \in Transcript}
                  /\ s \in Seq(S)
  BY DEF TypeOK
<1>5. pushed' = s \o <<c, f>> /\ c \in S /\ f \in S /\ n = Len(s)
  BY <1>1, <1>2, <1>3, <1>4
<1>6. /\ Len(pushed') = n + 2
      /\ pushed'[n + 1] = c
      /\ pushed'[n + 2] = f
      /\ \A i \in 1..n : pushed'[i] = pushed[i]
  BY <1>4, <1>5, TwoAppended
<1>7. /\ \A i \in 1..(n + 2) : i = n + 1 \/ i = n + 2 \/ i \in 1..n
      /\ \A i \in 1..n : \A j \in 1..i : j \in 1..n
      /\ \A j \in 1..(n + 1) : j = n + 1 \/ j \in 1..n
  OBVIOUS
<1>8. PushedGone'
  BY <1>1, <1>3, <1>6, <1>7 DEF PushedGone
<1>9. \A j \in 1..n : ~(pushed[j].kind = "final" /\ pushed[j].utt = c.utt)
  BY <1>1, <1>3 DEF PushedGone
<1>10. ContextFirst'
  <2>1. \A i \in 1..(n + 2) : pushed'[i].kind = "context" => i = n + 1 \/ i \in 1..n
    BY <1>6, <1>7
  <2>2. ASSUME NEW i \in 1..n, pushed'[i].kind = "context"
        PROVE  /\ \E t \in 1..Len(turns) : turns[t] = pushed'[i].utt
               /\ \A j \in 1..i :
                    ~(pushed'[j].kind = "final" /\ pushed'[j].utt = pushed'[i].utt)
    BY <1>1, <1>6, <1>7, <2>2 DEF ContextFirst
  <2>3. /\ \E t \in 1..Len(turns) : turns[t] = pushed'[n + 1].utt
        /\ \A j \in 1..(n + 1) :
             ~(pushed'[j].kind = "final" /\ pushed'[j].utt = pushed'[n + 1].utt)
    BY <1>3, <1>6, <1>7, <1>9
  <2>4. ASSUME NEW i \in 1..(n + 2), pushed'[i].kind = "context"
        PROVE  /\ \E t \in 1..Len(turns) : turns[t] = pushed'[i].utt
               /\ \A j \in 1..i :
                    ~(pushed'[j].kind = "final" /\ pushed'[j].utt = pushed'[i].utt)
    <3>1. CASE i = n + 1
      BY <2>3, <3>1, Zenon
    <3>2. CASE i \in 1..n
      BY <2>2, <2>4, <3>2, Zenon
    <3> QED
      BY <2>1, <2>4, <3>1, <3>2, Zenon
  <2> QED
    BY <1>6, <2>4 DEF ContextFirst
<1> QED
  BY <1>8, <1>10

\* What was found is pushed before the transcript it was found for, and only
\* for a turn the server has finalized (retriever.py, process_frame).
THEOREM ContextPrecedesTranscriptAlways == Spec => []ContextPrecedesTranscript
<1> DEFINE IInv == PushedGone /\ ContextFirst
<1>1. Init => IInv
  <2> SUFFICES ASSUME Init
               PROVE  IInv
    OBVIOUS
  <2>1. Len(pushed) = 0
    BY DEF Init
  <2> QED
    BY <2>1 DEF PushedGone, ContextFirst
<1>2. IInv /\ OrderInv /\ Once /\ TypeOK /\ [Next]_vars => IInv'
  <2> SUFFICES ASSUME PushedGone, ContextFirst, OrderInv, Once, TypeOK, [Next]_vars
               PROVE  PushedGone' /\ ContextFirst'
    OBVIOUS
  <2>1. ASSUME NEW f \in Frame, inbox' = Append(inbox, f),
               UNCHANGED <<current, turns, pushed>>,
               spoken'.utt \in Nat, spoken'.utt >= spoken.utt,
               f.kind = "final" => f.utt = spoken.utt
        PROVE  PushedGone' /\ ContextFirst'
    <3>1. /\ \A i \in 1..Len(inbox) : inbox'[i] = inbox[i]
          /\ inbox'[Len(inbox')] = f
          /\ \A i \in 1..Len(inbox') : i = Len(inbox') \/ i \in 1..Len(inbox)
      BY <2>1, InboxAppended
    <3>2. \A u \in Nat : Waiting(u)' => Waiting(u) \/ u >= spoken.utt
      BY <2>1, <3>1, Numbers DEF Waiting
    <3>3. AwaitsFinal' => AwaitsFinal /\ current' = current
      BY <2>1 DEF AwaitsFinal, Awaiting
    <3> QED
      BY <2>1, <3>2, <3>3, NothingPushed, PushedUtterances
  <2>2. ASSUME NEW kind \in {"interim", "final"}, NEW short \in BOOLEAN, Speak(kind, short)
        PROVE  PushedGone' /\ ContextFirst'
    <3> DEFINE f == [kind |-> kind, utt |-> spoken.utt, n |-> spoken'.n, short |-> short,
                     dir |-> "down"]
    <3>1. spoken.utt \in Uttered /\ spoken.n \in 0..Partials
      BY <2>2, Numbers, ClientAssumption DEF Speak, TypeOK, Uttered
    <3>2. spoken'.n \in 0..Partials
      BY <2>2, <3>1, ClientAssumption DEF Speak, TypeOK
    <3>3. f \in Frame
      BY <3>1, <3>2 DEF Frame, Transcript
    <3>4. f.utt = spoken.utt
      OBVIOUS
    <3>5. inbox' = Append(inbox, f) /\ UNCHANGED <<current, turns, pushed>>
      BY <2>2 DEF Speak, Arrive
    <3>6. spoken'.utt \in Nat /\ spoken'.utt >= spoken.utt
      BY <2>2, Numbers DEF Speak, TypeOK
    <3> HIDE DEF f
    <3> QED
      BY <2>1, <3>3, <3>4, <3>5, <3>6
  <2>3. ASSUME NEW u \in Uttered, NEW dir \in BotDirections, BotSpeaks(u, dir)
        PROVE  PushedGone' /\ ContextFirst'
    <3> DEFINE f == [kind |-> "bot", utt |-> u, n |-> 0, short |-> FALSE, dir |-> dir]
    <3>1. f \in Frame /\ f.kind # "final"
      BY ClientAssumption DEF Frame, BotFrame
    <3>2. inbox' = Append(inbox, f) /\ UNCHANGED <<current, turns, pushed, spoken>>
      BY <2>3 DEF BotSpeaks, Arrive
    <3> HIDE DEF f
    <3> QED
      BY <2>1, <3>1, <3>2, Numbers
  <2>4. ASSUME Ready, inbox' = Tail(inbox), NEW f, f = Head(inbox)
        PROVE  /\ f \in Frame
               /\ f.kind = "final" => Waiting(f.utt) /\ ~Waiting(f.utt)' /\ f.utt < spoken.utt
               /\ \A u : Waiting(u)' => Waiting(u)
    <3>1. /\ 1 \in 1..Len(inbox) /\ f = inbox[1] /\ inbox[1] \in Frame
          /\ \A i \in 1..Len(inbox') : i + 1 \in 1..Len(inbox) /\ inbox'[i] = inbox[i + 1]
          /\ \A i \in 1..Len(inbox') : i \in Nat /\ i + 1 # 1
      BY <2>4, InboxTaken
    <3>2. ASSUME f.kind = "final", NEW i \in 1..Len(inbox')
          PROVE  ~(inbox'[i].kind = "final" /\ inbox'[i].utt = f.utt)
      BY <3>1, <3>2 DEF Once, InboxOnce
    <3>3. \A u : Waiting(u)' => Waiting(u)
      BY <3>1 DEF Waiting
    <3>4. f.kind = "final" => ~Waiting(f.utt)'
      BY <3>2 DEF Waiting
    <3>5. f.kind = "final" => Waiting(f.utt) /\ f.utt < spoken.utt
      BY <3>1 DEF Waiting, Once, InboxOnce
    <3> QED
      BY <3>1, <3>3, <3>4, <3>5
  <2>5. CASE Pass
    <3>1. PICK f : f = Head(inbox)
      OBVIOUS
    <3>2. Ready /\ inbox' = Tail(inbox) /\ UNCHANGED <<spoken, turns, current>>
          /\ pushed' = Append(pushed, f)
      BY <2>5, <3>1 DEF Pass, source
    <3>3. ~AwaitsFinal'
      BY <3>2 DEF Ready, AwaitsFinal, Awaiting
    <3>4. /\ f \in Frame
          /\ f.kind = "final" => ~Waiting(f.utt)' /\ f.utt < spoken.utt
          /\ \A u : Waiting(u)' => Waiting(u)
      BY <2>4, <3>1, <3>2
    <3> QED
      BY <3>2, <3>3, <3>4, FramePushed
  <2>6. CASE Call
    <3>1. PICK f : f = Head(inbox)
      OBVIOUS
    <3>2. /\ Ready /\ inbox' = Tail(inbox) /\ UNCHANGED <<spoken, turns, pushed>>
          /\ current' = f
      BY <2>6, <3>1 DEF Call, source
    <3>3. /\ f.kind = "final" => Waiting(f.utt)
          /\ \A u : Waiting(u)' => Waiting(u)
      BY <2>4, <3>1, <3>2
    <3>4. AwaitsFinal' => Waiting(current'.utt)
      BY <3>2, <3>3 DEF AwaitsFinal
    <3> QED
      BY <3>2, <3>3, <3>4, NothingPushed, PushedUtterances, Numbers
  <2>7. ASSUME Awaiting, phase = "running", NEW found, found = "hits" => reply = "hits",
               pushed' = pushed \o Outcome(found), current' = NoFrame,
               UNCHANGED <<spoken, inbox, turns>>
        PROVE  PushedGone' /\ ContextFirst'
    <3>1. PICK f \in Frame : f = current
      BY <2>7 DEF TypeOK, Awaiting, Request
    <3>2. ~AwaitsFinal' /\ \A u : Waiting(u)' <=> Waiting(u)
      BY <2>7 DEF AwaitsFinal, Awaiting, Waiting
    <3>3. f.kind = "final" => f.utt < spoken.utt /\ ~Waiting(f.utt)
      BY <2>7, <3>1, Numbers DEF OrderInv, WaitInOrder, AwaitsFinal, Waiting
    <3>4. f.kind = "final" => ~Waiting(f.utt)'
      BY <3>2, <3>3
    <3>5. CASE f.kind = "final" /\ found = "hits"
      <4>1. AwaitsFinal /\ \E t \in 1..Len(turns) : turns[t] = f.utt
        BY <2>7, <3>1, <3>5 DEF AwaitsFinal, OrderInv, FinalizedAfter
      <4>2. pushed' = pushed \o <<Context(f), f>>
        BY <2>7, <3>1, <3>5 DEF Outcome
      <4> QED
        BY <2>7, <3>1, <3>2, <3>3, <3>4, <3>5, <4>1, <4>2, FoundPushed
    <3>6. CASE ~(f.kind = "final" /\ found = "hits")
      <4>1. pushed' = pushed \o <<f>>
        BY <2>7, <3>1, <3>6 DEF Outcome
      <4>2. pushed' = Append(pushed, f)
        BY <4>1 DEF TypeOK
      <4> QED
        BY <2>7, <3>2, <3>3, <3>4, <4>2, FramePushed
    <3> QED
      BY <3>5, <3>6
  <2>8. CASE Return
    BY <2>7, <2>8 DEF Return, source, TypeOK
  <2>9. CASE GiveUp
    BY <2>7, <2>9 DEF GiveUp, source
  <2>10. CASE Cleanup \/ \E inTime \in BOOLEAN : Close(inTime)
    <3>1. /\ UNCHANGED <<spoken, turns, pushed>>
          /\ inbox' = inbox \/ inbox' = <<>>
          /\ current' \in {NoFrame, Reset}
      BY <2>10 DEF Cleanup, Close, source
    <3>2. ~AwaitsFinal'
      BY <3>1 DEF AwaitsFinal, Awaiting, Reset
    <3>3. \A u : Waiting(u)' => Waiting(u)
      <4>1. CASE inbox' = inbox
        BY <4>1 DEF Waiting
      <4>2. CASE inbox' = <<>>
        <5>1. Len(inbox') = 0
          BY <4>2
        <5> QED
          BY <5>1 DEF Waiting
      <4> QED
        BY <3>1, <4>1, <4>2
    <3> QED
      BY <3>1, <3>2, <3>3, NothingPushed, PushedUtterances, Numbers
  <2>11. ASSUME UNCHANGED <<spoken, inbox, current, pushed>>,
                turns' = turns \/ \E u \in Uttered : turns' = Append(turns, u)
         PROVE  PushedGone' /\ ContextFirst'
    <3>1. \A t \in 1..Len(turns) : \E v \in 1..Len(turns') : turns'[v] = turns[t]
      <4>1. CASE turns' = turns
        BY <4>1
      <4>2. CASE \E u \in Uttered : turns' = Append(turns, u)
        <5>1. \A t \in 1..Len(turns) : t \in 1..Len(turns') /\ turns'[t] = turns[t]
          BY <4>2 DEF TypeOK
        <5> QED
          BY <5>1
      <4> QED
        BY <2>11, <4>1, <4>2
    <3>2. (AwaitsFinal' <=> AwaitsFinal) /\ \A u : Waiting(u)' <=> Waiting(u)
      BY <2>11 DEF AwaitsFinal, Awaiting, Waiting
    <3>3. /\ spoken'.utt \in Nat /\ spoken'.utt >= spoken.utt
          /\ AwaitsFinal' => AwaitsFinal /\ current' = current
      BY <2>11, <3>2, Numbers
    <3> QED
      BY <2>11, <3>1, <3>2, <3>3, NothingPushed, PushedUtterances
  <2>12. ASSUME NEW f \in sent, NEW found \in {"hits", "nohits"}, Serve(f, found)
         PROVE  PushedGone' /\ ContextFirst'
    <3>1. UNCHANGED <<spoken, inbox, current, pushed>>
      BY <2>12 DEF Serve, source
    <3>2. turns' = turns \/ \E u \in Uttered : turns' = Append(turns, u)
      BY <2>12, FrameFacts DEF Serve, TypeOK, Request, Reset
    <3> QED
      BY <2>11, <3>1, <3>2
  <2>13. ASSUME NEW f \in sent, Refuse(f) \/ Lose(f)
         PROVE  PushedGone' /\ ContextFirst'
    BY <2>11, <2>13 DEF Refuse, Lose, source
  <2>14. CASE UNCHANGED vars
    BY <2>11, <2>14 DEF vars, source
  <2> QED
    BY <2>2, <2>3, <2>5, <2>6, <2>8, <2>9, <2>10, <2>12, <2>13, <2>14 DEF Next
<1>3. IInv /\ TypeOK => ContextPrecedesTranscript
  BY DEF ContextFirst, ContextPrecedesTranscript, TypeOK
<1> QED
  BY <1>1, <1>2, <1>3, TypeCorrect, InOnePlace, OrderInvariant, PTL DEF Spec, Once

-----------------------------------------------------------------------------
(* What is on its way when nothing was abandoned: at most the request that is *)
(* awaited, and that only while it has no answer.                             *)

OneInFlight ==
  (~abandoned /\ phase # "closed") =>
    /\ sent \subseteq {current}
    /\ reply # "none" => sent = {}

GoneWhenAnswered ==
  (~abandoned /\ phase = "closing" /\ reply \in {"hits", "nohits"}) => ~live

GoneForGood ==
  wasReset => (phase = "closed" /\ (~abandoned => sent = {} /\ ~live))

\* After a cleanup whose reset was answered, the session is not made again,
\* unless a request was abandoned.
THEOREM ClosedForGood == Spec => []ClosedStaysGone
<1> DEFINE IInv == OneInFlight /\ GoneWhenAnswered /\ GoneForGood
<1>1. Init => IInv
  BY DEF Init, OneInFlight, GoneWhenAnswered, GoneForGood
<1>2. IInv /\ TypeOK /\ [Next]_vars => IInv'
  <2> SUFFICES ASSUME OneInFlight, GoneWhenAnswered, GoneForGood, TypeOK, [Next]_vars
               PROVE  OneInFlight' /\ GoneWhenAnswered' /\ GoneForGood'
    OBVIOUS
  <2>0. (~abandoned /\ phase # "closed" /\ ~Awaiting) => sent = {}
    BY ClientAssumption DEF OneInFlight, Awaiting, TypeOK
  <2>1. CASE \/ \E kind \in {"interim", "final"}, short \in BOOLEAN : Speak(kind, short)
             \/ \E u \in Uttered, dir \in BotDirections : BotSpeaks(u, dir)
             \/ Pass
             \/ UNCHANGED vars
    <3>1. UNCHANGED <<current, reply, sent, phase, live, abandoned, wasReset>>
      BY <2>1 DEF Speak, BotSpeaks, Arrive, Pass, vars
    <3> QED
      BY <3>1 DEF OneInFlight, GoneWhenAnswered, GoneForGood
  <2>2. CASE Call
    <3>1. /\ phase = "running" /\ sent' = sent \cup {current'}
          /\ UNCHANGED <<reply, phase, live, abandoned, wasReset>>
          /\ reply = "none" /\ (~abandoned => sent = {})
      BY <2>0, <2>2 DEF Call, Ready, TypeOK
    <3> QED
      BY <3>1 DEF OneInFlight, GoneWhenAnswered, GoneForGood
  <2>3. CASE Return
    BY <2>3 DEF Return, OneInFlight, GoneWhenAnswered, GoneForGood
  <2>4. CASE GiveUp
    BY <2>4 DEF GiveUp, OneInFlight, GoneWhenAnswered, GoneForGood
  <2>5. CASE Cleanup
    <3>1. /\ phase = "running" /\ reply' = "none" /\ UNCHANGED wasReset
          /\ ~abandoned' => sent = {}
          /\ phase' # "closed" => sent' = sent \cup {current'}
      BY <2>0, <2>5 DEF Cleanup
    <3> QED
      BY <3>1 DEF OneInFlight, GoneWhenAnswered, GoneForGood
  <2>6. ASSUME NEW inTime \in BOOLEAN, Close(inTime)
        PROVE  OneInFlight' /\ GoneWhenAnswered' /\ GoneForGood'
    <3>1. /\ phase = "closing" /\ phase' = "closed" /\ UNCHANGED <<sent, live, abandoned>>
          /\ wasReset' => reply \in {"hits", "nohits"}
      BY <2>6 DEF Close, TypeOK
    <3> QED
      BY <3>1 DEF OneInFlight, GoneWhenAnswered, GoneForGood
  <2>7. ASSUME NEW f \in sent, NEW found \in {"hits", "nohits"}, Serve(f, found)
        PROVE  OneInFlight' /\ GoneWhenAnswered' /\ GoneForGood'
    <3>1. /\ sent' = sent \ {f} /\ live' = (f.kind # "reset")
          /\ reply' = (IF f = current THEN found ELSE reply)
          /\ UNCHANGED <<current, phase, abandoned, wasReset>>
      BY <2>7 DEF Serve, Answer
    <3>2. (~abandoned /\ phase # "closed") => f = current
      BY DEF OneInFlight
    <3>3. Reset.kind = "reset"
      BY DEF Reset
    <3>4. OneInFlight'
      BY <3>1, <3>2 DEF OneInFlight
    <3>5. GoneWhenAnswered'
      BY <3>1, <3>2, <3>3 DEF GoneWhenAnswered, TypeOK
    <3>6. GoneForGood'
      BY <3>1 DEF GoneForGood
    <3> QED
      BY <3>4, <3>5, <3>6
  <2>8. ASSUME NEW f \in sent, Refuse(f) \/ Lose(f)
        PROVE  OneInFlight' /\ GoneWhenAnswered' /\ GoneForGood'
    <3>1. /\ sent' = sent \ {f} /\ UNCHANGED <<current, live, phase, abandoned, wasReset>>
          /\ reply' = reply \/ reply' = "error"
      BY <2>8 DEF Refuse, Lose, Answer
    <3>2. OneInFlight'
      BY <3>1 DEF OneInFlight
    <3> QED
      BY <3>1, <3>2 DEF GoneWhenAnswered, GoneForGood
  <2> QED
    BY <2>1, <2>2, <2>3, <2>4, <2>5, <2>6, <2>7, <2>8 DEF Next
<1>3. IInv => ClosedStaysGone
  BY DEF GoneForGood, ClosedStaysGone
<1> QED
  BY <1>1, <1>2, <1>3, TypeCorrect, PTL DEF Spec

=============================================================================
