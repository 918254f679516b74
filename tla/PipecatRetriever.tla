--------------------------- MODULE PipecatRetriever ---------------------------
(***************************************************************************)
(* The Pipecat client (pipecat-primd retriever.py, client.py) between a    *)
(* voice pipeline and the server.  The retriever handles one frame at a    *)
(* time, and handling one may await a request.  A request that is given up *)
(* is not taken back: the server may still get to it, after requests that  *)
(* were made later.                                                        *)
(*                                                                         *)
(* Of the server (modules PrimdServe, QueryContext) only this is kept:     *)
(* whether the session is in its table, and the utterances it finalized,   *)
(* in order.  The pipeline around the retriever is external.               *)
(***************************************************************************)
EXTENDS Naturals, Sequences

CONSTANTS
  Utterances,     \* how many utterances are explored
  Partials,       \* bound: interim transcripts of an utterance explored
  BotDirections,  \* the ways BotStartedSpeakingFrame passes the retriever
  NoFrame         \* no frame is being handled

VARIABLES
  spoken,     \* where the speaker is: the utterance, and its partials so far
  botSpoke,   \* utterances the bot has started to answer
  inbox,      \* frames not yet handled
  current,    \* the frame whose request is awaited
  reply,      \* the answer to it, once there is one
  sent,       \* requests on their way to the server
  pushed,     \* what the retriever has pushed, and which way, in order
  phase,      \* running, closing (cleanup awaits its reset), closed
  owned,      \* _owned_client
  live,       \* the session is in the server's table
  turns,      \* utterances the server has finalized
  answered,   \* history: utterances whose finalize was answered
  abandoned,  \* history: a request was not awaited to its end
  wasReset    \* history: cleanup's reset was answered

source == <<spoken, botSpoke>>
vars   == <<source, inbox, current, reply, sent, pushed, phase, owned, live, turns,
            answered, abandoned, wasReset>>

Uttered == 1..Utterances

\* A transcript below min_chars is short.
Transcript ==
  [kind : {"interim", "final"}, utt : Uttered, n : 0..Partials, short : BOOLEAN, dir : {"down"}]
BotFrame ==
  [kind : {"bot"}, utt : Uttered, n : {0}, short : {FALSE}, dir : {"down", "up"}]
Frame    == Transcript \cup BotFrame

Reset   == [kind |-> "reset", utt |-> 0, n |-> 0, short |-> FALSE, dir |-> "up"]
Request == Frame \cup {Reset}

ASSUME ClientAssumption ==
  /\ Utterances \in Nat
  /\ Partials \in Nat
  /\ BotDirections \subseteq {"down", "up"}
  /\ NoFrame \notin Request

\* LLMMessagesAppendFrame with what was retrieved for a final transcript.
Context(f) == [f EXCEPT !.kind = "context", !.dir = "up"]

Awaiting == current # NoFrame

Init ==
  /\ spoken = [utt |-> 1, n |-> 0]
  /\ botSpoke = {}
  /\ inbox = <<>>
  /\ current = NoFrame
  /\ reply = "none"
  /\ sent = {}
  /\ pushed = <<>>
  /\ phase = "running"
  /\ owned \in BOOLEAN
  /\ live = FALSE
  /\ turns = <<>>
  /\ answered = {}
  /\ abandoned = FALSE
  /\ wasReset = FALSE

-----------------------------------------------------------------------------
(* The pipeline. *)

Arrive(f) ==
  /\ phase = "running"
  /\ inbox' = Append(inbox, f)
  /\ UNCHANGED <<current, reply, sent, pushed, phase, owned, live, turns,
                 answered, abandoned, wasReset>>

\* The recogniser: partials of an utterance, then its final transcript.
Speak(kind, short) ==
  /\ spoken.utt <= Utterances
  /\ kind = "interim" => spoken.n < Partials
  /\ spoken' = IF kind = "interim" THEN [spoken EXCEPT !.n = @ + 1]
               ELSE [utt |-> spoken.utt + 1, n |-> 0]
  /\ Arrive([kind |-> kind, utt |-> spoken.utt, n |-> spoken'.n, short |-> short, dir |-> "down"])
  /\ UNCHANGED botSpoke

\* The bot starts to speak after it was passed a final transcript.
BotSpeaks(u, dir) ==
  /\ u \notin botSpoke
  /\ \E i \in DOMAIN pushed : pushed[i].kind = "final" /\ pushed[i].utt = u
  /\ botSpoke' = botSpoke \cup {u}
  /\ Arrive([kind |-> "bot", utt |-> u, n |-> 0, short |-> FALSE, dir |-> dir])
  /\ UNCHANGED spoken

-----------------------------------------------------------------------------
(* process_frame *)

\* Frames going down the pipeline are for the server, short transcripts aside.
Calls(f) == f.dir = "down" /\ ~f.short

Ready == phase = "running" /\ ~Awaiting /\ inbox # <<>>

\* Nothing to ask: the frame is passed on.
Pass ==
  /\ Ready
  /\ ~Calls(Head(inbox))
  /\ inbox' = Tail(inbox)
  /\ pushed' = Append(pushed, Head(inbox))
  /\ UNCHANGED <<source, current, reply, sent, phase, owned, live, turns,
                 answered, abandoned, wasReset>>

\* observe, finalize or warm is posted and awaited.
Call ==
  /\ Ready
  /\ Calls(Head(inbox))
  /\ inbox' = Tail(inbox)
  /\ current' = Head(inbox)
  /\ sent' = sent \cup {Head(inbox)}
  /\ UNCHANGED <<source, reply, pushed, phase, owned, live, turns,
                 answered, abandoned, wasReset>>

\* Mutant: the transcript first.
OutcomeFrameFirst(found) ==
  IF current.kind = "final" /\ found = "hits" THEN <<current, Context(current)>> ELSE <<current>>

\* What handling the frame awaited pushes: what was found for a final
\* transcript, and the frame.
Outcome(found) ==
  IF current.kind = "final" /\ found = "hits" THEN <<Context(current), current>> ELSE <<current>>

\* The answer is there, good or bad.
Return ==
  /\ phase = "running"
  /\ reply # "none"
  /\ pushed' = pushed \o Outcome(reply)
  /\ answered' = IF current.kind = "final" /\ reply # "error"
                 THEN answered \cup {current.utt} ELSE answered
  /\ current' = NoFrame
  /\ reply' = "none"
  /\ UNCHANGED <<source, inbox, sent, phase, owned, live, turns, abandoned, wasReset>>

\* Mutant: the request is made again.
GiveUpRetry ==
  /\ phase = "running"
  /\ Awaiting
  /\ sent' = sent \cup {current}
  /\ abandoned' = TRUE
  /\ UNCHANGED <<source, inbox, current, reply, pushed, phase, owned, live, turns,
                 answered, wasReset>>

\* Mutant: the frame is dropped with the request.
GiveUpFrame ==
  /\ phase = "running"
  /\ Awaiting
  /\ current' = NoFrame
  /\ reply' = "none"
  /\ abandoned' = TRUE
  /\ UNCHANGED <<source, inbox, sent, pushed, phase, owned, live, turns,
                 answered, wasReset>>

\* The request times out or the connection fails, before or after the server
\* got to it: the frame is passed on without an answer.
GiveUp ==
  /\ phase = "running"
  /\ Awaiting
  /\ pushed' = pushed \o Outcome("error")
  /\ current' = NoFrame
  /\ reply' = "none"
  /\ abandoned' = TRUE
  /\ UNCHANGED <<source, inbox, sent, phase, owned, live, turns, answered, wasReset>>

-----------------------------------------------------------------------------
(* cleanup, at the end of the pipeline or when it is cancelled; a frame being *)
(* handled is abandoned.                                                      *)

Cleanup ==
  /\ phase = "running"
  /\ inbox' = <<>>
  /\ reply' = "none"
  /\ abandoned' = (abandoned \/ Awaiting)
  /\ IF owned
     THEN phase' = "closing" /\ current' = Reset /\ sent' = sent \cup {Reset}
     ELSE phase' = "closed" /\ current' = NoFrame /\ UNCHANGED sent
  /\ UNCHANGED <<source, pushed, owned, live, turns, answered, wasReset>>

\* The reset is answered or given up.
Close(inTime) ==
  /\ phase = "closing"
  /\ inTime => reply # "none"
  /\ phase' = "closed"
  /\ current' = NoFrame
  /\ reply' = "none"
  /\ wasReset' = (inTime /\ reply # "error")
  /\ UNCHANGED <<source, inbox, sent, pushed, owned, live, turns, answered, abandoned>>

-----------------------------------------------------------------------------
(* The server and the network. *)

Answer(f, r) == reply' = IF f = current THEN r ELSE reply

\* Mutant: reset makes the session anew.
ServeAnew(f, found) ==
  /\ f \in sent
  /\ sent' = sent \ {f}
  /\ live' = TRUE
  /\ turns' = IF f.kind = "final" THEN Append(turns, f.utt) ELSE turns
  /\ Answer(f, found)
  /\ UNCHANGED <<source, inbox, current, pushed, phase, owned, answered, abandoned, wasReset>>

\* handle_session: the session is made by any request but a reset.
Serve(f, found) ==
  /\ f \in sent
  /\ sent' = sent \ {f}
  /\ live' = (f.kind # "reset")
  /\ turns' = IF f.kind = "final" THEN Append(turns, f.utt) ELSE turns
  /\ Answer(f, found)
  /\ UNCHANGED <<source, inbox, current, pushed, phase, owned, answered, abandoned, wasReset>>

\* The transcript's embedding fails, before the session is looked up.
Refuse(f) ==
  /\ f \in sent
  /\ f.kind \in {"interim", "final"}
  /\ sent' = sent \ {f}
  /\ Answer(f, "error")
  /\ UNCHANGED <<source, inbox, current, pushed, phase, owned, live, turns,
                 answered, abandoned, wasReset>>

\* The request never arrives.
Lose(f) ==
  /\ f \in sent
  /\ sent' = sent \ {f}
  /\ UNCHANGED <<source, inbox, current, reply, pushed, phase, owned, live, turns,
                 answered, abandoned, wasReset>>

Next ==
  \/ \E kind \in {"interim", "final"}, short \in BOOLEAN : Speak(kind, short)
  \/ \E u \in Uttered, dir \in BotDirections : BotSpeaks(u, dir)
  \/ Pass
  \/ Call
  \/ Return
  \/ GiveUp
  \/ Cleanup
  \/ \E inTime \in BOOLEAN : Close(inTime)
  \/ \E f \in sent :
       \/ \E found \in {"hits", "nohits"} : Serve(f, found)
       \/ Refuse(f)
       \/ Lose(f)

\* The retriever handles what it is given, and a request ends or times out.
\* Nothing is assumed of the speaker, the server or the network.
Fairness ==
  /\ WF_vars(Pass \/ Call)
  /\ WF_vars(Return \/ GiveUp)

Spec == Init /\ [][Next]_vars /\ Fairness

-----------------------------------------------------------------------------
(* Properties. *)

\* Types, and which frame is awaited in which phase.
TypeOK ==
  /\ spoken \in [utt : 1..(Utterances + 1), n : 0..Partials]
  /\ botSpoke \subseteq Uttered
  /\ inbox \in Seq(Frame)
  /\ current \in Request \cup {NoFrame}
  /\ reply \in {"none", "hits", "nohits", "error"}
  /\ reply # "none" => Awaiting
  /\ sent \subseteq Request
  /\ pushed \in Seq(Frame \cup {Context(f) : f \in Transcript})
  /\ phase \in {"running", "closing", "closed"}
  /\ phase = "running" => current # Reset
  /\ phase = "closing" => current = Reset
  /\ phase = "closed" => current = NoFrame
  /\ owned \in BOOLEAN
  /\ live \in BOOLEAN
  /\ turns \in Seq(Uttered)
  /\ answered \subseteq Uttered
  /\ abandoned \in BOOLEAN
  /\ wasReset \in BOOLEAN

\* No utterance is finalized, and taught, twice, whatever times out.
FinalizedOnce == \A i, j \in DOMAIN turns : turns[i] = turns[j] => i = j

\* Of the turns the client has an answer for, the server's predictor was
\* taught in the order in which they were spoken, whatever arrives late.
AnsweredInOrder ==
  \A i, j \in DOMAIN turns :
    (i < j /\ {turns[i], turns[j]} \subseteq answered) => turns[i] < turns[j]

\* What was found is pushed before the transcript it was found for, and only
\* for a turn the server has finalized.
ContextPrecedesTranscript ==
  \A i \in DOMAIN pushed : pushed[i].kind = "context" =>
    /\ \E t \in DOMAIN turns : turns[t] = pushed[i].utt
    /\ ~\E j \in 1..i : pushed[j].kind = "final" /\ pushed[j].utt = pushed[i].utt

\* After a cleanup whose reset was answered, the session does not come back,
\* unless a request was abandoned.
ClosedStaysGone == wasReset /\ ~abandoned => ~live

\* The bot gets to hear everything: a final transcript is passed on whatever
\* becomes of its request, unless the pipeline ends.
Waits(u)  == \/ \E i \in DOMAIN inbox : inbox[i].kind = "final" /\ inbox[i].utt = u
             \/ Awaiting /\ current.kind = "final" /\ current.utt = u
Passed(u) == \E i \in DOMAIN pushed : pushed[i].kind = "final" /\ pushed[i].utt = u

TranscriptsPassOn == \A u \in Uttered : Waits(u) ~> (Passed(u) \/ phase # "running")

-----------------------------------------------------------------------------
(* Claims of the docs that the code does not keep. *)

\* docs/architecture/overview.md:40, "retrieves relevant context, and feeds it to
\* the LLM for generation": in the pipeline of retriever.py:5 the LLM and its
\* context are downstream.
ContextReachesLLM ==
  \A i \in DOMAIN pushed : pushed[i].kind = "context" =>
    \E j \in DOMAIN pushed :
      pushed[j].kind = "context" /\ pushed[j].utt = pushed[i].utt /\ pushed[j].dir = "down"

=============================================================================
