--------------------------- MODULE LiveKitRetriever ---------------------------
(***************************************************************************)
(* The LiveKit client (livekit-primd retriever.py, client.py) attached to  *)
(* a voice assistant.  Unlike the Pipecat client it has no queue: every    *)
(* event of the assistant starts a coroutine, and the coroutines await     *)
(* their requests side by side.  A request that is given up is not taken   *)
(* back: the server may still get to it.                                   *)
(*                                                                         *)
(* Of the server only this is kept: whether the session is in its table,   *)
(* and what it finalized, in order.  The assistant is external; it has set *)
(* on_context.                                                             *)
(***************************************************************************)
EXTENDS Naturals, Sequences, FiniteSets

CONSTANTS
  Utterances,   \* bound: utterances explored
  Partials,     \* bound: interim transcripts of an utterance explored
  Replies,      \* utterances the assistant speaks after
  Short,        \* coroutines whose text is below min_chars
  ServerFaults  \* the server or the network may fail a request

Uttered == 1..Utterances

\* A coroutine is known by the event that started it, and so is its request:
\* the last one closes the retriever.
Observes  == {"observe"} \X Uttered \X (1..Partials)
Finalizes == {"finalize"} \X Uttered \X {0}
Warms     == {"warm"} \X Replies \X {0}
Close     == <<"close", 0, 0>>
Task      == Observes \cup Finalizes \cup Warms \cup {Close}

Kind(t)      == t[1]
Utterance(t) == t[2]

ASSUME LiveKitAssumption ==
  /\ Utterances \in Nat
  /\ Partials \in Nat
  /\ Replies \subseteq Uttered
  /\ Short \subseteq Observes \cup Finalizes
  /\ ServerFaults \in BOOLEAN

VARIABLES
  spoken,    \* what the speaker has said: the utterance, and its partials
  task,      \* where each coroutine is
  wire,      \* requests the server may still get to
  told,      \* utterances on_context was run for, in order
  shut,      \* the retriever's own HTTP client was closed
  owned,     \* _owned_client
  live,      \* the session is in the server's table
  turns,     \* utterances the server finalized, in order
  late       \* history: a request was given up, or awaited beside the close

server == <<live, turns>>
vars   == <<spoken, task, wire, told, shut, owned, server, late>>

\* idle; asking: its request is awaited; answered or failed: the answer is
\* there; telling: on_context is awaited; done.
States == {"idle", "asking", "answered", "failed", "telling", "done"}

Init ==
  /\ spoken = [utt |-> 1, n |-> 0]
  /\ task = [t \in Task |-> "idle"]
  /\ wire = {}
  /\ told = <<>>
  /\ shut = FALSE
  /\ owned \in BOOLEAN
  /\ live = FALSE
  /\ turns = <<>>
  /\ late = FALSE

Move(t, from, to) == task[t] = from /\ task' = [task EXCEPT ![t] = to]

-----------------------------------------------------------------------------
(* The handlers of attach_to_voice_assistant: an event starts its coroutine. *)

\* A short text asks nothing, and a closed client raises at once, which the
\* coroutine swallows.
Start(t) ==
  IF t \in Short \/ shut
  THEN Move(t, "idle", "done") /\ UNCHANGED <<wire, late>>
  ELSE /\ Move(t, "idle", "asking")
       /\ wire' = wire \cup {t}
       /\ late' = (late \/ task[Close] # "idle" \/ (t = Close /\ \E u \in Task : task[u] = "asking"))

Interim ==
  /\ spoken.utt \in Uttered
  /\ spoken.n < Partials
  /\ spoken' = [spoken EXCEPT !.n = @ + 1]
  /\ Start(<<"observe", spoken.utt, spoken'.n>>)
  /\ UNCHANGED <<told, shut, owned, server>>

Committed ==
  /\ spoken.utt \in Uttered
  /\ spoken' = [utt |-> spoken.utt + 1, n |-> 0]
  /\ Start(<<"finalize", spoken.utt, 0>>)
  /\ UNCHANGED <<told, shut, owned, server>>

\* The assistant starts to speak once its turn has come.
AgentSpeaks(u) ==
  /\ u < spoken.utt
  /\ Start(<<"warm", u, 0>>)
  /\ UNCHANGED <<spoken, told, shut, owned, server>>

\* aclose, by the application: the reset is always posted.
Closes ==
  /\ Start(Close)
  /\ UNCHANGED <<spoken, told, shut, owned, server>>

-----------------------------------------------------------------------------
(* What a coroutine does once its request is over. *)

\* The close goes on to the client, if it is the retriever's own.
Leaves(t) == shut' = (shut \/ (t = Close /\ owned))

\* Mutant: a finalize that fails is asked again.
GiveUpRetry(t) ==
  /\ task[t] = "asking"
  /\ wire' = wire \cup {t}
  /\ late' = TRUE
  /\ UNCHANGED <<spoken, task, told, shut, owned, server>>

\* Mutant: no timeout, a request ends when its connection breaks.
GiveUpBroken(t) ==
  /\ t \notin wire
  /\ Move(t, "asking", "done")
  /\ late' = TRUE
  /\ Leaves(t)
  /\ UNCHANGED <<spoken, wire, told, owned, server>>

\* It times out or its connection breaks, before or after the server got to it.
GiveUp(t) ==
  /\ Move(t, "asking", "done")
  /\ late' = TRUE
  /\ Leaves(t)
  /\ UNCHANGED <<spoken, wire, told, owned, server>>

\* A finalize that was answered has on_context run with what was found.
Tell(t) ==
  /\ Kind(t) = "finalize"
  /\ Move(t, "answered", "telling")
  /\ told' = Append(told, Utterance(t))
  /\ UNCHANGED <<spoken, wire, shut, owned, server, late>>

\* on_context returns, or raises out of the handler.
Told(t) ==
  /\ Move(t, "telling", "done")
  /\ UNCHANGED <<spoken, wire, told, shut, owned, server, late>>

\* Every other outcome is logged or ignored.
Return(t) ==
  /\ Kind(t) = "finalize" => task[t] = "failed"
  /\ Move(t, IF task[t] = "failed" THEN "failed" ELSE "answered", "done")
  /\ Leaves(t)
  /\ UNCHANGED <<spoken, wire, told, owned, server, late>>

-----------------------------------------------------------------------------
(* The network and the server (modules PrimdServe, QueryContext). *)

Arrives(t, outcome) ==
  /\ t \in wire
  /\ wire' = wire \ {t}
  /\ task' = [task EXCEPT ![t] = IF @ = "asking" THEN outcome ELSE @]
  /\ UNCHANGED <<spoken, told, shut, owned, late>>

\* Mutant: a reset makes the session anew.
ServeAnew(t) ==
  /\ Arrives(t, "answered")
  /\ live' = TRUE
  /\ turns' = IF Kind(t) = "finalize" THEN Append(turns, Utterance(t)) ELSE turns

\* handle_session: the session is made by any request but a reset.  The answer
\* may not get back.
Serve(t) ==
  /\ Arrives(t, "answered") \/ (ServerFaults /\ Arrives(t, "asking"))
  /\ live' = (t # Close)
  /\ turns' = IF Kind(t) = "finalize" THEN Append(turns, Utterance(t)) ELSE turns

\* The embedding fails before the session is looked up.  A bad status is not
\* looked at for an observe or a reset.
Refuse(t) ==
  /\ ServerFaults
  /\ Kind(t) \in {"observe", "finalize"}
  /\ Arrives(t, IF Kind(t) = "finalize" THEN "failed" ELSE "answered")
  /\ UNCHANGED server

Lose(t) ==
  /\ ServerFaults
  /\ t \in wire
  /\ wire' = wire \ {t}
  /\ UNCHANGED <<spoken, task, told, shut, owned, server, late>>

Next ==
  \/ Interim
  \/ Committed
  \/ \E u \in Replies : AgentSpeaks(u)
  \/ Closes
  \/ \E t \in Task : GiveUp(t) \/ Tell(t) \/ Told(t) \/ Return(t) \/ Serve(t) \/ Refuse(t) \/ Lose(t)

\* The event loop gets to every coroutine, and a request ends or times out.
\* Nothing is assumed of the server or the network, nor that the assistant speaks.
Fairness ==
  \A t \in Task : WF_vars(GiveUp(t) \/ Tell(t) \/ Told(t) \/ Return(t))

Spec == Init /\ [][Next]_vars /\ Fairness

-----------------------------------------------------------------------------
(* Properties. *)

TypeOK ==
  /\ spoken \in [utt : 1..(Utterances + 1), n : 0..Partials]
  /\ task \in [Task -> States]
  /\ wire \in SUBSET Task
  /\ told \in Seq(Uttered)
  /\ shut \in BOOLEAN
  /\ owned \in BOOLEAN
  /\ live \in BOOLEAN
  /\ turns \in Seq(Uttered)
  /\ late \in BOOLEAN

\* However the coroutines overtake each other, and whatever times out, the
\* server is taught an utterance at most once, and on_context is run at most
\* once for it, after the server was taught it, with an answer to it.
TaughtAndToldOnce ==
  /\ \A i, j \in DOMAIN turns : turns[i] = turns[j] => i = j
  /\ \A i, j \in DOMAIN told : told[i] = told[j] => i = j
  /\ \A i \in DOMAIN told : \E j \in DOMAIN turns : turns[j] = told[i]

\* A session whose close is over does not come back, unless a request was
\* given up or awaited beside the close, or is asked for over a client of the
\* application's own.
ClosedStaysGone ==
  (task[Close] = "done" /\ shut /\ ~late) => ~live

\* Every coroutine comes to its end, on_context's included.
CoroutinesEnd == \A t \in Task : task[t] # "idle" ~> task[t] = "done"

=============================================================================
