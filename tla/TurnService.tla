---------------------------- MODULE TurnService ----------------------------
(***************************************************************************)
(* What a conversation promises its client, with no gate, no cache and no  *)
(* speculation: every finalized turn is answered exactly for a query close *)
(* to the one asked, and teaches the predictor one transition.             *)
(*                                                                         *)
(* What an exact answer is comes from the index and is a parameter here.   *)
(***************************************************************************)
EXTENDS Naturals, Sequences

CONSTANTS
  Queries,         \* what may be asked
  Counts,          \* how many results may be asked for
  Distances(_, _), \* how far apart two queries are
  Exact,           \* <<prediction, query, count, results>>: the exact answers
  EventOf(_),      \* the event an answer points at, or NoEvent
  Drift,           \* how close the answered query is to the one asked
  NoEvent,
  NoOutput         \* nothing answered yet

VARIABLES
  reply,      \* the last answer, with the query it is for
  lastTurn,   \* the event of the last turn that had one
  taught      \* transitions learned

vars == <<reply, lastTurn, taught>>

Init ==
  /\ reply = NoOutput
  /\ lastTurn = NoEvent
  /\ taught = {}

\* The exact answer, under some prediction, for a query within the drift.
GoodReply(q, k, results) ==
  /\ Len(results) <= k
  /\ \E answer \in Exact :
       /\ answer[4] = results
       /\ Distances(answer[2], q) <= Drift

Turn ==
  /\ reply' # NoOutput
  /\ \E q \in Queries, k \in Counts :
       /\ reply' = [query |-> q, k |-> k, results |-> reply'.results]
       /\ GoodReply(q, k, reply'.results)
  /\ LET event == EventOf(reply'.results)
     IN  /\ lastTurn' = IF event = NoEvent THEN lastTurn ELSE event
         /\ taught' = IF NoEvent \in {lastTurn, event} THEN taught
                      ELSE taught \cup {<<lastTurn, event>>}

Spec == Init /\ [][Turn]_vars

=============================================================================
