----------------------------- MODULE TokenStream -----------------------------
(***************************************************************************)
(* What the split pipeline promises the person who presses "run pipeline": *)
(* one token per sequence position, in order, each computed for this run,  *)
(* over a context that holds this run and nothing else, until the run      *)
(* stops.  Pipeline.tla implements it.                                     *)
(***************************************************************************)
EXTENDS Naturals, Sequences

CONSTANTS
  MaxTokens,    \* tokens a run asks for (the maxTokens field, 1..MAX_SEQ)
  MaxRuns       \* runs of the coordinator, over all its page loads

VARIABLES
  run,          \* number of the latest run
  active,       \* whether that run is still producing
  transcript    \* the tokens shown for it

vars == <<run, active, transcript>>

\* The token that answers position p of run r, computed over a whole context.
TokenFor(r, p) == [run |-> r, pos |-> p, clean |-> TRUE]

Init ==
  /\ run = 0
  /\ active = FALSE
  /\ transcript = <<>>

Start ==
  /\ ~active
  /\ run < MaxRuns
  /\ run' = run + 1
  /\ active' = TRUE
  /\ transcript' = <<>>

Produce ==
  /\ active
  /\ Len(transcript) < MaxTokens
  /\ transcript' = Append(transcript, TokenFor(run, Len(transcript)))
  /\ active' \in BOOLEAN
  /\ UNCHANGED run

Stop ==
  /\ active
  /\ active' = FALSE
  /\ UNCHANGED <<run, transcript>>

Next == Start \/ Produce \/ Stop

\* A run ends: nothing is promised about how many tokens it gave.
Spec == Init /\ [][Next]_vars /\ WF_vars(Stop)
==============================================================================
