--------------------------- MODULE ScrobbleLedger ---------------------------
(***************************************************************************)
(* What the scrobble driver promises the scrobbling services, without      *)
(* queue, results, retries or deadlines: a call is decided upon only for   *)
(* the play current at that moment, and is made and answered before the    *)
(* next one is decided upon, across all services.  So when a play ends, or *)
(* the driver is being destroyed, one call may still be begun for it and   *)
(* no more.  A scrobble is decided upon only after its play met the        *)
(* threshold, and never again once the service accepted it.                *)
(***************************************************************************)
EXTENDS Naturals

CONSTANTS
  Call,   \* records [play, target, kind]
  None    \* no call has been decided upon

VARIABLES
  play,       \* number of the current play
  qualified,  \* the current play has met the scrobble threshold
  chosen,     \* the call decided upon and not answered yet, or None
  asking,     \* it is being made
  landed,     \* <<target, play>> of every accepted scrobble
  open        \* the driver has not been destroyed

vars == <<play, qualified, chosen, asking, landed, open>>

Init ==
  /\ play = 1
  /\ qualified = FALSE
  /\ chosen = None
  /\ asking = FALSE
  /\ landed = {}
  /\ open = TRUE

NextPlay ==
  /\ open
  /\ play' = play + 1
  /\ qualified' = FALSE
  /\ UNCHANGED <<chosen, asking, landed, open>>

Qualify ==
  /\ open
  /\ qualified' = TRUE
  /\ UNCHANGED <<play, chosen, asking, landed, open>>

Choose(call) ==
  /\ open
  /\ chosen = None
  /\ call.play = play
  /\ call.kind = "Scrobble" => qualified /\ <<call.target, call.play>> \notin landed
  /\ chosen' = call
  /\ UNCHANGED <<play, qualified, asking, landed, open>>

(* The play may have ended since.                                          *)
Ask ==
  /\ chosen # None
  /\ ~asking
  /\ asking' = TRUE
  /\ UNCHANGED <<play, qualified, chosen, landed, open>>

Answer(accepted) ==
  /\ asking
  /\ asking' = FALSE
  /\ chosen' = None
  /\ landed' = IF accepted /\ chosen.kind = "Scrobble"
                 THEN landed \union {<<chosen.target, chosen.play>>}
                 ELSE landed
  /\ UNCHANGED <<play, qualified, open>>

Close ==
  /\ open
  /\ open' = FALSE
  /\ UNCHANGED <<play, qualified, chosen, asking, landed>>

Next ==
  \/ NextPlay
  \/ Qualify
  \/ \E call \in Call : Choose(call)
  \/ Ask
  \/ \E accepted \in BOOLEAN : Answer(accepted)
  \/ Close

Spec == Init /\ [][Next]_vars
=============================================================================
