--------------------------- MODULE PolicyRegister ---------------------------
(***************************************************************************)
(* What the policy page promises to those who edit and read it at the same *)
(* time, whichever threads serve them and however often the server is      *)
(* killed: an edit takes effect once, for good, between its asking and its *)
(* answer; an answer shows the register as it was at some moment since its *)
(* asking, with the edit it confirms; a request that was lost may or may   *)
(* not have taken effect, but never does so afterwards.                    *)
(***************************************************************************)
EXTENDS Naturals, Sequences

CONSTANTS
  Requests,
  Contents,    \* what a request may carry
  Edits        \* the contents that change the register

VARIABLES
  history,     \* the edits that took effect, oldest first
  stage,       \* where each request is
  content,     \* what it carries
  since,       \* how long the history was when it was asked
  effect,      \* the position of its edit in the history, 0 without one
  view         \* how much of the history its answer shows

vars == <<history, stage, content, since, effect, view>>

Pending == {r \in Requests : stage[r] = "pending"}

Init ==
  /\ history = <<>>
  /\ stage = [r \in Requests |-> "unasked"]
  /\ content \in [Requests -> Contents]
  /\ since = [r \in Requests |-> 0]
  /\ effect = [r \in Requests |-> 0]
  /\ view = [r \in Requests |-> 0]

Ask(r) ==
  /\ stage[r] = "unasked"
  /\ stage' = [stage EXCEPT ![r] = "pending"]
  /\ \E c \in Contents : content' = [content EXCEPT ![r] = c]
  /\ since' = [since EXCEPT ![r] = Len(history)]
  /\ UNCHANGED <<history, effect, view>>

TakeEffect(r) ==
  /\ r \in Pending /\ content[r] \in Edits /\ effect[r] = 0
  /\ history' = Append(history, content[r])
  /\ effect' = [effect EXCEPT ![r] = Len(history')]
  /\ UNCHANGED <<stage, content, since, view>>

Answer(r) ==
  /\ r \in Pending /\ (content[r] \in Edits => effect[r] # 0)
  /\ stage' = [stage EXCEPT ![r] = "answered"]
  /\ \E n \in since[r] .. Len(history) : effect[r] <= n /\ view' = [view EXCEPT ![r] = n]
  /\ UNCHANGED <<history, content, since, effect>>

\* A refusal: it says that nothing was changed.
Refuse(r) ==
  /\ r \in Pending /\ effect[r] = 0
  /\ stage' = [stage EXCEPT ![r] = "refused"]
  /\ UNCHANGED <<history, content, since, effect, view>>

\* No answer: one request fails, or all of them with the server.
Lose(some) ==
  /\ stage' = [r \in Requests |-> IF r \in some THEN "lost" ELSE stage[r]]
  /\ UNCHANGED <<history, content, since, effect, view>>

Next ==
  \/ \E r \in Requests : Ask(r) \/ TakeEffect(r) \/ Answer(r) \/ Refuse(r)
  \/ \E some \in SUBSET Pending : Lose(some)

Spec == Init /\ [][Next]_vars

=============================================================================
