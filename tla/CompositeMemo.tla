----------------------------- MODULE CompositeMemo -----------------------------
(***************************************************************************)
(* What the compositor and its cache promise: whoever asks for a composite *)
(* is shown that one, and a composite that is kept is kept for ever.       *)
(***************************************************************************)
CONSTANTS
  Instances,
  Requests,   \* what can be asked for
  Nothing,
  Failed

VARIABLES
  memo,       \* what is kept under each path
  asked,      \* what each instance has asked for
  shown       \* what each instance shows

vars == <<memo, asked, shown>>

Init ==
  /\ memo = [path \in DOMAIN memo |-> Nothing]
  /\ asked = [p \in Instances |-> Nothing]
  /\ shown = [p \in Instances |-> Nothing]

Ask(p) ==
  /\ asked[p] = Nothing
  /\ \E request \in Requests : asked' = [asked EXCEPT ![p] = request]
  /\ UNCHANGED <<memo, shown>>

Keep ==
  /\ \E path \in DOMAIN memo, request \in Requests :
       /\ memo[path] = Nothing
       /\ memo' = [memo EXCEPT ![path] = request]
  /\ UNCHANGED <<asked, shown>>

\* What was asked for is shown, and the next composite asked for.
Present(p) ==
  /\ asked[p] \in Requests
  /\ shown' = [shown EXCEPT ![p] = asked[p]]
  /\ \E next \in Requests \cup {Nothing} : asked' = [asked EXCEPT ![p] = next]
  /\ UNCHANGED memo

\* An image is missing: nothing is asked for any more.
GiveUp(p) ==
  /\ asked[p] \in Requests
  /\ asked' = [asked EXCEPT ![p] = Failed]
  /\ UNCHANGED <<memo, shown>>

Next == Keep \/ \E p \in Instances : Ask(p) \/ Present(p) \/ GiveUp(p)

Spec == Init /\ [][Next]_vars

===============================================================================
