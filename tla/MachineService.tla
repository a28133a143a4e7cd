--------------------------- MODULE MachineService ---------------------------
(***************************************************************************)
(* What the two backends promise the window: one request at a time on a     *)
(* machine that is named, answered with "done" or "failed".  Others use the *)
(* machines as well, and whoever disturbs a request (or whatever breaks     *)
(* under it) takes the promise about its answer away, but never the         *)
(* promise that it touches no other machine and takes no other steps than   *)
(* its own.                                                                *)
(*                                                                         *)
(* VmManager and CtManager each show that they implement this module.       *)
(***************************************************************************)
CONSTANTS
  Names,    \* machine names
  NoName,   \* no machine
  Ops,      \* operations
  States,   \* of a machine
  Divided,  \* operations of several steps, which may fail half way
  Honest,   \* operations that never claim success where they cannot have it
  Serves(_, _, _),   \* op, name, before: a request that is sure to succeed
  Outcome(_, _, _),  \* op, before, after: what such a request makes of before
  Step(_, _, _)      \* op, from, to: a change a request may make on its way

VARIABLES
  state,      \* of each machine
  reachable,  \* whether there is a daemon to serve requests
  request,    \* the request being served
  before,     \* the state its machine had when it was made
  tranquil    \* nobody else touched the machine since, and nothing broke

serviceVars == <<state, reachable, request, before, tranquil>>

Nothing == [op |-> "none", name |-> NoName, answer |-> "none"]

Request(answers) == [op : Ops, name : Names, answer : answers]

Pending == request \in Request({"none"})

\* The step changes no machine but n.
Only(n) == state' = [state EXCEPT ![n] = state'[n]]

---------------------------------------------------------------------------
Accept(op, n) ==
  /\ request = Nothing
  /\ request' = [op |-> op, name |-> n, answer |-> "none"]
  /\ before' = state[n] /\ tranquil' = TRUE
  /\ UNCHANGED <<state, reachable>>

\* A request that is refused before anything is tried.
Reject(op, n) ==
  /\ request = Nothing
  /\ ~(reachable /\ Serves(op, n, state[n]))
  /\ request' = [op |-> op, name |-> n, answer |-> "failed"]
  /\ before' = state[n] /\ tranquil' = TRUE
  /\ UNCHANGED <<state, reachable>>

\* What an answer is worth that nothing disturbed, st being the state left.
Truthful(answer, st) ==
  IF reachable /\ Serves(request.op, request.name, before)
  THEN answer = "done" /\ Outcome(request.op, before, st)
  ELSE /\ request.op \notin Divided => st = before
       /\ request.op \in Honest => answer = "failed"

\* One step of the service for the pending request: a change of its machine,
\* or none; an answer, or none; or something breaks.
Serve ==
  /\ Pending
  /\ Only(request.name)
  /\ LET from == state[request.name]
         to == state'[request.name] IN
       /\ to = from \/ Step(request.op, from, to)
       /\ \/ UNCHANGED request
          \/ \E answer \in {"done", "failed"} :
               /\ request' = [request EXCEPT !.answer = answer]
               /\ answer = "done" => reachable
               /\ tranquil' => Truthful(answer, to)
  /\ tranquil' \in {tranquil, FALSE}
  /\ UNCHANGED <<reachable, before>>

Dismiss ==
  /\ request \in Request({"done", "failed"})
  /\ request' = Nothing /\ tranquil' = TRUE
  /\ before' \in States
  /\ UNCHANGED <<state, reachable>>

Reconnect ==
  /\ request = Nothing
  /\ reachable' \in BOOLEAN
  /\ UNCHANGED <<state, request, before, tranquil>>

Others(n) ==
  /\ Only(n) /\ state'[n] \in States
  /\ tranquil' \in {tranquil, FALSE}
  /\ tranquil' => n # request.name
  /\ UNCHANGED <<reachable, request, before>>

---------------------------------------------------------------------------
Init ==
  /\ state \in [Names -> States]
  /\ reachable = FALSE
  /\ request = Nothing
  /\ before \in States /\ tranquil = TRUE

Next ==
  \/ \E op \in Ops, n \in Names : Accept(op, n) \/ Reject(op, n)
  \/ Serve \/ Dismiss \/ Reconnect
  \/ \E n \in Names : Others(n)

Spec == Init /\ [][Next]_serviceVars
=============================================================================
