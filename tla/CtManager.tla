----------------------------- MODULE CtManager -----------------------------
(***************************************************************************)
(* src/backend/ct_manager.c: the operations on Incus/LXD containers.        *)
(*                                                                         *)
(* An operation is a REST request over a Unix socket (10 s at most).  The   *)
(* daemon refuses it at once (an error reply) or answers with the URL of a  *)
(* background operation, on which ct_wait_operation waits (60 s at most)    *)
(* for the outcome.  The daemon goes on with the operation whether or not   *)
(* anybody still waits.  One action below is one request, or one move of    *)
(* the daemon; call is the position of the running C function.              *)
(*                                                                         *)
(* The daemon is external: it is modelled from how the code uses it.        *)
(***************************************************************************)
EXTENDS Naturals, FiniteSets

CONSTANTS
  Names,   \* container names
  NoName,  \* "no name": the idle call
  MaxOps   \* bound: background operations the daemon keeps at one time

ASSUME CtNamesAssumption == NoName \notin Names
ASSUME MaxOpsAssumption == MaxOps \in Nat

VARIABLES
  available,  \* app->incus_available
  inst,       \* state of each container, "absent" if there is none
  ops,        \* the daemon's background operations
  call,       \* the ct_* function being executed
  before,     \* history: the target's state when the function was entered
  alone,      \* history: since then nobody else acted on the target
  faultless   \* history: since then no request and no operation failed

history == <<before, alone, faultless>>
ctVars == <<available, inst, ops, call, history>>

---------------------------------------------------------------------------
InstStates == {"absent", "stopped", "running", "frozen"}
Kinds == {"start", "stop", "force_stop", "restart", "delete", "create"}

\* What the daemon carries out, and what it makes of the container.
From == [start |-> {"stopped"}, stop |-> {"running"}, restart |-> {"running"},
         force_stop |-> {"running", "frozen"}, delete |-> {"stopped"},
         create |-> {"absent"}]

After == [start |-> "running", stop |-> "stopped", restart |-> "running",
          force_stop |-> "stopped", delete |-> "absent", create |-> "stopped"]

\* What it refuses at once: an unknown container, deleting one that is not
\* stopped, a name in use.  All else fails in the background if at all.
Refused(kind, st) ==
  \/ kind = "create" /\ st # "absent"
  \/ kind = "delete" /\ st # "stopped"
  \/ kind \notin {"create", "delete"} /\ st = "absent"

Slots == 1..MaxOps
OpStates == {"none", "running", "success", "failure", "cancelled"}

\* own: it was started by the function that is being executed.
Op == [st : OpStates, kind : Kinds \cup {"none"}, name : Names \cup {NoName},
       own : BOOLEAN]
NoOp == [st |-> "none", kind |-> "none", name |-> NoName, own |-> FALSE]

---------------------------------------------------------------------------
(* The running C function. *)

Call == [pc : {"idle", "send", "wait", "done"}, op : Kinds \cup {"none"},
         kind : Kinds \cup {"none"}, name : Names \cup {NoName},
         slot : 0..MaxOps, ok : BOOLEAN]

\* slot 0: no operation to wait for.
Idle == [pc |-> "idle", op |-> "none", kind |-> "none", name |-> NoName,
         slot |-> 0, ok |-> FALSE]

Target == inst[call.name]
Fault == faultless' = FALSE

Quiet == alone /\ faultless

\* Mutant: the slot is not given back.
AnswerKeepsSlot(ok) ==
  IF call.op # call.kind
  THEN call' = [call EXCEPT !.pc = "send", !.kind = "delete"]
  ELSE call' = [call EXCEPT !.pc = "done", !.ok = ok]

\* Mutant: vm_delete's habit, give up when the first step fails.
AnswerGivesUp(ok) ==
  IF call.op # call.kind /\ ok
  THEN call' = [call EXCEPT !.pc = "send", !.kind = "delete", !.slot = 0]
  ELSE call' = [call EXCEPT !.pc = "done", !.ok = ok, !.slot = 0]

\* One request of the function is over.  ct_delete drops the result of its
\* ct_force_stop, pauses, and sends the DELETE.
Answer(ok) ==
  IF call.op # call.kind
  THEN call' = [call EXCEPT !.pc = "send", !.kind = "delete", !.slot = 0]
  ELSE call' = [call EXCEPT !.pc = "done", !.ok = ok, !.slot = 0]

AwaitOn(slot) == call' = [call EXCEPT !.pc = "wait", !.slot = slot]

---------------------------------------------------------------------------
(* ct_backend_connect: the first socket that can be opened. *)

CtBackendConnect ==
  /\ call.pc = "idle"
  /\ available' \in BOOLEAN
  /\ UNCHANGED <<inst, ops, call, history>>

\* Mutant: ct_delete asks the container to shut down instead of stopping it.
BeginDeleteStops(op, n) ==
  /\ call.pc = "idle"
  /\ call' = [Idle EXCEPT !.pc = "send", !.op = op, !.name = n,
                          !.kind = IF op = "delete" THEN "stop" ELSE op]
  /\ before' = inst[n] /\ alone' = TRUE /\ faultless' = TRUE
  /\ UNCHANGED <<available, inst, ops>>

\* ct_start .. ct_create are entered.
Begin(op, n) ==
  /\ call.pc = "idle"
  /\ call' = [Idle EXCEPT !.pc = "send", !.op = op, !.name = n,
                          !.kind = IF op = "delete" THEN "force_stop" ELSE op]
  /\ before' = inst[n] /\ alone' = TRUE /\ faultless' = TRUE
  /\ UNCHANGED <<available, inst, ops>>

---------------------------------------------------------------------------
(* ct_api_request: the request that starts an operation. *)

\* The daemon starts the operation; its reply arrives or gets lost.
SendAccepted ==
  /\ call.pc = "send" /\ available /\ ~Refused(call.kind, Target)
  /\ \E s \in Slots :
       /\ ops[s] = NoOp
       /\ ops' = [ops EXCEPT ![s] = [st |-> "running", kind |-> call.kind,
                                     name |-> call.name, own |-> TRUE]]
       /\ \/ AwaitOn(s) /\ UNCHANGED faultless
          \/ Answer(FALSE) /\ Fault
  /\ UNCHANGED <<available, inst, before, alone>>

\* An error reply.  Only ct_create reads its "error"; for the others a reply
\* without "operation" counts as success, and one with an empty "operation"
\* leads to a wait on nothing.
SendRefused ==
  /\ call.pc = "send" /\ available /\ Refused(call.kind, Target)
  /\ \/ Answer(call.kind # "create")
     \/ call.kind # "create" /\ AwaitOn(0)
  /\ UNCHANGED <<available, inst, ops, history>>

\* No daemon to ask, or none that answers within 10 s.
SendFails ==
  /\ call.pc = "send"
  /\ Answer(FALSE)
  /\ faultless' = (faultless /\ ~available)
  /\ UNCHANGED <<available, inst, ops, before, alone>>

---------------------------------------------------------------------------
(* ct_wait_operation: GET .../wait. *)

Waiting(states) ==
  /\ call.pc = "wait" /\ call.slot # 0 /\ ops[call.slot].st \in states
  /\ UNCHANGED <<available, inst, ops, before, alone>>

\* Only the status "Failure" is a failure.
WaitAnswered ==
  /\ Waiting({"success", "failure", "cancelled"})
  /\ Answer(ops[call.slot].st # "failure")
  /\ UNCHANGED faultless

\* Mutant: a wait that times out is taken as success.
WaitTimeoutIsSuccess ==
  /\ Waiting(OpStates)
  /\ Answer(TRUE) /\ Fault

\* Mutant: the wait has no timeout.
WaitTimeoutNever ==
  /\ Waiting({"success", "failure", "cancelled"})
  /\ Answer(FALSE) /\ Fault

\* 60 s have passed, or the connection broke.
WaitTimeout ==
  /\ Waiting(OpStates)
  /\ Answer(FALSE) /\ Fault

\* GET "/wait": another error reply, without the status that is looked for.
WaitForNothing ==
  /\ call.pc = "wait" /\ call.slot = 0
  /\ \/ Answer(TRUE) /\ UNCHANGED faultless
     \/ Answer(FALSE) /\ Fault
  /\ UNCHANGED <<available, inst, ops, before, alone>>

Finish ==
  /\ call.pc = "done"
  /\ call' = Idle
  /\ ops' = [s \in Slots |-> [ops[s] EXCEPT !.own = FALSE]]
  /\ before' = "absent" /\ alone' = TRUE /\ faultless' = TRUE
  /\ UNCHANGED <<available, inst>>

---------------------------------------------------------------------------
(* The daemon and its other clients. *)

\* An operation ends: carried out, failed or cancelled by another client.  Of
\* an earlier call, it disturbs the one that is running.
OperationEnds(s) ==
  LET o == ops[s]
      legal == inst[o.name] \in From[o.kind] IN
  /\ o.st = "running"
  /\ \E st \in {"success", "failure", "cancelled"} :
       /\ st = "success" => legal
       /\ ops' = [ops EXCEPT ![s].st = st]
       /\ inst' = IF st = "success" THEN [inst EXCEPT ![o.name] = After[o.kind]]
                  ELSE inst
       /\ alone' = (alone /\ (o.own \/ o.name # call.name) /\ st # "cancelled")
       /\ faultless' = (faultless /\ (st = "failure" /\ o.own => ~legal))
  /\ UNCHANGED <<available, call, before>>

\* A finished operation is forgotten.
OperationExpires(s) ==
  /\ ops[s].st \in {"success", "failure", "cancelled"} /\ s # call.slot
  /\ ops' = [ops EXCEPT ![s] = NoOp]
  /\ UNCHANGED <<available, inst, call, history>>

Elsewhere(n) ==
  /\ \E st \in InstStates : inst' = [inst EXCEPT ![n] = st]
  /\ alone' = (alone /\ n # call.name)
  /\ UNCHANGED <<available, ops, call, before, faultless>>

---------------------------------------------------------------------------
Init ==
  /\ available = FALSE
  /\ inst \in [Names -> InstStates]
  /\ ops = [s \in Slots |-> NoOp]
  /\ call = Idle
  /\ before = "absent" /\ alone = TRUE /\ faultless = TRUE

CallStep ==
  \/ SendAccepted \/ SendRefused \/ SendFails
  \/ WaitAnswered \/ WaitTimeout \/ WaitForNothing
  \/ Finish

Daemon == \E s \in Slots : OperationEnds(s) \/ OperationExpires(s)

Next ==
  \/ CtBackendConnect
  \/ \E op \in Kinds, n \in Names : Begin(op, n)
  \/ CallStep
  \/ Daemon
  \/ \E n \in Names : Elsewhere(n)

\* Each request ends by its own timeout; nothing is assumed of the daemon.
Fairness == WF_ctVars(CallStep)

Spec == Init /\ [][Next]_ctVars /\ Fairness

---------------------------------------------------------------------------
(* Properties *)

\* Every variable keeps its type, and an operation is referred to only while
\* the function waits for it.
TypeOK ==
  /\ available \in BOOLEAN
  /\ inst \in [Names -> InstStates]
  /\ ops \in [Slots -> Op]
  /\ call \in Call /\ (call.slot # 0 => call.pc = "wait")
  /\ before \in InstStates /\ alone \in BOOLEAN /\ faultless \in BOOLEAN

\* A function that reports success has not left the operation it reports on
\* running in the daemon (after a failure it may well still be running).
SuccessIsSettled ==
  call.pc = "done" /\ call.ok =>
    ~\E s \in Slots :
       ops[s].st = "running" /\ ops[s].own /\ ops[s].kind = call.op

\* Nobody interfering, an operation that suits the container's state succeeds
\* and is reported so; ct_delete also takes a container that is running, frozen
\* or already stopped, and ct_create never claims a name that was in use.
Contract ==
  call.pc = "done" /\ Quiet /\ available =>
    /\ \/ before \in From[call.op]
       \/ call.op = "delete" /\ before # "absent"
       => call.ok /\ Target = After[call.op]
    /\ call.op = "create" /\ call.ok => before = "absent"

\* The window comes back: every ct_* function returns, even if the daemon never
\* finishes an operation.
CallsReturn == call.pc # "idle" ~> call.pc = "idle"

---------------------------------------------------------------------------
(* The service it implements (module MachineService). *)

Succeeds(op, n, st) == st \in From[op] \/ (op = "delete" /\ st # "absent")

Outcome(op, st, to) == to = After[op]

Moved(op, st, to) ==
  \E kind \in {op} \cup {k \in {"force_stop"} : op = "delete"} :
    st \in From[kind] /\ to = After[kind]

Service == INSTANCE MachineService WITH
  Ops <- Kinds,
  States <- InstStates,
  Divided <- {"delete"},
  Honest <- {"create"},
  Serves <- Succeeds,
  Step <- Moved,
  state <- inst,
  reachable <- available,
  request <- [op |-> call.op, name |-> call.name,
              answer |-> IF call.pc # "done" THEN "none"
                         ELSE IF call.ok THEN "done" ELSE "failed"],
  tranquil <- Quiet

\* Waits that time out and operations that outlive their call included, a ct_*
\* function brings about no change but its own operation's, to the container
\* it was called for; it answers once; and nobody disturbing it, it succeeds
\* exactly where the daemon can carry the operation out, and otherwise leaves
\* the container as it was, whatever it answers (only ct_create owns up).
ServesMachines == Service!Spec

---------------------------------------------------------------------------
(* A statement the code does not keep (see the README). *)

\* "Container '%s' deleted": when ct_delete reports success and no other client
\* acted on the container, it is gone.
DeletedMeansGone ==
  call.pc = "done" /\ call.op = "delete" /\ call.ok /\ alone =>
    Target = "absent"
=============================================================================
