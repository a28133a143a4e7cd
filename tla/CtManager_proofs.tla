-------------------------- MODULE CtManager_proofs --------------------------
(***************************************************************************)
(* Proofs about CtManager, for any set of names and any number of daemon    *)
(* operations: the types, SuccessIsSettled, Contract, and that it           *)
(* implements MachineService.                                              *)
(*                                                                         *)
(* Inv is inductive.  Its parts say where a running function can be, which  *)
(* operations of the daemon are its own and which of them may still run,    *)
(* and, as long as nobody disturbs it, what it has made of its container.   *)
(***************************************************************************)
EXTENDS CtManager, TLAPS

CallOK ==
  /\ call.pc = "idle" => call = Idle
  /\ call.pc # "idle" =>
       /\ call.op \in Kinds /\ call.name \in Names
       /\ \/ call.kind = call.op
          \/ call.op = "delete" /\ call.kind = "force_stop" /\ call.pc # "done"
  /\ call.pc = "wait" \/ (call.pc = "done" /\ call.ok) => available

\* An operation that exists has a kind and a target; one of the function's own
\* is on its container, and of the request it is at or the one before it.
Known(o) == o.st # "none" => o.kind \in Kinds /\ o.name \in Names

Mine(o) ==
  o.own => /\ o.st # "none" /\ o.name = call.name
           /\ o.kind = call.kind \/ (call.op = "delete" /\ o.kind = "force_stop")

OpOK(s) ==
  Known(ops[s]) /\ Mine(ops[s]) /\ (ops[s].own => call.pc # "idle")

\* An operation of the function's own that still runs is the one it waits for,
\* unless a wait has failed: then the function goes on or reports the failure.
RunsOn(s) ==
  ops[s].own /\ ops[s].st = "running" =>
    \/ call.pc = "wait" /\ call.slot = s
    \/ ~faultless /\ (ops[s].kind # call.kind \/ (call.pc = "done" /\ ~call.ok))

Awaited ==
  call.pc = "wait" /\ call.slot # 0 =>
    /\ ops[call.slot].own /\ ops[call.slot].kind = call.kind

OpsOK == Awaited /\ \A s \in Slots : OpOK(s) /\ RunsOn(s)

\* What an undisturbed function finds when it sends its request.
Base ==
  IF call.op = "delete" /\ call.kind = "delete" /\ available
       /\ before \in From["force_stop"]
  THEN "stopped" ELSE before

\* What an undisturbed function owes its caller.
Owed(ok) ==
  IF available /\ Succeeds(call.op, call.name, before)
  THEN ok /\ Target = After[call.op]
  ELSE /\ call.op # "delete" => Target = before
       /\ call.op = "create" => ~ok

Progress ==
  Quiet =>
    /\ call.pc = "send" => Target = Base
    /\ call.pc = "wait" /\ call.slot = 0 =>
         Target = Base /\ Refused(call.kind, Base) /\ call.kind # "create"
    /\ call.pc = "wait" /\ call.slot # 0 =>
         \/ ops[call.slot].st = "running" /\ Target = Base
         \/ /\ ops[call.slot].st = "success"
            /\ Base \in From[call.kind] /\ Target = After[call.kind]
         \/ /\ ops[call.slot].st = "failure"
            /\ Base \notin From[call.kind] /\ Target = Base
    /\ call.pc = "done" => Owed(call.ok)

Inv == TypeOK /\ CallOK /\ OpsOK /\ Progress

-----------------------------------------------------------------------------
(* How a request ends. *)

LEMMA AnswerEffect ==
  ASSUME TypeOK, NEW ok \in BOOLEAN, Answer(ok)
  PROVE  /\ call' \in Call /\ call'.op = call.op /\ call'.name = call.name
         /\ call'.slot = 0
         /\ IF call.op # call.kind
            THEN call'.pc = "send" /\ call'.kind = "delete" /\ call'.ok = call.ok
            ELSE call'.pc = "done" /\ call'.kind = call.kind /\ call'.ok = ok
<1>1. /\ call \in Call /\ 0 \in 0..MaxOps
      /\ "delete" \in Kinds \cup {"none"}
      /\ {"send", "done"} \subseteq {"idle", "send", "wait", "done"}
  BY MaxOpsAssumption DEF TypeOK, Kinds
<1>2. CASE call.op # call.kind
  <2>1. call' = [call EXCEPT !.pc = "send", !.kind = "delete", !.slot = 0]
    BY <1>2 DEF Answer
  <2> QED BY <1>1, <1>2, <2>1 DEF Call
<1>3. CASE call.op = call.kind
  <2>1. call' = [call EXCEPT !.pc = "done", !.ok = ok, !.slot = 0]
    BY <1>3 DEF Answer
  <2> QED BY <1>1, <1>3, <2>1 DEF Call
<1> QED BY <1>2, <1>3

LEMMA AwaitEffect ==
  ASSUME TypeOK, NEW slot \in 0..MaxOps, AwaitOn(slot)
  PROVE  /\ call' \in Call /\ call'.op = call.op /\ call'.name = call.name
         /\ call'.kind = call.kind /\ call'.ok = call.ok
         /\ call'.pc = "wait" /\ call'.slot = slot
BY DEF TypeOK, AwaitOn, Call

\* A request answered, as a step of the service.
LEMMA AnswerServes ==
  ASSUME TypeOK, CallOK, call.pc \in {"send", "wait"},
         UNCHANGED <<available, inst, before>>, Quiet' \in {Quiet, FALSE},
         call'.op = call.op, call'.name = call.name,
         call'.pc # "done" \/ /\ call'.ok \in BOOLEAN
                              /\ call'.ok => available
                              /\ Quiet' => Owed(call'.ok)
  PROVE  Service!Serve
<1> DEFINE answer == IF call.pc # "done" THEN "none"
                     ELSE IF call.ok THEN "done" ELSE "failed"
           request == [op |-> call.op, name |-> call.name, answer |-> answer]
<1>1. call.name \in Names /\ call.op \in Kinds /\ answer = "none"
  BY DEF CallOK
<1>2. Service!Pending
  BY <1>1 DEF Service!Pending, Service!Request
<1>3. inst'[call.name] = Target /\ Service!Only(call.name)
  BY <1>1 DEF Service!Only, TypeOK, Target
<1>4. CASE call'.pc # "done"
  <2>1. request' = request
    BY <1>1, <1>4
  <2> QED BY <1>2, <1>3, <2>1 DEF Service!Serve, Target
<1>5. CASE call'.pc = "done" /\ call'.ok \in BOOLEAN
  <2>1. /\ answer' \in {"done", "failed"} /\ (answer' = "done" <=> call'.ok)
        /\ request' = [request EXCEPT !.answer = answer']
    BY <1>5
  <2>2. Quiet' => Service!Truthful(answer', Target)
    BY <1>1, <1>5, <2>1 DEF Service!Truthful, Owed, Outcome
  <2> QED BY <1>2, <1>3, <1>5, <2>1, <2>2 DEF Service!Serve, Target
<1> QED BY <1>4, <1>5

\* Answer keeps the invariant and serves: nothing of the function's own that
\* still runs goes unreported, and undisturbed the answer is the one owed.
LEMMA AnswerInv ==
  ASSUME Inv, call.pc \in {"send", "wait"}, NEW ok \in BOOLEAN, Answer(ok),
         UNCHANGED <<available, inst, before, alone>>,
         faultless' \in {faultless, FALSE}, ok => available,
         ops' \in [Slots -> Op],
         \A s \in Slots :
           /\ Known(ops'[s]) /\ Mine(ops'[s])
           /\ ops'[s].own /\ ops'[s].st = "running" =>
                ~faultless' /\ (ops'[s].kind = call.kind => ~ok),
         Quiet' /\ call.op # call.kind =>
           Target = IF available /\ before \in From["force_stop"] THEN "stopped"
                    ELSE before,
         Quiet' /\ call.op = call.kind => Owed(ok)
  PROVE  Inv' /\ Service!Serve
<1>1. /\ TypeOK /\ CallOK /\ call.op \in Kinds /\ call.name \in Names
      /\ call.op # call.kind => call.op = "delete" /\ call.kind = "force_stop"
  BY DEF Inv, CallOK
<1>2. /\ call' \in Call /\ call'.op = call.op /\ call'.name = call.name
      /\ call'.slot = 0
      /\ IF call.op # call.kind
         THEN call'.pc = "send" /\ call'.kind = "delete" /\ call'.ok = call.ok
         ELSE call'.pc = "done" /\ call'.kind = call.kind /\ call'.ok = ok
  BY <1>1, AnswerEffect
<1>3. TypeOK'
  BY <1>1, <1>2 DEF TypeOK
<1>4. CallOK'
  BY <1>1, <1>2 DEF CallOK
<1>5. OpsOK'
  <2>1. ASSUME NEW s \in Slots PROVE OpOK(s)' /\ RunsOn(s)'
    BY <1>1, <1>2 DEF OpOK, Known, Mine, RunsOn
  <2> QED BY <1>2, <2>1 DEF OpsOK, Awaited
<1>6. Quiet' \in {Quiet, FALSE}
  BY <1>1 DEF Quiet, TypeOK
<1>7. Target' = Target
  BY <1>2 DEF Target
<1>8. Progress'
  <2>1. CASE call.op # call.kind
    BY <1>1, <1>2, <1>7, <2>1 DEF Progress, Base
  <2>2. CASE call.op = call.kind
    BY <1>2, <1>7, <2>2 DEF Progress, Owed
  <2> QED BY <2>1, <2>2
<1>9. Service!Serve
  BY <1>1, <1>2, <1>6, AnswerServes
<1> QED BY <1>3, <1>4, <1>5, <1>8, <1>9 DEF Inv

\* A request that is to be waited for.
LEMMA AwaitInv ==
  ASSUME Inv, call.pc = "send", available, NEW slot \in 0..MaxOps, AwaitOn(slot),
         UNCHANGED <<available, inst, history>>, ops' \in [Slots -> Op],
         \A s \in Slots :
           /\ Known(ops'[s]) /\ Mine(ops'[s])
           /\ ops'[s].own /\ ops'[s].st = "running" =>
                \/ s = slot
                \/ ~faultless /\ ops'[s].kind # call.kind,
         slot # 0 => /\ ops'[slot].own /\ ops'[slot].kind = call.kind
                     /\ ops'[slot].st = "running",
         slot = 0 => Refused(call.kind, Target) /\ call.kind # "create"
  PROVE  Inv' /\ Service!Serve
<1>1. /\ TypeOK /\ CallOK /\ call.op \in Kinds /\ call.name \in Names
      /\ UNCHANGED <<before, alone, faultless, Quiet>>
  BY DEF Inv, CallOK, history, Quiet
<1>2. /\ call' \in Call /\ call'.op = call.op /\ call'.name = call.name
      /\ call'.kind = call.kind /\ call'.ok = call.ok
      /\ call'.pc = "wait" /\ call'.slot = slot
  BY <1>1, AwaitEffect
<1>3. TypeOK'
  BY <1>1, <1>2 DEF TypeOK
<1>4. CallOK'
  BY <1>1, <1>2 DEF CallOK
<1>5. OpsOK'
  <2>1. ASSUME NEW s \in Slots PROVE OpOK(s)' /\ RunsOn(s)'
    BY <1>1, <1>2 DEF OpOK, Known, Mine, RunsOn
  <2> QED BY <1>2, <2>1 DEF OpsOK, Awaited
<1>6. Target' = Target /\ Base' = Base
  BY <1>1, <1>2 DEF Target, Base
<1>7. Progress'
  BY <1>1, <1>2, <1>6 DEF Inv, Progress
<1>8. Service!Serve
  BY <1>1, <1>2, AnswerServes
<1> QED BY <1>3, <1>4, <1>5, <1>7, <1>8 DEF Inv

-----------------------------------------------------------------------------
(* The requests. *)

\* A request that succeeds, or is refused, is what the function's whole
\* operation comes down to.
LEMMA BaseDecides ==
  ASSUME Inv, call.pc \in {"send", "wait"}, available, call.op = call.kind
  PROVE  /\ Base \in From[call.kind] => Succeeds(call.op, call.name, before)
         /\ Refused(call.kind, Base) \/ (call.kind # "create" /\ Base \notin From[call.kind]) =>
              ~Succeeds(call.op, call.name, before)
         /\ call.op # "delete" => Base = before
<1>1. call.op \in Kinds /\ before \in InstStates
  BY DEF Inv, CallOK, TypeOK
<1> QED BY <1>1 DEF Base, Succeeds, Refused, From, Kinds, InstStates

LEMMA SendAcceptedInv == ASSUME Inv, SendAccepted PROVE Inv' /\ Service!Serve
<1>1. /\ call.pc = "send" /\ available /\ call.op \in Kinds /\ call.name \in Names
      /\ call.kind \in Kinds /\ TypeOK
  BY DEF SendAccepted, Inv, CallOK, Kinds
<1>2. PICK s \in Slots :
        /\ ops[s] = NoOp
        /\ ops' = [ops EXCEPT ![s] = [st |-> "running", kind |-> call.kind,
                                      name |-> call.name, own |-> TRUE]]
        /\ \/ AwaitOn(s) /\ UNCHANGED faultless
           \/ Answer(FALSE) /\ Fault
  BY DEF SendAccepted
<1>3. s \in 1..MaxOps /\ s \in 0..MaxOps /\ s # 0
  BY MaxOpsAssumption DEF Slots
<1>4. ops' \in [Slots -> Op]
  BY <1>1, <1>2 DEF TypeOK, Op, OpStates
<1>5. ASSUME NEW t \in Slots
      PROVE  /\ Known(ops'[t]) /\ Mine(ops'[t])
             /\ ops'[t].own /\ ops'[t].st = "running" =>
                  t = s \/ (~faultless /\ ops'[t].kind # call.kind)
  BY <1>1, <1>2 DEF Inv, OpsOK, OpOK, RunsOn, Known, Mine, TypeOK
<1>6. CASE AwaitOn(s) /\ UNCHANGED faultless
  <2>1. /\ UNCHANGED <<available, inst, history>>
        /\ ops'[s].own /\ ops'[s].kind = call.kind /\ ops'[s].st = "running"
    BY <1>1, <1>2, <1>6 DEF SendAccepted, history, TypeOK
  <2> QED BY <1>1, <1>3, <1>4, <1>5, <1>6, <2>1, AwaitInv
<1>7. CASE Answer(FALSE) /\ Fault
  <2>1. faultless' = FALSE /\ UNCHANGED <<available, inst, before, alone>>
    BY <1>7 DEF SendAccepted, Fault
  <2>2. Quiet' = FALSE
    BY <2>1 DEF Quiet
  <2> QED BY <1>1, <1>4, <1>5, <1>7, <2>1, <2>2, AnswerInv
<1> QED BY <1>2, <1>6, <1>7

\* What the function's own operations are, as long as none is started.
LEMMA OwnOps ==
  ASSUME Inv, call.pc \in {"send", "wait"}, NEW s \in Slots
  PROVE  /\ Known(ops[s]) /\ Mine(ops[s])
         /\ ops[s].own /\ ops[s].st = "running" /\ ~(call.pc = "wait" /\ call.slot = s)
              => ~faultless /\ ops[s].kind # call.kind
BY DEF Inv, OpsOK, OpOK, RunsOn

\* An answer without a wait: no operation of the function's own is touched.
LEMMA RefusalInv ==
  ASSUME Inv, available, NEW ok \in BOOLEAN, Answer(ok),
         \/ call.pc = "send" /\ Refused(call.kind, Target)
         \/ call.pc = "wait" /\ call.slot = 0,
         UNCHANGED <<available, inst, ops, before, alone>>,
         \/ UNCHANGED faultless /\ (call.kind = "create" => ~ok)
         \/ Fault
  PROVE  Inv' /\ Service!Serve
<1>1. /\ call.pc \in {"send", "wait"} /\ call.op \in Kinds /\ TypeOK
      /\ ops' \in [Slots -> Op]
      /\ call.op # call.kind => call.op = "delete" /\ call.kind = "force_stop"
  BY DEF Inv, CallOK, TypeOK
<1>2. faultless' \in {faultless, FALSE} /\ (~faultless => ~faultless')
  <2>1. CASE UNCHANGED faultless
    BY <1>1, <2>1 DEF TypeOK
  <2>2. CASE faultless' = FALSE
    BY <2>2
  <2> QED BY <2>1, <2>2 DEF Fault
<1>3. ASSUME NEW s \in Slots
      PROVE  /\ Known(ops'[s]) /\ Mine(ops'[s])
             /\ ops'[s].own /\ ops'[s].st = "running" =>
                  ~faultless' /\ (ops'[s].kind = call.kind => ~ok)
  BY <1>1, <1>2, OwnOps DEF Slots
<1>4. Quiet' => /\ Quiet /\ Target = Base /\ Refused(call.kind, Base)
                /\ call.kind = "create" => ~ok
  <2>1. Quiet' => Quiet /\ UNCHANGED faultless
    BY <1>1, <1>2 DEF Quiet, Fault, TypeOK
  <2> QED BY <2>1 DEF Inv, Progress, Quiet, Fault
<1>5. Quiet' /\ call.op # call.kind =>
        Target = IF available /\ before \in From["force_stop"] THEN "stopped"
                 ELSE before
  BY <1>1, <1>4 DEF Base, Refused, From
<1>6. Quiet' /\ call.op = call.kind => Owed(ok)
  BY <1>1, <1>4, BaseDecides DEF Owed
<1> QED BY <1>1, <1>2, <1>3, <1>5, <1>6, AnswerInv

LEMMA SendRefusedInv == ASSUME Inv, SendRefused PROVE Inv' /\ Service!Serve
<1>1. /\ call.pc = "send" /\ available /\ Refused(call.kind, Target) /\ TypeOK
      /\ UNCHANGED <<available, inst, ops, before, alone, faultless>>
  BY DEF SendRefused, Inv, history
<1>2. CASE Answer(call.kind # "create")
  <2>1. (call.kind # "create") \in BOOLEAN
    OBVIOUS
  <2> QED BY <1>1, <1>2, <2>1, RefusalInv
<1>3. CASE call.kind # "create" /\ AwaitOn(0)
  <2>1. 0 \in 0..MaxOps /\ ops' \in [Slots -> Op] /\ UNCHANGED history
    BY <1>1, MaxOpsAssumption DEF TypeOK, history
  <2>2. ASSUME NEW s \in Slots
        PROVE  /\ Known(ops'[s]) /\ Mine(ops'[s])
               /\ ops'[s].own /\ ops'[s].st = "running" =>
                    \/ s = 0
                    \/ ~faultless /\ ops'[s].kind # call.kind
    BY <1>1, OwnOps
  <2> QED BY <1>1, <1>3, <2>1, <2>2, AwaitInv
<1> QED BY <1>2, <1>3 DEF SendRefused

LEMMA SendFailsInv == ASSUME Inv, SendFails PROVE Inv' /\ Service!Serve
<1>1. /\ call.pc = "send" /\ call.op \in Kinds /\ TypeOK /\ Answer(FALSE)
      /\ call.op # call.kind => call.op = "delete" /\ call.kind = "force_stop"
      /\ UNCHANGED <<available, inst, ops, before, alone>>
      /\ faultless' \in {faultless, FALSE} /\ ops' \in [Slots -> Op]
      /\ ~faultless => ~faultless'
      /\ faultless' => ~available
  BY DEF SendFails, Inv, CallOK, TypeOK
<1>2. ASSUME NEW s \in Slots
      PROVE  /\ Known(ops'[s]) /\ Mine(ops'[s])
             /\ ops'[s].own /\ ops'[s].st = "running" => ~faultless'
  BY <1>1, OwnOps
<1>3. Quiet' => Target = before /\ ~available
  BY <1>1 DEF Quiet, Inv, Progress, Base, TypeOK
<1>4. Quiet' => Owed(FALSE)
  BY <1>3 DEF Owed
<1> QED BY <1>1, <1>2, <1>3, <1>4, AnswerInv

LEMMA WaitAnsweredInv == ASSUME Inv, WaitAnswered PROVE Inv' /\ Service!Serve
<1> DEFINE o == ops[call.slot]
           ok == o.st # "failure"
<1>1. /\ call.pc = "wait" /\ call.op \in Kinds /\ TypeOK /\ available
      /\ call.slot # 0 /\ o.st \in {"success", "failure", "cancelled"}
      /\ ok \in BOOLEAN /\ Answer(ok)
      /\ call.op # call.kind => call.op = "delete" /\ call.kind = "force_stop"
      /\ UNCHANGED <<available, inst, ops, before, alone, faultless>>
      /\ ops' \in [Slots -> Op]
  BY DEF WaitAnswered, Waiting, Inv, CallOK, TypeOK
<1>2. ASSUME NEW s \in Slots
      PROVE  /\ Known(ops'[s]) /\ Mine(ops'[s])
             /\ ops'[s].own /\ ops'[s].st = "running" =>
                  ~faultless' /\ ops'[s].kind # call.kind
  BY <1>1, OwnOps
<1>3. Quiet' => /\ Quiet
                /\ \/ o.st = "success" /\ Base \in From[call.kind]
                      /\ Target = After[call.kind]
                   \/ o.st = "failure" /\ Base \notin From[call.kind]
                      /\ Target = Base
  BY <1>1 DEF Quiet, Inv, Progress
<1>4. Quiet' /\ call.op # call.kind =>
        Target = IF available /\ before \in From["force_stop"] THEN "stopped"
                 ELSE before
  BY <1>1, <1>3 DEF Base, From, After
<1>5. Quiet' /\ call.op = call.kind => Owed(ok)
  <2> SUFFICES ASSUME Quiet', call.op = call.kind PROVE Owed(ok)
    OBVIOUS
  <2>1. CASE o.st = "success"
    BY <1>1, <1>3, <2>1, BaseDecides DEF Owed
  <2>2. CASE o.st = "failure"
    <3>1. call.op = "create" => ~ok
      BY <2>2
    <3>2. ~Succeeds(call.op, call.name, before)
      BY <1>1, <1>3, <2>2 DEF Succeeds, Base, From, Inv, TypeOK, InstStates, Kinds
    <3> QED BY <1>1, <1>3, <2>2, <3>1, <3>2, BaseDecides DEF Owed
  <2> QED BY <1>3, <2>1, <2>2
<1> QED BY <1>1, <1>2, <1>4, <1>5, AnswerInv

LEMMA WaitTimeoutInv == ASSUME Inv, WaitTimeout PROVE Inv' /\ Service!Serve
<1>1. /\ call.pc = "wait" /\ Answer(FALSE) /\ faultless' = FALSE
      /\ UNCHANGED <<available, inst, ops, before, alone>>
      /\ ops' \in [Slots -> Op] /\ Quiet' = FALSE
  BY DEF WaitTimeout, Waiting, Inv, TypeOK, Fault, Quiet
<1> QED BY <1>1, OwnOps, AnswerInv

LEMMA WaitForNothingInv == ASSUME Inv, WaitForNothing PROVE Inv' /\ Service!Serve
<1>1. /\ call.pc = "wait" /\ call.slot = 0 /\ available
      /\ UNCHANGED <<available, inst, ops, before, alone>>
  BY DEF WaitForNothing, Inv, CallOK
<1>2. CASE Answer(TRUE) /\ UNCHANGED faultless
  <2>1. CASE Quiet
    BY <1>1, <1>2, <2>1, RefusalInv DEF Inv, Progress
  <2>2. CASE ~Quiet
    <3>1. /\ TypeOK /\ ops' \in [Slots -> Op] /\ ~Quiet'
          /\ faultless' \in {faultless, FALSE}
      BY <1>1, <1>2, <2>2 DEF Inv, TypeOK, Quiet
    <3>2. ASSUME NEW s \in Slots
          PROVE  /\ Known(ops'[s]) /\ Mine(ops'[s])
                 /\ ops'[s].own /\ ops'[s].st = "running" =>
                      ~faultless' /\ ops'[s].kind # call.kind
      BY <1>1, <1>2, OwnOps DEF Slots
    <3> QED BY <1>1, <1>2, <3>1, <3>2, AnswerInv
  <2> QED BY <2>1, <2>2
<1>3. CASE Answer(FALSE) /\ Fault
  BY <1>1, <1>3, RefusalInv
<1> QED BY <1>2, <1>3 DEF WaitForNothing

-----------------------------------------------------------------------------
(* A function is entered, its caller goes on. *)

LEMMA NothingRuns ==
  ASSUME Inv, call.pc = "idle"
  PROVE  call = Idle /\ \A s \in Slots : ~ops[s].own
BY DEF Inv, CallOK, OpsOK, OpOK

LEMMA ConnectInv ==
  ASSUME Inv, CtBackendConnect PROVE Inv' /\ Service!Reconnect
<1>1. /\ call = Idle /\ call.pc = "idle" /\ \A s \in Slots : ~ops[s].own
      /\ UNCHANGED <<inst, ops, call, before, alone, faultless>>
      /\ available' \in BOOLEAN
  BY NothingRuns DEF CtBackendConnect, history
<1>2. TypeOK'
  BY <1>1 DEF Inv, TypeOK
<1>3. CallOK' /\ Progress'
  BY <1>1 DEF CallOK, Progress
<1>4. OpsOK'
  BY <1>1 DEF Inv, OpsOK, Awaited, OpOK, Known, Mine, RunsOn
<1>5. Service!Reconnect
  BY <1>1 DEF Idle, Service!Reconnect, Service!Nothing, Quiet
<1> QED BY <1>2, <1>3, <1>4, <1>5 DEF Inv

LEMMA BeginInv ==
  ASSUME Inv, NEW op \in Kinds, NEW n \in Names, Begin(op, n)
  PROVE  Inv' /\ Service!Accept(op, n)
<1> DEFINE kind == IF op = "delete" THEN "force_stop" ELSE op
<1>1. /\ call = Idle /\ \A s \in Slots : ~ops[s].own
      /\ UNCHANGED <<available, inst, ops>>
      /\ before' = inst[n] /\ alone' = TRUE /\ faultless' = TRUE
  BY NothingRuns DEF Begin
<1>2. kind \in Kinds /\ 0 \in 0..MaxOps
  BY MaxOpsAssumption DEF Kinds
<1>3. /\ call' \in Call /\ call'.pc = "send" /\ call'.op = op /\ call'.kind = kind
      /\ call'.name = n /\ call'.slot = 0
  BY <1>2 DEF Begin, Idle, Call
<1>4. TypeOK'
  BY <1>1, <1>3 DEF Inv, TypeOK
<1>5. CallOK' /\ OpsOK'
  <2>1. CallOK'
    BY <1>3 DEF CallOK
  <2>2. OpsOK'
    BY <1>1, <1>3 DEF Inv, OpsOK, Awaited, OpOK, Known, Mine, RunsOn
  <2> QED BY <2>1, <2>2
<1>6. Progress'
  BY <1>1, <1>3 DEF Progress, Target, Base
<1>7. Service!Accept(op, n)
  BY <1>1, <1>3 DEF Idle, Service!Accept, Service!Nothing, Quiet
<1> QED BY <1>4, <1>5, <1>6, <1>7 DEF Inv

LEMMA FinishInv == ASSUME Inv, Finish PROVE Inv' /\ Service!Dismiss
<1>1. /\ call.pc = "done" /\ call.op \in Kinds /\ call.name \in Names
      /\ call.ok \in BOOLEAN /\ call' = Idle /\ UNCHANGED <<available, inst>>
      /\ before' = "absent" /\ alone' = TRUE /\ faultless' = TRUE
  BY DEF Finish, Inv, CallOK, TypeOK, Call
<1>2. Idle \in Call /\ Idle.pc = "idle" /\ Idle.slot = 0
  BY MaxOpsAssumption DEF Idle, Call
<1>3. ops' \in [Slots -> Op]
  BY DEF Finish, Inv, TypeOK, Op
<1>4. \A s \in Slots : /\ ops'[s].st = ops[s].st /\ ops'[s].kind = ops[s].kind
                       /\ ops'[s].name = ops[s].name /\ ops'[s].own = FALSE
  BY DEF Finish, Inv, TypeOK, Op
<1>5. TypeOK' /\ CallOK'
  BY <1>1, <1>2, <1>3 DEF Inv, TypeOK, CallOK, InstStates
<1>6. OpsOK' /\ Progress'
  BY <1>1, <1>2, <1>4 DEF Inv, OpsOK, Awaited, OpOK, Known, Mine, RunsOn, Progress
<1>7. Service!Dismiss
  BY <1>1 DEF Idle, Service!Dismiss, Service!Request, Service!Nothing, Quiet,
              InstStates
<1> QED BY <1>5, <1>6, <1>7 DEF Inv

-----------------------------------------------------------------------------
(* The daemon and its other clients. *)

\* Another client, or an operation that is not the function's own.
LEMMA OthersServe ==
  ASSUME TypeOK, NEW n \in Names, NEW e \in InstStates,
         inst' = [inst EXCEPT ![n] = e] \/ UNCHANGED inst,
         UNCHANGED <<available, call, before>>,
         Quiet' \in {Quiet, FALSE}, Quiet' => n # call.name
  PROVE  Service!Others(n)
<1>1. inst' = [inst EXCEPT ![n] = inst'[n]] /\ inst'[n] \in InstStates
  BY DEF TypeOK
<1> QED BY <1>1 DEF Service!Others, Service!Only

LEMMA ElsewhereInv ==
  ASSUME Inv, NEW n \in Names, Elsewhere(n)
  PROVE  Inv' /\ Service!Others(n)
<1>1. PICK st \in InstStates : inst' = [inst EXCEPT ![n] = st]
  BY DEF Elsewhere
<1>2. /\ alone' = (alone /\ n # call.name)
      /\ UNCHANGED <<available, ops, call, before, faultless>>
  BY DEF Elsewhere
<1>3. /\ TypeOK /\ TypeOK' /\ CallOK' /\ OpsOK'
  BY <1>1, <1>2 DEF Inv, TypeOK, CallOK, OpsOK, Awaited, OpOK, Known, Mine, RunsOn
<1>4. Quiet' \in {Quiet, FALSE} /\ (Quiet' => Quiet /\ n # call.name)
  BY <1>2, <1>3 DEF Quiet, TypeOK
<1>5. Progress'
  <2>1. Quiet' /\ call.pc # "idle" => Target' = Target
    BY <1>1, <1>2, <1>4 DEF Target, Inv, TypeOK, CallOK
  <2> QED BY <1>2, <1>4, <2>1 DEF Inv, Progress, Base, Owed
<1>6. Service!Others(n)
  BY <1>1, <1>2, <1>3, <1>4, OthersServe
<1> QED BY <1>3, <1>5, <1>6 DEF Inv

LEMMA OperationExpiresInv ==
  ASSUME Inv, NEW s \in Slots, OperationExpires(s)
  PROVE  Inv' /\ UNCHANGED Service!serviceVars
<1>1. /\ UNCHANGED <<available, inst, call, before, alone, faultless>>
      /\ ops' = [ops EXCEPT ![s] = NoOp] /\ s # call.slot
  BY DEF OperationExpires, history
<1>2. TypeOK' /\ CallOK'
  BY <1>1 DEF Inv, TypeOK, CallOK, Op, NoOp, OpStates
<1>3. \A t \in Slots : t # s => ops'[t] = ops[t]
  BY <1>1 DEF Inv, TypeOK
<1>4. ops'[s] = NoOp
  BY <1>1 DEF Inv, TypeOK
<1>5. call.slot # 0 => call.slot \in Slots
  BY DEF Inv, TypeOK, Call, Slots
<1>6. OpsOK'
  BY <1>1, <1>3, <1>4, <1>5
  DEF Inv, OpsOK, Awaited, OpOK, Known, Mine, RunsOn, NoOp
<1>7. Progress'
  BY <1>1, <1>3, <1>5 DEF Inv, Progress, Quiet, Target, Base, Owed
<1>8. UNCHANGED Service!serviceVars
  BY <1>1 DEF Service!serviceVars, Quiet
<1> QED BY <1>2, <1>6, <1>7, <1>8 DEF Inv

\* An operation of the function's own that ends while it runs: a step of the
\* service, even if the function has stopped waiting for it.
LEMMA OwnOperationServes ==
  ASSUME TypeOK, CallOK, call.pc \in {"send", "wait"}, NEW kind \in Kinds,
         kind = call.op \/ (call.op = "delete" /\ kind = "force_stop"),
         \/ UNCHANGED inst
         \/ /\ Target \in From[kind]
            /\ inst' = [inst EXCEPT ![call.name] = After[kind]],
         UNCHANGED <<available, call, before>>, Quiet' \in {Quiet, FALSE}
  PROVE  Service!Serve
<1> DEFINE request == [op |-> call.op, name |-> call.name,
                       answer |-> IF call.pc # "done" THEN "none"
                                  ELSE IF call.ok THEN "done" ELSE "failed"]
<1>1. call.name \in Names /\ call.op \in Kinds /\ UNCHANGED request
  BY DEF CallOK
<1>2. Service!Pending
  BY <1>1 DEF Service!Pending, Service!Request
<1>3. /\ inst' = [inst EXCEPT ![call.name] = inst'[call.name]]
      /\ inst'[call.name] = Target \/ Moved(call.op, Target, inst'[call.name])
  BY <1>1 DEF TypeOK, Moved, Target
<1> QED BY <1>1, <1>2, <1>3 DEF Service!Serve, Service!Only, Target

LEMMA OperationEndsInv ==
  ASSUME Inv, NEW s \in Slots, OperationEnds(s)
  PROVE  Inv' /\ (Service!Serve \/ \E n \in Names : Service!Others(n))
<1> DEFINE o == ops[s]
           legal == inst[o.name] \in From[o.kind]
<1>1. PICK st \in {"success", "failure", "cancelled"} :
        /\ st = "success" => legal
        /\ ops' = [ops EXCEPT ![s].st = st]
        /\ inst' = IF st = "success" THEN [inst EXCEPT ![o.name] = After[o.kind]]
                   ELSE inst
        /\ alone' = (alone /\ (o.own \/ o.name # call.name) /\ st # "cancelled")
        /\ faultless' = (faultless /\ (st = "failure" /\ o.own => ~legal))
  BY DEF OperationEnds
<1>2. /\ o.st = "running" /\ o.kind \in Kinds /\ o.name \in Names /\ Mine(o)
      /\ (o.own => call.pc # "idle") /\ RunsOn(s)
      /\ UNCHANGED <<available, call, before>> /\ TypeOK /\ CallOK
  BY DEF OperationEnds, Inv, OpsOK, OpOK, Known
<1>3. /\ ops' \in [Slots -> Op] /\ ops'[s] = [o EXCEPT !.st = st]
      /\ \A t \in Slots : t # s => ops'[t] = ops[t]
  BY <1>1 DEF Inv, TypeOK, Op, OpStates
<1>4. /\ ops'[s].st = st /\ ops'[s].own = o.own
      /\ ops'[s].kind = o.kind /\ ops'[s].name = o.name
  BY <1>2, <1>3 DEF TypeOK, Op
<1>5. After[o.kind] \in InstStates
  BY <1>2 DEF After, Kinds, InstStates
<1>6. TypeOK' /\ CallOK'
  BY <1>1, <1>2, <1>3, <1>5 DEF TypeOK, CallOK
<1>7. ~faultless => ~faultless'
  BY <1>1
<1>8. OpsOK'
  <2>1. Awaited'
    <3>1. call.slot # 0 => call.slot \in Slots
      BY <1>2 DEF TypeOK, Call, Slots
    <3>2. call.pc = "wait" /\ call.slot # 0 =>
            ops'[call.slot].own /\ ops'[call.slot].kind = call.kind
      <4>1. \A t \in Slots : ops'[t].own = ops[t].own /\ ops'[t].kind = ops[t].kind
        BY <1>3, <1>4
      <4> QED BY <3>1, <4>1 DEF Inv, OpsOK, Awaited
    <3> QED BY <1>2, <3>2 DEF Awaited
  <2>2. ASSUME NEW t \in Slots PROVE OpOK(t)' /\ RunsOn(t)'
    <3>1. CASE t = s
      BY <1>2, <1>4, <3>1 DEF OpOK, Known, Mine, RunsOn
    <3>2. CASE t # s
      BY <1>2, <1>3, <1>7, <3>2 DEF Inv, OpsOK, OpOK, Known, Mine, RunsOn
    <3> QED BY <3>1, <3>2
  <2> QED BY <2>1, <2>2 DEF OpsOK
<1>9. Quiet' \in {Quiet, FALSE} /\ (Quiet' => Quiet)
  BY <1>1, <1>2 DEF Quiet, TypeOK
<1>10. Quiet' /\ o.own => /\ call.pc = "wait" /\ call.slot = s /\ o.kind = call.kind
                          /\ st # "cancelled" /\ (st = "failure" => ~legal)
  <2>1. CASE Quiet' /\ o.own
    <3>1. alone' /\ faultless' /\ faultless
      BY <1>7, <2>1 DEF Quiet
    <3>2. call.pc = "wait" /\ call.slot = s
      BY <1>2, <2>1, <3>1 DEF RunsOn
    <3>3. o.kind = call.kind
      BY <3>2 DEF Inv, OpsOK, Awaited, Slots
    <3> QED BY <1>1, <2>1, <3>1, <3>2, <3>3
  <2> QED BY <2>1
<1>11. Quiet' /\ ~o.own =>
         o.name # call.name /\ ~(call.pc = "wait" /\ call.slot = s)
  <2>1. alone' /\ ~o.own => o.name # call.name
    BY <1>1
  <2>2. s # 0
    BY DEF Slots
  <2> QED BY <2>1, <2>2 DEF Quiet, Inv, OpsOK, Awaited
<1>12. Progress'
  <2>1. CASE Quiet' /\ ~o.own
    <3>1. Target' = Target \/ call.pc = "idle"
      BY <1>1, <1>2, <1>11, <2>1 DEF Target, TypeOK, CallOK
    <3>2. call.pc = "wait" /\ call.slot # 0 => ops'[call.slot] = ops[call.slot]
      BY <1>2, <1>3, <1>11, <2>1 DEF TypeOK, Call, Slots
    <3> QED BY <1>2, <1>9, <2>1, <3>1, <3>2 DEF Inv, Progress, Base, Owed
  <2>2. CASE Quiet' /\ o.own
    <3>1. /\ call.pc = "wait" /\ call.slot = s /\ s # 0 /\ o.name = call.name
          /\ o.kind = call.kind /\ Target = Base /\ Base' = Base
      BY <1>2, <1>9, <1>10, <2>2 DEF Inv, Progress, Base, Mine, Slots
    <3>2. CASE st = "success"
      <4>1. Base \in From[call.kind] /\ Target' = After[call.kind]
        BY <1>1, <1>2, <3>1, <3>2 DEF Target, TypeOK
      <4> QED BY <1>2, <1>4, <3>1, <3>2, <4>1 DEF Progress
    <3>3. CASE st = "failure"
      <4>1. Base \notin From[call.kind] /\ Target' = Target
        BY <1>1, <1>2, <1>10, <2>2, <3>1, <3>3 DEF Target
      <4> QED BY <1>2, <1>4, <3>1, <3>3, <4>1 DEF Progress
    <3> QED BY <1>1, <1>10, <2>2, <3>2, <3>3
  <2> QED BY <2>1, <2>2 DEF Progress
<1>13. Service!Serve \/ \E n \in Names : Service!Others(n)
  <2>1. CASE o.own /\ call.pc \in {"send", "wait"}
    <3>1. o.kind = call.op \/ (call.op = "delete" /\ o.kind = "force_stop")
      BY <1>2, <2>1 DEF Mine, CallOK
    <3>2. o.name = call.name
      BY <1>2, <2>1 DEF Mine
    <3> QED BY <1>1, <1>2, <1>9, <2>1, <3>1, <3>2, OwnOperationServes DEF Target
  <2>2. CASE ~(o.own /\ call.pc \in {"send", "wait"})
    <3>1. Quiet' => o.name # call.name
      BY <1>10, <1>11, <2>2
    <3>2. Service!Others(o.name)
      BY <1>1, <1>2, <1>5, <1>9, <3>1, OthersServe
    <3> QED BY <1>2, <3>2
  <2> QED BY <2>1, <2>2
<1> QED BY <1>6, <1>8, <1>12, <1>13 DEF Inv

-----------------------------------------------------------------------------

LEMMA InitInv == Init => Inv /\ Service!Init
<1> SUFFICES ASSUME Init PROVE Inv /\ Service!Init
  OBVIOUS
<1>1. Idle \in Call /\ Idle.pc = "idle" /\ Idle.slot = 0 /\ NoOp \in Op
  BY MaxOpsAssumption DEF Idle, Call, NoOp, Op, OpStates
<1>2. TypeOK /\ CallOK
  BY <1>1 DEF Init, TypeOK, CallOK, InstStates
<1>3. \A s \in Slots : ops[s] = NoOp
  BY DEF Init
<1>4. OpsOK /\ Progress
  BY <1>1, <1>3 DEF Init, OpsOK, Awaited, OpOK, Known, Mine, RunsOn, NoOp, Progress
<1>5. Service!Init
  BY DEF Init, Idle, Service!Init, Service!Nothing, Quiet, InstStates
<1> QED BY <1>2, <1>4, <1>5 DEF Inv

LEMMA UnseenInv ==
  ASSUME Inv, UNCHANGED ctVars
  PROVE  Inv' /\ UNCHANGED Service!serviceVars
<1>1. UNCHANGED <<available, inst, ops, call, before, alone, faultless>>
  BY DEF ctVars, history
<1>2. TypeOK' /\ CallOK' /\ OpsOK'
  BY <1>1 DEF Inv, TypeOK, CallOK, OpsOK, Awaited, OpOK, Known, Mine, RunsOn
<1>3. Progress' /\ UNCHANGED Service!serviceVars
  BY <1>1 DEF Inv, Progress, Quiet, Target, Base, Owed, Service!serviceVars
<1> QED BY <1>2, <1>3 DEF Inv

LEMMA NextInv ==
  ASSUME Inv, [Next]_ctVars
  PROVE  Inv' /\ [Service!Next]_(Service!serviceVars)
<1>1. CASE CtBackendConnect
  BY <1>1, ConnectInv DEF Service!Next
<1>2. CASE \E op \in Kinds, n \in Names : Begin(op, n)
  BY <1>2, BeginInv DEF Service!Next
<1>3. CASE CallStep
  BY <1>3, SendAcceptedInv, SendRefusedInv, SendFailsInv, WaitAnsweredInv,
     WaitTimeoutInv, WaitForNothingInv, FinishInv DEF CallStep, Service!Next
<1>4. CASE Daemon
  BY <1>4, OperationEndsInv, OperationExpiresInv DEF Daemon, Service!Next
<1>5. CASE \E n \in Names : Elsewhere(n)
  BY <1>5, ElsewhereInv DEF Service!Next
<1>6. CASE UNCHANGED ctVars
  BY <1>6, UnseenInv
<1> QED BY <1>1, <1>2, <1>3, <1>4, <1>5, <1>6 DEF Next

LEMMA Invariance == Spec => []Inv
<1>1. Inv /\ [Next]_ctVars => Inv'
  BY NextInv
<1> QED BY InitInv, <1>1, PTL DEF Spec

\* Every variable of the container backend keeps its type, and a function refers
\* to an operation of the daemon only while it waits for it.
THEOREM TypeCorrect == Spec => []TypeOK
BY Invariance, PTL DEF Inv

\* However requests are lost, waits time out and operations outlive their call:
\* a ct_* function that reports success has not left the operation it reports
\* on running in the daemon.
THEOREM SuccessSettles == Spec => []SuccessIsSettled
<1>1. Inv => SuccessIsSettled
  <2> SUFFICES ASSUME Inv, call.pc = "done", call.ok, NEW s \in Slots,
                      ops[s].st = "running", ops[s].own, ops[s].kind = call.op
               PROVE  FALSE
    BY DEF SuccessIsSettled
  <2>1. call.kind = call.op
    BY DEF Inv, CallOK
  <2> QED BY <2>1 DEF Inv, OpsOK, RunsOn
<1> QED BY Invariance, <1>1, PTL

\* Nobody interfering, a ct_* function does what its container's state allows
\* and says so, ct_delete from every state in which there is a container, and
\* ct_create never claims a name that was in use.
THEOREM KeepsContract == Spec => []Contract
<1>1. Inv => Contract
  <2> SUFFICES ASSUME Inv, call.pc = "done", Quiet, available PROVE Contract
    BY DEF Contract
  <2>1. Owed(call.ok) /\ call.op \in Kinds
    BY DEF Inv, Progress, CallOK
  <2> QED BY <2>1 DEF Contract, Owed, Succeeds, From
<1> QED BY Invariance, <1>1, PTL

\* CtManager implements the service: a ct_* function changes nothing but its own
\* container and that only by its own operation's steps, also after it stopped
\* waiting for it; it answers once; and undisturbed it answers "done" exactly
\* where the daemon can carry the operation out (only ct_create says of
\* everything else that it failed).
THEOREM CtServesMachines == Spec => ServesMachines
<1>1. Inv /\ [Next]_ctVars => [Service!Next]_(Service!serviceVars)
  BY NextInv
<1>2. Init => Service!Init
  BY InitInv
<1> QED BY Invariance, <1>1, <1>2, PTL DEF Spec, ServesMachines, Service!Spec

=============================================================================
