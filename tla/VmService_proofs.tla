-------------------------- MODULE VmService_proofs --------------------------
(***************************************************************************)
(* VmManager implements MachineService: each of its steps is a step of the  *)
(* service under the mapping of VmManager (INSTANCE Service), or changes    *)
(* nothing the service shows.  What the contracts of VmContracts_proofs say *)
(* of vm_delete and vm_create the lifecycle operations need as well: an     *)
(* undisturbed function finds its domain as it was when it was entered.     *)
(***************************************************************************)
EXTENDS VmContracts_proofs

\* Only a function that found a connection gets past its first step, and it is
\* not entered at all for a name vm_create rejects.
Entered ==
  /\ call.pc = "idle" => call = Idle
  /\ call.pc \notin {"idle", "lookup", "done"} => conn # "none"
  /\ call.pc \in {"system_disk", "home_disk", "define"} =>
       call.name \in ValidNames

LifecycleProgress ==
  call.op \in LifecycleOps /\ quiet =>
    /\ call.pc \in {"lookup", "call"} => Target = before
    /\ call.pc = "call" => HandleValid

Serving == Entered /\ LifecycleProgress

IInv == Inv /\ Contracts /\ Serving

Running == call.pc \notin {"idle", "done"}

\* Of an undisturbed function: ok is the answer it owes, having left e.
Owed(ok, e) ==
  IF conn # "none" /\ Succeeds(call.op, call.name, before)
  THEN ok /\ Outcome(call.op, before, e)
  ELSE ~ok /\ (call.op # "delete" => e = before)

-----------------------------------------------------------------------------
(* Steps of a running function as steps of the service. *)

LEMMA ServeStep ==
  ASSUME Inv, Running, NEW e \in Domain,
         e = Target \/ Moved(call.op, Target, e),
         dom' = [dom EXCEPT ![call.name] = e],
         call'.op = call.op, call'.name = call.name, UNCHANGED <<conn, before>>,
         quiet' \in {quiet, FALSE},
         call'.pc # "done" \/ /\ call'.ok \in BOOLEAN
                              /\ call'.ok => conn # "none"
                              /\ quiet' => Owed(call'.ok, e)
  PROVE  Service!Serve
<1> DEFINE answer == IF call.pc # "done" THEN "none"
                     ELSE IF call.ok THEN "done" ELSE "failed"
           request == [op |-> call.op, name |-> call.name, answer |-> answer]
<1>1. call.name \in Names /\ call.op \in Ops /\ answer = "none"
  BY DEF Running, Inv, CallOK
<1>2. Service!Pending
  BY <1>1 DEF Service!Pending, Service!Request
<1>3. dom'[call.name] = e /\ Service!Only(call.name)
  BY <1>1 DEF Service!Only, Inv, TypeOK
<1>4. CASE call'.pc # "done"
  <2>1. request' = request
    BY <1>1, <1>4
  <2> QED BY <1>2, <1>3, <2>1 DEF Service!Serve, Target
<1>5. CASE call'.pc = "done" /\ call'.ok \in BOOLEAN
  <2>1. /\ answer' \in {"done", "failed"}
        /\ request' = [request EXCEPT !.answer = answer']
    BY <1>5
  <2>2. answer' = "done" <=> call'.ok
    BY <1>5
  <2>3. quiet' => Service!Truthful(answer', e)
    BY <1>1, <1>5, <2>1, <2>2 DEF Service!Truthful, Owed
  <2> QED BY <1>2, <1>3, <1>5, <2>1, <2>2, <2>3 DEF Service!Serve, Target
<1> QED BY <1>4, <1>5

\* A step that answers with what it leaves the target as.
LEMMA AttemptServes ==
  ASSUME Inv, Running, conn # "none", NEW legal \in BOOLEAN, NEW after \in Domain,
         Attempt(legal, after),
         legal => after = Target \/ Moved(call.op, Target, after),
         quiet => IF Succeeds(call.op, call.name, before)
                  THEN legal /\ Outcome(call.op, before, after)
                  ELSE ~legal /\ (call.op # "delete" => Target = before)
  PROVE  Service!Serve
<1>1. /\ call.name \in Names /\ Target \in Domain
      /\ dom = [dom EXCEPT ![call.name] = Target]
  BY DEF Running, Inv, CallOK, TypeOK, Target
<1>2. /\ call'.op = call.op /\ call'.name = call.name /\ call'.ok \in BOOLEAN
      /\ UNCHANGED <<conn, before>>
  BY <1>1, AttemptEffect DEF Inv, Call
<1>3. CASE legal /\ dom' = [dom EXCEPT ![call.name] = after]
           /\ Return(TRUE) /\ UNCHANGED quiet
  <2>1. call'.ok
    BY <1>3, ReturnType DEF Inv
  <2>2. quiet' => Owed(call'.ok, after)
    BY <1>3, <2>1 DEF Owed
  <2> QED BY <1>2, <1>3, <2>2, ServeStep
<1>4. CASE ~legal /\ UNCHANGED dom /\ Return(FALSE) /\ UNCHANGED quiet
  <2>1. ~call'.ok
    BY <1>4, ReturnType DEF Inv
  <2>2. quiet' => Owed(call'.ok, Target)
    BY <1>4, <2>1 DEF Owed
  <2> QED BY <1>1, <1>2, <1>4, <2>1, <2>2, ServeStep
<1>5. CASE dom' \in {dom} \cup {d \in {[dom EXCEPT ![call.name] = after]} : legal}
           /\ Return(FALSE) /\ Fault
  <2>1. ~call'.ok /\ quiet' = FALSE
    BY <1>5, ReturnType DEF Inv, Fault
  <2>2. CASE dom' = dom
    BY <1>1, <1>2, <2>1, <2>2, ServeStep
  <2>3. CASE legal /\ dom' = [dom EXCEPT ![call.name] = after]
    BY <1>2, <2>1, <2>3, ServeStep
  <2> QED BY <1>5, <2>2, <2>3
<1> QED BY <1>3, <1>4, <1>5 DEF Attempt

\* A step that leaves all domains alone and does not answer.
LEMMA StepOn ==
  ASSUME Inv, Running, call'.pc # "done", dom' = dom,
         call'.op = call.op, call'.name = call.name, UNCHANGED <<conn, before>>,
         quiet' \in {quiet, FALSE}
  PROVE  Service!Serve
<1>1. Target \in Domain /\ dom = [dom EXCEPT ![call.name] = Target]
  BY DEF Running, Inv, CallOK, TypeOK, Target
<1> QED BY <1>1, ServeStep

\* A function that gives up has left all domains alone.
LEMMA GiveUp ==
  ASSUME Inv, Running, Return(FALSE), dom' = dom, UNCHANGED <<conn, before>>,
         quiet' \in {quiet, FALSE},
         quiet' => /\ ~(conn # "none" /\ Succeeds(call.op, call.name, before))
                   /\ call.op # "delete" => Target = before
  PROVE  Service!Serve
<1>1. Target \in Domain /\ dom = [dom EXCEPT ![call.name] = Target]
  BY DEF Running, Inv, CallOK, TypeOK, Target
<1>2. /\ call'.op = call.op /\ call'.name = call.name /\ call'.ok = FALSE
  BY ReturnType DEF Inv
<1>3. quiet' => Owed(call'.ok, Target)
  BY <1>2 DEF Owed
<1> QED BY <1>1, <1>2, <1>3, ServeStep

LEMMA Answered == ASSUME call'.pc = "done" PROVE Serving'
BY DEF Serving, Entered, LifecycleProgress

-----------------------------------------------------------------------------
(* find_domain *)

LEMMA FindServes ==
  ASSUME IInv, Lookup \/ Relookup
  PROVE  Serving' /\ Service!Serve
<1>1. PICK from, found :
        /\ FindDomain(from, found) /\ call.pc = from /\ found \in Steps
        /\ found \in {"call", "getinfo", "undefine"}
        /\ found # "call" <=> call.op = "delete"
        /\ \/ from = "lookup"
           \/ from = "relookup" /\ call.op = "delete"
  <2>1. CASE Lookup
    BY <2>1 DEF Lookup, FindDomain, Steps
  <2>2. CASE Relookup
    BY <2>2 DEF Relookup, FindDomain, Steps, IInv, Inv, CallOK
  <2> QED BY <2>1, <2>2
<1>2. /\ Inv /\ Running /\ call.name \in Names
      /\ call.op \in Ops /\ call.op # "create"
  BY <1>1 DEF IInv, Inv, Running, CallOK
<1>3. /\ call'.op = call.op /\ call'.name = call.name
      /\ UNCHANGED <<conn, dom, before>> /\ quiet' \in {quiet, FALSE}
  BY <1>1, <1>2, FindDomainEffect DEF Inv, FindDomain, Fault
<1>4. CASE conn # "none" /\ call' = [call EXCEPT !.h = Target.id, !.pc = found]
           /\ UNCHANGED quiet
  <2>1. call'.h = Target.id /\ call'.pc = found
    BY <1>2, <1>4 DEF Inv, TypeOK, Call
  <2>2. Target' = Target
    BY <1>3 DEF Target
  <2>3. LifecycleProgress'
    BY <1>1, <1>3, <1>4, <2>1, <2>2
    DEF IInv, Serving, LifecycleProgress, HandleValid, LifecycleOps
  <2>4. Entered'
    BY <1>1, <1>3, <1>4, <2>1 DEF Entered
  <2> QED BY <1>1, <1>2, <1>3, <2>1, <2>3, <2>4, StepOn DEF Serving
<1>5. CASE ~(conn # "none" /\ Target # NoDomain) /\ Return(FALSE) /\ UNCHANGED quiet
  <2>1. call.op # "delete" /\ quiet => Target = before
    BY <1>1, <1>2 DEF IInv, Serving, LifecycleProgress, Ops
  <2>2. quiet => ~(conn # "none" /\ Succeeds(call.op, call.name, before))
    <3> SUFFICES ASSUME quiet, Target = NoDomain
                 PROVE  ~Accepted(call.op, before)
      BY <1>5 DEF Succeeds
    <3>1. CASE call.op = "delete" /\ from = "lookup"
      BY <1>1, <3>1 DEF IInv, Contracts, DeleteProgress, Accepted, NoDomain
    <3>2. CASE call.op = "delete" /\ from = "relookup"
      <4>1. before.st = "running" /\ Stopped(before) = NoDomain
        BY <1>1, <3>2 DEF IInv, Contracts, DeleteProgress
      <4>2. ~before.persistent
        BY <1>2, <4>1, StoppedDomain DEF Inv, TypeOK, Active
      <4> QED BY <3>2, <4>2 DEF Accepted
    <3>3. CASE call.op \in LifecycleOps
      <4>1. before.st = "absent"
        BY <2>1, <3>3 DEF NoDomain, LifecycleOps
      <4> QED BY <3>3, <4>1 DEF Accepted, LifecycleOps, Active
    <3> QED BY <1>1, <1>2, <3>1, <3>2, <3>3 DEF Ops
  <2>3. Serving'
    BY <1>2, <1>5, ReturnType, Answered DEF Inv
  <2> QED BY <1>2, <1>3, <1>5, <2>1, <2>2, <2>3, GiveUp
<1>6. CASE conn # "none" /\ Return(FALSE) /\ Fault
  BY <1>2, <1>3, <1>6, ReturnType, Answered, GiveUp DEF Inv, Fault
<1> QED BY <1>1, <1>4, <1>5, <1>6 DEF FindDomain

-----------------------------------------------------------------------------
(* The lifecycle operations. *)

\* One operation on the handle: what libvirtd accepts, and what it makes of it.
LEMMA DomainCallServes ==
  ASSUME IInv, NEW op \in LifecycleOps, NEW from, NEW after,
         DomainCall(op, from, after),
         Target \in Domain =>
           /\ after \in Domain
           /\ Target.st \in from <=> Accepted(op, Target)
           /\ Target.st \in from => after = Result(op, Target)
  PROVE  Serving' /\ Service!Serve
<1> DEFINE legal == HandleValid /\ Target.st \in from
<1>1. /\ call.pc = "call" /\ call.op = op /\ call.name \in Names
      /\ Inv /\ Running /\ Target \in Domain /\ legal \in BOOLEAN
      /\ op \notin {"create", "delete"}
  BY DEF DomainCall, IInv, Inv, CallOK, TypeOK, Target, Running, LifecycleOps
<1>2. conn # "none" /\ Attempt(legal, after)
  BY <1>1 DEF DomainCall, IInv, Serving, Entered
<1>3. legal => Moved(call.op, Target, after)
  BY <1>1 DEF Moved, Outcome
<1>4. quiet => Target = before /\ HandleValid
  BY <1>1 DEF IInv, Serving, LifecycleProgress
<1>5. quiet => IF Succeeds(call.op, call.name, before)
               THEN legal /\ Outcome(call.op, before, after)
               ELSE ~legal /\ (call.op # "delete" => Target = before)
  BY <1>1, <1>4 DEF Succeeds, Outcome
<1>6. Service!Serve
  BY <1>1, <1>2, <1>3, <1>5, AttemptServes
<1>7. call'.pc = "done"
  BY <1>1, <1>2, AttemptEffect DEF Inv
<1> QED BY <1>6, <1>7, Answered

LEMMA LifecycleServes ==
  ASSUME IInv,
         VmStart \/ VmForceStop \/ VmPause \/ VmResume \/ VmShutdown \/ VmReboot
  PROVE  Serving' /\ Service!Serve
<1> DEFINE d == Target
<1>1. d \in Domain => \A st \in Active \cup {"shutoff"} : WithState(st) \in Domain
  BY WithStateType DEF WithState
<1>2. CASE VmStart
  BY <1>1, <1>2, DomainCallServes
  DEF VmStart, Active, LifecycleOps, Accepted, Result, WithState
<1>3. CASE VmForceStop
  BY <1>3, StoppedType, DomainCallServes
  DEF VmForceStop, LifecycleOps, Accepted, Result
<1>4. CASE VmPause
  BY <1>1, <1>4, DomainCallServes
  DEF VmPause, Active, LifecycleOps, Accepted, Result, WithState
<1>5. CASE VmResume
  BY <1>1, <1>5, DomainCallServes
  DEF VmResume, Active, LifecycleOps, Accepted, Result, WithState
<1>6. CASE VmShutdown
  BY <1>6, DomainCallServes DEF VmShutdown, LifecycleOps, Accepted, Result
<1>7. CASE VmReboot
  BY <1>7, DomainCallServes DEF VmReboot, LifecycleOps, Accepted, Result
<1> QED BY <1>2, <1>3, <1>4, <1>5, <1>6, <1>7

-----------------------------------------------------------------------------
(* vm_delete *)

LEMMA GetInfoServes ==
  ASSUME IInv, GetInfo
  PROVE  Serving' /\ Service!Serve
<1>1. call.pc = "getinfo" /\ call.op = "delete" /\ Inv /\ Running /\ conn # "none"
  BY DEF GetInfo, IInv, Inv, CallOK, Running, Serving, Entered
<1>2. PICK pc \in {"destroy", "undefine"} : Goto(pc)
  BY DEF GetInfo
<1>3. call'.pc = pc /\ call'.op = call.op /\ call'.name = call.name
  BY <1>1, <1>2, GotoType DEF Inv, Steps
<1>4. UNCHANGED <<conn, dom, before>> /\ quiet' \in {quiet, FALSE}
  BY DEF GetInfo, Fault
<1>5. Serving'
  BY <1>1, <1>3, <1>4 DEF Serving, Entered, LifecycleProgress, LifecycleOps
<1> QED BY <1>1, <1>3, <1>4, <1>5, StepOn

\* One of the two steps that are vm_delete's own.
LEMMA DestroyServes ==
  ASSUME IInv, Destroy
  PROVE  Serving' /\ Service!Serve
<1>1. /\ call.pc = "destroy" /\ call.op = "delete" /\ call.name \in Names
      /\ Inv /\ Running /\ conn # "none" /\ Target \in Domain
  BY DEF Destroy, IInv, Inv, CallOK, Running, Serving, Entered, TypeOK, Target
<1>2. call'.pc = "relookup" /\ call'.op = call.op /\ call'.name = call.name
  BY <1>1, GotoType DEF Destroy, Inv, Steps
<1>3. UNCHANGED <<conn, before>> /\ quiet' \in {quiet, FALSE}
  BY DEF Destroy, Fault
<1>4. Serving'
  BY <1>1, <1>2, <1>3 DEF Serving, Entered, LifecycleProgress, LifecycleOps
<1>5. CASE dom' = [dom EXCEPT ![call.name] = Stopped(Target)]
  BY <1>1, <1>2, <1>3, <1>4, <1>5, StoppedType, ServeStep DEF Moved
<1>6. CASE dom' = dom
  BY <1>1, <1>2, <1>3, <1>4, <1>6, StepOn
<1> QED BY <1>5, <1>6 DEF Destroy

\* What vm_delete has made of a domain when it comes to undefine it.
LEMMA BeforeUndefine ==
  ASSUME NEW d \in Domain, NEW e,
         e = IF d.st = "running" THEN Stopped(d) ELSE d
  PROVE  /\ e.persistent /\ (e.st = "shutoff" => ~e.snaps) <=> Accepted("delete", d)
         /\ Undefined(e) = Result("delete", d)
<1>1. CASE d.st = "running" /\ d.persistent
  <2>1. e = [d EXCEPT !.st = "shutoff"]
    BY <1>1 DEF Stopped
  <2>2. e.st = "shutoff" /\ e.snaps = d.snaps /\ e.persistent
    BY <1>1, <2>1 DEF Domain
  <2> QED BY <1>1, <2>2 DEF Accepted, Result
<1>2. CASE d.st = "running" /\ ~d.persistent
  BY <1>2 DEF Stopped, Accepted, Result, NoDomain
<1>3. CASE d.st # "running"
  BY <1>3 DEF Accepted, Result
<1> QED BY <1>1, <1>2, <1>3

LEMMA UndefineServes ==
  ASSUME IInv, Undefine
  PROVE  Serving' /\ Service!Serve
<1> DEFINE legal == /\ HandleValid /\ Target.persistent
                    /\ Target.st = "shutoff" => ~Target.snaps
<1>1. /\ call.pc = "undefine" /\ call.op = "delete" /\ call.name \in Names
      /\ Inv /\ Running /\ conn # "none" /\ Target \in Domain /\ before \in Domain
  BY DEF Undefine, IInv, Inv, CallOK, Running, Serving, Entered, TypeOK, Target
<1>2. legal \in BOOLEAN /\ Undefined(Target) \in Domain
      /\ Attempt(legal, Undefined(Target))
  BY <1>1, UndefinedType DEF Undefine, Domain
<1>3. legal => Moved(call.op, Target, Undefined(Target))
  BY <1>1 DEF Moved
<1>4. quiet => IF Succeeds(call.op, call.name, before)
               THEN legal /\ Outcome(call.op, before, Undefined(Target))
               ELSE ~legal /\ (call.op # "delete" => Target = before)
  <2> SUFFICES ASSUME quiet
               PROVE  /\ legal <=> Accepted("delete", before)
                      /\ Undefined(Target) = Result("delete", before)
    BY <1>1 DEF Succeeds, Outcome
  <2>1. HandleValid /\ Target = IF before.st = "running" THEN Stopped(before)
                                ELSE before
    BY <1>1 DEF IInv, Contracts, DeleteProgress
  <2> QED BY <1>1, <2>1, BeforeUndefine
<1>5. Service!Serve
  BY <1>1, <1>2, <1>3, <1>4, AttemptServes
<1>6. call'.pc = "done"
  BY <1>1, <1>2, AttemptEffect DEF Inv
<1> QED BY <1>5, <1>6, Answered

-----------------------------------------------------------------------------
(* vm_create *)

LEMMA ImageServes ==
  ASSUME IInv, CreateSystemDisk \/ CreateHomeDisk
  PROVE  Serving' /\ Service!Serve
<1>1. /\ call.pc \in {"system_disk", "home_disk"} /\ call.op = "create"
      /\ Inv /\ Running /\ conn # "none" /\ call.name \in ValidNames
      /\ UNCHANGED <<conn, dom, before>> /\ quiet' \in {quiet, FALSE}
  BY DEF CreateSystemDisk, CreateHomeDisk, IInv, Inv, CallOK, Running, Serving,
         Entered, history, Fault
<1>2. CASE \E loc \in Locations : CreateDiskImage(loc)
  <2>1. call'.pc = "define" /\ call'.op = call.op /\ call'.name = call.name
    BY <1>1, <1>2 DEF CreateDiskImage, Inv, TypeOK, Call, Steps
  <2>2. Serving'
    BY <1>1, <2>1 DEF Serving, Entered, LifecycleProgress, LifecycleOps
  <2> QED BY <1>1, <2>1, <2>2, StepOn
<1>3. CASE Goto("home_disk")
  <2>1. call'.pc = "home_disk" /\ call'.op = call.op /\ call'.name = call.name
    BY <1>1, <1>3, GotoType DEF Inv, Steps
  <2>2. Serving'
    BY <1>1, <2>1 DEF Serving, Entered, LifecycleProgress, LifecycleOps
  <2> QED BY <1>1, <2>1, <2>2, StepOn
<1>4. CASE Return(FALSE) /\ Fault
  BY <1>1, <1>4, ReturnType, Answered, GiveUp DEF Inv, Fault
<1> QED BY <1>2, <1>3, <1>4 DEF CreateSystemDisk, CreateHomeDisk, Locations

LEMMA DefineServes ==
  ASSUME IInv, Define \/ DefineFails
  PROVE  Serving' /\ Service!Serve
<1>1. /\ call.pc = "define" /\ call.op = "create" /\ call.name \in Names
      /\ Inv /\ Running /\ conn # "none" /\ call.name \in ValidNames
      /\ call.loc \in Locations /\ (quiet => Target = before)
  BY DEF Define, DefineFails, IInv, Inv, CallOK, ImageReady, Running, Serving,
         Entered, Contracts, CreateProgress
<1>2. CASE Define
  <2> DEFINE new == NewDomain(call.loc)
             legal == Target = NoDomain
  <2>1. new \in Domain /\ Attempt(legal, new) /\ Created(new)
    BY <1>1, <1>2, NewDomainType DEF Define, Inv, TypeOK, NewDomain, Created
  <2>2. legal => Moved(call.op, Target, new)
    BY <1>1, <2>1 DEF Moved, Accepted, Outcome
  <2>3. quiet => IF Succeeds(call.op, call.name, before)
                 THEN legal /\ Outcome(call.op, before, new)
                 ELSE ~legal /\ (call.op # "delete" => Target = before)
    BY <1>1, <2>1 DEF Succeeds, Accepted, Outcome
  <2>4. Service!Serve
    BY <1>1, <2>1, <2>2, <2>3, AttemptServes
  <2>5. call'.pc = "done"
    BY <1>1, <2>1, AttemptEffect DEF Inv
  <2> QED BY <2>4, <2>5, Answered
<1>3. CASE DefineFails
  <2>1. /\ Return(FALSE) /\ dom' = dom /\ UNCHANGED <<conn, before>>
        /\ quiet' = FALSE
    BY <1>3 DEF DefineFails, Fault
  <2> QED BY <1>1, <2>1, ReturnType, Answered, GiveUp DEF Inv
<1> QED BY <1>2, <1>3

-----------------------------------------------------------------------------
(* A function is entered, its caller goes on, and the rest of the world. *)

LEMMA BeginServes ==
  ASSUME IInv, NEW n \in Names, BeginOp(n) \/ BeginCreate(n)
  PROVE  Serving' /\ \E op \in Ops : Service!Accept(op, n) \/ Service!Reject(op, n)
<1>1. /\ Inv /\ call = Idle /\ Idle.pc = "idle" /\ Idle.op = "none"
      /\ Idle.name = NoName
  BY DEF BeginOp, BeginCreate, Begin, IInv, Serving, Entered, Idle
<1>2. CASE BeginOp(n)
  <2>1. PICK op \in Ops : op # "create" /\ Begin(op, n, "lookup")
    BY <1>2 DEF BeginOp, Ops, LifecycleOps
  <2>2. /\ call'.pc = "lookup" /\ call'.op = op /\ call'.name = n
        /\ UNCHANGED <<conn, dom>> /\ before' = dom[n] /\ quiet' = TRUE
    BY <1>1, <2>1, BeginEffect DEF Inv, Steps, Begin
  <2>3. Serving'
    BY <2>2 DEF Serving, Entered, LifecycleProgress, Target
  <2>4. Service!Accept(op, n)
    BY <1>1, <2>2 DEF Service!Accept, Service!Nothing
  <2> QED BY <2>3, <2>4
<1>3. CASE BeginCreate(n) /\ conn # "none" /\ n \in ValidNames
  <2>1. /\ call'.pc = "system_disk" /\ call'.op = "create" /\ call'.name = n
        /\ UNCHANGED <<conn, dom>> /\ before' = dom[n] /\ quiet' = TRUE
    BY <1>1, <1>3, BeginEffect DEF BeginCreate, Inv, Steps, Ops, Begin
  <2>2. Serving'
    BY <1>3, <2>1 DEF Serving, Entered, LifecycleProgress, LifecycleOps
  <2>3. Service!Accept("create", n)
    BY <1>1, <2>1 DEF Service!Accept, Service!Nothing
  <2> QED BY <2>2, <2>3 DEF Ops
<1>4. CASE BeginCreate(n) /\ ~(conn # "none" /\ n \in ValidNames)
  <2>1. /\ call'.pc = "done" /\ call'.op = "create" /\ call'.name = n
        /\ UNCHANGED <<conn, dom>> /\ before' = dom[n] /\ quiet' = TRUE
    BY <1>1, <1>4, BeginEffect DEF BeginCreate, Inv, Steps, Ops, Begin
  <2>2. ~call'.ok
    BY <1>4 DEF BeginCreate, Begin, Idle
  <2>3. Service!Reject("create", n)
    BY <1>1, <1>4, <2>1, <2>2 DEF Service!Reject, Service!Nothing, Succeeds
  <2> QED BY <2>1, <2>3, Answered DEF Ops
<1> QED BY <1>2, <1>3, <1>4

LEMMA FinishServes == ASSUME IInv, Finish PROVE Serving' /\ Service!Dismiss
<1>1. /\ call.op \in Ops /\ call.name \in Names /\ call.ok \in BOOLEAN
      /\ call.pc = "done"
  BY DEF Finish, IInv, Inv, CallOK, TypeOK, Call
<1>2. Serving'
  BY DEF Finish, Serving, Entered, LifecycleProgress, Idle
<1> QED BY <1>1, <1>2, NoDomainType
        DEF Finish, Idle, Service!Dismiss, Service!Request, Service!Nothing

LEMMA ConnectServes ==
  ASSUME IInv, VmBackendConnect \/ VmBackendDisconnect
  PROVE  Serving' /\ Service!Reconnect
<1>1. call = Idle /\ UNCHANGED <<dom, call, before, quiet>>
  BY DEF VmBackendConnect, VmBackendDisconnect, IInv, Serving, Entered, history
<1>2. Serving'
  BY <1>1 DEF Serving, Entered, LifecycleProgress, Idle
<1> QED BY <1>1, <1>2 DEF Idle, Service!Reconnect, Service!Nothing

LEMMA ElsewhereServes ==
  ASSUME IInv, NEW n \in Names, Elsewhere(n), TypeOK'
  PROVE  Serving' /\ Service!Others(n)
<1>1. /\ UNCHANGED <<conn, call, before>> /\ quiet' = (quiet /\ n # call.name)
      /\ \E d : dom' = [dom EXCEPT ![n] = d]
  BY DEF Elsewhere
<1>2. dom' = [dom EXCEPT ![n] = dom'[n]] /\ dom'[n] \in Domain
  BY <1>1 DEF IInv, Inv, TypeOK
<1>3. Service!Others(n)
  BY <1>1, <1>2 DEF Service!Others, Service!Only, IInv, Inv, TypeOK
<1>4. quiet' /\ call.pc # "idle" => quiet /\ Target' = Target
  BY <1>1 DEF Target, IInv, Inv, CallOK, TypeOK
<1>5. Serving'
  BY <1>1, <1>4 DEF IInv, Serving, Entered, LifecycleProgress, HandleValid
<1> QED BY <1>3, <1>5

LEMMA UnseenServes ==
  ASSUME IInv, UNCHANGED <<conn, dom, call, history>>
  PROVE  Serving' /\ UNCHANGED Service!serviceVars
BY DEF IInv, Serving, Entered, LifecycleProgress, HandleValid, Target, history,
       Service!serviceVars

LEMMA NextServes ==
  ASSUME IInv, [Next]_vmVars, TypeOK'
  PROVE  Serving' /\ [Service!Next]_(Service!serviceVars)
<1>1. CASE VmBackendConnect \/ VmBackendDisconnect
  BY <1>1, ConnectServes DEF Service!Next
<1>2. CASE \E n \in Names : BeginOp(n) \/ BeginCreate(n)
  BY <1>2, BeginServes DEF Service!Next
<1>3. CASE CallStep
  BY <1>3, FindServes, LifecycleServes, GetInfoServes, DestroyServes,
     UndefineServes, ImageServes, DefineServes DEF CallStep, Service!Next
<1>4. CASE Finish
  BY <1>4, FinishServes DEF Service!Next
<1>5. CASE \E n \in Names : Elsewhere(n)
  BY <1>5, ElsewhereServes DEF Service!Next
<1>6. CASE \E n \in Names : GuestWrites(n)
  BY <1>6, UnseenServes DEF GuestWrites
<1>7. CASE UNCHANGED vmVars
  BY <1>7, UnseenServes DEF vmVars
<1> QED BY <1>1, <1>2, <1>3, <1>4, <1>5, <1>6, <1>7 DEF Next, World

LEMMA InitServes == Init => Serving /\ Service!Init
<1>1. ASSUME Init PROVE Serving
  BY <1>1 DEF Init, Serving, Entered, LifecycleProgress, Idle
<1>2. ASSUME Init PROVE Service!Init
  BY <1>2, NoDomainType DEF Init, Idle, Service!Init, Service!Nothing
<1> QED BY <1>1, <1>2

-----------------------------------------------------------------------------

\* VmManager implements the service: whatever happens between the calls of a
\* vm_* function, it touches the one domain it was called for and by the steps
\* of its own operation, answers once, and when nobody disturbs it answers
\* "done" exactly where libvirtd accepts the operation, which then is complete.
THEOREM VmServesMachines == Spec => ServesMachines
<1>1. IInv /\ [Next]_vmVars => IInv'
  <2> SUFFICES ASSUME IInv, [Next]_vmVars PROVE IInv'
    OBVIOUS
  <2>1. Inv' /\ Contracts'
    BY NextInv, NextContracts DEF IInv
  <2>2. Serving'
    BY <2>1, NextServes DEF Inv
  <2> QED BY <2>1, <2>2 DEF IInv
<1>2. IInv /\ IInv' /\ [Next]_vmVars => [Service!Next]_(Service!serviceVars)
  BY NextServes DEF IInv, Inv
<1>3. Init => IInv /\ Service!Init
  BY InitInv, InitContracts, InitServes DEF IInv
<1> QED BY <1>1, <1>2, <1>3, PTL DEF Spec, ServesMachines, Service!Spec

=============================================================================
