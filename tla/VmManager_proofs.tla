-------------------------- MODULE VmManager_proofs --------------------------
(***************************************************************************)
(* Proofs about VmManager, for any sets of names and any number of domain   *)
(* identities.  Inv is inductive: the types, which function may be at which *)
(* step, and what each step of vm_create may rely on.                       *)
(***************************************************************************)
EXTENDS VmManager, TLAPS

\* Which function each step belongs to; a function that runs has a target.
CallOK ==
  /\ call.pc # "idle" => call.name \in Names /\ call.op \in Ops
  /\ call.pc = "lookup" => call.op # "create"
  /\ call.pc = "call" => call.op \in LifecycleOps
  /\ call.pc \in {"getinfo", "destroy", "relookup", "undefine"}
       => call.op = "delete"
  /\ call.pc \in {"system_disk", "home_disk", "define"} => call.op = "create"

\* When the domain is about to be defined its image has been created.
ImageReady ==
  call.pc = "define" =>
    call.loc \in Locations /\ disk[call.name][call.loc] # "none"

Inv == TypeOK /\ CallOK /\ ImageReady /\ DefinedVmHasDisk

-----------------------------------------------------------------------------
(* What the operators on domains return. *)

LEMMA NoDomainType == NoDomain \in Domain
BY MaxIdAssumption DEF NoDomain, Domain

LEMMA WithStateType ==
  ASSUME NEW d \in Domain, NEW st \in Active \cup {"shutoff"}
  PROVE  [d EXCEPT !.st = st] \in Domain
BY DEF Domain

LEMMA StoppedType == ASSUME NEW d \in Domain PROVE Stopped(d) \in Domain
BY NoDomainType, WithStateType DEF Stopped

LEMMA UndefinedType == ASSUME NEW d \in Domain PROVE Undefined(d) \in Domain
<1>1. [d EXCEPT !.persistent = FALSE] \in Domain
  BY DEF Domain
<1> QED BY <1>1, NoDomainType DEF Undefined

LEMMA NewDomainType ==
  ASSUME lastId \in 0..MaxId, lastId < MaxId,
         NEW loc \in Locations \cup {"other"}
  PROVE  /\ NewDomain(loc) \in Domain
         /\ lastId + 1 \in 0..MaxId
BY MaxIdAssumption DEF NewDomain, Domain

\* A domain keeps its image, or vanishes.
LEMMA ImageKept ==
  ASSUME NEW d \in Domain
  PROVE  /\ Stopped(d).loc \in {d.loc, "other"}
         /\ Undefined(d).loc \in {d.loc, "other"}
BY DEF Domain, Stopped, Undefined, NoDomain

LEMMA IdleType == Idle \in Call /\ Idle.pc = "idle"
BY NamesAssumption, MaxIdAssumption DEF Idle, Call, Steps, Ops, LifecycleOps

-----------------------------------------------------------------------------
(* The two ways a call goes on keep its type. *)

LEMMA GotoType ==
  ASSUME TypeOK, NEW pc \in Steps, Goto(pc)
  PROVE  /\ call' \in Call
         /\ call'.pc = pc /\ call'.op = call.op /\ call'.name = call.name
         /\ call'.h = call.h /\ call'.loc = call.loc
BY DEF TypeOK, Goto, Call

LEMMA ReturnType ==
  ASSUME TypeOK, NEW ok \in BOOLEAN, Return(ok)
  PROVE  /\ call' \in Call
         /\ call'.pc = "done" /\ call'.op = call.op /\ call'.name = call.name
         /\ call'.ok = ok
<1>1. 0 \in 0..MaxId /\ "other" \in Locations \cup {"other"} /\ "done" \in Steps
  BY MaxIdAssumption DEF Steps
<1> QED BY <1>1 DEF TypeOK, Return, Call

\* What Attempt may do to the domains, whatever it attempts.
LEMMA AttemptEffect ==
  ASSUME TypeOK, call.name \in Names, NEW legal \in BOOLEAN, NEW after \in Domain,
         Attempt(legal, after)
  PROVE  /\ call' \in Call /\ call'.pc = "done"
         /\ call'.op = call.op /\ call'.name = call.name
         /\ dom' \in {dom, [dom EXCEPT ![call.name] = after]}
         /\ dom' # dom => legal
         /\ dom' \in [Names -> Domain]
         /\ UNCHANGED <<conn, disk, before>> /\ quiet' \in BOOLEAN
BY ReturnType DEF Attempt, TypeOK, Fault

\* What FindDomain may do: nothing to the domains, and a handle on success.
LEMMA FindDomainEffect ==
  ASSUME TypeOK, call.name \in Names, NEW from, NEW found \in Steps,
         FindDomain(from, found)
  PROVE  /\ call' \in Call /\ call'.pc \in {found, "done"}
         /\ call'.op = call.op /\ call'.name = call.name
         /\ call'.pc = "done" \/ call'.loc = call.loc
         /\ UNCHANGED <<conn, dom, disk, lastId, before>> /\ quiet' \in BOOLEAN
<1> DEFINE exists == conn # "none" /\ Target # NoDomain
<1>1. CASE exists /\ call' = [call EXCEPT !.h = Target.id, !.pc = found]
                  /\ UNCHANGED quiet
  <2>1. Target.id \in 0..MaxId
    BY DEF TypeOK, Domain, Target
  <2> QED BY <1>1, <2>1 DEF FindDomain, TypeOK, Call
<1>2. CASE Return(FALSE) /\ quiet' \in BOOLEAN
  BY <1>2, ReturnType DEF FindDomain
<1> QED BY <1>1, <1>2 DEF FindDomain, Fault, TypeOK

LEMMA BeginEffect ==
  ASSUME TypeOK, NEW op \in Ops, NEW n \in Names, NEW pc \in Steps,
         Begin(op, n, pc)
  PROVE  /\ call' \in Call /\ call'.pc = pc /\ call'.op = op /\ call'.name = n
         /\ call'.loc = "other" /\ before' \in Domain /\ quiet' \in BOOLEAN
         /\ UNCHANGED <<conn, dom, disk, lastId>>
BY IdleType DEF Begin, TypeOK, Call, Idle

-----------------------------------------------------------------------------
(* The invariant holds at the start and every step keeps it. *)

LEMMA InitInv == Init => Inv
BY NoDomainType, IdleType, MaxIdAssumption
DEF Init, Inv, TypeOK, CallOK, ImageReady, DefinedVmHasDisk, Idle, NoDomain,
    Locations

\* Steps that change no domain and no image and do not reach "define".
LEMMA QuietStepInv ==
  ASSUME Inv, call' \in Call, CallOK', call'.pc # "define",
         UNCHANGED <<dom, disk, lastId>>, conn' \in {"none", "open"},
         before' \in Domain, quiet' \in BOOLEAN
  PROVE  Inv'
BY DEF Inv, TypeOK, ImageReady, DefinedVmHasDisk

\* A step that leaves the target as one of its possible successors.
LEMMA AttemptInv ==
  ASSUME Inv, call.name \in Names, call.op \in Ops,
         NEW legal \in BOOLEAN, NEW after \in Domain,
         after.loc \in {Target.loc, "other"},
         Attempt(legal, after), UNCHANGED lastId
  PROVE  Inv'
<1>1. TypeOK'
  BY AttemptEffect DEF Inv, TypeOK
<1>2. CallOK' /\ ImageReady'
  BY AttemptEffect DEF Inv, CallOK, ImageReady
<1>3. DefinedVmHasDisk'
  <2> SUFFICES ASSUME NEW n \in Names, dom'[n].loc \in Locations
               PROVE  disk'[n][dom'[n].loc] # "none"
    BY DEF DefinedVmHasDisk
  <2>1. disk' = disk /\ dom'[n].loc = dom[n].loc
    BY AttemptEffect DEF Inv, TypeOK, Target, Locations
  <2> QED BY <2>1 DEF Inv, DefinedVmHasDisk
<1> QED BY <1>1, <1>2, <1>3 DEF Inv

LEMMA DomainCallInv ==
  ASSUME Inv, NEW op \in LifecycleOps, NEW from, NEW after,
         call.pc = "call" /\ call.name \in Names => after \in Domain
           /\ after.loc \in {Target.loc, "other"},
         DomainCall(op, from, after)
  PROVE  Inv'
<1>1. call.pc = "call" /\ call.name \in Names /\ call.op \in Ops
  BY DEF DomainCall, Inv, CallOK
<1>2. (HandleValid /\ Target.st \in from) \in BOOLEAN
  OBVIOUS
<1> QED BY <1>1, <1>2, AttemptInv DEF DomainCall

LEMMA LifecycleInv ==
  ASSUME Inv,
         VmStart \/ VmForceStop \/ VmPause \/ VmResume \/ VmShutdown \/ VmReboot
  PROVE  Inv'
<1> call.pc = "call" /\ call.name \in Names => Target \in Domain
  BY DEF Inv, TypeOK, Target
<1>1. call.pc = "call" /\ call.name \in Names =>
        \A st \in Active \cup {"shutoff"} :
          WithState(st) \in Domain /\ WithState(st).loc = Target.loc
  BY WithStateType DEF WithState, Domain
<1>2. CASE VmStart
  BY <1>1, <1>2, DomainCallInv DEF VmStart, Active, LifecycleOps
<1>3. CASE VmForceStop
  BY <1>3, StoppedType, ImageKept, DomainCallInv DEF VmForceStop, LifecycleOps
<1>4. CASE VmPause
  BY <1>1, <1>4, DomainCallInv DEF VmPause, Active, LifecycleOps
<1>5. CASE VmResume
  BY <1>1, <1>5, DomainCallInv DEF VmResume, Active, LifecycleOps
<1>6. CASE VmShutdown
  BY <1>6, DomainCallInv DEF VmShutdown, LifecycleOps
<1>7. CASE VmReboot
  BY <1>7, DomainCallInv DEF VmReboot, LifecycleOps
<1> QED BY <1>2, <1>3, <1>4, <1>5, <1>6, <1>7

LEMMA BeginInv ==
  ASSUME Inv, NEW n \in Names, BeginOp(n) \/ BeginCreate(n)
  PROVE  Inv'
<1>1. CASE BeginOp(n)
  <2>1. PICK op \in LifecycleOps \cup {"delete"} : Begin(op, n, "lookup")
    BY <1>1 DEF BeginOp
  <2>2. CallOK'
    BY <2>1, BeginEffect DEF Inv, CallOK, Steps, Ops, LifecycleOps
  <2> QED BY <2>1, <2>2, BeginEffect, QuietStepInv DEF Inv, TypeOK, Steps, Ops
<1>2. CASE BeginCreate(n)
  <2>1. PICK pc \in {"system_disk", "done"} : Begin("create", n, pc)
    BY <1>2 DEF BeginCreate
  <2>2. CallOK'
    BY <2>1, BeginEffect DEF Inv, CallOK, Steps, Ops
  <2> QED BY <2>1, <2>2, BeginEffect, QuietStepInv DEF Inv, TypeOK, Steps, Ops
<1> QED BY <1>1, <1>2

LEMMA FindInv == ASSUME Inv, Lookup \/ Relookup PROVE Inv'
<1>1. PICK from, found :
        /\ FindDomain(from, found)
        /\ found \in {"call", "getinfo", "undefine"}
        /\ call.op # "create" /\ (call.op = "delete" <=> found # "call")
        /\ call.name \in Names /\ call.op \in Ops
  <2>1. CASE Lookup
    BY <2>1 DEF Lookup, FindDomain, Inv, CallOK
  <2>2. CASE Relookup
    BY <2>2 DEF Relookup, FindDomain, Inv, CallOK, LifecycleOps
  <2> QED BY <2>1, <2>2
<1>2. found \in Steps
  BY <1>1 DEF Steps
<1>3. CallOK'
  BY <1>1, <1>2, FindDomainEffect DEF Inv, CallOK, Ops
<1> QED BY <1>1, <1>2, <1>3, FindDomainEffect, QuietStepInv DEF Inv, TypeOK

LEMMA DeleteInv == ASSUME Inv, GetInfo \/ Destroy \/ Undefine PROVE Inv'
<1>1. CASE GetInfo
  <2>1. PICK pc \in {"destroy", "undefine"} : Goto(pc)
    BY <1>1 DEF GetInfo
  <2>2. call' \in Call /\ CallOK' /\ call'.pc # "define"
    BY <1>1, <2>1, GotoType DEF GetInfo, Inv, CallOK, Steps
  <2>3. quiet' \in BOOLEAN
    BY <1>1 DEF GetInfo, Fault, Inv, TypeOK
  <2> QED BY <1>1, <2>2, <2>3, QuietStepInv DEF GetInfo, Inv, TypeOK
<1>2. CASE Destroy
  <2>1. /\ call.name \in Names /\ Goto("relookup") /\ UNCHANGED <<disk, lastId>>
        /\ UNCHANGED <<conn, before>> /\ quiet' \in BOOLEAN
        /\ dom' \in {dom, [dom EXCEPT ![call.name] = Stopped(Target)]}
    BY <1>2 DEF Destroy, Inv, CallOK, TypeOK, Fault
  <2>2. call' \in Call /\ CallOK' /\ call'.pc # "define"
    BY <1>2, <2>1, GotoType DEF Destroy, Inv, CallOK, Steps
  <2>3. /\ Stopped(Target) \in Domain
        /\ Stopped(Target).loc \in {Target.loc, "other"}
    BY <2>1, StoppedType, ImageKept DEF Inv, TypeOK, Target
  <2>4. TypeOK'
    BY <2>1, <2>2, <2>3 DEF Inv, TypeOK
  <2>5. DefinedVmHasDisk'
    BY <2>1, <2>3 DEF Inv, TypeOK, DefinedVmHasDisk, Target, Locations
  <2> QED BY <2>2, <2>4, <2>5 DEF Inv, ImageReady
<1>3. CASE Undefine
  <2>1. call.name \in Names /\ call.op \in Ops /\ Target \in Domain
    BY <1>3 DEF Undefine, Inv, CallOK, TypeOK, Target
  <2> QED BY <1>3, <2>1, UndefinedType, ImageKept, AttemptInv DEF Undefine
<1> QED BY <1>1, <1>2, <1>3

\* One qemu-img: the image exists when the function goes on to "define".
LEMMA ImageInv ==
  ASSUME Inv, call.name \in Names, call.op = "create", NEW loc \in Locations,
         CreateDiskImage(loc), UNCHANGED <<conn, dom, lastId, history>>
  PROVE  Inv'
<1>1. /\ call' \in Call /\ call'.pc = "define" /\ call'.loc = loc
      /\ call'.op = call.op /\ call'.name = call.name
  BY DEF CreateDiskImage, Inv, TypeOK, Call, Steps
<1>2. TypeOK'
  BY <1>1 DEF CreateDiskImage, Inv, TypeOK, history
<1>3. CallOK'
  BY <1>1 DEF Inv, CallOK, Ops
<1>4. ImageReady' /\ DefinedVmHasDisk'
  BY <1>1 DEF CreateDiskImage, Inv, TypeOK, ImageReady, DefinedVmHasDisk
<1> QED BY <1>2, <1>3, <1>4 DEF Inv

LEMMA CreateInv ==
  ASSUME Inv, CreateSystemDisk \/ CreateHomeDisk \/ Define \/ DefineFails
  PROVE  Inv'
<1> call.name \in Names /\ call.op = "create"
  BY DEF CreateSystemDisk, CreateHomeDisk, Define, DefineFails, Inv, CallOK
<1>1. ASSUME NEW loc \in Locations, CreateDiskImage(loc),
             UNCHANGED <<conn, dom, lastId, history>>
      PROVE  Inv'
  BY <1>1, ImageInv
<1>2. CASE CreateSystemDisk
  <2>1. CASE UNCHANGED disk /\ Goto("home_disk")
    <3>1. call' \in Call /\ CallOK' /\ call'.pc # "define"
      BY <2>1, GotoType DEF Inv, CallOK, Steps, Ops
    <3> QED BY <1>2, <2>1, <3>1, QuietStepInv
            DEF CreateSystemDisk, history, Inv, TypeOK
  <2> QED BY <1>1, <1>2, <2>1 DEF CreateSystemDisk, Locations
<1>3. CASE CreateHomeDisk
  <2>1. CASE UNCHANGED disk /\ Return(FALSE) /\ Fault
    <3>1. call' \in Call /\ CallOK' /\ call'.pc # "define"
      BY <2>1, ReturnType DEF Inv, CallOK, Ops
    <3> QED BY <1>3, <2>1, <3>1, QuietStepInv
            DEF CreateHomeDisk, Fault, Inv, TypeOK
  <2> QED BY <1>1, <1>3, <2>1 DEF CreateHomeDisk, Locations, history
<1>4. CASE Define
  <2>1. /\ call.loc \in Locations /\ disk[call.name][call.loc] # "none"
        /\ NewDomain(call.loc) \in Domain /\ lastId' \in 0..MaxId
        /\ Attempt(Target = NoDomain, NewDomain(call.loc))
    BY <1>4, NewDomainType DEF Define, Inv, ImageReady, TypeOK
  <2>2. /\ call' \in Call /\ call'.pc = "done"
        /\ call'.op = call.op /\ call'.name = call.name
        /\ dom' \in {dom, [dom EXCEPT ![call.name] = NewDomain(call.loc)]}
        /\ dom' \in [Names -> Domain]
        /\ UNCHANGED <<conn, disk, before>> /\ quiet' \in BOOLEAN
    BY <2>1, AttemptEffect DEF Inv
  <2>3. TypeOK' /\ CallOK' /\ ImageReady'
    BY <2>1, <2>2 DEF Inv, TypeOK, CallOK, ImageReady, Ops
  <2>4. DefinedVmHasDisk'
    <3> SUFFICES ASSUME NEW n \in Names, dom'[n].loc \in Locations
                 PROVE  disk'[n][dom'[n].loc] # "none"
      BY DEF DefinedVmHasDisk
    <3>1. CASE dom'[n] = dom[n]
      BY <2>2, <3>1 DEF Inv, DefinedVmHasDisk
    <3>2. CASE n = call.name /\ dom'[n] = NewDomain(call.loc)
      BY <2>1, <2>2, <3>2 DEF NewDomain
    <3> QED BY <2>2, <3>1, <3>2 DEF Inv, TypeOK
  <2> QED BY <2>3, <2>4 DEF Inv
<1>5. CASE DefineFails
  <2>1. call' \in Call /\ CallOK' /\ call'.pc # "define"
    BY <1>5, ReturnType DEF DefineFails, Inv, CallOK, Ops
  <2> QED BY <1>5, <2>1, QuietStepInv DEF DefineFails, Fault, Inv, TypeOK
<1> QED BY <1>2, <1>3, <1>4, <1>5

LEMMA WorldInv ==
  ASSUME Inv, NEW n \in Names, Elsewhere(n) \/ GuestWrites(n)
  PROVE  Inv'
<1>1. CASE Elsewhere(n)
  <2>1. PICK d \in Domain : dom' = [dom EXCEPT ![n] = d]
                            /\ d.loc \in {dom[n].loc, "other"}
    <3>1. CASE dom' = [dom EXCEPT ![n] = NewDomain("other")]
               /\ lastId < MaxId
      <4>1. NewDomain("other").loc = "other"
        BY DEF NewDomain
      <4> QED BY <3>1, <4>1, NewDomainType DEF Inv, TypeOK
    <3>2. CASE \E st \in Moves[dom[n].st] :
                 dom[n] # NoDomain /\ dom' = [dom EXCEPT ![n] = [dom[n] EXCEPT !.st = st]]
      <4>1. PICK st : /\ st \in Moves[dom[n].st]
                      /\ dom' = [dom EXCEPT ![n] = [dom[n] EXCEPT !.st = st]]
        BY <3>2
      <4>2. dom[n] \in Domain /\ st \in Active
        BY <4>1 DEF Inv, TypeOK, Domain, Moves, Active
      <4>3. [dom[n] EXCEPT !.st = st].loc = dom[n].loc
        BY <4>2 DEF Domain
      <4> QED BY <4>1, <4>2, <4>3, WithStateType
    <3>3. CASE dom' \in {[dom EXCEPT ![n] = Stopped(dom[n])],
                         [dom EXCEPT ![n] = Undefined(dom[n])]}
      BY <3>3, StoppedType, UndefinedType, ImageKept DEF Inv, TypeOK
    <3>4. CASE \E s \in BOOLEAN : dom' = [dom EXCEPT ![n] = [dom[n] EXCEPT !.snaps = s]]
      <4>1. PICK s \in BOOLEAN : dom' = [dom EXCEPT ![n] = [dom[n] EXCEPT !.snaps = s]]
        BY <3>4
      <4>2. dom[n] \in Domain
        BY DEF Inv, TypeOK
      <4>3. [dom[n] EXCEPT !.snaps = s] \in Domain
            /\ [dom[n] EXCEPT !.snaps = s].loc = dom[n].loc
        BY <4>2 DEF Domain
      <4> QED BY <4>1, <4>3
    <3> QED BY <1>1, <3>1, <3>2, <3>3, <3>4 DEF Elsewhere
  <2>2. lastId' \in 0..MaxId /\ quiet' \in BOOLEAN
    BY <1>1, MaxIdAssumption DEF Elsewhere, Inv, TypeOK
  <2>3. UNCHANGED <<conn, disk, call, before>>
    BY <1>1 DEF Elsewhere
  <2>4. TypeOK' /\ CallOK' /\ ImageReady'
    BY <2>1, <2>2, <2>3 DEF Inv, TypeOK, CallOK, ImageReady
  <2>5. DefinedVmHasDisk'
    BY <2>1, <2>3 DEF Inv, TypeOK, DefinedVmHasDisk, Locations
  <2> QED BY <2>4, <2>5 DEF Inv
<1>2. CASE GuestWrites(n)
  <2>1. TypeOK' /\ CallOK'
    BY <1>2 DEF GuestWrites, Inv, TypeOK, CallOK, history
  <2>2. ImageReady' /\ DefinedVmHasDisk'
    BY <1>2 DEF GuestWrites, Inv, TypeOK, ImageReady, DefinedVmHasDisk
  <2> QED BY <2>1, <2>2 DEF Inv
<1> QED BY <1>1, <1>2

LEMMA NextInv == ASSUME Inv, [Next]_vmVars PROVE Inv'
<1>1. CASE VmBackendConnect \/ VmBackendDisconnect
  BY <1>1 DEF VmBackendConnect, VmBackendDisconnect, history,
              Inv, TypeOK, CallOK, ImageReady, DefinedVmHasDisk
<1>2. CASE Finish
  <2>1. CallOK'
    BY <1>2, IdleType DEF Finish, CallOK
  <2> QED BY <1>2, <2>1, IdleType, NoDomainType, QuietStepInv
          DEF Finish, Inv, TypeOK
<1>3. CASE CallStep
  BY <1>3, LifecycleInv, FindInv, DeleteInv, CreateInv DEF CallStep
<1>4. CASE UNCHANGED vmVars
  BY <1>4 DEF vmVars, history, Inv, TypeOK, CallOK, ImageReady, DefinedVmHasDisk
<1> QED BY <1>1, <1>2, <1>3, <1>4, BeginInv, WorldInv DEF Next, World

-----------------------------------------------------------------------------

LEMMA Invariance == Spec => []Inv
BY InitInv, NextInv, PTL DEF Spec

\* Every variable of the VM backend keeps its type in every behaviour.
THEOREM TypeCorrect == Spec => []TypeOK
BY Invariance, PTL DEF Inv

\* A domain vm_create defined always has its image file, whatever libvirtd,
\* its other clients and qemu-img do between the two calls.
THEOREM DefinedVmsHaveDisks == Spec => []DefinedVmHasDisk
BY Invariance, PTL DEF Inv

=============================================================================
