------------------------- MODULE VmContracts_proofs -------------------------
(***************************************************************************)
(* Proofs of the contracts of vm_delete and vm_create.  A contract speaks   *)
(* of the end of a function; what makes it inductive is what the function   *)
(* still knows about the domain at each of its steps, as long as nobody     *)
(* else has acted (quiet).                                                  *)
(***************************************************************************)
EXTENDS VmManager_proofs

DeleteProgress ==
  call.op = "delete" /\ quiet =>
    /\ call.pc = "lookup" => Target = before
    /\ call.pc \in {"getinfo", "destroy"} => Target = before /\ HandleValid
    /\ call.pc \in {"destroy", "relookup"} => before.st = "running"
    /\ call.pc = "relookup" => Target = Stopped(before)
    /\ call.pc = "undefine" =>
         /\ HandleValid
         /\ Target = IF before.st = "running" THEN Stopped(before) ELSE before

CreateProgress ==
  call.op = "create" /\ quiet =>
    /\ call.pc \in {"system_disk", "home_disk", "define"} => Target = before
    /\ call.pc = "define" /\ Target = NoDomain =>
         disk[call.name][call.loc] = "blank"

Contracts ==
  DeleteProgress /\ DeleteContract /\ CreateProgress /\ CreateContract

-----------------------------------------------------------------------------
(* Steps that cannot matter to a contract. *)

LEMMA Disturbed == ASSUME ~quiet' PROVE Contracts'
BY DEF Contracts, DeleteProgress, DeleteContract, CreateProgress, CreateContract

LEMMA OtherOp ==
  ASSUME call'.op \notin {"delete", "create"}
  PROVE  Contracts'
BY DEF Contracts, DeleteProgress, DeleteContract, CreateProgress, CreateContract

\* What keeps the contracts of a delete (a create) leaves those of the other.
LEMMA DeleteOnly ==
  ASSUME call'.op = "delete", DeleteProgress', DeleteContract'
  PROVE  Contracts'
BY DEF Contracts, CreateProgress, CreateContract

LEMMA CreateOnly ==
  ASSUME call'.op = "create", CreateProgress', CreateContract'
  PROVE  Contracts'
BY DEF Contracts, DeleteProgress, DeleteContract

LEMMA StoppedDomain ==
  ASSUME NEW d \in Domain, d.st \in Active
  PROVE  /\ d.persistent => /\ Stopped(d).st = "shutoff" /\ Stopped(d).persistent
                            /\ Stopped(d).id = d.id /\ Stopped(d) # NoDomain
         /\ ~d.persistent => Stopped(d) = NoDomain
BY DEF Stopped, Domain, NoDomain

-----------------------------------------------------------------------------
(* One lemma per step of vm_delete. *)

LEMMA FindContracts ==
  ASSUME Inv, Contracts, Lookup \/ Relookup
  PROVE  Contracts'
<1> call.op # "create" /\ call.op \in Ops /\ call.name \in Names
  BY DEF Lookup, Relookup, FindDomain, Inv, CallOK
<1>1. PICK from, found :
        /\ FindDomain(from, found) /\ call.pc = from /\ found \in Steps
        /\ found # "done"
        /\ \/ from = "lookup" /\ (call.op = "delete" => found = "getinfo")
           \/ from = "relookup" /\ found = "undefine"
  <2>1. CASE Lookup
    BY <2>1 DEF Lookup, FindDomain, Steps
  <2>2. CASE Relookup
    BY <2>2 DEF Relookup, FindDomain, Steps
  <2> QED BY <2>1, <2>2
<1>2. call'.op = call.op /\ call'.name = call.name /\ UNCHANGED <<conn, dom, before>>
  BY <1>1, FindDomainEffect DEF Inv
<1>3. CASE call.op # "delete"
  BY <1>2, <1>3, OtherOp
<1>4. CASE call.op = "delete" /\ quiet'
  <2>1. quiet
    BY <1>1, <1>4 DEF FindDomain, Fault, Inv, TypeOK
  <2>2. Target' = Target
    BY <1>2 DEF Target
  <2>3. CASE call' = [call EXCEPT !.h = Target.id, !.pc = found]
    <3>1. call'.h = Target.id /\ call'.pc = found
      BY <2>3 DEF Inv, TypeOK, Call
    <3>2. DeleteProgress' /\ DeleteContract'
      BY <1>1, <1>2, <1>4, <2>1, <2>2, <3>1
      DEF Contracts, DeleteProgress, DeleteContract, HandleValid
    <3> QED BY <1>2, <1>4, <3>2, DeleteOnly
  <2>4. CASE Return(FALSE) /\ ~(conn # "none" /\ Target # NoDomain)
    <3>1. call'.pc = "done"
      BY <2>4, ReturnType DEF Inv
    <3>2. conn # "none" /\ before.persistent => before.st # "running"
      BY <1>1, <1>4, <2>1, <2>4, StoppedDomain
      DEF Contracts, DeleteProgress, Inv, TypeOK, Active, NoDomain
    <3>3. conn # "none" /\ before.persistent => before.st # "shutoff"
      BY <1>1, <1>4, <2>1, <2>4
      DEF Contracts, DeleteProgress, NoDomain
    <3>4. DeleteProgress' /\ DeleteContract'
      BY <1>2, <3>1, <3>2, <3>3 DEF DeleteProgress, DeleteContract
    <3> QED BY <1>2, <1>4, <3>4, DeleteOnly
  <2> QED BY <1>1, <1>4, <2>3, <2>4 DEF FindDomain, Fault
<1> QED BY <1>3, <1>4, Disturbed

LEMMA GetInfoContracts == ASSUME Inv, Contracts, GetInfo PROVE Contracts'
<1>1. call.op = "delete" /\ call.pc = "getinfo"
  BY DEF GetInfo, Inv, CallOK
<1>2. CASE quiet'
  <2>1. /\ quiet /\ HandleValid /\ Target = before
        /\ Goto(IF Target.st = "running" THEN "destroy" ELSE "undefine")
    BY <1>1, <1>2 DEF GetInfo, Fault, Contracts, DeleteProgress, Inv, TypeOK
  <2>2. /\ call'.pc = IF Target.st = "running" THEN "destroy" ELSE "undefine"
        /\ call'.op = "delete" /\ call'.name = call.name /\ call'.h = call.h
    BY <1>1, <2>1, GotoType DEF Inv, Steps
  <2>3. Target' = Target /\ before' = before /\ HandleValid'
    BY <1>1, <2>1, <2>2 DEF GetInfo, HandleValid, Target
  <2>4. DeleteProgress' /\ DeleteContract'
    BY <2>1, <2>2, <2>3 DEF DeleteProgress, DeleteContract
  <2> QED BY <2>2, <2>4, DeleteOnly
<1> QED BY <1>2, Disturbed

LEMMA DestroyContracts == ASSUME Inv, Contracts, Destroy PROVE Contracts'
<1>1. /\ call.op = "delete" /\ call.pc = "destroy" /\ call.name \in Names
      /\ call'.pc = "relookup" /\ call'.op = "delete" /\ call'.name = call.name
  BY GotoType DEF Destroy, Inv, CallOK, Steps
<1>2. CASE quiet'
  <2>1. quiet /\ dom' = [dom EXCEPT ![call.name] = Stopped(Target)]
    BY <1>2 DEF Destroy, Fault, Inv, TypeOK
  <2>2. Target = before /\ before.st = "running"
    BY <1>1, <2>1 DEF Contracts, DeleteProgress
  <2>3. Target' = Stopped(before) /\ before' = before
    BY <1>1, <2>1, <2>2 DEF Destroy, Target, Inv, TypeOK
  <2>4. DeleteProgress' /\ DeleteContract'
    BY <1>1, <2>2, <2>3 DEF DeleteProgress, DeleteContract
  <2> QED BY <1>1, <2>4, DeleteOnly
<1> QED BY <1>2, Disturbed

LEMMA UndefineContracts == ASSUME Inv, Contracts, Undefine PROVE Contracts'
<1>1. /\ call.op = "delete" /\ call.pc = "undefine" /\ call.name \in Names
      /\ Target \in Domain
  BY DEF Undefine, Inv, CallOK, TypeOK, Target
<1>2. /\ call'.pc = "done" /\ call'.op = "delete" /\ call'.name = call.name
      /\ before' = before
  BY <1>1, AttemptEffect, UndefinedType DEF Undefine, Inv
<1>3. CASE quiet'
  <2>1. quiet /\ HandleValid
        /\ Target = IF before.st = "running" THEN Stopped(before) ELSE before
    BY <1>1, <1>3 DEF Undefine, Attempt, Fault, Contracts, DeleteProgress, Inv, TypeOK
  <2> SUFFICES ASSUME before.persistent, before.st \in {"running", "shutoff"}
               PROVE  IF before.snaps
                      THEN ~call'.ok /\ Target' = [before EXCEPT !.st = "shutoff"]
                      ELSE call'.ok /\ Target' = NoDomain
    <3>1. DeleteProgress' /\ DeleteContract'
      BY <1>2 DEF DeleteProgress, DeleteContract
    <3> QED BY <1>2, <3>1, DeleteOnly
  <2>2. Target.persistent /\ Target.st = "shutoff"
    BY <2>1, StoppedDomain DEF Inv, TypeOK, Active
  <2>3. Target = [before EXCEPT !.st = "shutoff"] /\ Target.snaps = before.snaps
    BY <2>1 DEF Stopped, Inv, TypeOK, Domain
  <2>4. CASE ~before.snaps
    <3>1. dom' = [dom EXCEPT ![call.name] = NoDomain] /\ Return(TRUE)
      BY <1>3, <2>1, <2>2, <2>3, <2>4 DEF Undefine, Attempt, Undefined, Fault
    <3>2. call'.ok
      BY <3>1, ReturnType DEF Inv
    <3> QED BY <1>1, <1>2, <2>4, <3>1, <3>2 DEF Target, Inv, TypeOK
  <2>5. CASE before.snaps
    <3>1. dom' = dom /\ Return(FALSE)
      BY <1>3, <2>1, <2>2, <2>3, <2>5 DEF Undefine, Attempt, Fault
    <3>2. ~call'.ok
      BY <3>1, ReturnType DEF Inv
    <3> QED BY <1>1, <1>2, <2>3, <2>5, <3>1, <3>2 DEF Target
  <2> QED BY <2>4, <2>5, <1>1 DEF Domain
<1> QED BY <1>3, Disturbed

-----------------------------------------------------------------------------
(* The steps of vm_create. *)

LEMMA ImageContracts ==
  ASSUME Inv, Contracts, call.op = "create", call.name \in Names,
         call.pc \in {"system_disk", "home_disk"}, NEW loc \in Locations,
         CreateDiskImage(loc), UNCHANGED <<dom, history>>
  PROVE  Contracts'
<1>1. /\ call'.pc = "define" /\ call'.op = "create"
      /\ call'.name = call.name /\ call'.loc = loc
  BY DEF CreateDiskImage, Inv, TypeOK, Call, Steps
<1>2. disk'[call.name][loc] = "blank"
  BY DEF CreateDiskImage, Inv, TypeOK
<1>3. Target' = Target /\ before' = before /\ quiet' = quiet
  BY <1>1 DEF Target, history
<1>4. CreateProgress' /\ CreateContract'
  BY <1>1, <1>2, <1>3 DEF CreateProgress, CreateContract, Contracts
<1> QED BY <1>1, <1>4, CreateOnly

LEMMA DiskContracts ==
  ASSUME Inv, Contracts, CreateSystemDisk \/ CreateHomeDisk
  PROVE  Contracts'
<1> call.name \in Names /\ call.op = "create"
  BY DEF CreateSystemDisk, CreateHomeDisk, Inv, CallOK
<1>1. CASE CreateSystemDisk /\ UNCHANGED disk /\ Goto("home_disk")
  <2>1. /\ call'.pc = "home_disk" /\ call'.op = "create"
        /\ call'.name = call.name
    BY <1>1, GotoType DEF Inv, Steps
  <2>2. Target' = Target /\ before' = before /\ quiet' = quiet
    BY <1>1, <2>1 DEF CreateSystemDisk, Target, history
  <2>3. CreateProgress' /\ CreateContract'
    BY <1>1, <2>1, <2>2
    DEF CreateProgress, CreateContract, Contracts, CreateSystemDisk
  <2> QED BY <2>1, <2>3, CreateOnly
<1>2. CASE \E loc \in Locations : CreateDiskImage(loc) /\ UNCHANGED <<dom, history>>
  BY <1>2, ImageContracts DEF CreateSystemDisk, CreateHomeDisk
<1> QED BY <1>1, <1>2, Disturbed
        DEF CreateSystemDisk, CreateHomeDisk, Locations, Fault, history

LEMMA DefineContracts ==
  ASSUME Inv, Contracts, Define \/ DefineFails
  PROVE  Contracts'
<1>1. CASE Define
  <2>1. /\ call.op = "create" /\ call.pc = "define" /\ call.name \in Names
        /\ NewDomain(call.loc) \in Domain /\ call.loc \in Locations
        /\ Attempt(Target = NoDomain, NewDomain(call.loc))
    BY <1>1, NewDomainType DEF Define, Inv, CallOK, ImageReady, TypeOK
  <2>2. /\ call'.pc = "done" /\ call'.op = "create"
        /\ call'.name = call.name /\ before' = before /\ disk' = disk
    BY <2>1, AttemptEffect DEF Inv
  <2>3. CASE quiet'
    <3>1. quiet /\ Target = before
      BY <2>1, <2>3 DEF Attempt, Fault, Contracts, CreateProgress, Inv, TypeOK
    <3>2. CASE Target = NoDomain
      <4>1. Return(TRUE) /\ Target' = NewDomain(call.loc)
        BY <2>1, <2>2, <2>3, <3>2 DEF Attempt, Fault, Target, Inv, TypeOK
      <4>2. call'.ok /\ disk[call.name][call.loc] = "blank"
        BY <2>1, <3>1, <3>2, <4>1, ReturnType DEF Contracts, CreateProgress, Inv
      <4>3. CreateProgress' /\ CreateContract'
        BY <2>1, <2>2, <3>1, <3>2, <4>1, <4>2
        DEF CreateProgress, CreateContract, NewDomain
      <4> QED BY <2>2, <4>3, CreateOnly
    <3>3. CASE Target # NoDomain
      <4>1. Return(FALSE) /\ Target' = Target
        BY <2>1, <2>2, <2>3, <3>3 DEF Attempt, Fault, Target
      <4>2. ~call'.ok
        BY <4>1, ReturnType DEF Inv
      <4>3. CreateProgress' /\ CreateContract'
        BY <2>2, <3>1, <4>1, <4>2 DEF CreateProgress, CreateContract
      <4> QED BY <2>2, <4>3, CreateOnly
    <3> QED BY <3>2, <3>3
  <2> QED BY <2>3, Disturbed
<1> QED BY <1>1, Disturbed DEF DefineFails, Fault

-----------------------------------------------------------------------------
(* All other steps, and the contracts as theorems. *)

LEMMA LifecycleContracts ==
  ASSUME Inv, Contracts,
         VmStart \/ VmForceStop \/ VmPause \/ VmResume \/ VmShutdown \/ VmReboot
  PROVE  Contracts'
<1>1. call.pc = "call" /\ call.op \in LifecycleOps
  BY DEF VmStart, VmForceStop, VmPause, VmResume, VmShutdown, VmReboot,
         DomainCall, Inv, CallOK
<1>2. \E ok \in BOOLEAN : Return(ok)
  BY DEF VmStart, VmForceStop, VmPause, VmResume, VmShutdown, VmReboot,
         DomainCall, Attempt
<1>3. call'.op = call.op
  BY <1>2, ReturnType DEF Inv
<1> QED BY <1>1, <1>3, OtherOp DEF LifecycleOps

LEMMA BeginContracts ==
  ASSUME Inv, Contracts, NEW n \in Names, BeginOp(n) \/ BeginCreate(n)
  PROVE  Contracts'
<1>1. CASE BeginOp(n)
  <2>1. PICK op \in LifecycleOps \cup {"delete"} : Begin(op, n, "lookup")
    BY <1>1 DEF BeginOp
  <2>2. /\ call'.pc = "lookup" /\ call'.op = op /\ call'.name = n
        /\ Target' = before'
    BY <2>1, BeginEffect DEF Inv, Ops, Steps, Begin, Target
  <2>3. op = "delete" => DeleteProgress' /\ DeleteContract'
    BY <2>2 DEF DeleteProgress, DeleteContract
  <2> QED BY <2>2, <2>3, DeleteOnly, OtherOp DEF LifecycleOps
<1>2. CASE BeginCreate(n)
  <2>1. PICK pc \in {"system_disk", "done"} : Begin("create", n, pc)
    BY <1>2 DEF BeginCreate
  <2>2. /\ call'.pc = pc /\ call'.op = "create" /\ call'.name = n
        /\ Target' = before' /\ ~call'.ok
    BY <2>1, BeginEffect DEF Inv, Ops, Steps, Begin, Target, Idle, TypeOK
  <2>3. CreateProgress' /\ CreateContract'
    BY <2>1, <2>2 DEF CreateProgress, CreateContract
  <2> QED BY <2>2, <2>3, CreateOnly
<1> QED BY <1>1, <1>2

LEMMA WorldContracts ==
  ASSUME Inv, Contracts, NEW n \in Names, Elsewhere(n) \/ GuestWrites(n)
  PROVE  Contracts'
<1>1. CASE Elsewhere(n)
  <2>1. CASE quiet'
    <3>1. quiet /\ n # call.name /\ UNCHANGED <<conn, disk, call, before>>
      BY <1>1, <2>1 DEF Elsewhere, Inv, TypeOK
    <3>2. call.pc # "idle" => Target' = Target
      BY <1>1, <3>1 DEF Elsewhere, Target, Inv, CallOK, TypeOK
    <3> QED BY <3>1, <3>2 DEF Contracts, DeleteProgress, DeleteContract,
              CreateProgress, CreateContract, HandleValid
  <2> QED BY <2>1, Disturbed
<1>2. CASE GuestWrites(n)
  <2>1. UNCHANGED <<conn, dom, call, before, quiet>>
    BY <1>2 DEF GuestWrites, history
  <2>2. Target' = Target
    BY <2>1 DEF Target
  <2>3. DeleteProgress' /\ DeleteContract'
    BY <2>1, <2>2 DEF Contracts, DeleteProgress, DeleteContract, HandleValid
  <2>4. ASSUME NEW m, NEW l, n # m \/ Target.st # "running", m = call.name
        PROVE  disk'[m][l] = disk[m][l]
    BY <1>2, <2>4 DEF GuestWrites, Target, Inv, TypeOK
  <2>5. CreateProgress' /\ CreateContract'
    BY <2>1, <2>2, <2>4
    DEF Contracts, CreateProgress, CreateContract, NoDomain
  <2> QED BY <2>3, <2>5 DEF Contracts
<1> QED BY <1>1, <1>2

LEMMA NextContracts == ASSUME Inv, Contracts, [Next]_vmVars PROVE Contracts'
<1>1. CASE VmBackendConnect \/ VmBackendDisconnect
  BY <1>1 DEF VmBackendConnect, VmBackendDisconnect, history, Target,
              HandleValid, Contracts, DeleteProgress, DeleteContract,
              CreateProgress, CreateContract
<1>2. CASE Finish
  BY <1>2, OtherOp DEF Finish, Idle
<1>3. CASE CallStep
  BY <1>3, FindContracts, GetInfoContracts, DestroyContracts,
     UndefineContracts, DiskContracts, DefineContracts, LifecycleContracts
  DEF CallStep
<1>4. CASE UNCHANGED vmVars
  BY <1>4 DEF vmVars, history, Target, HandleValid, Contracts,
              DeleteProgress, DeleteContract, CreateProgress, CreateContract
<1> QED BY <1>1, <1>2, <1>3, <1>4, BeginContracts, WorldContracts DEF Next, World

LEMMA InitContracts == Init => Contracts
BY DEF Init, Idle, Contracts, DeleteProgress, DeleteContract,
       CreateProgress, CreateContract

LEMMA ContractsHold == Spec => [](Inv /\ Contracts)
BY InitInv, NextInv, InitContracts, NextContracts, PTL DEF Spec

\* vm_delete, undisturbed, removes a domain that was running or shut off and
\* reports that it did.
THEOREM DeleteKeepsContract == Spec => []DeleteContract
BY ContractsHold, PTL DEF Contracts

\* vm_create, undisturbed, reports success exactly when it has defined a new
\* domain on a blank image, and otherwise leaves the domains as they were.
THEOREM CreateKeepsContract == Spec => []CreateContract
BY ContractsHold, PTL DEF Contracts

=============================================================================
