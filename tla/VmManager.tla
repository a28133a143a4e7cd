----------------------------- MODULE VmManager -----------------------------
(***************************************************************************)
(* src/backend/vm_manager.c: the operations on QEMU/KVM virtual machines.   *)
(*                                                                         *)
(* The application is single threaded and every operation is a sequence of *)
(* blocking calls (libvirt RPCs, a qemu-img child).  libvirtd is shared    *)
(* with other clients and with the guests themselves, so the domains may   *)
(* change between any two calls.  One action below is one blocking call;   *)
(* the variable call is the position of the running C function and its     *)
(* locals.                                                                 *)
(*                                                                         *)
(* libvirtd and the image files are external: they are modelled from how   *)
(* the code uses them.  A libvirt call may fail for reasons of its own,    *)
(* before or after it took effect (the reply is lost): see Fault.          *)
(***************************************************************************)
EXTENDS Naturals, FiniteSets

CONSTANTS
  Names,       \* domain names, whoever defined the domain
  ValidNames,  \* the names is_valid_vm_name accepts
  NoName,      \* "no name": the idle call
  MaxId        \* bound: how many domain identities (UUIDs) libvirtd hands out

ASSUME NamesAssumption == ValidNames \subseteq Names /\ NoName \notin Names
ASSUME MaxIdAssumption == MaxId \in Nat

VARIABLES
  conn,    \* app->virt_conn: "none", or "open" to the system or session daemon
  dom,     \* the domain of each name, NoDomain when libvirtd knows none
  disk,    \* contents of the image file of a name at each location
  lastId,  \* identities handed out so far
  call,    \* the vm_* function being executed
  before,  \* history: the target's domain when the function was entered
  quiet    \* history: since then nobody else acted and no call faulted

history == <<before, quiet>>
vmVars == <<conn, dom, disk, lastId, call, history>>

---------------------------------------------------------------------------
(* libvirtd's domains.  An active domain that is undefined stays as a       *)
(* transient domain and vanishes when it stops.                             *)

Active == {"running", "paused", "crashed", "pmsuspended"}

\* Where vm_create puts the image: the system pool or the fallback under $HOME.
Locations == {"system", "home"}

\* A domain's image is <<name, loc>>; "other": a file this program never writes.
\* snaps: it has snapshots.
Domain == [st: Active \cup {"absent", "shutoff"}, persistent: BOOLEAN,
           snaps: BOOLEAN, id: 0..MaxId, loc: Locations \cup {"other"}]

NoDomain == [st |-> "absent", persistent |-> FALSE, snaps |-> FALSE,
             id |-> 0, loc |-> "other"]

\* Mutant: identities skip one.
NewDomainSkipsId(loc) ==
  [st |-> "shutoff", persistent |-> TRUE, snaps |-> FALSE,
   id |-> lastId + 2, loc |-> loc]

NewDomain(loc) ==
  [st |-> "shutoff", persistent |-> TRUE, snaps |-> FALSE,
   id |-> lastId + 1, loc |-> loc]

Stopped(d) == IF d.persistent THEN [d EXCEPT !.st = "shutoff"] ELSE NoDomain

Undefined(d) ==
  IF d.st = "shutoff" THEN NoDomain ELSE [d EXCEPT !.persistent = FALSE]

\* The states a guest or another client may move a domain to.
Moves == [absent |-> {}, shutoff |-> {"running"}, running |-> Active,
          paused |-> {"running"}, crashed |-> {"crashed"},
          pmsuspended |-> {"running"}]

---------------------------------------------------------------------------
(* The running C function. *)

LifecycleOps ==
  {"start", "shutdown", "force_stop", "reboot", "pause", "resume"}
Ops == LifecycleOps \cup {"delete", "create"}

Steps == {"idle", "lookup", "call", "getinfo", "destroy", "relookup",
          "undefine", "system_disk", "home_disk", "define", "done"}

Call == [pc: Steps, op: Ops \cup {"none"}, name: Names \cup {NoName},
         h: 0..MaxId, loc: Locations \cup {"other"}, ok: BOOLEAN]

Idle == [pc |-> "idle", op |-> "none", name |-> NoName,
         h |-> 0, loc |-> "other", ok |-> FALSE]

Target == dom[call.name]

Goto(pc) == call' = [call EXCEPT !.pc = pc]

Return(ok) ==
  call' = [call EXCEPT !.pc = "done", !.ok = ok, !.h = 0, !.loc = "other"]

\* The domain the handle was looked up for still exists.
HandleValid == Target.id = call.h

Fault == quiet' = FALSE

\* Mutant: the result of a call that libvirtd refuses is not looked at.
AttemptUnchecked(legal, after) ==
  LET done == [dom EXCEPT ![call.name] = after] IN
  /\ \/ legal /\ dom' = done /\ Return(TRUE) /\ UNCHANGED quiet
     \/ ~legal /\ UNCHANGED dom /\ Return(TRUE) /\ UNCHANGED quiet
     \/ dom' \in {dom} \cup {d \in {done} : legal} /\ Return(FALSE) /\ Fault
  /\ UNCHANGED <<conn, disk, before>>

\* One libvirt call that libvirtd accepts in the states where legal holds and
\* that leaves the target as after.  It may fault, with or without its effect.
Attempt(legal, after) ==
  LET done == [dom EXCEPT ![call.name] = after] IN
  /\ \/ legal /\ dom' = done /\ Return(TRUE) /\ UNCHANGED quiet
     \/ ~legal /\ UNCHANGED dom /\ Return(FALSE) /\ UNCHANGED quiet
     \/ dom' \in {dom} \cup {d \in {done} : legal} /\ Return(FALSE) /\ Fault
  /\ UNCHANGED <<conn, disk, before>>

Begin(op, n, pc) ==
  /\ call.pc = "idle"
  /\ call' = [Idle EXCEPT !.pc = pc, !.op = op, !.name = n]
  /\ before' = dom[n] /\ quiet' = TRUE
  /\ UNCHANGED <<conn, dom, disk, lastId>>

\* find_domain: the handle names the domain by identity from here on.
FindDomain(from, found) ==
  LET exists == conn # "none" /\ Target # NoDomain IN
  /\ call.pc = from
  /\ \/ /\ exists
        /\ call' = [call EXCEPT !.h = Target.id, !.pc = found]
        /\ UNCHANGED quiet
     \/ ~exists /\ Return(FALSE) /\ UNCHANGED quiet
     \/ conn # "none" /\ Return(FALSE) /\ Fault
  /\ UNCHANGED <<conn, dom, disk, lastId, before>>

---------------------------------------------------------------------------
(* vm_backend_connect: the system daemon, else the session daemon.  A second   *)
(* activation of the application connects again, whatever conn is.          *)

VmBackendConnect ==
  /\ call.pc = "idle"
  /\ conn' \in {"none", "open"}
  /\ UNCHANGED <<dom, disk, lastId, call, history>>

VmBackendDisconnect ==
  /\ call.pc = "idle"
  /\ conn' = "none"
  /\ UNCHANGED <<dom, disk, lastId, call, history>>

---------------------------------------------------------------------------
(* vm_start .. vm_resume: look the name up, then one call on the handle. *)

BeginOp(n) ==
  \E op \in LifecycleOps \cup {"delete"} : Begin(op, n, "lookup")

Lookup ==
  FindDomain("lookup", IF call.op = "delete" THEN "getinfo" ELSE "call")

DomainCall(op, from, after) ==
  /\ call.pc = "call" /\ call.op = op
  /\ Attempt(HandleValid /\ Target.st \in from, after)
  /\ UNCHANGED lastId

WithState(st) == [Target EXCEPT !.st = st]

VmStart     == DomainCall("start", {"shutoff"}, WithState("running"))
VmForceStop == DomainCall("force_stop", Active, Stopped(Target))
VmPause     == DomainCall("pause", {"running"}, WithState("paused"))
VmResume    == DomainCall("resume", {"paused"}, WithState("running"))
\* Both only send a signal: the guest decides (see Elsewhere).
VmShutdown  == DomainCall("shutdown", {"running", "paused"}, Target)
VmReboot    == DomainCall("reboot", {"running"}, Target)

---------------------------------------------------------------------------
(* vm_delete: stop it if it runs, look it up again, undefine. *)

\* Mutant: the domain is never stopped first.
GetInfoNoStop ==
  /\ call.pc = "getinfo"
  /\ Goto("undefine") /\ UNCHANGED <<conn, dom, disk, lastId, history>>

\* A failed virDomainGetInfo counts as "not running".
GetInfo ==
  /\ call.pc = "getinfo"
  /\ \/ /\ HandleValid
        /\ Goto(IF Target.st = "running" THEN "destroy" ELSE "undefine")
        /\ UNCHANGED quiet
     \/ Goto("undefine") /\ Fault
  /\ UNCHANGED <<conn, dom, disk, lastId, before>>

\* The result of virDomainDestroy is dropped.
Destroy ==
  /\ call.pc = "destroy"
  /\ \/ /\ HandleValid /\ Target.st \in Active
        /\ dom' = [dom EXCEPT ![call.name] = Stopped(Target)]
        /\ UNCHANGED quiet
     \/ UNCHANGED dom /\ Fault
  /\ Goto("relookup")
  /\ UNCHANGED <<conn, disk, lastId, before>>

\* Mutant: after the destroy the state is queried again.
RelookupThenGetInfo == FindDomain("relookup", "getinfo")

Relookup == FindDomain("relookup", "undefine")

\* Mutant: the domain's snapshots are given up with it.
UndefineWithSnapshots ==
  /\ call.pc = "undefine"
  /\ Attempt(HandleValid /\ Target.persistent, Undefined(Target))
  /\ UNCHANGED lastId

\* virDomainUndefine refuses an inactive domain that has snapshots.
Undefine ==
  /\ call.pc = "undefine"
  /\ Attempt(/\ HandleValid /\ Target.persistent
             /\ Target.st = "shutoff" => ~Target.snaps,
             Undefined(Target))
  /\ UNCHANGED lastId

---------------------------------------------------------------------------
(* vm_create: an image in the system pool or under $HOME, then the domain. *)

BeginCreate(n) ==
  Begin("create", n,
        IF conn # "none" /\ n \in ValidNames THEN "system_disk" ELSE "done")

\* qemu-img create truncates an existing file, unless a running QEMU locks it.
CreateDiskImage(loc) ==
  /\ ~(Target.st \in Active /\ Target.loc = loc)
  /\ disk' = [disk EXCEPT ![call.name][loc] = "blank"]
  /\ call' = [call EXCEPT !.pc = "define", !.loc = loc]

\* Mutant: an image that is already there is taken as it is.
CreateSystemDiskReuses ==
  /\ call.pc = "system_disk"
  /\ \/ CreateDiskImage("system")
     \/ /\ disk[call.name]["system"] # "none" /\ UNCHANGED disk
        /\ call' = [call EXCEPT !.pc = "define", !.loc = "system"]
  /\ UNCHANGED <<conn, dom, lastId, history>>

CreateSystemDisk ==
  /\ call.pc = "system_disk"
  /\ \/ CreateDiskImage("system")
     \/ UNCHANGED disk /\ Goto("home_disk")
  /\ UNCHANGED <<conn, dom, lastId, history>>

\* Mutant: the result of the second qemu-img is not checked.
CreateHomeDiskUnchecked ==
  /\ call.pc = "home_disk"
  /\ \/ CreateDiskImage("home")
     \/ UNCHANGED disk /\ call' = [call EXCEPT !.pc = "define", !.loc = "home"]
  /\ UNCHANGED <<conn, dom, lastId, history>>

CreateHomeDisk ==
  /\ call.pc = "home_disk"
  /\ \/ CreateDiskImage("home") /\ UNCHANGED quiet
     \/ UNCHANGED disk /\ Return(FALSE) /\ Fault
  /\ UNCHANGED <<conn, dom, lastId, before>>

\* The XML names no UUID: libvirtd refuses a name that is already defined.
Define ==
  /\ call.pc = "define"
  /\ lastId < MaxId
  /\ Attempt(Target = NoDomain, NewDomain(call.loc))
  /\ lastId' = lastId + (IF dom' = dom THEN 0 ELSE 1)

\* With no identity left (the bound MaxId) defining can only fail.
DefineFails ==
  /\ call.pc = "define" /\ lastId = MaxId
  /\ Return(FALSE) /\ Fault
  /\ UNCHANGED <<conn, dom, disk, lastId, before>>

---------------------------------------------------------------------------
(* The caller (a button handler) continues; the rest of the world moves. *)

Finish ==
  /\ call.pc = "done"
  /\ call' = Idle
  /\ before' = NoDomain /\ quiet' = TRUE
  /\ UNCHANGED <<conn, dom, disk, lastId>>

\* Another client defines, starts, stops, undefines, makes or deletes snapshots
\* (so does this program's snapshot dialog, between calls); a guest halts or
\* crashes.
Elsewhere(n) ==
  /\ \/ /\ dom[n] = NoDomain /\ lastId < MaxId
        /\ lastId' = lastId + 1
        /\ dom' = [dom EXCEPT ![n] = NewDomain("other")]
     \/ /\ dom[n] # NoDomain
        /\ UNCHANGED lastId
        /\ \E d \in {[dom[n] EXCEPT !.st = st] : st \in Moves[dom[n].st]}
                      \cup {Stopped(dom[n]), Undefined(dom[n])}
                      \cup {[dom[n] EXCEPT !.snaps = s] : s \in BOOLEAN} :
             dom' = [dom EXCEPT ![n] = d]
  /\ quiet' = (quiet /\ n # call.name)
  /\ UNCHANGED <<conn, disk, call, before>>

GuestWrites(n) ==
  /\ dom[n].st = "running" /\ dom[n].loc \in Locations
  /\ disk' = [disk EXCEPT ![n][dom[n].loc] = "data"]
  /\ UNCHANGED <<conn, dom, lastId, call, history>>

---------------------------------------------------------------------------

\* At start nothing is connected; the domains found there are not our doing.
Init ==
  /\ conn = "none"
  /\ dom = [n \in Names |-> NoDomain]
  /\ disk = [n \in Names |-> [l \in Locations |-> "none"]]
  /\ lastId = 0
  /\ call = Idle
  /\ before = NoDomain /\ quiet = TRUE

\* The blocking calls of the function being executed.
CallStep ==
  \/ Lookup
  \/ VmStart \/ VmForceStop \/ VmPause \/ VmResume \/ VmShutdown \/ VmReboot
  \/ GetInfo \/ Destroy \/ Relookup \/ Undefine
  \/ CreateSystemDisk \/ CreateHomeDisk \/ Define \/ DefineFails

World == \E n \in Names : Elsewhere(n) \/ GuestWrites(n)

Next ==
  \/ VmBackendConnect \/ VmBackendDisconnect
  \/ \E n \in Names : BeginOp(n) \/ BeginCreate(n)
  \/ CallStep
  \/ Finish
  \/ World

\* Every blocking call returns (virsh and qemu-img have no unbounded wait here).
Fairness == WF_vmVars(CallStep) /\ WF_vmVars(Finish)

Spec == Init /\ [][Next]_vmVars /\ Fairness

---------------------------------------------------------------------------
(* Properties *)

\* Every variable keeps its type; the history stays a domain and a flag.
TypeOK ==
  /\ conn \in {"none", "open"}
  /\ dom \in [Names -> Domain]
  /\ disk \in [Names -> [Locations -> {"none", "blank", "data"}]]
  /\ lastId \in 0..MaxId
  /\ call \in Call
  /\ before \in Domain /\ quiet \in BOOLEAN

\* A domain that vm_create defined has its image file: the disk is created
\* before the XML that names it is registered, on either path, and neither a
\* delete nor a failed define takes the file away.
DefinedVmHasDisk ==
  \A n \in Names :
    dom[n].loc \in Locations => disk[n][dom[n].loc] # "none"

\* vm_delete, nobody interfering: a defined domain that was running or shut
\* off is gone, and the caller is told so; if it has snapshots, it has been
\* stopped but is still there with them, and the caller is told of a failure.
DeleteContract ==
  call.pc = "done" /\ call.op = "delete" /\ quiet
    /\ conn # "none" /\ before.persistent /\ before.st \in {"running", "shutoff"}
  => IF before.snaps THEN ~call.ok /\ Target = [before EXCEPT !.st = "shutoff"]
     ELSE call.ok /\ Target = NoDomain

\* vm_create, nobody interfering: it reports success only when the name was
\* free, and then the domain is shut off on a blank image of its own; when it
\* reports failure it has defined nothing and touched no existing domain.
CreateContract ==
  call.pc = "done" /\ call.op = "create" /\ quiet =>
    IF call.ok
    THEN /\ before = NoDomain
         /\ Target.st = "shutoff" /\ Target.loc \in Locations
         /\ disk[call.name][Target.loc] = "blank"
    ELSE Target = before

\* The handler that called gets its answer: no vm_* function can spin.
CallsReturn == call.pc # "idle" ~> call.pc = "idle"

---------------------------------------------------------------------------
(* The service it implements (module MachineService). *)

\* An operation that libvirtd accepts on d makes this of it.
Result(op, d) ==
  CASE op \in {"start", "resume"} -> [d EXCEPT !.st = "running"]
    [] op = "pause" -> [d EXCEPT !.st = "paused"]
    [] op = "force_stop" -> Stopped(d)
    [] op = "delete" -> Undefined(IF d.st = "running" THEN Stopped(d) ELSE d)
    [] OTHER -> d

Accepted(op, d) ==
  CASE op = "start" -> d.st = "shutoff"
    [] op \in {"pause", "reboot"} -> d.st = "running"
    [] op = "resume" -> d.st = "paused"
    [] op = "shutdown" -> d.st \in {"running", "paused"}
    [] op = "force_stop" -> d.st \in Active
    [] op = "delete" -> d.persistent /\ (d.st \in {"running", "shutoff"} => ~d.snaps)
    [] op = "create" -> d = NoDomain

Created(d) ==
  d.st = "shutoff" /\ d.persistent /\ ~d.snaps /\ d.loc \in Locations

Succeeds(op, n, d) == Accepted(op, d) /\ (op = "create" => n \in ValidNames)

Outcome(op, d, e) == IF op = "create" THEN Created(e) ELSE e = Result(op, d)

Moved(op, d, e) ==
  \/ Accepted(op, d) /\ Outcome(op, d, e)
  \/ op = "delete" /\ e \in {Stopped(d), Undefined(d)}

Service == INSTANCE MachineService WITH
  States <- Domain,
  Serves <- Succeeds,
  Step <- Moved,
  Divided <- {"delete"},
  Honest <- Ops,
  state <- dom,
  reachable <- conn # "none",
  request <- [op |-> call.op, name |-> call.name,
              answer |-> IF call.pc # "done" THEN "none"
                         ELSE IF call.ok THEN "done" ELSE "failed"],
  tranquil <- quiet

\* Whatever happens between its calls, a vm_* function touches the one domain it
\* was called for, by the steps of its own operation; it answers once; and when
\* nobody disturbs it, it succeeds and says so exactly where libvirtd accepts the
\* operation, and otherwise says so and (vm_delete apart) leaves the domain alone.
ServesMachines == Service!Spec

---------------------------------------------------------------------------
(* Statements the code does not keep (see the README). *)

\* vm_delete logs "VM '%s' deleted" and returns true: then nothing of that
\* name is left.
DeletedMeansGone ==
  call.pc = "done" /\ call.op = "delete" /\ call.ok /\ quiet => Target = NoDomain

\* "Safely create disk image": vm_create does not wipe an image that holds
\* the data of a domain which exists.
CreateKeepsDisks ==
  [][\A n \in Names, l \in Locations :
       dom[n] # NoDomain /\ dom[n].loc = l /\ disk[n][l] = "data"
         => disk'[n][l] = "data"]_vmVars
=============================================================================
