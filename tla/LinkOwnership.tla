--------------------------- MODULE LinkOwnership ---------------------------
(***************************************************************************)
(* Who may drive the drive's serial or TCP link.                           *)
(*                                                                         *)
(* Every Tauri command of src-tauri/src/runtime.rs is a task.  Ordinary    *)
(* device commands go through with_runtime, which looks at two atomic      *)
(* flags, takes the mutex `inner`, looks at the flags again and runs the   *)
(* operation.  Automatic discovery and the register scan each claim their  *)
(* own flag with a compare-and-swap and give it back through a lease that  *)
(* is dropped when the worker ends.  Discovery keeps `inner` for as long   *)
(* as it probes; the register scan takes it once to look at the session,   *)
(* RELEASES it, works on a handle of its own and takes it again to audit.  *)
(*                                                                         *)
(* An atomic is sequentially consistent (Ordering::SeqCst), so each load,  *)
(* store or exchange is one step.  What is done under `inner` is one step  *)
(* unless an atomic is read or the wire is used in the middle of it.       *)
(***************************************************************************)
EXTENDS Naturals

CONSTANTS
  Tasks,     (* command invocations that may be in progress together       *)
  Profiles,  (* the device profiles a user may import                      *)
  Settings,  (* the communication settings a user may choose               *)
  MaxProbes, (* bound: most probes or blocks one discovery or scan plans   *)
  Free       (* the mutex is not held                                      *)

ASSUME LinkAssumption ==
  /\ MaxProbes \in Nat \ {0}
  /\ Free \notin Tasks
  /\ Settings # {}

Kinds == {"discovery", "scan"}
Modes == {"simulator", "device"}
NoProfile == "no profile"
NoClient == "no client"
Disconnected == "disconnected"

\* The stages of a with_runtime command, of a discovery and of a scan.
OperationStages ==
  {"op_scan_flag", "op_lock", "op_check_discovery", "op_check_scan", "op_run", "op_wire"}
DiscoveryStages ==
  {"d_flag", "d_reset", "d_lock", "d_loop", "d_probe", "d_recheck", "d_audit", "d_unlock", "d_lease"}
ScanStages ==
  {"s_flag", "s_reset", "s_lock", "s_open", "s_loop", "s_probe", "s_audit", "s_unlock", "s_close", "s_lease"}
Stages == {"idle"} \cup OperationStages \cup DiscoveryStages \cup ScanStages

VARIABLES
  pc,             (* the stage each task is in                              *)
  running,        (* DiscoveryControl.running and ScanControl.running       *)
  cancel,         (* DiscoveryControl.cancel and ScanControl.cancel         *)
  asked,          (* history: the user cancelled the run that is under way  *)
  inner,          (* the holder of AppState.inner                           *)
  session,        (* Runtime.session: what is open, if anything             *)
  clientSettings, (* of the session's SerialClient or TcpClient             *)
  profile,        (* Runtime.profile                                        *)
  communication,  (* Runtime.communication                                  *)
  context,        (* what the recorder was last told of the two above       *)
  handle,         (* a discovery or scan has a client open on the link      *)
  left            (* candidates or blocks still to try                      *)

vars == <<pc, running, cancel, asked, inner, session, clientSettings, profile,
          communication, context, handle, left>>
link == <<handle, left>>
device == <<session, clientSettings, profile, communication, context>>

Sessions == Modes \cup {Disconnected}

TypeOK ==
  /\ pc \in [Tasks -> Stages]
  /\ running \in [Kinds -> BOOLEAN]
  /\ cancel \in [Kinds -> BOOLEAN]
  /\ asked \in [Kinds -> BOOLEAN]
  /\ inner \in Tasks \cup {Free}
  /\ session \in Sessions
  /\ clientSettings \in Settings \cup {NoClient}
  /\ profile \in Profiles \cup {NoProfile}
  /\ communication \in Settings
  /\ context \in [connection : Sessions, profile : Profiles \cup {NoProfile}]
  /\ handle \in [Kinds -> BOOLEAN]
  /\ left \in [Kinds -> 0 .. MaxProbes]

\* AppState::with_recorder: nothing connected, no profile, default settings.
Init ==
  /\ pc = [t \in Tasks |-> "idle"]
  /\ running = [k \in Kinds |-> FALSE]
  /\ cancel = [k \in Kinds |-> FALSE]
  /\ asked = [k \in Kinds |-> FALSE]
  /\ inner = Free
  /\ session = Disconnected
  /\ profile = NoProfile
  /\ communication \in Settings
  /\ clientSettings = NoClient
  /\ context = [connection |-> Disconnected, profile |-> NoProfile]
  /\ handle = [k \in Kinds |-> FALSE]
  /\ left = [k \in Kinds |-> 0]

Goto(t, stage) == pc' = [pc EXCEPT ![t] = stage]
Lock(t) == inner = Free /\ inner' = t
Unlock == inner' = Free

-----------------------------------------------------------------------------
(* A device command: with_runtime around one operation.                    *)

\* Mutant of OpBegin: the first look at the flag is left to the mutex.
OpBeginUnlooked(t) ==
  /\ pc[t] = "idle"
  /\ Goto(t, "op_scan_flag")
  /\ UNCHANGED <<running, cancel, asked, inner, device, link>>

\* The first look at discovery.running; a command that finds it set returns
\* its error without ever touching the mutex.
OpBegin(t) ==
  /\ pc[t] = "idle"
  /\ ~running["discovery"]
  /\ Goto(t, "op_scan_flag")
  /\ UNCHANGED <<running, cancel, asked, inner, device, link>>

OpScanFlag(t) ==
  /\ pc[t] = "op_scan_flag"
  /\ Goto(t, IF running["scan"] THEN "idle" ELSE "op_lock")
  /\ UNCHANGED <<running, cancel, asked, inner, device, link>>

OpLock(t) ==
  /\ pc[t] = "op_lock"
  /\ Lock(t)
  /\ Goto(t, "op_check_discovery")
  /\ UNCHANGED <<running, cancel, asked, device, link>>

\* The flags are read again under the mutex; a set flag ends the command and
\* the guard goes out of scope.
Recheck(t, k, stage, next) ==
  /\ pc[t] = stage
  /\ IF running[k] THEN Unlock /\ Goto(t, "idle")
                   ELSE Goto(t, next) /\ UNCHANGED inner
  /\ UNCHANGED <<running, cancel, asked, device, link>>

OpCheckDiscovery(t) == Recheck(t, "discovery", "op_check_discovery", "op_check_scan")

\* Mutant of OpCheckScan: only discovery is looked at again under the mutex.
OpCheckScanOnce(t) ==
  /\ pc[t] = "op_check_scan"
  /\ Goto(t, "op_run")
  /\ UNCHANGED <<running, cancel, asked, inner, device, link>>

OpCheckScan(t) == Recheck(t, "scan", "op_check_scan", "op_run")

\* The operation itself, still under the mutex, ends the command.
Operate(t) ==
  /\ pc[t] = "op_run"
  /\ Goto(t, "idle")
  /\ Unlock
  /\ UNCHANGED <<running, cancel, asked, link>>

\* Mutant of DisconnectDevice: the recorder is not told.
DisconnectUntold(t) ==
  /\ Operate(t)
  /\ session' = Disconnected
  /\ clientSettings' = NoClient
  /\ UNCHANGED <<context, profile, communication>>

\* Mutant of ImportProfile: the session is not looked at.
ImportProfileAnytime(t, p) ==
  /\ Operate(t)
  /\ profile' = p
  /\ context' = [context EXCEPT !.profile = p]
  /\ UNCHANGED <<session, clientSettings, communication>>

\* import_profile: refused while a session is open.
ImportProfile(t, p) ==
  /\ Operate(t)
  /\ session = Disconnected
  /\ profile' = p
  /\ context' = [context EXCEPT !.profile = p]
  /\ UNCHANGED <<session, clientSettings, communication>>

\* connect_device: the client gets the settings in force.
ConnectDevice(t, mode) ==
  /\ Operate(t)
  /\ session = Disconnected
  /\ profile # NoProfile
  /\ session' = mode
  /\ clientSettings' = IF mode = "device" THEN communication ELSE clientSettings
  /\ context' = [context EXCEPT !.connection = mode]
  /\ UNCHANGED <<profile, communication>>

\* disconnect_device: also legal with no session; the client is dropped.
DisconnectDevice(t) ==
  /\ Operate(t)
  /\ session' = Disconnected
  /\ clientSettings' = NoClient
  /\ context' = [context EXCEPT !.connection = Disconnected]
  /\ UNCHANGED <<profile, communication>>

\* Mutant of ConfigureCommunication: a client that is open keeps its settings.
ConfigureUntold(t, s) ==
  /\ Operate(t)
  /\ communication' = s
  /\ UNCHANGED <<session, profile, context, clientSettings>>

\* configure_communication: the settings reach the open client too.
ConfigureCommunication(t, s) ==
  /\ Operate(t)
  /\ communication' = s
  /\ clientSettings' = IF session = "device" THEN s ELSE clientSettings
  /\ UNCHANGED <<session, profile, context>>

\* Any operation that is refused, fails to open the port, or only looks.
OperationRefused(t) ==
  /\ Operate(t)
  /\ UNCHANGED device

\* read_parameters, read_statuses, write_parameter...: a request goes out
\* and the answer is awaited with the mutex held.
TransactionSend(t) ==
  /\ pc[t] = "op_run"
  /\ session = "device"
  /\ Goto(t, "op_wire")
  /\ UNCHANGED <<running, cancel, asked, inner, device, link>>

TransactionEnd(t) ==
  /\ pc[t] = "op_wire"
  /\ Goto(t, "idle")
  /\ Unlock
  /\ UNCHANGED <<running, cancel, asked, device, link>>

-----------------------------------------------------------------------------
(* The flags and their leases.                                             *)

\* compare_exchange(false, true); a task that loses it returns its error.
Claim(t, k, stage) ==
  /\ pc[t] = "idle"
  /\ ~running[k]
  /\ running' = [running EXCEPT ![k] = TRUE]
  /\ Goto(t, stage)
  /\ UNCHANGED <<cancel, asked, inner, device, link>>

\* The flag goes down: a store on the way out, or the lease's Drop.
GiveBack(t, k) ==
  /\ running' = [running EXCEPT ![k] = FALSE]
  /\ asked' = [asked EXCEPT ![k] = FALSE]
  /\ Goto(t, "idle")

\* Mutant of LookAtOther: backing off forgets to lower the flag just claimed.
LookAtOtherLeaks(t, k, other, stage, next) ==
  /\ pc[t] = stage
  /\ Goto(t, IF running[other] THEN "idle" ELSE next)
  /\ UNCHANGED <<running, cancel, asked, inner, device, link>>

\* Having claimed its own flag, the task looks at the other one and backs off.
LookAtOther(t, k, other, stage, next) ==
  /\ pc[t] = stage
  /\ IF running[other] THEN GiveBack(t, k)
                       ELSE Goto(t, next) /\ UNCHANGED <<running, asked>>
  /\ UNCHANGED <<cancel, inner, device, link>>

ResetCancel(t, k, stage, next) ==
  /\ pc[t] = stage
  /\ cancel' = [cancel EXCEPT ![k] = FALSE]
  /\ Goto(t, next)
  /\ UNCHANGED <<running, asked, inner, device, link>>

DropLease(t, k, stage) ==
  /\ pc[t] = stage
  /\ GiveBack(t, k)
  /\ UNCHANGED <<cancel, inner, device, link>>

\* cancel_discovery and cancel_register_scan: one store, at any time.
Cancel(k) ==
  /\ cancel' = [cancel EXCEPT ![k] = TRUE]
  /\ asked' = [asked EXCEPT ![k] = running[k]]
  /\ UNCHANGED <<pc, running, inner, device, link>>

-----------------------------------------------------------------------------
(* discover_device and the probe loop discovery::scan.                     *)

DiscoverBegin(t) == Claim(t, "discovery", "d_flag")
DiscoverLook(t) == LookAtOther(t, "discovery", "scan", "d_flag", "d_reset")
DiscoverReset(t) == ResetCancel(t, "discovery", "d_reset", "d_lock")

\* The worker takes the mutex and keeps it.  A session, no profile or a bad
\* request ends it; otherwise it has n candidates.
DiscoverEnter(t) ==
  /\ pc[t] = "d_lock"
  /\ Lock(t)
  /\ \/ Goto(t, "d_unlock") /\ UNCHANGED left
     \/ /\ session = Disconnected
        /\ profile # NoProfile
        /\ \E n \in 1 .. MaxProbes : left' = [left EXCEPT !["discovery"] = n]
        /\ Goto(t, "d_loop")
  /\ UNCHANGED <<running, cancel, asked, device, handle>>

\* Head of the loop: cancelled, exhausted, or the client is (re)opened for the
\* candidate's baud rate and serial mode, which may fail and end the loop.
DiscoverNext(t) ==
  /\ pc[t] = "d_loop"
  /\ \/ /\ cancel["discovery"] \/ left["discovery"] = 0
        /\ Goto(t, "d_audit")
        /\ UNCHANGED handle
     \/ /\ ~cancel["discovery"] /\ left["discovery"] > 0
        /\ \/ handle' = [handle EXCEPT !["discovery"] = TRUE] /\ Goto(t, "d_probe")
           \/ handle' = [handle EXCEPT !["discovery"] = FALSE] /\ Goto(t, "d_audit")
  /\ UNCHANGED <<running, cancel, asked, inner, device, left>>

\* detect_slave comes back: an I/O error ends the loop, an answer or a silence
\* completes the candidate.
DiscoverAnswer(t) ==
  /\ pc[t] = "d_probe"
  /\ \/ Goto(t, "d_audit") /\ UNCHANGED left
     \/ /\ left' = [left EXCEPT !["discovery"] = @ - 1]
        /\ Goto(t, "d_recheck")
  /\ UNCHANGED <<running, cancel, asked, inner, device, handle>>

\* A cancellation is looked at before a device found is reported.
DiscoverRecheck(t) ==
  /\ pc[t] = "d_recheck"
  /\ \/ Goto(t, "d_audit")
     \/ ~cancel["discovery"] /\ Goto(t, "d_loop")
  /\ UNCHANGED <<running, cancel, asked, inner, device, link>>

\* drop(client), then the audit record.
DiscoverAudit(t) ==
  /\ pc[t] = "d_audit"
  /\ handle' = [handle EXCEPT !["discovery"] = FALSE]
  /\ Goto(t, "d_unlock")
  /\ UNCHANGED <<running, cancel, asked, inner, device, left>>

\* Locals are dropped in reverse order: the guard before the lease.
DiscoverUnlock(t) ==
  /\ pc[t] = "d_unlock"
  /\ Unlock
  /\ Goto(t, "d_lease")
  /\ UNCHANGED <<running, cancel, asked, device, link>>

DiscoverEnd(t) == DropLease(t, "discovery", "d_lease")

-----------------------------------------------------------------------------
(* scan_registers and the block loop scan::scan.                           *)

ScanBegin(t) == Claim(t, "scan", "s_flag")
ScanLook(t) == LookAtOther(t, "scan", "discovery", "s_flag", "s_reset")
ScanReset(t) == ResetCancel(t, "scan", "s_reset", "s_lock")

\* A bad request never reaches the mutex.
ScanInvalid(t) ==
  /\ pc[t] = "s_lock"
  /\ Goto(t, "s_lease")
  /\ UNCHANGED <<running, cancel, asked, inner, device, link>>

\* The mutex is taken to look at the session and let go in the same block.
ScanEnter(t) ==
  /\ pc[t] = "s_lock"
  /\ inner = Free
  /\ Goto(t, IF session = Disconnected THEN "s_open" ELSE "s_lease")
  /\ UNCHANGED <<running, cancel, asked, inner, device, link>>

\* open_serial_client or open_tcp_client, without the mutex.
ScanOpen(t) ==
  /\ pc[t] = "s_open"
  /\ \/ Goto(t, "s_lease") /\ UNCHANGED link
     \/ /\ handle' = [handle EXCEPT !["scan"] = TRUE]
        /\ \E n \in 1 .. MaxProbes : left' = [left EXCEPT !["scan"] = n]
        /\ Goto(t, "s_loop")
  /\ UNCHANGED <<running, cancel, asked, inner, device>>

\* Mutant of ScanNext: one block too many.
ScanNextOverrun(t) ==
  /\ pc[t] = "s_loop"
  /\ Goto(t, IF cancel["scan"] THEN "s_audit" ELSE "s_probe")
  /\ UNCHANGED <<running, cancel, asked, inner, device, link>>

ScanNext(t) ==
  /\ pc[t] = "s_loop"
  /\ Goto(t, IF cancel["scan"] \/ left["scan"] = 0 THEN "s_audit" ELSE "s_probe")
  /\ UNCHANGED <<running, cancel, asked, inner, device, link>>

\* A block that failed is counted and passed over like one that was read.
ScanAnswer(t) ==
  /\ pc[t] = "s_probe"
  /\ left' = [left EXCEPT !["scan"] = @ - 1]
  /\ Goto(t, "s_loop")
  /\ UNCHANGED <<running, cancel, asked, inner, device, handle>>

ScanAudit(t) ==
  /\ pc[t] = "s_audit"
  /\ Lock(t)
  /\ Goto(t, "s_unlock")
  /\ UNCHANGED <<running, cancel, asked, device, link>>

\* Locals are dropped in reverse order: the guard, the client, the lease.
ScanUnlock(t) ==
  /\ pc[t] = "s_unlock"
  /\ Unlock
  /\ Goto(t, "s_close")
  /\ UNCHANGED <<running, cancel, asked, device, link>>

ScanClose(t) ==
  /\ pc[t] = "s_close"
  /\ handle' = [handle EXCEPT !["scan"] = FALSE]
  /\ Goto(t, "s_lease")
  /\ UNCHANGED <<running, cancel, asked, inner, device, left>>

ScanEnd(t) == DropLease(t, "scan", "s_lease")

-----------------------------------------------------------------------------

Operation(t) ==
  \/ OpScanFlag(t) \/ OpLock(t) \/ OpCheckDiscovery(t) \/ OpCheckScan(t)
  \/ \E p \in Profiles : ImportProfile(t, p)
  \/ \E mode \in Modes : ConnectDevice(t, mode)
  \/ DisconnectDevice(t)
  \/ \E s \in Settings : ConfigureCommunication(t, s)
  \/ OperationRefused(t)
  \/ TransactionSend(t) \/ TransactionEnd(t)

Discovery(t) ==
  \/ DiscoverLook(t) \/ DiscoverReset(t) \/ DiscoverEnter(t) \/ DiscoverNext(t)
  \/ DiscoverAnswer(t) \/ DiscoverRecheck(t) \/ DiscoverAudit(t)
  \/ DiscoverUnlock(t) \/ DiscoverEnd(t)

Scan(t) ==
  \/ ScanLook(t) \/ ScanReset(t) \/ ScanInvalid(t) \/ ScanEnter(t) \/ ScanOpen(t)
  \/ ScanNext(t) \/ ScanAnswer(t) \/ ScanAudit(t) \/ ScanUnlock(t)
  \/ ScanClose(t) \/ ScanEnd(t)

\* A task that has begun goes on; beginning and cancelling are the user's.
Proceed(t) == Operation(t) \/ Discovery(t) \/ Scan(t)

Next ==
  \/ \E t \in Tasks : OpBegin(t) \/ DiscoverBegin(t) \/ ScanBegin(t) \/ Proceed(t)
  \/ \E k \in Kinds : Cancel(k)

Spec == Init /\ [][Next]_vars

\* Every blocking worker is scheduled (spawn_blocking), and every wait for the
\* device is bounded by a read timeout.  The mutex gives no more than this:
\* a task may lose it to the others for as long as they keep asking for it.
FairSpec == Spec /\ \A t \in Tasks : WF_vars(Proceed(t))

-----------------------------------------------------------------------------
(* What makes it correct.                                                  *)

\* The link has one master: a device session, a discovery client and a scan
\* client never exist together (runtime.rs: "refuses to run while a device
\* session or the auto-discovery scan owns the link").
OneMaster ==
  /\ ~(handle["discovery"] /\ handle["scan"])
  /\ \A k \in Kinds : handle[k] => session # "device"

LeaseStages(k) ==
  IF k = "discovery" THEN DiscoveryStages ELSE ScanStages
Holders(k) == {t \in Tasks : pc[t] \in LeaseStages(k)}

\* A flag is up exactly while one task runs under it: no error path leaves it
\* up (which would lock every command out) and none lowers another's flag.
FlagTracksTask ==
  \A k \in Kinds :
    /\ running[k] <=> Holders(k) # {}
    /\ \A t, u \in Holders(k) : t = u

\* Whoever holds the mutex sees a session that uses the settings in force and
\* a recorder that has been told of the session and the profile in force.
DeviceConsistent ==
  /\ session = "device" => clientSettings = communication
  /\ context.connection = session
  /\ context.profile = profile

\* The profile a session was opened with, or a discovery is working from, is
\* not exchanged under it.
ProfileInUse ==
  \/ session # Disconnected
  \/ \E t \in Tasks : pc[t] \in {"d_loop", "d_probe", "d_recheck", "d_audit"}
ProfileKeptWhileUsed == [][ProfileInUse => profile' = profile]_vars

\* Every claim of the link is given back, although the mutex is unfair: once a
\* flag is up, newcomers are turned away before they reach the mutex.
LinkGivenBack == \A k \in Kinds : running[k] ~> ~running[k]

\* docs/profile-v1.md on the register scan: a cancellation takes effect when
\* the transaction under way ends, so no block is read after it.
CancelStopsScan ==
  [][\A t \in Tasks : asked["scan"] /\ pc[t] = "s_loop" => pc'[t] # "s_probe"]_vars

=============================================================================
