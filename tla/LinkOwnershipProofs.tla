------------------------ MODULE LinkOwnershipProofs ------------------------
(***************************************************************************)
(* The link has one master, for any number of concurrent commands.         *)
(*                                                                         *)
(* The two flags alone do not give it: an operation that looked at both    *)
(* flags before a scan claimed its own may still be about to connect.      *)
(* What does is the mutex, which the scan holds only for a moment: an      *)
(* operation past its second look holds the mutex, so no scan can have     *)
(* looked at the session since, and a scan that has looked had its flag up *)
(* before, so the operation's second look would have seen it.              *)
(***************************************************************************)
EXTENDS LinkOwnership, TLAPS

Locked ==
  {"op_check_discovery", "op_check_scan", "op_run", "op_wire",
   "d_loop", "d_probe", "d_recheck", "d_audit", "d_unlock", "s_unlock"}
Probing == {"d_loop", "d_probe", "d_recheck", "d_audit"}
Scanning == {"s_loop", "s_probe", "s_audit", "s_unlock", "s_close"}
Cleared == {"s_open"} \cup Scanning

\* The holder of the mutex is the task whose stage says so.
MutexInv == \A t \in Tasks : inner = t <=> pc[t] \in Locked

\* Whoever looked at the other flag after claiming its own is alone.
BackOffInv ==
  \A t, u \in Tasks :
    ~(/\ pc[t] \in DiscoveryStages \ {"d_flag"}
      /\ pc[u] \in ScanStages \ {"s_flag"})

\* An operation past its second look excludes a scan that saw no session.
SecondLookInv ==
  \A t, u \in Tasks : pc[t] \in {"op_run", "op_wire"} => pc[u] \notin Cleared

\* A discovery or scan that saw no session finds none later.
NoSessionInv ==
  \A t \in Tasks : pc[t] \in Probing \cup Cleared => session = Disconnected

\* A client is open only in the stages between its opening and its dropping.
HandleInv ==
  /\ handle["discovery"] => \E t \in Tasks : pc[t] \in Probing
  /\ handle["scan"] => \E t \in Tasks : pc[t] \in Scanning

\* A probe under way is one of those left.
LeftInv ==
  \A t \in Tasks :
    /\ pc[t] = "d_probe" => left["discovery"] > 0
    /\ pc[t] = "s_probe" => left["scan"] > 0

LinkInv ==
  /\ TypeOK
  /\ MutexInv
  /\ FlagTracksTask
  /\ BackOffInv
  /\ SecondLookInv
  /\ NoSessionInv
  /\ HandleInv
  /\ LeftInv
  /\ DeviceConsistent

-----------------------------------------------------------------------------

\* A step of a device command keeps every part of the invariant.
LEMMA OperationStep ==
  ASSUME LinkInv, NEW t \in Tasks, Operation(t)
  PROVE  LinkInv'
<1> USE LinkAssumption DEF LinkInv
<1>1. TypeOK'
  <2> USE DEF TypeOK, Goto, Stages, OperationStages, device, link
  <2>1. CASE OpScanFlag(t) \/ OpCheckDiscovery(t) \/ OpCheckScan(t)
    BY <2>1 DEF OpScanFlag, OpCheckDiscovery, OpCheckScan, Recheck, Unlock
  <2>2. CASE OpLock(t) \/ TransactionSend(t) \/ TransactionEnd(t)
    BY <2>2 DEF OpLock, Lock, TransactionSend, TransactionEnd, Unlock, Operate
  <2>3. ASSUME NEW p \in Profiles, ImportProfile(t, p) PROVE TypeOK'
    BY <2>3 DEF ImportProfile, Operate, Unlock
  <2>4. ASSUME NEW mode \in Modes, ConnectDevice(t, mode) PROVE TypeOK'
    BY <2>4 DEF ConnectDevice, Operate, Unlock, Sessions, Modes
  <2>5. CASE DisconnectDevice(t)
    BY <2>5 DEF DisconnectDevice, Operate, Unlock, Sessions, Disconnected
  <2>6. ASSUME NEW s \in Settings, ConfigureCommunication(t, s) PROVE TypeOK'
    BY <2>6 DEF ConfigureCommunication, Operate, Unlock
  <2>7. CASE OperationRefused(t)
    BY <2>7 DEF OperationRefused, Operate, Unlock
  <2>8. QED
    BY <2>1, <2>2, <2>3, <2>4, <2>5, <2>6, <2>7 DEF Operation
<1>2. MutexInv'
  BY DEF Operation, OpScanFlag, OpLock, OpCheckDiscovery, OpCheckScan, Recheck, Operate,
        ImportProfile, ConnectDevice, DisconnectDevice, ConfigureCommunication,
        OperationRefused, TransactionSend, TransactionEnd, Lock, Unlock, Goto, TypeOK,
         MutexInv, Locked
<1>3. FlagTracksTask'
  BY DEF Operation, OpScanFlag, OpLock, OpCheckDiscovery, OpCheckScan, Recheck, Operate,
        ImportProfile, ConnectDevice, DisconnectDevice, ConfigureCommunication,
        OperationRefused, TransactionSend, TransactionEnd, Lock, Unlock, Goto, TypeOK,
         FlagTracksTask, Holders, LeaseStages, DiscoveryStages, ScanStages, Kinds
<1>4. BackOffInv'
  BY DEF Operation, OpScanFlag, OpLock, OpCheckDiscovery, OpCheckScan, Recheck, Operate,
        ImportProfile, ConnectDevice, DisconnectDevice, ConfigureCommunication,
        OperationRefused, TransactionSend, TransactionEnd, Lock, Unlock, Goto, TypeOK,
         BackOffInv, FlagTracksTask, Holders, LeaseStages, DiscoveryStages, ScanStages, Kinds
<1>5. SecondLookInv'
  BY DEF Operation, OpScanFlag, OpLock, OpCheckDiscovery, OpCheckScan, Recheck, Operate,
        ImportProfile, ConnectDevice, DisconnectDevice, ConfigureCommunication,
        OperationRefused, TransactionSend, TransactionEnd, Lock, Unlock, Goto, TypeOK,
         SecondLookInv, MutexInv, FlagTracksTask, BackOffInv, Holders, LeaseStages,
         ScanStages, Kinds, Locked, Cleared, Scanning
<1>6. NoSessionInv'
  BY DEF Operation, OpScanFlag, OpLock, OpCheckDiscovery, OpCheckScan, Recheck, Operate,
        ImportProfile, ConnectDevice, DisconnectDevice, ConfigureCommunication,
        OperationRefused, TransactionSend, TransactionEnd, Lock, Unlock, Goto, TypeOK,
         NoSessionInv, MutexInv, SecondLookInv, Locked, Probing, Cleared, Scanning, device
<1>7. HandleInv'
  BY DEF Operation, OpScanFlag, OpLock, OpCheckDiscovery, OpCheckScan, Recheck, Operate,
        ImportProfile, ConnectDevice, DisconnectDevice, ConfigureCommunication,
        OperationRefused, TransactionSend, TransactionEnd, Lock, Unlock, Goto, TypeOK,
         HandleInv, Probing, Scanning, link, Kinds
<1>8. LeftInv'
  BY DEF Operation, OpScanFlag, OpLock, OpCheckDiscovery, OpCheckScan, Recheck, Operate,
        ImportProfile, ConnectDevice, DisconnectDevice, ConfigureCommunication,
        OperationRefused, TransactionSend, TransactionEnd, Lock, Unlock, Goto, TypeOK,
         LeftInv, FlagTracksTask, Holders, LeaseStages, DiscoveryStages, ScanStages, link, Kinds
<1>9. DeviceConsistent'
  <2> USE DEF DeviceConsistent, Operate
  <2>1. ASSUME NEW p \in Profiles, ImportProfile(t, p) PROVE DeviceConsistent'
    BY <2>1 DEF ImportProfile, TypeOK
  <2>2. ASSUME NEW mode \in Modes, ConnectDevice(t, mode) PROVE DeviceConsistent'
    BY <2>2 DEF ConnectDevice, TypeOK
  <2>3. CASE DisconnectDevice(t)
    BY <2>3 DEF DisconnectDevice, TypeOK, Disconnected
  <2>4. ASSUME NEW s \in Settings, ConfigureCommunication(t, s) PROVE DeviceConsistent'
    BY <2>4 DEF ConfigureCommunication
  <2>5. CASE UNCHANGED device
    BY <2>5 DEF device
  <2>6. QED
    BY <2>1, <2>2, <2>3, <2>4, <2>5 DEF Operation, OpScanFlag, OpLock, OpCheckDiscovery,
       OpCheckScan, Recheck, OperationRefused, TransactionSend, TransactionEnd
<1>10. QED
  BY <1>1, <1>2, <1>3, <1>4, <1>5, <1>6, <1>7, <1>8, <1>9

\* A step of a discovery keeps every part of the invariant.
LEMMA DiscoveryStep ==
  ASSUME LinkInv, NEW t \in Tasks, Discovery(t)
  PROVE  LinkInv'
<1> USE LinkAssumption DEF LinkInv
<1>1. TypeOK'
  <2>1. CASE DiscoverLook(t)
    <3>1. pc' \in [Tasks -> Stages]
      BY <2>1 DEF DiscoverLook, LookAtOther, GiveBack, Goto, TypeOK, Stages, DiscoveryStages, ScanStages
    <3>2. running' \in [Kinds -> BOOLEAN]
      BY <2>1 DEF DiscoverLook, LookAtOther, GiveBack, TypeOK
    <3>3. asked' \in [Kinds -> BOOLEAN]
      BY <2>1 DEF DiscoverLook, LookAtOther, GiveBack, TypeOK
    <3>4. QED
      BY <2>1, <3>1, <3>2, <3>3 DEF DiscoverLook, LookAtOther, TypeOK, device, link
  <2>2. CASE DiscoverReset(t)
    BY <2>2 DEF DiscoverReset, ResetCancel, Goto, TypeOK,
           Kinds, Modes, Sessions, Stages, OperationStages, DiscoveryStages, ScanStages, device, link
  <2>3. CASE DiscoverEnter(t)
    BY <2>3 DEF DiscoverEnter, Lock, Goto, TypeOK,
           Kinds, Modes, Sessions, Stages, OperationStages, DiscoveryStages, ScanStages, device, link
  <2>4. CASE DiscoverNext(t)
    <3>1. pc' \in [Tasks -> Stages]
      BY <2>4 DEF DiscoverNext, Goto, TypeOK, Stages, DiscoveryStages
    <3>2. handle' \in [Kinds -> BOOLEAN]
      BY <2>4 DEF DiscoverNext, TypeOK
    <3>3. QED
      BY <2>4, <3>1, <3>2 DEF DiscoverNext, TypeOK, device
  <2>5. CASE DiscoverAnswer(t)
    BY <2>5 DEF DiscoverAnswer, LeftInv, Goto, TypeOK,
           Kinds, Modes, Sessions, Stages, OperationStages, DiscoveryStages, ScanStages, device, link
  <2>6. CASE DiscoverRecheck(t)
    BY <2>6 DEF DiscoverRecheck, Goto, TypeOK,
           Kinds, Modes, Sessions, Stages, OperationStages, DiscoveryStages, ScanStages, device, link
  <2>7. CASE DiscoverAudit(t)
    BY <2>7 DEF DiscoverAudit, Goto, TypeOK,
           Kinds, Modes, Sessions, Stages, OperationStages, DiscoveryStages, ScanStages, device, link
  <2>8. CASE DiscoverUnlock(t)
    BY <2>8 DEF DiscoverUnlock, Unlock, Goto, TypeOK,
           Kinds, Modes, Sessions, Stages, OperationStages, DiscoveryStages, ScanStages, device, link
  <2>9. CASE DiscoverEnd(t)
    BY <2>9 DEF DiscoverEnd, DropLease, GiveBack, Goto, TypeOK,
           Kinds, Modes, Sessions, Stages, OperationStages, DiscoveryStages, ScanStages, device, link
  <2>10. QED
    BY <2>1, <2>2, <2>3, <2>4, <2>5, <2>6, <2>7, <2>8, <2>9 DEF Discovery
<1>2. MutexInv'
  BY DEF Discovery, DiscoverLook, DiscoverReset, DiscoverEnter, DiscoverNext, DiscoverAnswer,
        DiscoverRecheck, DiscoverAudit, DiscoverUnlock, DiscoverEnd,
        LookAtOther, ResetCancel, DropLease, GiveBack, Lock, Unlock, Goto, TypeOK,
         MutexInv, Locked
<1>3. FlagTracksTask'
  BY DEF Discovery, DiscoverLook, DiscoverReset, DiscoverEnter, DiscoverNext, DiscoverAnswer,
        DiscoverRecheck, DiscoverAudit, DiscoverUnlock, DiscoverEnd,
        LookAtOther, ResetCancel, DropLease, GiveBack, Lock, Unlock, Goto, TypeOK,
         FlagTracksTask, Holders, LeaseStages, DiscoveryStages, ScanStages, Kinds
<1>4. BackOffInv'
  BY DEF Discovery, DiscoverLook, DiscoverReset, DiscoverEnter, DiscoverNext, DiscoverAnswer,
        DiscoverRecheck, DiscoverAudit, DiscoverUnlock, DiscoverEnd,
        LookAtOther, ResetCancel, DropLease, GiveBack, Lock, Unlock, Goto, TypeOK,
         BackOffInv, FlagTracksTask, Holders, LeaseStages, DiscoveryStages, ScanStages, Kinds
<1>5. SecondLookInv'
  BY DEF Discovery, DiscoverLook, DiscoverReset, DiscoverEnter, DiscoverNext, DiscoverAnswer,
        DiscoverRecheck, DiscoverAudit, DiscoverUnlock, DiscoverEnd,
        LookAtOther, ResetCancel, DropLease, GiveBack, Lock, Unlock, Goto, TypeOK,
         SecondLookInv, MutexInv, FlagTracksTask, BackOffInv, Holders, LeaseStages,
         ScanStages, Kinds, Locked, Cleared, Scanning
<1>6. NoSessionInv'
  BY DEF Discovery, DiscoverLook, DiscoverReset, DiscoverEnter, DiscoverNext, DiscoverAnswer,
        DiscoverRecheck, DiscoverAudit, DiscoverUnlock, DiscoverEnd,
        LookAtOther, ResetCancel, DropLease, GiveBack, Lock, Unlock, Goto, TypeOK,
         NoSessionInv, MutexInv, SecondLookInv, Locked, Probing, Cleared, Scanning, device
<1>7. HandleInv'
  BY DEF Discovery, DiscoverLook, DiscoverReset, DiscoverEnter, DiscoverNext, DiscoverAnswer,
        DiscoverRecheck, DiscoverAudit, DiscoverUnlock, DiscoverEnd,
        LookAtOther, ResetCancel, DropLease, GiveBack, Lock, Unlock, Goto, TypeOK,
         HandleInv, Probing, Scanning, link, Kinds
<1>8. LeftInv'
  BY DEF Discovery, DiscoverLook, DiscoverReset, DiscoverEnter, DiscoverNext, DiscoverAnswer,
        DiscoverRecheck, DiscoverAudit, DiscoverUnlock, DiscoverEnd,
        LookAtOther, ResetCancel, DropLease, GiveBack, Lock, Unlock, Goto, TypeOK,
         LeftInv, FlagTracksTask, Holders, LeaseStages, DiscoveryStages, ScanStages, link, Kinds
<1>9. DeviceConsistent'
  BY DEF Discovery, DiscoverLook, DiscoverReset, DiscoverEnter, DiscoverNext, DiscoverAnswer,
        DiscoverRecheck, DiscoverAudit, DiscoverUnlock, DiscoverEnd,
        LookAtOther, ResetCancel, DropLease, GiveBack, Lock, Unlock, Goto, TypeOK,
         DeviceConsistent, device
<1>10. QED
  BY <1>1, <1>2, <1>3, <1>4, <1>5, <1>6, <1>7, <1>8, <1>9

\* A step of a register scan keeps every part of the invariant.
LEMMA ScanStep ==
  ASSUME LinkInv, NEW t \in Tasks, Scan(t)
  PROVE  LinkInv'
<1> USE LinkAssumption DEF LinkInv
<1>1. TypeOK'
  <2>1. CASE ScanLook(t)
    <3>1. pc' \in [Tasks -> Stages]
      BY <2>1 DEF ScanLook, LookAtOther, GiveBack, Goto, TypeOK, Stages, DiscoveryStages, ScanStages
    <3>2. running' \in [Kinds -> BOOLEAN]
      BY <2>1 DEF ScanLook, LookAtOther, GiveBack, TypeOK
    <3>3. asked' \in [Kinds -> BOOLEAN]
      BY <2>1 DEF ScanLook, LookAtOther, GiveBack, TypeOK
    <3>4. QED
      BY <2>1, <3>1, <3>2, <3>3 DEF ScanLook, LookAtOther, TypeOK, device, link
  <2>2. CASE ScanReset(t)
    BY <2>2 DEF ScanReset, ResetCancel, Goto, TypeOK,
           Kinds, Modes, Sessions, Stages, OperationStages, DiscoveryStages, ScanStages, device, link
  <2>3. CASE ScanInvalid(t)
    BY <2>3 DEF ScanInvalid, Goto, TypeOK,
           Kinds, Modes, Sessions, Stages, OperationStages, DiscoveryStages, ScanStages, device, link
  <2>4. CASE ScanEnter(t)
    BY <2>4 DEF ScanEnter, Goto, TypeOK,
           Kinds, Modes, Sessions, Stages, OperationStages, DiscoveryStages, ScanStages, device, link
  <2>5. CASE ScanOpen(t)
    <3>1. pc' \in [Tasks -> Stages]
      BY <2>5 DEF ScanOpen, Goto, TypeOK, Stages, ScanStages
    <3>2. handle' \in [Kinds -> BOOLEAN]
      BY <2>5 DEF ScanOpen, TypeOK, link
    <3>3. left' \in [Kinds -> 0 .. MaxProbes]
      BY <2>5 DEF ScanOpen, TypeOK, link
    <3>4. QED
      BY <2>5, <3>1, <3>2, <3>3 DEF ScanOpen, TypeOK, device
  <2>6. CASE ScanNext(t)
    BY <2>6 DEF ScanNext, Goto, TypeOK,
           Kinds, Modes, Sessions, Stages, OperationStages, DiscoveryStages, ScanStages, device, link
  <2>7. CASE ScanAnswer(t)
    BY <2>7 DEF ScanAnswer, LeftInv, Goto, TypeOK,
           Kinds, Modes, Sessions, Stages, OperationStages, DiscoveryStages, ScanStages, device, link
  <2>8. CASE ScanAudit(t)
    BY <2>8 DEF ScanAudit, Lock, Goto, TypeOK,
           Kinds, Modes, Sessions, Stages, OperationStages, DiscoveryStages, ScanStages, device, link
  <2>9. CASE ScanUnlock(t)
    BY <2>9 DEF ScanUnlock, Unlock, Goto, TypeOK,
           Kinds, Modes, Sessions, Stages, OperationStages, DiscoveryStages, ScanStages, device, link
  <2>10. CASE ScanClose(t)
    BY <2>10 DEF ScanClose, Goto, TypeOK,
           Kinds, Modes, Sessions, Stages, OperationStages, DiscoveryStages, ScanStages, device, link
  <2>11. CASE ScanEnd(t)
    BY <2>11 DEF ScanEnd, DropLease, GiveBack, Goto, TypeOK,
           Kinds, Modes, Sessions, Stages, OperationStages, DiscoveryStages, ScanStages, device, link
  <2>12. QED
    BY <2>1, <2>2, <2>3, <2>4, <2>5, <2>6, <2>7, <2>8, <2>9, <2>10, <2>11 DEF Scan
<1>2. MutexInv'
  BY DEF Scan, ScanLook, ScanReset, ScanInvalid, ScanEnter, ScanOpen, ScanNext, ScanAnswer,
        ScanAudit, ScanUnlock, ScanClose, ScanEnd,
        LookAtOther, ResetCancel, DropLease, GiveBack, Lock, Unlock, Goto, TypeOK,
         MutexInv, Locked
<1>3. FlagTracksTask'
  BY DEF Scan, ScanLook, ScanReset, ScanInvalid, ScanEnter, ScanOpen, ScanNext, ScanAnswer,
        ScanAudit, ScanUnlock, ScanClose, ScanEnd,
        LookAtOther, ResetCancel, DropLease, GiveBack, Lock, Unlock, Goto, TypeOK,
         FlagTracksTask, Holders, LeaseStages, DiscoveryStages, ScanStages, Kinds
<1>4. BackOffInv'
  BY DEF Scan, ScanLook, ScanReset, ScanInvalid, ScanEnter, ScanOpen, ScanNext, ScanAnswer,
        ScanAudit, ScanUnlock, ScanClose, ScanEnd,
        LookAtOther, ResetCancel, DropLease, GiveBack, Lock, Unlock, Goto, TypeOK,
         BackOffInv, FlagTracksTask, Holders, LeaseStages, DiscoveryStages, ScanStages, Kinds
<1>5. SecondLookInv'
  BY DEF Scan, ScanLook, ScanReset, ScanInvalid, ScanEnter, ScanOpen, ScanNext, ScanAnswer,
        ScanAudit, ScanUnlock, ScanClose, ScanEnd,
        LookAtOther, ResetCancel, DropLease, GiveBack, Lock, Unlock, Goto, TypeOK,
         SecondLookInv, MutexInv, FlagTracksTask, BackOffInv, Holders, LeaseStages,
         ScanStages, Kinds, Locked, Cleared, Scanning
<1>6. NoSessionInv'
  BY DEF Scan, ScanLook, ScanReset, ScanInvalid, ScanEnter, ScanOpen, ScanNext, ScanAnswer,
        ScanAudit, ScanUnlock, ScanClose, ScanEnd,
        LookAtOther, ResetCancel, DropLease, GiveBack, Lock, Unlock, Goto, TypeOK,
         NoSessionInv, MutexInv, SecondLookInv, Locked, Probing, Cleared, Scanning, device
<1>7. HandleInv'
  BY DEF Scan, ScanLook, ScanReset, ScanInvalid, ScanEnter, ScanOpen, ScanNext, ScanAnswer,
        ScanAudit, ScanUnlock, ScanClose, ScanEnd,
        LookAtOther, ResetCancel, DropLease, GiveBack, Lock, Unlock, Goto, TypeOK,
         HandleInv, Probing, Scanning, link, Kinds
<1>8. LeftInv'
  BY DEF Scan, ScanLook, ScanReset, ScanInvalid, ScanEnter, ScanOpen, ScanNext, ScanAnswer,
        ScanAudit, ScanUnlock, ScanClose, ScanEnd,
        LookAtOther, ResetCancel, DropLease, GiveBack, Lock, Unlock, Goto, TypeOK,
         LeftInv, FlagTracksTask, Holders, LeaseStages, DiscoveryStages, ScanStages, link, Kinds
<1>9. DeviceConsistent'
  BY DEF Scan, ScanLook, ScanReset, ScanInvalid, ScanEnter, ScanOpen, ScanNext, ScanAnswer,
        ScanAudit, ScanUnlock, ScanClose, ScanEnd,
        LookAtOther, ResetCancel, DropLease, GiveBack, Lock, Unlock, Goto, TypeOK,
         DeviceConsistent, device
<1>10. QED
  BY <1>1, <1>2, <1>3, <1>4, <1>5, <1>6, <1>7, <1>8, <1>9

\* A step of beginning a command keeps every part of the invariant.
LEMMA BeginStep ==
  ASSUME LinkInv, NEW t \in Tasks, OpBegin(t) \/ DiscoverBegin(t) \/ ScanBegin(t)
  PROVE  LinkInv'
<1> USE LinkAssumption DEF LinkInv
<1>1. TypeOK'
  <2> USE DEF TypeOK, Goto, Stages, OperationStages, DiscoveryStages, ScanStages, device, link
  <2>1. CASE OpBegin(t)
    BY <2>1 DEF OpBegin
  <2>2. CASE DiscoverBegin(t)
    BY <2>2 DEF DiscoverBegin, Claim
  <2>3. CASE ScanBegin(t)
    BY <2>3 DEF ScanBegin, Claim
  <2>4. QED
    BY <2>1, <2>2, <2>3
<1>2. MutexInv'
  BY DEF OpBegin, DiscoverBegin, ScanBegin, Claim, Goto, TypeOK,
         MutexInv, Locked
<1>3. FlagTracksTask'
  BY DEF OpBegin, DiscoverBegin, ScanBegin, Claim, Goto, TypeOK,
         FlagTracksTask, Holders, LeaseStages, DiscoveryStages, ScanStages, Kinds
<1>4. BackOffInv'
  BY DEF OpBegin, DiscoverBegin, ScanBegin, Claim, Goto, TypeOK,
         BackOffInv, FlagTracksTask, Holders, LeaseStages, DiscoveryStages, ScanStages, Kinds
<1>5. SecondLookInv'
  BY DEF OpBegin, DiscoverBegin, ScanBegin, Claim, Goto, TypeOK,
         SecondLookInv, MutexInv, FlagTracksTask, BackOffInv, Holders, LeaseStages,
         ScanStages, Kinds, Locked, Cleared, Scanning
<1>6. NoSessionInv'
  BY DEF OpBegin, DiscoverBegin, ScanBegin, Claim, Goto, TypeOK,
         NoSessionInv, MutexInv, SecondLookInv, Locked, Probing, Cleared, Scanning, device
<1>7. HandleInv'
  BY DEF OpBegin, DiscoverBegin, ScanBegin, Claim, Goto, TypeOK,
         HandleInv, Probing, Scanning, link, Kinds
<1>8. LeftInv'
  BY DEF OpBegin, DiscoverBegin, ScanBegin, Claim, Goto, TypeOK,
         LeftInv, FlagTracksTask, Holders, LeaseStages, DiscoveryStages, ScanStages, link, Kinds
<1>9. DeviceConsistent'
  BY DEF OpBegin, DiscoverBegin, ScanBegin, Claim, Goto, TypeOK,
         DeviceConsistent, device
<1>10. QED
  BY <1>1, <1>2, <1>3, <1>4, <1>5, <1>6, <1>7, <1>8, <1>9

\* A cancellation touches none of the stages the invariant speaks of.
LEMMA CancelStep ==
  ASSUME LinkInv, NEW k \in Kinds, Cancel(k)
  PROVE  LinkInv'
<1> USE DEF LinkInv, Cancel, device, link
<1>1. TypeOK'
  BY DEF TypeOK, Kinds
<1>2. MutexInv' /\ FlagTracksTask' /\ BackOffInv' /\ SecondLookInv'
  BY DEF MutexInv, FlagTracksTask, Holders, BackOffInv, SecondLookInv
<1>3. NoSessionInv' /\ HandleInv' /\ LeftInv' /\ DeviceConsistent'
  BY DEF NoSessionInv, HandleInv, LeftInv, DeviceConsistent
<1>4. QED
  BY <1>1, <1>2, <1>3

LEMMA StutterStep == LinkInv /\ UNCHANGED vars => LinkInv'
  BY DEF LinkInv, TypeOK, MutexInv, FlagTracksTask, Holders, BackOffInv, SecondLookInv,
         NoSessionInv, HandleInv, LeftInv, DeviceConsistent, vars

LEMMA LinkInvInit == Init => LinkInv
<1> SUFFICES ASSUME Init PROVE LinkInv
  OBVIOUS
<1> USE LinkAssumption DEF Init
<1>1. TypeOK
  BY DEF TypeOK, Kinds, Stages, Sessions, Modes
<1>2. MutexInv
  BY DEF MutexInv, Locked
<1>3. FlagTracksTask
  BY DEF FlagTracksTask, Holders, LeaseStages, DiscoveryStages, ScanStages, Kinds
<1>4. BackOffInv /\ SecondLookInv /\ NoSessionInv /\ HandleInv /\ LeftInv /\ DeviceConsistent
  BY DEF BackOffInv, SecondLookInv, NoSessionInv, HandleInv, LeftInv, DeviceConsistent,
         DiscoveryStages, ScanStages, Probing, Cleared, Scanning, Kinds, Disconnected
<1>5. QED
  BY <1>1, <1>2, <1>3, <1>4 DEF LinkInv

LEMMA LinkInvNext == LinkInv /\ [Next]_vars => LinkInv'
<1> SUFFICES ASSUME LinkInv, [Next]_vars PROVE LinkInv'
  OBVIOUS
<1>1. CASE UNCHANGED vars
  BY <1>1, StutterStep
<1>2. ASSUME NEW t \in Tasks, Proceed(t) PROVE LinkInv'
  BY <1>2, OperationStep, DiscoveryStep, ScanStep DEF Proceed
<1>3. ASSUME NEW t \in Tasks, OpBegin(t) \/ DiscoverBegin(t) \/ ScanBegin(t) PROVE LinkInv'
  BY <1>3, BeginStep
<1>4. ASSUME NEW k \in Kinds, Cancel(k) PROVE LinkInv'
  BY <1>4, CancelStep
<1>5. QED
  BY <1>1, <1>2, <1>3, <1>4 DEF Next

LEMMA LinkInvAlways == Spec => []LinkInv
  BY LinkInvInit, LinkInvNext, PTL DEF Spec

\* An open discovery or scan client is that of a task past its look at the
\* session and at the other's flag.
LEMMA OneMasterFromInv == LinkInv => OneMaster
<1> SUFFICES ASSUME LinkInv PROVE OneMaster
  OBVIOUS
<1>1. ~(handle["discovery"] /\ handle["scan"])
  BY DEF LinkInv, HandleInv, BackOffInv, Probing, Scanning, DiscoveryStages, ScanStages
<1>2. \A k \in Kinds : handle[k] => session # "device"
  BY DEF LinkInv, HandleInv, NoSessionInv, Probing, Scanning, Cleared, Kinds, Disconnected
<1>3. QED
  BY <1>1, <1>2 DEF OneMaster

-----------------------------------------------------------------------------

\* Every variable keeps its type; a scan never counts below zero blocks.
THEOREM LinkTypeOK == Spec => []TypeOK
<1>1. LinkInv => TypeOK
  BY DEF LinkInv
<1>2. QED
  BY <1>1, LinkInvAlways, PTL

\* runtime.rs: a session, a discovery and a scan never drive the link together,
\* however many commands are issued at once.
THEOREM LinkHasOneMaster == Spec => []OneMaster
  BY LinkInvAlways, OneMasterFromInv, PTL

\* DiscoveryLease and ScanLease: a flag is up exactly while one task runs under
\* it, on every path out of the command.
THEOREM FlagIsTheTasks == Spec => []FlagTracksTask
<1>1. LinkInv => FlagTracksTask
  BY DEF LinkInv
<1>2. QED
  BY <1>1, LinkInvAlways, PTL

\* The open client's settings, the runtime's settings and what the recorder was
\* told stay together.
THEOREM DeviceStaysConsistent == Spec => []DeviceConsistent
<1>1. LinkInv => DeviceConsistent
  BY DEF LinkInv
<1>2. QED
  BY <1>1, LinkInvAlways, PTL

\* import_profile: the profile under a session or a running discovery is never
\* exchanged.  A discovery is protected by the mutex, not by a flag.
THEOREM ProfileIsKept == Spec => ProfileKeptWhileUsed
<1>1. LinkInv /\ [Next]_vars => [ProfileInUse => profile' = profile]_vars
  <2> SUFFICES ASSUME LinkInv, Next, ProfileInUse PROVE profile' = profile
    OBVIOUS
  <2>1. ASSUME NEW t \in Tasks, NEW p \in Profiles, ImportProfile(t, p) PROVE FALSE
    <3>1. inner = t /\ pc[t] = "op_run" /\ session = Disconnected
      BY <2>1 DEF ImportProfile, Operate, LinkInv, MutexInv, Locked
    <3>2. \A u \in Tasks : pc[u] \notin Probing
      BY <3>1, <2>1 DEF LinkInv, MutexInv, Locked, Probing
    <3>3. QED
      BY <3>1, <3>2 DEF ProfileInUse, Probing
  <2>2. ASSUME NEW t \in Tasks, Operation(t) PROVE profile' = profile
    BY <2>1, <2>2 DEF Operation, OpScanFlag, OpLock, OpCheckDiscovery, OpCheckScan, Recheck,
           ConnectDevice, DisconnectDevice, ConfigureCommunication, OperationRefused,
           TransactionSend, TransactionEnd, device
  <2>3. ASSUME NEW t \in Tasks, Discovery(t) PROVE profile' = profile
    BY <2>3 DEF Discovery, DiscoverLook, DiscoverReset, DiscoverEnter, DiscoverNext,
           DiscoverAnswer, DiscoverRecheck, DiscoverAudit, DiscoverUnlock, DiscoverEnd,
           LookAtOther, ResetCancel, DropLease, device
  <2>4. ASSUME NEW t \in Tasks, Scan(t) PROVE profile' = profile
    BY <2>4 DEF Scan, ScanLook, ScanReset, ScanInvalid, ScanEnter, ScanOpen, ScanNext,
           ScanAnswer, ScanAudit, ScanUnlock, ScanClose, ScanEnd,
           LookAtOther, ResetCancel, DropLease, device
  <2>5. ASSUME NEW t \in Tasks, OpBegin(t) \/ DiscoverBegin(t) \/ ScanBegin(t)
        PROVE profile' = profile
    BY <2>5 DEF OpBegin, DiscoverBegin, ScanBegin, Claim, device
  <2>6. ASSUME NEW k \in Kinds, Cancel(k) PROVE profile' = profile
    BY <2>6 DEF Cancel, device
  <2>7. QED
    BY <2>2, <2>3, <2>4, <2>5, <2>6 DEF Next, Proceed
<1>2. QED
  BY <1>1, LinkInvAlways, PTL DEF Spec, ProfileKeptWhileUsed

=============================================================================
