---------------------------- MODULE UsbHal_proofs ----------------------------
(***************************************************************************)
(* Proofs about UsbHal for any port modes, any number of calls and of      *)
(* attachments, with or without faults.                                    *)
(***************************************************************************)
EXTENDS UsbHal, TLAPS

(***************************************************************************)
(* The inductive invariant                                                 *)
(***************************************************************************)

(* Who holds a mutex is told by where the threads stand. *)
LocksHeld ==
    /\ \A t \in Threads :
          mLock = t <=> pc[t] \in {"read", "notify"} \/ (t = "binder" /\ pc[t] = "join")
    /\ mRoleSwitchLock = "binder"
          <=> pc["binder"] \in {"write", "wait", "blocked", "drp", "report"}
    /\ mRoleSwitchLock = "worker" <=> pc["worker"] \in {"check", "drp"}
    /\ mPartnerLock = "binder" <=> pc["binder"] = "wait"
    /\ mPartnerLock # "worker"

(* The binder thread waits only inside switchMode; an attachment handled   *)
(* since port_type was written has left mPartnerUp set.                    *)
PartnerAwaited ==
    /\ mPartnerCV # "none" <=> pc["binder"] = "blocked"
    /\ pc["binder"] = "wait" => ~answered
    /\ pc["binder"] = "blocked" /\ answered => mPartnerUp
    /\ NoLostPartnerSignal

(* From the write of port_type to the report the mode stays what was asked *)
(* for, unless the kernel has refused it, or the switch has failed.        *)
ModeKept ==
    /\ pc["binder"] \in {"write", "wait", "blocked", "drp"} => ~result
    /\ pc["binder"] \in {"wait", "blocked"} => portType = op \/ refused
    /\ pc["binder"] = "write" => op \in Modes
    /\ ReportedModeInForce

(* A worker runs for a registered callback, or is being joined. *)
WorkerOwned ==
    /\ worker # "alive" => pc["worker"] = "idle"
    /\ worker = "alive" /\ ~mCallback => pc["binder"] = "join"

(* What was told is not ahead of what is being told. *)
ReportsOrdered ==
    /\ told.rev <= rev
    /\ \A t \in Threads :
          /\ snap[t].rev <= rev
          /\ pc[t] \in {"read", "notify"} => told.rev <= snap[t].rev

(* usb_data_enabled is what the framework knows, but for a call that has   *)
(* changed it and is about to say so.                                      *)
DataAcked ==
    /\ pc["binder"] # "ack" => mUsbDataEnabled = acked
    /\ pc["binder"] = "ack" =>
          mUsbDataEnabled = IF op \in {"enable", "disable"} /\ result
                            THEN op = "enable" ELSE acked
    /\ \A t \in Threads :
          pc[t] = "notify" /\ pc["binder"] # "ack" => snap[t].data = acked

UsbInv ==
    /\ TypeOK /\ LocksHeld /\ PartnerAwaited /\ ModeKept
    /\ WorkerOwned /\ ReportsOrdered /\ DataAcked

(***************************************************************************)
(* Every step preserves it                                                 *)
(***************************************************************************)

(* The type invariant in three parts: where the threads stand, the flags, the rest. *)
PlacesOK ==
    /\ DOMAIN pc = Threads
    /\ pc["binder"] \in BinderPlaces /\ pc["worker"] \in WorkerPlaces

FlagsOK ==
    /\ partner \in BOOLEAN
    /\ mCallback \in BOOLEAN /\ mPartnerUp \in BOOLEAN /\ mUsbDataEnabled \in BOOLEAN
    /\ destroyThread \in BOOLEAN /\ sigusr1 \in BOOLEAN /\ result \in BOOLEAN
    /\ acked \in BOOLEAN /\ answered \in BOOLEAN /\ refused \in BOOLEAN

ValuesOK ==
    /\ portType \in Modes \cup {"dual"}
    /\ rev \in 0 .. MaxChanges /\ heard \in 0 .. MaxChanges
    /\ uevents \in Seq({"add", "remove"})
    /\ mLock \in Holders /\ mRoleSwitchLock \in Holders /\ mPartnerLock \in Holders
    /\ mPartnerCV \in {"none", "waits", "woken", "timedout"}
    /\ op \in Ops /\ calls \in 0 .. MaxCalls
    /\ worker \in {"none", "alive", "exited"}
    /\ snap \in [Threads -> Status] /\ told \in Status

LEMMA TypeParts == TypeOK <=> PlacesOK /\ FlagsOK /\ ValuesOK
BY DEF TypeOK, PlacesOK, FlagsOK, ValuesOK

(* A status stays one when its fields are filled in. *)
LEMMA StatusUpdates ==
    ASSUME NEW t \in Threads, ValuesOK, FlagsOK
    PROVE  /\ [snap EXCEPT ![t].rev = rev] \in [Threads -> Status]
           /\ \A b \in Readings :
                  [snap EXCEPT ![t].reading = b, ![t].data = mUsbDataEnabled]
                      \in [Threads -> Status]
<1>1. [snap[t] EXCEPT !.rev = rev] \in Status
  BY DEF Status, ValuesOK, FlagsOK
<1>2. ASSUME NEW b \in Readings
      PROVE  [snap EXCEPT ![t].reading = b, ![t].data = mUsbDataEnabled] \in [Threads -> Status]
  <2>1. [snap[t] EXCEPT !.reading = b, !.data = mUsbDataEnabled] \in Status
    BY DEF Status, ValuesOK, FlagsOK
  <2>2. QED BY <2>1 DEF ValuesOK
<1>3. QED BY <1>1, <1>2 DEF ValuesOK

(* A thread goes on to places of its own. *)
LEMMA PlacesStep == PlacesOK /\ [Next]_vars => PlacesOK'
<1> SUFFICES ASSUME PlacesOK, [Next]_vars PROVE PlacesOK'
  OBVIOUS
<1> USE DEF PlacesOK, BinderPlaces, WorkerPlaces, Goto, Threads, kernel, locks,
        partnerSync, thread, history, told2
<1>1. ASSUME NEW on \in BOOLEAN, enableUsbData(on) PROVE PlacesOK'
  BY <1>1 DEF enableUsbData, Call, Outcome
<1>2. ASSUME NEW o \in {"other", "reset", "query"}, NEW p \in {"ack", "list"}, CallOther(o, p)
      PROVE  PlacesOK'
  BY <1>2 DEF CallOther, Call, Outcome
<1>3. CASE SwitchOtherRole
  BY <1>3 DEF SwitchOtherRole, Call
<1>4. ASSUME NEW m \in Modes, SwitchMode(m) PROVE PlacesOK'
  BY <1>4 DEF SwitchMode, Call
<1>5. CASE Register
  BY <1>5 DEF Register, Call
<1>6. CASE Unregister
  BY <1>6 DEF Unregister, Call
<1>7. ASSUME NEW t \in Threads, ListPorts(t) PROVE PlacesOK'
  BY <1>7 DEF ListPorts
<1>8. ASSUME NEW t \in Threads, ReadPort(t) PROVE PlacesOK'
  BY <1>8 DEF ReadPort
<1>9. ASSUME NEW t \in Threads, NotifyPortStatus(t) PROVE PlacesOK'
  BY <1>9 DEF NotifyPortStatus
<1>10. CASE Acknowledge
  BY <1>10 DEF Acknowledge
<1>11. CASE WriteMode
  BY <1>11 DEF WriteMode
<1>12. CASE WaitForPartner
  BY <1>12 DEF WaitForPartner
<1>13. CASE ReturnFromWait
  BY <1>13 DEF ReturnFromWait
<1>14. CASE SwitchBackToDrp
  BY <1>14 DEF SwitchBackToDrp, WriteDual
<1>15. CASE ReportRoleSwitch
  BY <1>15 DEF ReportRoleSwitch
<1>16. CASE Join
  BY <1>16 DEF Join
<1>17. CASE StartWorker
  BY <1>17 DEF StartWorker
<1>18. CASE TestDestroy
  BY <1>18 DEF TestDestroy
<1>19. CASE ReceiveUevent
  BY <1>19 DEF ReceiveUevent
<1>20. CASE SignalPartnerUp
  BY <1>20 DEF SignalPartnerUp
<1>21. CASE TryRoleSwitchLock
  BY <1>21 DEF TryRoleSwitchLock
<1>22. CASE CheckPartner
  BY <1>22 DEF CheckPartner
<1>23. CASE RestoreDrp
  BY <1>23 DEF RestoreDrp, WriteDual
<1>24. CASE RunSigHandler
  BY <1>24 DEF RunSigHandler
<1>25. ASSUME NEW how \in {"timedout", "woken"}, LeaveCV(how) PROVE PlacesOK'
  BY <1>25 DEF LeaveCV
<1>26. CASE PartnerChange
  BY <1>26 DEF PartnerChange, Listening
<1>27. CASE UNCHANGED vars
  BY <1>27 DEF vars
<1>28. CASE EnterEpoll
  BY <1>28 DEF EnterEpoll
<1>29. QED
  BY <1>1, <1>2, <1>3, <1>4, <1>5, <1>6, <1>7, <1>8, <1>9, <1>10, <1>11, <1>12, <1>13,
     <1>14, <1>15, <1>16, <1>17, <1>18, <1>19, <1>20, <1>21, <1>22, <1>23, <1>24, <1>25,
     <1>26, <1>27, <1>28
     DEF Next, NewCall, BinderStep, WorkerStep, Timeout, Spurious, enableUsbDataWhileDocked,
     limitPowerTransfer, enableContaminantPresenceDetection, resetUsbPort, queryPortStatus

(* Every flag stays a Boolean. *)
LEMMA FlagsStep == TypeOK /\ [Next]_vars => FlagsOK'
<1> SUFFICES ASSUME TypeOK, [Next]_vars PROVE FlagsOK'
  OBVIOUS
<1>0. PlacesOK /\ FlagsOK /\ ValuesOK
  BY TypeParts
<1> USE DEF PlacesOK, FlagsOK, Goto, Threads, kernel, locks, partnerSync, thread,
        history, told2
<1>1. ASSUME NEW on \in BOOLEAN, enableUsbData(on) PROVE FlagsOK'
  BY <1>0, <1>1 DEF enableUsbData, Call, Outcome
<1>2. ASSUME NEW o \in {"other", "reset", "query"}, NEW p \in {"ack", "list"}, CallOther(o, p)
      PROVE  FlagsOK'
  BY <1>0, <1>2 DEF CallOther, Call, Outcome
<1>3. CASE SwitchOtherRole
  BY <1>0, <1>3 DEF SwitchOtherRole, Call
<1>4. ASSUME NEW m \in Modes, SwitchMode(m) PROVE FlagsOK'
  BY <1>0, <1>4 DEF SwitchMode, Call
<1>5. CASE Register
  BY <1>0, <1>5 DEF Register, Call
<1>6. CASE Unregister
  BY <1>0, <1>6 DEF Unregister, Call
<1>7. ASSUME NEW t \in Threads, ListPorts(t) PROVE FlagsOK'
  BY <1>0, <1>7 DEF ListPorts
<1>8. ASSUME NEW t \in Threads, ReadPort(t) PROVE FlagsOK'
  BY <1>0, <1>8 DEF ReadPort
<1>9. ASSUME NEW t \in Threads, NotifyPortStatus(t) PROVE FlagsOK'
  BY <1>0, <1>9 DEF NotifyPortStatus
<1>10. CASE Acknowledge
  BY <1>0, <1>10 DEF Acknowledge
<1>11. CASE WriteMode
  BY <1>0, <1>11 DEF WriteMode
<1>12. CASE WaitForPartner
  BY <1>0, <1>12 DEF WaitForPartner
<1>13. CASE ReturnFromWait
  BY <1>0, <1>13 DEF ReturnFromWait
<1>14. CASE SwitchBackToDrp
  BY <1>0, <1>14 DEF SwitchBackToDrp, WriteDual
<1>15. CASE ReportRoleSwitch
  BY <1>0, <1>15 DEF ReportRoleSwitch
<1>16. CASE Join
  BY <1>0, <1>16 DEF Join
<1>17. CASE StartWorker
  BY <1>0, <1>17 DEF StartWorker
<1>18. CASE TestDestroy
  BY <1>0, <1>18 DEF TestDestroy
<1>19. CASE ReceiveUevent
  BY <1>0, <1>19 DEF ReceiveUevent
<1>20. CASE SignalPartnerUp
  BY <1>0, <1>20 DEF SignalPartnerUp
<1>21. CASE TryRoleSwitchLock
  BY <1>0, <1>21 DEF TryRoleSwitchLock
<1>22. CASE CheckPartner
  BY <1>0, <1>22 DEF CheckPartner
<1>23. CASE RestoreDrp
  BY <1>0, <1>23 DEF RestoreDrp, WriteDual
<1>24. CASE RunSigHandler
  BY <1>0, <1>24 DEF RunSigHandler
<1>25. ASSUME NEW how \in {"timedout", "woken"}, LeaveCV(how) PROVE FlagsOK'
  BY <1>0, <1>25 DEF LeaveCV
<1>26. CASE PartnerChange
  BY <1>0, <1>26 DEF PartnerChange, Listening
<1>27. CASE UNCHANGED vars
  BY <1>0, <1>27 DEF vars
<1>28. CASE EnterEpoll
  BY <1>0, <1>28 DEF EnterEpoll
<1>29. QED
  BY <1>1, <1>2, <1>3, <1>4, <1>5, <1>6, <1>7, <1>8, <1>9, <1>10, <1>11, <1>12, <1>13,
     <1>14, <1>15, <1>16, <1>17, <1>18, <1>19, <1>20, <1>21, <1>22, <1>23, <1>24, <1>25,
     <1>26, <1>27, <1>28
     DEF Next, NewCall, BinderStep, WorkerStep, Timeout, Spurious, enableUsbDataWhileDocked,
     limitPowerTransfer, enableContaminantPresenceDetection, resetUsbPort, queryPortStatus

(* Every other variable keeps its type. *)
LEMMA ValuesStep == UsbInv /\ [Next]_vars => ValuesOK'
<1> SUFFICES ASSUME UsbInv, [Next]_vars PROVE ValuesOK'
  OBVIOUS
<1>0. PlacesOK /\ FlagsOK /\ ValuesOK
  BY TypeParts DEF UsbInv
<1> USE ConstantsOK DEF PlacesOK, ValuesOK, Ops, Holders, Goto, Threads, kernel, locks,
        partnerSync, thread, history, told2
<1>1. ASSUME NEW on \in BOOLEAN, enableUsbData(on) PROVE ValuesOK'
  BY <1>0, <1>1 DEF enableUsbData, Call, Outcome
<1>2. ASSUME NEW o \in {"other", "reset", "query"}, NEW p \in {"ack", "list"}, CallOther(o, p)
      PROVE  ValuesOK'
  BY <1>0, <1>2 DEF CallOther, Call, Outcome
<1>3. CASE SwitchOtherRole
  BY <1>0, <1>3 DEF SwitchOtherRole, Call
<1>4. ASSUME NEW m \in Modes, SwitchMode(m) PROVE ValuesOK'
  BY <1>0, <1>4 DEF SwitchMode, Call
<1>5. CASE Register
  BY <1>0, <1>5 DEF Register, Call
<1>6. CASE Unregister
  BY <1>0, <1>6 DEF Unregister, Call
<1>7. ASSUME NEW t \in Threads, ListPorts(t) PROVE ValuesOK'
  <2>1. snap' \in [Threads -> Status]
    BY <1>0, <1>7, StatusUpdates DEF ListPorts
  <2>2. QED BY <1>0, <1>7, <2>1 DEF ListPorts
<1>8. ASSUME NEW t \in Threads, ReadPort(t) PROVE ValuesOK'
  <2>1. PICK reading \in Readings :
           snap' = [snap EXCEPT ![t].reading = reading, ![t].data = mUsbDataEnabled]
    BY <1>8 DEF ReadPort, ReadingOf, Readings
  <2>2. \A b \in Readings :
           [snap EXCEPT ![t].reading = b, ![t].data = mUsbDataEnabled] \in [Threads -> Status]
    BY <1>0, StatusUpdates
  <2>3. snap' \in [Threads -> Status]
    BY <2>1, <2>2
  <2>4. QED BY <1>0, <1>8, <2>3 DEF ReadPort
<1>9. ASSUME NEW t \in Threads, NotifyPortStatus(t) PROVE ValuesOK'
  BY <1>0, <1>9 DEF NotifyPortStatus
<1>10. CASE Acknowledge
  BY <1>0, <1>10 DEF Acknowledge
<1>11. CASE WriteMode
  <2>1. portType' \in Modes \cup {"dual"}
    BY <1>0, <1>11 DEF UsbInv, ModeKept, WriteMode
  <2>2. QED BY <1>0, <1>11, <2>1 DEF WriteMode
<1>12. CASE WaitForPartner
  BY <1>0, <1>12 DEF WaitForPartner
<1>13. CASE ReturnFromWait
  BY <1>0, <1>13 DEF ReturnFromWait
<1>14. CASE SwitchBackToDrp
  BY <1>0, <1>14 DEF SwitchBackToDrp, WriteDual
<1>15. CASE ReportRoleSwitch
  BY <1>0, <1>15 DEF ReportRoleSwitch
<1>16. CASE Join
  BY <1>0, <1>16 DEF Join
<1>17. CASE StartWorker
  BY <1>0, <1>17 DEF StartWorker
<1>18. CASE TestDestroy
  <2>1. uevents' \in Seq({"add", "remove"})
    <3>1. <<>> \in Seq({"add", "remove"})
      OBVIOUS
    <3>2. uevents' = <<>> \/ uevents' = uevents
      BY <1>18 DEF TestDestroy
    <3>3. QED BY <1>0, <3>1, <3>2
  <2>2. QED BY <1>0, <1>18, <2>1 DEF TestDestroy
<1>19. CASE ReceiveUevent
  BY <1>0, <1>19 DEF ReceiveUevent
<1>20. CASE SignalPartnerUp
  BY <1>0, <1>20 DEF SignalPartnerUp
<1>21. CASE TryRoleSwitchLock
  BY <1>0, <1>21 DEF TryRoleSwitchLock
<1>22. CASE CheckPartner
  BY <1>0, <1>22 DEF CheckPartner
<1>23. CASE RestoreDrp
  BY <1>0, <1>23 DEF RestoreDrp, WriteDual
<1>24. CASE RunSigHandler
  BY <1>0, <1>24 DEF RunSigHandler
<1>25. ASSUME NEW how \in {"timedout", "woken"}, LeaveCV(how) PROVE ValuesOK'
  BY <1>0, <1>25 DEF LeaveCV
<1>26. CASE PartnerChange
  BY <1>0, <1>26 DEF PartnerChange, Listening
<1>27. CASE UNCHANGED vars
  BY <1>0, <1>27 DEF vars
<1>28. CASE EnterEpoll
  BY <1>0, <1>28 DEF EnterEpoll
<1>29. QED
  BY <1>1, <1>2, <1>3, <1>4, <1>5, <1>6, <1>7, <1>8, <1>9, <1>10, <1>11, <1>12, <1>13,
     <1>14, <1>15, <1>16, <1>17, <1>18, <1>19, <1>20, <1>21, <1>22, <1>23, <1>24, <1>25,
     <1>26, <1>27, <1>28
     DEF Next, NewCall, BinderStep, WorkerStep, Timeout, Spurious, enableUsbDataWhileDocked,
     limitPowerTransfer, enableContaminantPresenceDetection, resetUsbPort, queryPortStatus

(* A mutex is taken when free and released by its holder. *)
LEMMA LocksStep == UsbInv /\ [Next]_vars => LocksHeld'
<1> SUFFICES ASSUME UsbInv, [Next]_vars PROVE LocksHeld'
  OBVIOUS
<1> USE DEF PlacesOK, UsbInv, TypeOK, BinderPlaces, WorkerPlaces, Ops, Holders, Status,
        LocksHeld, WorkerOwned, Goto, Threads, kernel, locks, partnerSync, thread,
        history, told2
<1>1. ASSUME NEW on \in BOOLEAN, enableUsbData(on) PROVE LocksHeld'
  BY <1>1 DEF enableUsbData, Call, Outcome
<1>2. ASSUME NEW o \in {"other", "reset", "query"}, NEW p \in {"ack", "list"}, CallOther(o, p)
      PROVE  LocksHeld'
  BY <1>2 DEF CallOther, Call, Outcome
<1>3. CASE SwitchOtherRole
  BY <1>3 DEF SwitchOtherRole, Call
<1>4. ASSUME NEW m \in Modes, SwitchMode(m) PROVE LocksHeld'
  BY <1>4 DEF SwitchMode, Call
<1>5. CASE Register
  BY <1>5 DEF Register, Call
<1>6. CASE Unregister
  BY <1>6 DEF Unregister, Call
<1>7. ASSUME NEW t \in Threads, ListPorts(t) PROVE LocksHeld'
  BY <1>7 DEF ListPorts
<1>8. ASSUME NEW t \in Threads, ReadPort(t) PROVE LocksHeld'
  BY <1>8 DEF ReadPort
<1>9. ASSUME NEW t \in Threads, NotifyPortStatus(t) PROVE LocksHeld'
  BY <1>9 DEF NotifyPortStatus
<1>10. CASE Acknowledge
  BY <1>10 DEF Acknowledge
<1>11. CASE WriteMode
  BY <1>11 DEF WriteMode
<1>12. CASE WaitForPartner
  BY <1>12 DEF WaitForPartner
<1>13. CASE ReturnFromWait
  BY <1>13 DEF ReturnFromWait
<1>14. CASE SwitchBackToDrp
  BY <1>14 DEF SwitchBackToDrp, WriteDual
<1>15. CASE ReportRoleSwitch
  BY <1>15 DEF ReportRoleSwitch
<1>16. CASE Join
  BY <1>16 DEF Join
<1>17. CASE StartWorker
  BY <1>17 DEF StartWorker
<1>18. CASE TestDestroy
  BY <1>18 DEF TestDestroy
<1>19. CASE ReceiveUevent
  BY <1>19 DEF ReceiveUevent
<1>20. CASE SignalPartnerUp
  BY <1>20 DEF SignalPartnerUp
<1>21. CASE TryRoleSwitchLock
  BY <1>21 DEF TryRoleSwitchLock
<1>22. CASE CheckPartner
  BY <1>22 DEF CheckPartner
<1>23. CASE RestoreDrp
  BY <1>23 DEF RestoreDrp, WriteDual
<1>24. CASE RunSigHandler
  BY <1>24 DEF RunSigHandler
<1>25. ASSUME NEW how \in {"timedout", "woken"}, LeaveCV(how) PROVE LocksHeld'
  BY <1>25 DEF LeaveCV
<1>26. CASE PartnerChange
  BY <1>26 DEF PartnerChange, Listening
<1>27. CASE UNCHANGED vars
  BY <1>27 DEF vars
<1>28. CASE EnterEpoll
  BY <1>28 DEF EnterEpoll
<1>29. QED
  BY <1>1, <1>2, <1>3, <1>4, <1>5, <1>6, <1>7, <1>8, <1>9, <1>10, <1>11, <1>12, <1>13,
     <1>14, <1>15, <1>16, <1>17, <1>18, <1>19, <1>20, <1>21, <1>22, <1>23, <1>24, <1>25,
     <1>26, <1>27, <1>28
     DEF Next, NewCall, BinderStep, WorkerStep, Timeout, Spurious, enableUsbDataWhileDocked,
     limitPowerTransfer, enableContaminantPresenceDetection, resetUsbPort, queryPortStatus

(* The worker cannot signal between the write of port_type and the wait. *)
LEMMA PartnerStep == UsbInv /\ [Next]_vars => PartnerAwaited'
<1> SUFFICES ASSUME UsbInv, [Next]_vars PROVE PartnerAwaited'
  OBVIOUS
<1> USE DEF PlacesOK, UsbInv, TypeOK, BinderPlaces, WorkerPlaces, Ops, Holders, Status,
        LocksHeld, PartnerAwaited, NoLostPartnerSignal, Goto, Threads, kernel, locks,
        partnerSync, thread, history, told2
<1>1. ASSUME NEW on \in BOOLEAN, enableUsbData(on) PROVE PartnerAwaited'
  BY <1>1 DEF enableUsbData, Call, Outcome
<1>2. ASSUME NEW o \in {"other", "reset", "query"}, NEW p \in {"ack", "list"}, CallOther(o, p)
      PROVE  PartnerAwaited'
  BY <1>2 DEF CallOther, Call, Outcome
<1>3. CASE SwitchOtherRole
  BY <1>3 DEF SwitchOtherRole, Call
<1>4. ASSUME NEW m \in Modes, SwitchMode(m) PROVE PartnerAwaited'
  BY <1>4 DEF SwitchMode, Call
<1>5. CASE Register
  BY <1>5 DEF Register, Call
<1>6. CASE Unregister
  BY <1>6 DEF Unregister, Call
<1>7. ASSUME NEW t \in Threads, ListPorts(t) PROVE PartnerAwaited'
  BY <1>7 DEF ListPorts
<1>8. ASSUME NEW t \in Threads, ReadPort(t) PROVE PartnerAwaited'
  BY <1>8 DEF ReadPort
<1>9. ASSUME NEW t \in Threads, NotifyPortStatus(t) PROVE PartnerAwaited'
  BY <1>9 DEF NotifyPortStatus
<1>10. CASE Acknowledge
  BY <1>10 DEF Acknowledge
<1>11. CASE WriteMode
  BY <1>11 DEF WriteMode
<1>12. CASE WaitForPartner
  BY <1>12 DEF WaitForPartner
<1>13. CASE ReturnFromWait
  BY <1>13 DEF ReturnFromWait
<1>14. CASE SwitchBackToDrp
  BY <1>14 DEF SwitchBackToDrp, WriteDual
<1>15. CASE ReportRoleSwitch
  BY <1>15 DEF ReportRoleSwitch
<1>16. CASE Join
  BY <1>16 DEF Join
<1>17. CASE StartWorker
  BY <1>17 DEF StartWorker
<1>18. CASE TestDestroy
  BY <1>18 DEF TestDestroy
<1>19. CASE ReceiveUevent
  BY <1>19 DEF ReceiveUevent
<1>20. CASE SignalPartnerUp
  BY <1>20 DEF SignalPartnerUp
<1>21. CASE TryRoleSwitchLock
  BY <1>21 DEF TryRoleSwitchLock
<1>22. CASE CheckPartner
  BY <1>22 DEF CheckPartner
<1>23. CASE RestoreDrp
  BY <1>23 DEF RestoreDrp, WriteDual
<1>24. CASE RunSigHandler
  BY <1>24 DEF RunSigHandler
<1>25. ASSUME NEW how \in {"timedout", "woken"}, LeaveCV(how) PROVE PartnerAwaited'
  BY <1>25 DEF LeaveCV
<1>26. CASE PartnerChange
  BY <1>26 DEF PartnerChange, Listening
<1>27. CASE UNCHANGED vars
  BY <1>27 DEF vars
<1>28. CASE EnterEpoll
  BY <1>28 DEF EnterEpoll
<1>29. QED
  BY <1>1, <1>2, <1>3, <1>4, <1>5, <1>6, <1>7, <1>8, <1>9, <1>10, <1>11, <1>12, <1>13,
     <1>14, <1>15, <1>16, <1>17, <1>18, <1>19, <1>20, <1>21, <1>22, <1>23, <1>24, <1>25,
     <1>26, <1>27, <1>28
     DEF Next, NewCall, BinderStep, WorkerStep, Timeout, Spurious, enableUsbDataWhileDocked,
     limitPowerTransfer, enableContaminantPresenceDetection, resetUsbPort, queryPortStatus

(* The worker's return to dual and a mode switch exclude each other. *)
LEMMA ModeStep == UsbInv /\ [Next]_vars => ModeKept'
<1> SUFFICES ASSUME UsbInv, [Next]_vars PROVE ModeKept'
  OBVIOUS
<1> USE DEF PlacesOK, UsbInv, TypeOK, BinderPlaces, WorkerPlaces, Ops, Holders, Status,
        LocksHeld, ModeKept, ReportedModeInForce, PartnerAwaited, Goto, Threads, kernel,
        locks, partnerSync, thread, history, told2
<1>1. ASSUME NEW on \in BOOLEAN, enableUsbData(on) PROVE ModeKept'
  BY <1>1 DEF enableUsbData, Call, Outcome
<1>2. ASSUME NEW o \in {"other", "reset", "query"}, NEW p \in {"ack", "list"}, CallOther(o, p)
      PROVE  ModeKept'
  BY <1>2 DEF CallOther, Call, Outcome
<1>3. CASE SwitchOtherRole
  BY <1>3, ConstantsOK DEF SwitchOtherRole, Call
<1>4. ASSUME NEW m \in Modes, SwitchMode(m) PROVE ModeKept'
  BY <1>4, ConstantsOK DEF SwitchMode, Call
<1>5. CASE Register
  BY <1>5 DEF Register, Call
<1>6. CASE Unregister
  BY <1>6 DEF Unregister, Call
<1>7. ASSUME NEW t \in Threads, ListPorts(t) PROVE ModeKept'
  BY <1>7 DEF ListPorts
<1>8. ASSUME NEW t \in Threads, ReadPort(t) PROVE ModeKept'
  BY <1>8 DEF ReadPort
<1>9. ASSUME NEW t \in Threads, NotifyPortStatus(t) PROVE ModeKept'
  BY <1>9 DEF NotifyPortStatus
<1>10. CASE Acknowledge
  BY <1>10 DEF Acknowledge
<1>11. CASE WriteMode
  BY <1>11 DEF WriteMode
<1>12. CASE WaitForPartner
  BY <1>12 DEF WaitForPartner
<1>13. CASE ReturnFromWait
  BY <1>13 DEF ReturnFromWait
<1>14. CASE SwitchBackToDrp
  BY <1>14 DEF SwitchBackToDrp, WriteDual
<1>15. CASE ReportRoleSwitch
  BY <1>15 DEF ReportRoleSwitch
<1>16. CASE Join
  BY <1>16 DEF Join
<1>17. CASE StartWorker
  BY <1>17 DEF StartWorker
<1>18. CASE TestDestroy
  BY <1>18 DEF TestDestroy
<1>19. CASE ReceiveUevent
  BY <1>19 DEF ReceiveUevent
<1>20. CASE SignalPartnerUp
  BY <1>20 DEF SignalPartnerUp
<1>21. CASE TryRoleSwitchLock
  BY <1>21 DEF TryRoleSwitchLock
<1>22. CASE CheckPartner
  BY <1>22 DEF CheckPartner
<1>23. CASE RestoreDrp
  BY <1>23 DEF RestoreDrp, WriteDual
<1>24. CASE RunSigHandler
  BY <1>24 DEF RunSigHandler
<1>25. ASSUME NEW how \in {"timedout", "woken"}, LeaveCV(how) PROVE ModeKept'
  BY <1>25 DEF LeaveCV
<1>26. CASE PartnerChange
  BY <1>26 DEF PartnerChange, Listening
<1>27. CASE UNCHANGED vars
  BY <1>27 DEF vars
<1>28. CASE EnterEpoll
  BY <1>28 DEF EnterEpoll
<1>29. QED
  BY <1>1, <1>2, <1>3, <1>4, <1>5, <1>6, <1>7, <1>8, <1>9, <1>10, <1>11, <1>12, <1>13,
     <1>14, <1>15, <1>16, <1>17, <1>18, <1>19, <1>20, <1>21, <1>22, <1>23, <1>24, <1>25,
     <1>26, <1>27, <1>28
     DEF Next, NewCall, BinderStep, WorkerStep, Timeout, Spurious, enableUsbDataWhileDocked,
     limitPowerTransfer, enableContaminantPresenceDetection, resetUsbPort, queryPortStatus

(* Unregistering leaves no worker behind. *)
LEMMA WorkerOwnedStep == UsbInv /\ [Next]_vars => WorkerOwned'
<1> SUFFICES ASSUME UsbInv, [Next]_vars PROVE WorkerOwned'
  OBVIOUS
<1> USE DEF PlacesOK, UsbInv, TypeOK, BinderPlaces, WorkerPlaces, Ops, Holders, Status,
        WorkerOwned, Goto, Threads, kernel, locks, partnerSync, thread, history, told2
<1>1. ASSUME NEW on \in BOOLEAN, enableUsbData(on) PROVE WorkerOwned'
  BY <1>1 DEF enableUsbData, Call, Outcome
<1>2. ASSUME NEW o \in {"other", "reset", "query"}, NEW p \in {"ack", "list"}, CallOther(o, p)
      PROVE  WorkerOwned'
  BY <1>2 DEF CallOther, Call, Outcome
<1>3. CASE SwitchOtherRole
  BY <1>3 DEF SwitchOtherRole, Call
<1>4. ASSUME NEW m \in Modes, SwitchMode(m) PROVE WorkerOwned'
  BY <1>4 DEF SwitchMode, Call
<1>5. CASE Register
  BY <1>5 DEF Register, Call
<1>6. CASE Unregister
  BY <1>6 DEF Unregister, Call
<1>7. ASSUME NEW t \in Threads, ListPorts(t) PROVE WorkerOwned'
  BY <1>7 DEF ListPorts
<1>8. ASSUME NEW t \in Threads, ReadPort(t) PROVE WorkerOwned'
  BY <1>8 DEF ReadPort
<1>9. ASSUME NEW t \in Threads, NotifyPortStatus(t) PROVE WorkerOwned'
  BY <1>9 DEF NotifyPortStatus
<1>10. CASE Acknowledge
  BY <1>10 DEF Acknowledge
<1>11. CASE WriteMode
  BY <1>11 DEF WriteMode
<1>12. CASE WaitForPartner
  BY <1>12 DEF WaitForPartner
<1>13. CASE ReturnFromWait
  BY <1>13 DEF ReturnFromWait
<1>14. CASE SwitchBackToDrp
  BY <1>14 DEF SwitchBackToDrp, WriteDual
<1>15. CASE ReportRoleSwitch
  BY <1>15 DEF ReportRoleSwitch
<1>16. CASE Join
  BY <1>16 DEF Join
<1>17. CASE StartWorker
  BY <1>17 DEF StartWorker
<1>18. CASE TestDestroy
  BY <1>18 DEF TestDestroy
<1>19. CASE ReceiveUevent
  BY <1>19 DEF ReceiveUevent
<1>20. CASE SignalPartnerUp
  BY <1>20 DEF SignalPartnerUp
<1>21. CASE TryRoleSwitchLock
  BY <1>21 DEF TryRoleSwitchLock
<1>22. CASE CheckPartner
  BY <1>22 DEF CheckPartner
<1>23. CASE RestoreDrp
  BY <1>23 DEF RestoreDrp, WriteDual
<1>24. CASE RunSigHandler
  BY <1>24 DEF RunSigHandler
<1>25. ASSUME NEW how \in {"timedout", "woken"}, LeaveCV(how) PROVE WorkerOwned'
  BY <1>25 DEF LeaveCV
<1>26. CASE PartnerChange
  BY <1>26 DEF PartnerChange, Listening
<1>27. CASE UNCHANGED vars
  BY <1>27 DEF vars
<1>28. CASE EnterEpoll
  BY <1>28 DEF EnterEpoll
<1>29. QED
  BY <1>1, <1>2, <1>3, <1>4, <1>5, <1>6, <1>7, <1>8, <1>9, <1>10, <1>11, <1>12, <1>13,
     <1>14, <1>15, <1>16, <1>17, <1>18, <1>19, <1>20, <1>21, <1>22, <1>23, <1>24, <1>25,
     <1>26, <1>27, <1>28
     DEF Next, NewCall, BinderStep, WorkerStep, Timeout, Spurious, enableUsbDataWhileDocked,
     limitPowerTransfer, enableContaminantPresenceDetection, resetUsbPort, queryPortStatus

(* A status is put together and told in one critical section. *)
LEMMA ReportsStep == UsbInv /\ [Next]_vars => ReportsOrdered'
<1> SUFFICES ASSUME UsbInv, [Next]_vars PROVE ReportsOrdered'
  OBVIOUS
<1> USE DEF PlacesOK, UsbInv, TypeOK, BinderPlaces, WorkerPlaces, Ops, Holders, Status,
        LocksHeld, ReportsOrdered, WorkerOwned, Goto, Threads, kernel, locks,
        partnerSync, thread, history, told2
<1>1. ASSUME NEW on \in BOOLEAN, enableUsbData(on) PROVE ReportsOrdered'
  BY <1>1 DEF enableUsbData, Call, Outcome
<1>2. ASSUME NEW o \in {"other", "reset", "query"}, NEW p \in {"ack", "list"}, CallOther(o, p)
      PROVE  ReportsOrdered'
  BY <1>2 DEF CallOther, Call, Outcome
<1>3. CASE SwitchOtherRole
  BY <1>3 DEF SwitchOtherRole, Call
<1>4. ASSUME NEW m \in Modes, SwitchMode(m) PROVE ReportsOrdered'
  BY <1>4 DEF SwitchMode, Call
<1>5. CASE Register
  BY <1>5 DEF Register, Call
<1>6. CASE Unregister
  BY <1>6 DEF Unregister, Call
<1>7. ASSUME NEW t \in Threads, ListPorts(t) PROVE ReportsOrdered'
  BY <1>7 DEF ListPorts
<1>8. ASSUME NEW t \in Threads, ReadPort(t) PROVE ReportsOrdered'
  BY <1>8 DEF ReadPort
<1>9. ASSUME NEW t \in Threads, NotifyPortStatus(t) PROVE ReportsOrdered'
  BY <1>9 DEF NotifyPortStatus
<1>10. CASE Acknowledge
  BY <1>10 DEF Acknowledge
<1>11. CASE WriteMode
  BY <1>11 DEF WriteMode
<1>12. CASE WaitForPartner
  BY <1>12 DEF WaitForPartner
<1>13. CASE ReturnFromWait
  BY <1>13 DEF ReturnFromWait
<1>14. CASE SwitchBackToDrp
  BY <1>14 DEF SwitchBackToDrp, WriteDual
<1>15. CASE ReportRoleSwitch
  BY <1>15 DEF ReportRoleSwitch
<1>16. CASE Join
  BY <1>16 DEF Join
<1>17. CASE StartWorker
  BY <1>17 DEF StartWorker
<1>18. CASE TestDestroy
  BY <1>18 DEF TestDestroy
<1>19. CASE ReceiveUevent
  BY <1>19 DEF ReceiveUevent
<1>20. CASE SignalPartnerUp
  BY <1>20 DEF SignalPartnerUp
<1>21. CASE TryRoleSwitchLock
  BY <1>21 DEF TryRoleSwitchLock
<1>22. CASE CheckPartner
  BY <1>22 DEF CheckPartner
<1>23. CASE RestoreDrp
  BY <1>23 DEF RestoreDrp, WriteDual
<1>24. CASE RunSigHandler
  BY <1>24 DEF RunSigHandler
<1>25. ASSUME NEW how \in {"timedout", "woken"}, LeaveCV(how) PROVE ReportsOrdered'
  BY <1>25 DEF LeaveCV
<1>26. CASE PartnerChange
  BY <1>26 DEF PartnerChange, Listening
<1>27. CASE UNCHANGED vars
  BY <1>27 DEF vars
<1>28. CASE EnterEpoll
  BY <1>28 DEF EnterEpoll
<1>29. QED
  BY <1>1, <1>2, <1>3, <1>4, <1>5, <1>6, <1>7, <1>8, <1>9, <1>10, <1>11, <1>12, <1>13,
     <1>14, <1>15, <1>16, <1>17, <1>18, <1>19, <1>20, <1>21, <1>22, <1>23, <1>24, <1>25,
     <1>26, <1>27, <1>28
     DEF Next, NewCall, BinderStep, WorkerStep, Timeout, Spurious, enableUsbDataWhileDocked,
     limitPowerTransfer, enableContaminantPresenceDetection, resetUsbPort, queryPortStatus

(* The answer to enableUsbData and a notification exclude each other. *)
LEMMA DataStep == UsbInv /\ [Next]_vars => DataAcked'
<1> SUFFICES ASSUME UsbInv, [Next]_vars PROVE DataAcked'
  OBVIOUS
<1> USE DEF PlacesOK, UsbInv, TypeOK, BinderPlaces, WorkerPlaces, Ops, Holders, Status,
        LocksHeld, DataAcked, WorkerOwned, Goto, Threads, kernel, locks, partnerSync,
        thread, history, told2
<1>1. ASSUME NEW on \in BOOLEAN, enableUsbData(on) PROVE DataAcked'
  BY <1>1 DEF enableUsbData, Call, Outcome
<1>2. ASSUME NEW o \in {"other", "reset", "query"}, NEW p \in {"ack", "list"}, CallOther(o, p)
      PROVE  DataAcked'
  BY <1>2 DEF CallOther, Call, Outcome
<1>3. CASE SwitchOtherRole
  BY <1>3 DEF SwitchOtherRole, Call
<1>4. ASSUME NEW m \in Modes, SwitchMode(m) PROVE DataAcked'
  BY <1>4 DEF SwitchMode, Call
<1>5. CASE Register
  BY <1>5 DEF Register, Call
<1>6. CASE Unregister
  BY <1>6 DEF Unregister, Call
<1>7. ASSUME NEW t \in Threads, ListPorts(t) PROVE DataAcked'
  BY <1>7 DEF ListPorts
<1>8. ASSUME NEW t \in Threads, ReadPort(t) PROVE DataAcked'
  BY <1>8 DEF ReadPort
<1>9. ASSUME NEW t \in Threads, NotifyPortStatus(t) PROVE DataAcked'
  BY <1>9 DEF NotifyPortStatus
<1>10. CASE Acknowledge
  BY <1>10 DEF Acknowledge
<1>11. CASE WriteMode
  BY <1>11 DEF WriteMode
<1>12. CASE WaitForPartner
  BY <1>12 DEF WaitForPartner
<1>13. CASE ReturnFromWait
  BY <1>13 DEF ReturnFromWait
<1>14. CASE SwitchBackToDrp
  BY <1>14 DEF SwitchBackToDrp, WriteDual
<1>15. CASE ReportRoleSwitch
  BY <1>15 DEF ReportRoleSwitch
<1>16. CASE Join
  BY <1>16 DEF Join
<1>17. CASE StartWorker
  BY <1>17 DEF StartWorker
<1>18. CASE TestDestroy
  BY <1>18 DEF TestDestroy
<1>19. CASE ReceiveUevent
  BY <1>19 DEF ReceiveUevent
<1>20. CASE SignalPartnerUp
  BY <1>20 DEF SignalPartnerUp
<1>21. CASE TryRoleSwitchLock
  BY <1>21 DEF TryRoleSwitchLock
<1>22. CASE CheckPartner
  BY <1>22 DEF CheckPartner
<1>23. CASE RestoreDrp
  BY <1>23 DEF RestoreDrp, WriteDual
<1>24. CASE RunSigHandler
  BY <1>24 DEF RunSigHandler
<1>25. ASSUME NEW how \in {"timedout", "woken"}, LeaveCV(how) PROVE DataAcked'
  BY <1>25 DEF LeaveCV
<1>26. CASE PartnerChange
  BY <1>26 DEF PartnerChange, Listening
<1>27. CASE UNCHANGED vars
  BY <1>27 DEF vars
<1>28. CASE EnterEpoll
  BY <1>28 DEF EnterEpoll
<1>29. QED
  BY <1>1, <1>2, <1>3, <1>4, <1>5, <1>6, <1>7, <1>8, <1>9, <1>10, <1>11, <1>12, <1>13,
     <1>14, <1>15, <1>16, <1>17, <1>18, <1>19, <1>20, <1>21, <1>22, <1>23, <1>24, <1>25,
     <1>26, <1>27, <1>28
     DEF Next, NewCall, BinderStep, WorkerStep, Timeout, Spurious, enableUsbDataWhileDocked,
     limitPowerTransfer, enableContaminantPresenceDetection, resetUsbPort, queryPortStatus

LEMMA UsbInit == Init => UsbInv
<1> SUFFICES ASSUME Init PROVE UsbInv
  OBVIOUS
<1>1. TypeOK
  <2>1. PlacesOK /\ FlagsOK
    BY DEF Init, PlacesOK, FlagsOK, Threads, BinderPlaces, WorkerPlaces
  <2>2. [rev |-> 0, reading |-> "whole", data |-> TRUE] \in Status
    BY ConstantsOK DEF Status, Readings
  <2>3. snap \in [Threads -> Status] /\ told \in Status
    BY <2>2 DEF Init
  <2>4. ValuesOK
    BY ConstantsOK, <2>3 DEF Init, ValuesOK, Ops, Holders
  <2>5. QED BY <2>1, <2>4, TypeParts
<1>2. LocksHeld /\ PartnerAwaited /\ WorkerOwned
  BY DEF Init, LocksHeld, PartnerAwaited, NoLostPartnerSignal, WorkerOwned, Threads
<1>3. ModeKept /\ ReportsOrdered /\ DataAcked
  BY DEF Init, ModeKept, ReportedModeInForce, ReportsOrdered, DataAcked, Threads
<1>4. QED BY <1>1, <1>2, <1>3 DEF UsbInv

LEMMA UsbStep == UsbInv /\ [Next]_vars => UsbInv'
<1> SUFFICES ASSUME UsbInv, [Next]_vars PROVE UsbInv'
  OBVIOUS
<1>1. PlacesOK' /\ FlagsOK' /\ ValuesOK'
  BY TypeParts, PlacesStep, FlagsStep, ValuesStep DEF UsbInv
<1>2. TypeOK'
  BY <1>1 DEF TypeOK, PlacesOK, FlagsOK, ValuesOK
<1>3. QED
  BY <1>2, LocksStep, PartnerStep, ModeStep, WorkerOwnedStep, ReportsStep, DataStep
     DEF UsbInv

LEMMA UsbInvCorrect == Spec => []UsbInv
BY UsbInit, UsbStep, PTL DEF Spec

(***************************************************************************)
(* What follows from it                                                    *)
(***************************************************************************)

(* Every variable of the service keeps its type. *)
THEOREM UsbTypeCorrect == Spec => []TypeOK
<1>1. UsbInv => TypeOK
  BY DEF UsbInv
<1>2. QED BY <1>1, UsbInvCorrect, PTL

(* switchMode never sleeps on after the worker has handled the attachment  *)
(* that answers its write of port_type. *)
THEOREM NoLostPartnerSignalCorrect == Spec => []NoLostPartnerSignal
<1>1. UsbInv => NoLostPartnerSignal
  BY DEF UsbInv, PartnerAwaited
<1>2. QED BY <1>1, UsbInvCorrect, PTL

(* A mode switch reported as successful is still in force, unless the      *)
(* kernel has refused the mode when the stream was closed. *)
THEOREM ReportedModeCorrect == Spec => []ReportedModeInForce
<1>1. UsbInv => ReportedModeInForce
  BY DEF UsbInv, ModeKept
<1>2. QED BY <1>1, UsbInvCorrect, PTL

(* No worker outlives setCallback(NULL). *)
THEOREM NoWorkerCorrect == Spec => []NoWorkerWithoutCallback
<1>1. UsbInv => NoWorkerWithoutCallback
  BY DEF UsbInv, WorkerOwned, NoWorkerWithoutCallback
<1>2. QED BY <1>1, UsbInvCorrect, PTL

(* Only queryVersionHelper's last step tells the framework something. *)
LEMMA OnlyNotifyTells ==
    [Next]_vars /\ told' # told => \E t \in Threads : NotifyPortStatus(t)
<1> SUFFICES ASSUME [Next]_vars, ~ \E t \in Threads : NotifyPortStatus(t)
             PROVE  told' = told
  OBVIOUS
<1>1. CASE NewCall
  BY <1>1 DEF NewCall, enableUsbData, enableUsbDataWhileDocked, limitPowerTransfer,
     enableContaminantPresenceDetection, resetUsbPort, queryPortStatus, CallOther,
     SwitchOtherRole, SwitchMode, Register, Unregister, told2
<1>2. CASE BinderStep
  BY <1>2 DEF BinderStep, Threads, ListPorts, ReadPort, Acknowledge, WriteMode,
     WaitForPartner, ReturnFromWait, SwitchBackToDrp, ReportRoleSwitch, Join, told2
<1>3. CASE WorkerStep
  BY <1>3 DEF WorkerStep, Threads, StartWorker, TestDestroy, ReceiveUevent,
     EnterEpoll, SignalPartnerUp, ListPorts, ReadPort, TryRoleSwitchLock, CheckPartner,
     RestoreDrp,
     told2
<1>4. CASE RunSigHandler \/ Timeout \/ Spurious \/ PartnerChange \/ UNCHANGED vars
  BY <1>4 DEF RunSigHandler, Timeout, Spurious, LeaveCV, PartnerChange, vars, told2
<1>5. QED BY <1>1, <1>2, <1>3, <1>4 DEF Next

(* The two threads report the port status in the order they read it. *)
THEOREM NotificationsInOrderCorrect == Spec => NotificationsInOrder
<1>1. ASSUME UsbInv, [Next]_vars PROVE told'.rev >= told.rev
  <2>1. CASE told' = told
    BY <1>1, <2>1 DEF UsbInv, TypeOK, Status
  <2>2. CASE told' # told
    <3>1. PICK t \in Threads : NotifyPortStatus(t)
      BY <1>1, <2>2, OnlyNotifyTells
    <3>2. told' = snap[t] /\ pc[t] = "notify"
      BY <2>2, <3>1 DEF NotifyPortStatus
    <3>3. QED
      BY <1>1, <3>1, <3>2 DEF UsbInv, ReportsOrdered, TypeOK, Status, Threads
  <2>3. QED BY <2>1, <2>2
<1>2. QED BY <1>1, UsbInvCorrect, PTL DEF Spec, NotificationsInOrder

(* Once enableUsbData has been answered, every status agrees with the      *)
(* answer until the next call changes it. *)
THEOREM StatusFollowsAckCorrect == Spec => StatusFollowsAck
<1>1. ASSUME UsbInv, [Next]_vars
      PROVE  told' # told /\ pc["binder"] # "ack" => told'.data = acked
  <2> SUFFICES ASSUME told' # told, pc["binder"] # "ack" PROVE told'.data = acked
    OBVIOUS
  <2>1. PICK t \in Threads : NotifyPortStatus(t)
    BY <1>1, OnlyNotifyTells
  <2>2. told' = snap[t] /\ pc[t] = "notify"
    BY <2>1 DEF NotifyPortStatus
  <2>3. QED
    BY <1>1, <2>1, <2>2 DEF UsbInv, DataAcked
<1>2. QED BY <1>1, UsbInvCorrect, PTL DEF Spec, StatusFollowsAck
=============================================================================
