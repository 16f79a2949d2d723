------------------------------- MODULE UsbHal -------------------------------
(***************************************************************************)
(* The USB HAL service (Usb.cpp) on a device with one Type-C port: the one *)
(* binder thread that serves the framework's calls, the worker thread that *)
(* handles kernel uevents while a callback is registered, the three locks  *)
(* and the condition variable between them, and the kernel's Type-C stack  *)
(* (external) that attaches and detaches the partner on its own.           *)
(*                                                                         *)
(* Contents of a port status are abstracted to what its readers tell       *)
(* apart: how recent the reading is (rev counts the partner's comings and  *)
(* goings), whether it is whole, and usbDataStatus.                        *)
(***************************************************************************)
EXTENDS Naturals, Sequences

CONSTANTS
    Modes,       \* port modes switchRole can be asked for
    MaxChanges,  \* bound: attachments and detachments of the partner
    MaxCalls,    \* bound: binder calls
    Faults       \* may sysfs accesses, thread and socket creation fail?

(* Modes are told from the other operations and from "dual" by name. *)
ASSUME ConstantsOK ==
    /\ Modes \cap {"dual", "none", "enable", "disable", "other", "query", "reset", "swap",
                   "setCallback"} = {}
    /\ MaxChanges \in Nat /\ MaxCalls \in Nat
    /\ Faults \in BOOLEAN

VARIABLES
    \* The kernel.
    partner,          \* does /sys/class/typec/<port>-partner exist?
    portType,         \* <port>/port_type
    rev,              \* changes of partner so far
    uevents,          \* messages in the worker's netlink socket
    \* struct Usb.
    mCallback,        \* is a callback registered?
    mLock, mRoleSwitchLock, mPartnerLock,   \* their holders, or "free"
    mPartnerUp,
    mPartnerCV,       \* the thread that waits: "none", "waits", "woken", "timedout"
    mUsbDataEnabled,
    destroyThread,
    sigusr1,          \* SIGUSR1 sent to the worker, handler not run yet
    \* The threads.
    pc,               \* pc[t]: where thread t stands
    op,               \* the call the binder thread serves
    result,           \* its result so far: roleSwitch, success, ...
    worker,           \* "none", "alive" or "exited" (not joined)
    snap,             \* snap[t]: the port status thread t is putting together
    calls,            \* binder calls so far
    \* The framework, and history for the properties.
    told,             \* the port status it was last notified of
    acked,            \* usbDataStatus it was last told SUCCESS for
    heard,            \* rev of the last change this worker's socket received
    answered,         \* "partner added" handled since port_type was written?
    refused           \* has the kernel refused what switchMode has written?

kernel  == <<partner, portType, rev, uevents>>
locks   == <<mLock, mRoleSwitchLock, mPartnerLock>>
partnerSync == <<mPartnerUp, mPartnerCV>>
thread  == <<destroyThread, sigusr1, worker>>
history == <<heard, answered, refused>>
told2   == <<told, acked>>
vars == <<kernel, mCallback, locks, partnerSync, mUsbDataEnabled, thread,
          pc, op, result, snap, calls, told2, history>>

Threads == {"binder", "worker"}
Holders == Threads \cup {"free"}

(* A status: put together from one state of the port, torn by a change     *)
(* half way, or an ERROR because a file of it could not be read (data is    *)
(* then what it would have said). *)
Readings == {"whole", "torn", "failed"}
Status   == [rev : 0 .. MaxChanges, reading : Readings, data : BOOLEAN]

(* Calls by what they do beside notifying: "other" stands for               *)
(* enableUsbDataWhileDocked, limitPowerTransfer and                        *)
(* enableContaminantPresenceDetection, "swap" for a data or power role.    *)
Ops == {"none", "enable", "disable", "other", "query", "reset", "swap",
        "setCallback"} \cup Modes

Goto(t, place) == pc' = [pc EXCEPT ![t] = place]

Init ==
    /\ partner \in BOOLEAN /\ portType = "dual" /\ rev = 0 /\ uevents = <<>>
    /\ mCallback = FALSE
    /\ mLock = "free" /\ mRoleSwitchLock = "free" /\ mPartnerLock = "free"
    /\ mPartnerUp = FALSE /\ mPartnerCV = "none" /\ mUsbDataEnabled = TRUE
    /\ destroyThread = FALSE /\ sigusr1 = FALSE /\ worker = "none"
    /\ pc = [t \in Threads |-> "idle"] /\ op = "none" /\ result = TRUE
    /\ snap = [t \in Threads |-> [rev |-> 0, reading |-> "whole", data |-> TRUE]]
    /\ calls = 0
    /\ told = [rev |-> 0, reading |-> "whole", data |-> TRUE] /\ acked = TRUE
    /\ heard = 0 /\ answered = FALSE /\ refused = FALSE

(***************************************************************************)
(* The kernel (external)                                                   *)
(***************************************************************************)

Listening == worker = "alive" /\ pc["worker"] # "start"

(* A partner attaches ("add@...-partner") or detaches; the message reaches *)
(* the worker's socket if it is open. *)
PartnerChange ==
    /\ rev < MaxChanges
    /\ rev' = rev + 1 /\ partner' = ~partner
    /\ uevents' = IF Listening
                  THEN Append(uevents, IF partner THEN "remove" ELSE "add")
                  ELSE uevents
    /\ heard' = IF Listening THEN rev + 1 ELSE heard
    /\ UNCHANGED <<portType, mCallback, locks, partnerSync, mUsbDataEnabled, thread,
                   pc, op, result, snap, calls, told2, answered, refused>>

(***************************************************************************)
(* queryVersionHelper, by either thread: the port is listed, its roles are *)
(* read and the framework is notified, all under mLock.                    *)
(***************************************************************************)

(* Seeded fault: the status is put together before mLock is taken. *)
ListPortsUnlocked(t) ==
    /\ pc[t] = "list"
    /\ snap' = [snap EXCEPT ![t].rev = rev]
    /\ Goto(t, "read")
    /\ UNCHANGED <<kernel, mCallback, locks, partnerSync, mUsbDataEnabled, thread,
                   op, result, calls, told2, history>>

ListPorts(t) ==
    /\ pc[t] = "list"
    /\ mLock = "free" /\ mLock' = t
    /\ snap' = [snap EXCEPT ![t].rev = rev]
    /\ Goto(t, "read")
    /\ UNCHANGED <<kernel, mCallback, mRoleSwitchLock, mPartnerLock, partnerSync,
                   mUsbDataEnabled, thread, op, result, calls, told2, history>>

(* The roles of a port without a partner are not read.  accessory_mode of  *)
(* one that was listed and has gone cannot be, and any read may fail. *)
ReadingOf(t) ==
    IF snap[t].rev # rev THEN {"torn"}
    ELSE IF Faults /\ partner THEN {"whole", "failed"} ELSE {"whole"}

ReadPort(t) ==
    /\ pc[t] = "read"
    /\ \E reading \in ReadingOf(t) :
           snap' = [snap EXCEPT ![t].reading = reading, ![t].data = mUsbDataEnabled]
    /\ Goto(t, "notify")
    /\ UNCHANGED <<kernel, mCallback, locks, partnerSync, mUsbDataEnabled, thread,
                   op, result, calls, told2, history>>

NotifyPortStatus(t) ==
    /\ pc[t] = "notify"
    /\ told' = IF mCallback THEN snap[t] ELSE told
    /\ mLock' = "free"
    /\ Goto(t, IF t = "worker" THEN "trylock"
               ELSE IF op = "query" THEN "ack" ELSE "idle")
    /\ UNCHANGED <<kernel, mCallback, mRoleSwitchLock, mPartnerLock, partnerSync,
                   mUsbDataEnabled, thread, op, result, snap, calls, acked, history>>

(***************************************************************************)
(* The binder thread: calls that change no role                            *)
(***************************************************************************)

Call(name) ==
    /\ pc["binder"] = "idle" /\ calls < MaxCalls
    /\ calls' = calls + 1 /\ op' = name

Outcome == IF Faults THEN BOOLEAN ELSE {TRUE}

(* The pull-up and usb_data_enabled are written; both must succeed. *)
enableUsbData(on) ==
    /\ Call(IF on THEN "enable" ELSE "disable")
    /\ result' \in Outcome
    /\ mUsbDataEnabled' = IF result' THEN on ELSE mUsbDataEnabled
    /\ Goto("binder", "ack")
    /\ UNCHANGED <<kernel, mCallback, locks, partnerSync, thread, snap, told2, history>>

CallOther(name, place) ==
    /\ Call(name)
    /\ result' \in Outcome
    /\ Goto("binder", place)
    /\ UNCHANGED <<kernel, mCallback, locks, partnerSync, mUsbDataEnabled, thread,
                   snap, told2, history>>

enableUsbDataWhileDocked           == CallOther("other", "ack")
limitPowerTransfer                 == CallOther("other", "ack")
enableContaminantPresenceDetection == CallOther("other", "ack")
resetUsbPort                       == CallOther("reset", "ack")
queryPortStatus                    == CallOther("query", "list")

(* The call is answered through the callback, under mLock; all but         *)
(* resetUsbPort and queryPortStatus go on to queryVersionHelper.           *)
Acknowledge ==
    /\ pc["binder"] = "ack" /\ mLock = "free"
    /\ acked' = IF op \in {"enable", "disable"} /\ result THEN op = "enable" ELSE acked
    /\ Goto("binder", IF op \in {"query", "reset"} THEN "idle" ELSE "list")
    /\ UNCHANGED <<kernel, mCallback, locks, partnerSync, mUsbDataEnabled, thread,
                   op, result, snap, calls, told, history>>

(***************************************************************************)
(* The binder thread: switchRole                                           *)
(***************************************************************************)

(* A data or power role: written and read back. *)
SwitchOtherRole ==
    /\ Call("swap")
    /\ mRoleSwitchLock = "free" /\ mRoleSwitchLock' = "binder"
    /\ result' \in BOOLEAN
    /\ Goto("binder", "report")
    /\ UNCHANGED <<kernel, mCallback, mLock, mPartnerLock, partnerSync, mUsbDataEnabled,
                   thread, snap, told2, history>>

(* switchMode opens port_type. *)
SwitchMode(m) ==
    /\ Call(m)
    /\ mRoleSwitchLock = "free" /\ mRoleSwitchLock' = "binder"
    /\ result' = FALSE
    /\ \/ Goto("binder", "write")
       \/ Faults /\ Goto("binder", "drp")
    /\ UNCHANGED <<kernel, mCallback, mLock, mPartnerLock, partnerSync, mUsbDataEnabled,
                   thread, snap, told2, history>>

(* Seeded fault: mPartnerLock is not taken before the write. *)
WriteModeUnlocked ==
    /\ pc["binder"] = "write"
    /\ mPartnerUp' = FALSE /\ portType' = op
    /\ Goto("binder", "wait")
    /\ answered' = FALSE
    /\ UNCHANGED <<partner, rev, uevents, mCallback, locks, mPartnerCV, mUsbDataEnabled,
                   thread, op, result, snap, calls, told2, heard, refused>>

(* Seeded fault: convertRoletoString does not know the mode. *)
WriteModeNone ==
    /\ pc["binder"] = "write" /\ mPartnerLock = "free"
    /\ mPartnerUp' = FALSE /\ portType' = "none"
    /\ mPartnerLock' = "binder"
    /\ Goto("binder", "wait")
    /\ answered' = FALSE
    /\ UNCHANGED <<partner, rev, uevents, mCallback, mLock, mRoleSwitchLock, mPartnerCV,
                   mUsbDataEnabled, thread, op, result, snap, calls, told2, heard, refused>>

(* mPartnerLock is taken, mPartnerUp cleared and the mode written.  fputs  *)
(* only fills the buffer of the stream; fclose writes it, and its result   *)
(* is not looked at, so a mode the kernel refuses is waited for all the    *)
(* same. *)
WriteMode ==
    /\ pc["binder"] = "write" /\ mPartnerLock = "free"
    /\ mPartnerUp' = FALSE
    /\ \/ /\ \/ portType' = op /\ refused' = FALSE
             \/ Faults /\ UNCHANGED portType /\ refused' = TRUE
          /\ mPartnerLock' = "binder"
          /\ Goto("binder", "wait")
          /\ answered' = FALSE
       \/ /\ Faults
          /\ Goto("binder", "drp")
          /\ UNCHANGED <<portType, mPartnerLock, answered, refused>>
    /\ UNCHANGED <<partner, rev, uevents, mCallback, mLock, mRoleSwitchLock, mPartnerCV,
                   mUsbDataEnabled, thread, op, result, snap, calls, told2, heard>>

(* pthread_cond_timedwait releases mPartnerLock and blocks. *)
WaitForPartner ==
    /\ pc["binder"] = "wait"
    /\ mPartnerCV' = "waits" /\ mPartnerLock' = "free"
    /\ Goto("binder", "blocked")
    /\ UNCHANGED <<kernel, mCallback, mLock, mRoleSwitchLock, mPartnerUp, mUsbDataEnabled,
                   thread, op, result, snap, calls, told2, history>>

(* PORT_TYPE_TIMEOUT seconds pass, or the wait ends spuriously. *)
LeaveCV(how) ==
    /\ mPartnerCV = "waits" /\ mPartnerCV' = how
    /\ UNCHANGED <<kernel, mCallback, locks, mPartnerUp, mUsbDataEnabled, thread,
                   pc, op, result, snap, calls, told2, history>>

(* The wait returns with mPartnerLock taken again. *)
ReturnFromWait ==
    /\ pc["binder"] = "blocked" /\ mPartnerLock = "free"
    /\ \/ /\ mPartnerCV = "timedout" /\ mPartnerCV' = "none"
          /\ Goto("binder", "drp") /\ UNCHANGED result
       \/ /\ mPartnerCV = "woken" /\ ~mPartnerUp /\ mPartnerCV' = "waits"
          /\ UNCHANGED <<pc, result>>
       \/ /\ mPartnerCV = "woken" /\ mPartnerUp /\ mPartnerCV' = "none"
          /\ result' = TRUE /\ Goto("binder", "report")
    /\ UNCHANGED <<kernel, mCallback, locks, mPartnerUp, mUsbDataEnabled, thread,
                   op, snap, calls, told2, history>>

(* switchToDrp, which only logs a failure. *)
WriteDual == portType' = "dual" \/ (Faults /\ UNCHANGED portType)

SwitchBackToDrp ==
    /\ pc["binder"] = "drp"
    /\ WriteDual
    /\ Goto("binder", "report")
    /\ UNCHANGED <<partner, rev, uevents, mCallback, locks, partnerSync, mUsbDataEnabled,
                   thread, op, result, snap, calls, told2, history>>

(* notifyRoleSwitchStatus, under mLock and mRoleSwitchLock. *)
ReportRoleSwitch ==
    /\ pc["binder"] = "report" /\ mLock = "free"
    /\ mRoleSwitchLock' = "free" /\ refused' = FALSE
    /\ Goto("binder", "idle")
    /\ UNCHANGED <<kernel, mCallback, mLock, mPartnerLock, partnerSync, mUsbDataEnabled,
                   thread, op, result, snap, calls, told2, heard, answered>>

(***************************************************************************)
(* The binder thread: setCallback.  Replacing a callback, or NULL by NULL, *)
(* changes nothing here.                                                   *)
(***************************************************************************)

(* The worker is created; if that fails the callback is forgotten again. *)
Register ==
    /\ Call("setCallback") /\ ~mCallback /\ mLock = "free"
    /\ destroyThread' = FALSE /\ heard' = 0
    /\ \/ /\ mCallback' = TRUE /\ worker' = "alive"
          /\ Goto("worker", "start")
       \/ /\ Faults /\ UNCHANGED <<mCallback, worker, pc>>
    /\ UNCHANGED <<kernel, locks, partnerSync, mUsbDataEnabled, sigusr1,
                   result, snap, told2, answered, refused>>

(* Seeded fault: the worker is signalled but not joined. *)
UnregisterNoJoin ==
    /\ Call("setCallback") /\ mCallback /\ mLock = "free"
    /\ mCallback' = FALSE /\ sigusr1' = (worker = "alive")
    /\ UNCHANGED <<kernel, locks, partnerSync, mUsbDataEnabled, destroyThread, worker,
                   pc, result, snap, told2, history>>

(* The worker is signalled and joined, with mLock held; pthread_kill fails *)
(* if it has exited on its own. *)
Unregister ==
    /\ Call("setCallback") /\ mCallback /\ mLock = "free"
    /\ mCallback' = FALSE
    /\ \/ /\ worker = "alive" /\ sigusr1' = TRUE /\ mLock' = "binder"
          /\ Goto("binder", "join")
       \/ /\ worker # "alive" /\ UNCHANGED <<sigusr1, mLock, pc>>
    /\ UNCHANGED <<kernel, mRoleSwitchLock, mPartnerLock, partnerSync, mUsbDataEnabled,
                   destroyThread, worker, result, snap, told2, history>>

Join ==
    /\ pc["binder"] = "join" /\ worker = "exited"
    /\ worker' = "none" /\ sigusr1' = FALSE /\ mLock' = "free"
    /\ Goto("binder", "idle")
    /\ UNCHANGED <<kernel, mCallback, mRoleSwitchLock, mPartnerLock, partnerSync,
                   mUsbDataEnabled, destroyThread, op, result, snap, calls, told2, history>>

(***************************************************************************)
(* The worker                                                              *)
(***************************************************************************)

(* The netlink socket and the epoll set are created. *)
StartWorker ==
    /\ worker = "alive" /\ pc["worker"] = "start"
    /\ \/ Goto("worker", "test") /\ UNCHANGED worker
       \/ Faults /\ worker' = "exited" /\ Goto("worker", "idle")
    /\ UNCHANGED <<kernel, mCallback, locks, partnerSync, mUsbDataEnabled, destroyThread,
                   sigusr1, op, result, snap, calls, told2, history>>

(* while (!destroyThread) *)
TestDestroy ==
    /\ pc["worker"] = "test"
    /\ \/ destroyThread /\ worker' = "exited" /\ uevents' = <<>> /\ Goto("worker", "idle")
       \/ ~destroyThread /\ Goto("worker", "enter") /\ UNCHANGED <<worker, uevents>>
    /\ UNCHANGED <<partner, portType, rev, mCallback, locks, partnerSync, mUsbDataEnabled,
                   destroyThread, sigusr1, op, result, snap, calls, told2, history>>

(* epoll_wait is entered. *)
EnterEpoll ==
    /\ pc["worker"] = "enter"
    /\ Goto("worker", "epoll")
    /\ UNCHANGED <<kernel, mCallback, locks, partnerSync, mUsbDataEnabled, thread,
                   op, result, snap, calls, told2, history>>

(* SIGUSR1 is delivered: it interrupts epoll_wait, but neither a mutex     *)
(* lock nor an epoll_wait that is yet to come. *)
RunSigHandler ==
    /\ sigusr1 /\ worker = "alive"
    /\ destroyThread' = TRUE /\ sigusr1' = FALSE
    /\ IF pc["worker"] = "epoll" THEN Goto("worker", "test") ELSE UNCHANGED pc
    /\ UNCHANGED <<kernel, mCallback, locks, partnerSync, mUsbDataEnabled, worker,
                   op, result, snap, calls, told2, history>>

(* uevent_event takes one message; the header line of an attachment        *)
(* matches the regular expression, its DEVTYPE line comes after it. *)
ReceiveUevent ==
    /\ pc["worker"] = "epoll" /\ uevents # <<>>
    /\ uevents' = Tail(uevents)
    /\ Goto("worker", IF Head(uevents) = "add" THEN "partner" ELSE "list")
    /\ UNCHANGED <<partner, portType, rev, mCallback, locks, partnerSync, mUsbDataEnabled,
                   thread, op, result, snap, calls, told2, history>>

(* Seeded fault: the rest of an attachment's message is not looked at. *)
SignalPartnerUpOnly ==
    /\ pc["worker"] = "partner" /\ mPartnerLock = "free"
    /\ mPartnerUp' = TRUE /\ answered' = TRUE
    /\ mPartnerCV' = IF mPartnerCV = "waits" THEN "woken" ELSE mPartnerCV
    /\ Goto("worker", "test")
    /\ UNCHANGED <<kernel, mCallback, locks, mUsbDataEnabled, thread, op, result, snap,
                   calls, told2, heard, refused>>

SignalPartnerUp ==
    /\ pc["worker"] = "partner" /\ mPartnerLock = "free"
    /\ mPartnerUp' = TRUE /\ answered' = TRUE
    /\ mPartnerCV' = IF mPartnerCV = "waits" THEN "woken" ELSE mPartnerCV
    /\ Goto("worker", "list")
    /\ UNCHANGED <<kernel, mCallback, locks, mUsbDataEnabled, thread, op, result, snap,
                   calls, told2, heard, refused>>

(* Seeded fault: the result of pthread_mutex_trylock is not looked at. *)
TryRoleSwitchLockIgnored ==
    /\ pc["worker"] = "trylock"
    /\ mRoleSwitchLock' = "worker" /\ Goto("worker", "check")
    /\ UNCHANGED <<kernel, mCallback, mLock, mPartnerLock, partnerSync, mUsbDataEnabled,
                   thread, op, result, snap, calls, told2, history>>

TryRoleSwitchLock ==
    /\ pc["worker"] = "trylock"
    /\ \/ /\ mRoleSwitchLock = "free"
          /\ mRoleSwitchLock' = "worker" /\ Goto("worker", "check")
       \/ /\ mRoleSwitchLock # "free"
          /\ UNCHANGED mRoleSwitchLock /\ Goto("worker", "test")
    /\ UNCHANGED <<kernel, mCallback, mLock, mPartnerLock, partnerSync, mUsbDataEnabled,
                   thread, op, result, snap, calls, told2, history>>

(* opendir of the partner directory. *)
CheckPartner ==
    /\ pc["worker"] = "check"
    /\ \/ partner /\ mRoleSwitchLock' = "free" /\ Goto("worker", "test")
       \/ ~partner /\ UNCHANGED mRoleSwitchLock /\ Goto("worker", "drp")
    /\ UNCHANGED <<kernel, mCallback, mLock, mPartnerLock, partnerSync, mUsbDataEnabled,
                   thread, op, result, snap, calls, told2, history>>

RestoreDrp ==
    /\ pc["worker"] = "drp"
    /\ WriteDual
    /\ mRoleSwitchLock' = "free" /\ Goto("worker", "test")
    /\ UNCHANGED <<partner, rev, uevents, mCallback, mLock, mPartnerLock, partnerSync,
                   mUsbDataEnabled, thread, op, result, snap, calls, told2, history>>

(***************************************************************************)
(* The system                                                              *)
(***************************************************************************)

NewCall ==
    \/ \E on \in BOOLEAN : enableUsbData(on)
    \/ enableUsbDataWhileDocked \/ limitPowerTransfer
    \/ enableContaminantPresenceDetection \/ resetUsbPort \/ queryPortStatus
    \/ SwitchOtherRole \/ (\E m \in Modes : SwitchMode(m))
    \/ Register \/ Unregister

BinderStep ==
    \/ ListPorts("binder") \/ ReadPort("binder") \/ NotifyPortStatus("binder")
    \/ Acknowledge
    \/ WriteMode \/ WaitForPartner \/ ReturnFromWait \/ SwitchBackToDrp \/ ReportRoleSwitch
    \/ Join

WorkerStep ==
    \/ StartWorker \/ TestDestroy \/ EnterEpoll \/ ReceiveUevent \/ SignalPartnerUp
    \/ ListPorts("worker") \/ ReadPort("worker") \/ NotifyPortStatus("worker")
    \/ TryRoleSwitchLock \/ CheckPartner \/ RestoreDrp

Timeout == LeaveCV("timedout")
Spurious == LeaveCV("woken")

Next ==
    \/ NewCall \/ BinderStep \/ WorkerStep \/ RunSigHandler
    \/ Timeout \/ Spurious \/ PartnerChange

(* Both threads are scheduled, a signal is delivered and a timed wait ends; *)
(* nobody has to call, attach or detach anything. *)
Fairness ==
    /\ WF_vars(BinderStep) /\ WF_vars(WorkerStep)
    /\ WF_vars(RunSigHandler) /\ WF_vars(Timeout)

Spec == Init /\ [][Next]_vars /\ Fairness

(***************************************************************************)
(* Properties                                                              *)
(***************************************************************************)

BinderPlaces == {"idle", "list", "read", "notify", "ack", "write", "wait", "blocked", "drp",
                 "report", "join"}
WorkerPlaces == {"idle", "start", "test", "enter", "epoll", "partner", "list", "read", "notify",
                 "trylock", "check", "drp"}

TypeOK ==
    /\ partner \in BOOLEAN /\ portType \in Modes \cup {"dual"}
    /\ rev \in 0 .. MaxChanges /\ heard \in 0 .. MaxChanges
    /\ uevents \in Seq({"add", "remove"})
    /\ mCallback \in BOOLEAN /\ mPartnerUp \in BOOLEAN /\ mUsbDataEnabled \in BOOLEAN
    /\ destroyThread \in BOOLEAN /\ sigusr1 \in BOOLEAN /\ result \in BOOLEAN
    /\ acked \in BOOLEAN /\ answered \in BOOLEAN /\ refused \in BOOLEAN
    /\ mLock \in Holders /\ mRoleSwitchLock \in Holders /\ mPartnerLock \in Holders
    /\ mPartnerCV \in {"none", "waits", "woken", "timedout"}
    /\ DOMAIN pc = Threads
    /\ pc["binder"] \in BinderPlaces /\ pc["worker"] \in WorkerPlaces
    /\ op \in Ops /\ calls \in 0 .. MaxCalls
    /\ worker \in {"none", "alive", "exited"}
    /\ snap \in [Threads -> Status] /\ told \in Status

(* "Hold the lock here to prevent loosing connected signals as once the    *)
(* file is written the partner added signal can arrive anytime"            *)
(* (Usb.cpp:327): switchMode never sleeps on after the worker has handled  *)
(* the attachment that answers its write. *)
NoLostPartnerSignal == mPartnerCV = "waits" => ~answered

(* A mode switch reported as successful is in force: no uevent handled     *)
(* between the write of port_type and the report has put it back to dual.  *)
(* The exception is a mode the kernel has refused: "Role switch succeeded  *)
(* since usb->mPartnerUp is true" (Usb.cpp:351) is not so then, for any    *)
(* attachment in the PORT_TYPE_TIMEOUT seconds is taken for the answer.    *)
ReportedModeInForce ==
    pc["binder"] = "report" /\ op \in Modes /\ result => portType = op \/ refused

(* After setCallback(NULL) has returned, and whenever no callback is       *)
(* registered, no worker is left that could use the object or miss being   *)
(* joined by the next registration (Usb.cpp:848). *)
NoWorkerWithoutCallback ==
    ~mCallback /\ pc["binder"] = "idle" => worker # "alive"

(* The binder thread and the worker both report the port status, in the    *)
(* order they read it: the framework never goes back to an older one. *)
NotificationsInOrder == [][told'.rev >= told.rev]_vars

(* Once enableUsbData has been answered with SUCCESS, every port status    *)
(* notified agrees with the answer, until the next call changes it. *)
StatusFollowsAck ==
    [][told' # told /\ pc["binder"] # "ack" => told'.data = acked]_vars

(* Every attachment or detachment the worker's socket has received is      *)
(* reported, untorn (though as an ERROR if a file could not be read),      *)
(* unless the callback is gone: a change while a status is being put       *)
(* together leads to another one. *)
EveryChangeReported ==
    \A n \in 1 .. MaxChanges :
        heard >= n /\ mCallback ~> (told.rev >= n /\ told.reading # "torn") \/ ~mCallback

(* "Set by the signal handler to destroy the thread" (Usb.cpp:48). *)
DestroyEndsThread == destroyThread ~> worker # "alive"
=============================================================================
