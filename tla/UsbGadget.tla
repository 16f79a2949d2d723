------------------------------ MODULE UsbGadget ------------------------------
(***************************************************************************)
(* The USB gadget HAL (UsbGadget.cpp): two hwbinder threads that serve     *)
(* setCurrentUsbFunctions, getCurrentUsbFunctions and reset, the monitor   *)
(* of FunctionFS descriptors (external, libpixelusb) with a thread of its  *)
(* own, the gadget in configfs they share (external, the kernel), and the  *)
(* USB HAL (Usb.cpp), a process that writes the same UDC node.             *)
(***************************************************************************)
EXTENDS Naturals, Sequences, Functions

CONSTANTS
    Threads,      \* the hwbinder threads
    Requests,     \* sets of functions the framework asks for, {} for NONE
    Vendor,       \* getVendorFunctions(), the list of usbradio functions
    MaxCalls,     \* bound: calls of the gadget HAL
    MaxDaemon,    \* bound: starts and deaths of FunctionFS daemons
    PortHal,      \* does the USB HAL write the UDC node too?
    Faults        \* may writes and links in configfs fail?

ASSUME ConstantsOK ==
    /\ {} \in Requests
    /\ MaxCalls \in Nat /\ MaxDaemon \in Nat
    /\ {PortHal, Faults} \subseteq BOOLEAN

VARIABLES
    \* The kernel and the FunctionFS daemons.
    linked,       \* functions linked into the configuration
    udc,          \* functions the host sees; {}: pulled down
    daemons,      \* FunctionFS functions whose descriptors are written
    changes,      \* starts and deaths of daemons so far
    \* struct UsbGadget.
    mCurrentUsbFunctions, mCurrentUsbFunctionsApplied,
    mLockSetCurrentFunction,
    \* The monitor.
    monitor,      \* its thread: "off", "watches" or "pulledUp" (callback due)
    watched,      \* the functions it was started for
    wants,        \* is it to pull up when all descriptors are there?
    gadgetPullup,
    \* The threads.
    pc, request, hasCallback, status, calls,
    report,       \* what getCurrentUsbFunctions has read so far
    answers,      \* setCurrentUsbFunctionsCb calls for the request served
    port,         \* where the USB HAL stands
    \* History.
    upSince       \* the set pulled up last since the links were removed

configfs == <<linked, udc, upSince>>
outside  == <<daemons, changes, port>>
gadget   == <<mCurrentUsbFunctions, mCurrentUsbFunctionsApplied>>
mon      == <<monitor, watched, wants, gadgetPullup>>
serving  == <<request, hasCallback, calls>>
vars == <<configfs, outside, gadget, mLockSetCurrentFunction, mon, serving,
          pc, status, report, answers>>

NothingYet == {"boot"}     \* upSince before the first request

(***************************************************************************)
(* Functions                                                               *)
(***************************************************************************)

Ffs == {"adb", "mtp", "ptp"}

VendorFunctions ==
    {"diag", "diag_mdm", "qdss", "qdss_mdm", "serial_cdev", "dpl_gsi", "rmnet_gsi"}

VendorLinks == Range(Vendor) \cap VendorFunctions

(* All that is linked for a request. *)
Complete(functions) ==
    IF functions = {} THEN {} ELSE functions \cup VendorLinks

Plain == {<<>>, <<"user">>}
Diag  == <<"diag">>
Modem == <<"diag", "diag_mdm", "qdss", "qdss_mdm", "serial_cdev", "dpl_gsi">>

(* Vendor lists validateAndSetVidPid has a product ID for. *)
VendorLists(functions) ==
    LET class == functions \ {"adb"} IN
    CASE functions = {"adb"} ->
            Plain \cup {Diag, <<"diag", "serial_cdev", "rmnet_gsi">>,
                        <<"diag", "serial_cdev">>, Modem \o <<"rmnet_gsi">>}
      [] class = {"mtp"}   -> Plain \cup {Diag}
      [] class = {"rndis"} -> Plain \cup {Diag, <<"serial_cdev", "diag">>, Modem}
      [] class \in {{"ptp"}, {"midi"}} -> Plain
      [] class # {} /\ class \subseteq {"accessory", "audio_source"} -> {Vendor}
      [] OTHER -> {}

(***************************************************************************)
(* The gadget in configfs (external)                                       *)
(***************************************************************************)

(* The kernel binds the configuration unless it is bound already, is empty *)
(* or has a FunctionFS function without descriptors.                       *)
CanBind == udc = {} /\ linked # {} /\ linked \cap Ffs \subseteq daemons

Bind ==
    /\ udc' = linked /\ upSince' = linked
    /\ UNCHANGED linked

Link(set) ==
    /\ linked' = linked \cup set
    /\ UNCHANGED <<udc, upSince>>

PullDownUdc ==
    /\ udc' = {}
    /\ UNCHANGED <<linked, upSince>>

(* A daemon writes its descriptors, or dies: then the kernel unbinds. *)
DaemonChange(f) ==
    /\ changes < MaxDaemon /\ changes' = changes + 1
    /\ \/ f \notin daemons /\ daemons' = daemons \cup {f} /\ UNCHANGED udc
       \/ /\ f \in daemons /\ daemons' = daemons \ {f}
          /\ udc' = IF f \in udc THEN {} ELSE udc
    /\ UNCHANGED <<linked, upSince, port, gadget, mLockSetCurrentFunction, mon,
                   serving, pc, status, report, answers>>

(***************************************************************************)
(* The monitor thread (external).  "Monitors the ffs paths to pull up the  *)
(* gadget when descriptors are written.  Also takes of the pulling up the  *)
(* gadget again if the userspace process dies and restarts."               *)
(* (UsbGadget.cpp:278)                                                     *)
(***************************************************************************)

MonitorSeesDeath ==
    /\ monitor = "watches" /\ ~wants
    /\ ~(watched \cap Ffs \subseteq daemons)
    /\ wants' = TRUE
    /\ UNCHANGED <<configfs, outside, gadget, mLockSetCurrentFunction, monitor, watched,
                   gadgetPullup, serving, pc, status, report, answers>>

MonitorPullsUp ==
    /\ monitor = "watches" /\ wants /\ watched \cap Ffs \subseteq daemons
    /\ CanBind /\ Bind
    /\ monitor' = "pulledUp" /\ wants' = FALSE
    /\ UNCHANGED <<outside, gadget, mLockSetCurrentFunction, watched, gadgetPullup,
                   serving, pc, status, report, answers>>

currentFunctionsAppliedCallback ==
    /\ monitor = "pulledUp"
    /\ mCurrentUsbFunctionsApplied' = TRUE /\ gadgetPullup' = TRUE
    /\ monitor' = "watches"
    /\ UNCHANGED <<configfs, outside, mCurrentUsbFunctions, mLockSetCurrentFunction,
                   watched, wants, serving, pc, status, report, answers>>

(***************************************************************************)
(* The USB HAL: enableUsbData and resetUsbPort, as far as they touch the   *)
(* UDC node.  enableUsbData writes only if what it has read calls for it.  *)
(***************************************************************************)

PortReads(on) ==
    /\ PortHal /\ port = "idle"
    /\ IF on THEN udc = {} ELSE udc # {}
    /\ port' = IF on THEN "up" ELSE "down"
    /\ UNCHANGED <<configfs, daemons, changes, gadget, mLockSetCurrentFunction, mon,
                   serving, pc, status, report, answers>>

PortWrites ==
    /\ \/ port = "up" /\ CanBind /\ Bind
       \/ port = "up" /\ ~CanBind /\ UNCHANGED configfs
       \/ port = "down" /\ PullDownUdc
    /\ port' = "idle"
    /\ UNCHANGED <<daemons, changes, gadget, mLockSetCurrentFunction, mon, serving,
                   pc, status, report, answers>>

PortResets ==
    /\ PortHal /\ port = "idle" /\ PullDownUdc
    /\ UNCHANGED <<outside, gadget, mLockSetCurrentFunction, mon, serving,
                   pc, status, report, answers>>

(***************************************************************************)
(* setCurrentUsbFunctions                                                  *)
(***************************************************************************)

Goto(t, place) == pc' = [pc EXCEPT ![t] = place]
At(t, place)   == pc[t] = place

Proceed(t, place) ==
    /\ Goto(t, place)
    /\ UNCHANGED <<outside, gadget, mLockSetCurrentFunction, mon, serving,
                   status, report, answers>>

(* "goto error". *)
Fail(t) ==
    /\ status' = [status EXCEPT ![t] = "ERROR"]
    /\ Goto(t, "error")
    /\ UNCHANGED <<outside, gadget, mLockSetCurrentFunction, mon, serving, report, answers>>

Answer(t) == answers' = [answers EXCEPT ![t] = IF hasCallback[t] THEN @ + 1 ELSE @]

(* setCurrentUsbFunctionsCb is called, if there is a callback. *)
Tell(t, result) ==
    /\ status' = [status EXCEPT ![t] = result]
    /\ Answer(t)
    /\ Goto(t, "return")
    /\ UNCHANGED <<outside, mCurrentUsbFunctions, mLockSetCurrentFunction, mon, serving,
                   report>>

setCurrentUsbFunctions(t, functions, callback) ==
    /\ At(t, "idle") /\ calls < MaxCalls
    /\ calls' = calls + 1
    /\ request' = [request EXCEPT ![t] = functions]
    /\ hasCallback' = [hasCallback EXCEPT ![t] = callback]
    /\ answers' = [answers EXCEPT ![t] = 0]
    /\ Goto(t, "lock")
    /\ UNCHANGED <<configfs, outside, gadget, mLockSetCurrentFunction, mon, status, report>>

(* Seeded fault: the lock is not taken. *)
SetFunctionsUnlocked(t) ==
    /\ At(t, "lock")
    /\ mCurrentUsbFunctions' = request[t]
    /\ Goto(t, "clear")
    /\ UNCHANGED <<configfs, outside, mCurrentUsbFunctionsApplied, mLockSetCurrentFunction,
                   mon, serving, status, report, answers>>

SetFunctions(t) ==
    /\ At(t, "lock")
    /\ mLockSetCurrentFunction = {} /\ mLockSetCurrentFunction' = {t}
    /\ mCurrentUsbFunctions' = request[t]
    /\ Goto(t, "clear")
    /\ UNCHANGED <<configfs, outside, mCurrentUsbFunctionsApplied, mon, serving,
                   status, report, answers>>

ClearApplied(t) ==
    /\ At(t, "clear")
    /\ mCurrentUsbFunctionsApplied' = FALSE
    /\ Goto(t, "down")
    /\ UNCHANGED <<configfs, outside, mCurrentUsbFunctions, mLockSetCurrentFunction, mon,
                   serving, status, report, answers>>

(* tearDownGadget: resetGadget (external) pulls down the gadget and then   *)
(* removes its links; only if that succeeds is the monitor stopped.        *)
PullDown(t) ==
    /\ At(t, "down")
    /\ PullDownUdc
    /\ \/ Proceed(t, "unlink")
       \/ Faults /\ Fail(t)

Unlink(t) ==
    /\ At(t, "unlink")
    /\ linked' = {} /\ udc' = {} /\ upSince' = {}
    /\ Proceed(t, "stop")

(* Seeded fault: the monitor is left running. *)
StopMonitorNot(t) ==
    /\ At(t, "stop") /\ UNCHANGED configfs /\ Proceed(t, "sleep")

(* monitorFfs.reset joins the monitor's thread. *)
StopMonitor(t) ==
    /\ At(t, "stop") /\ monitor # "pulledUp"
    /\ monitor' = "off" /\ gadgetPullup' = FALSE
    /\ Goto(t, "sleep")
    /\ UNCHANGED <<configfs, outside, gadget, mLockSetCurrentFunction, watched, wants,
                   serving, status, report, answers>>

(* kDisconnectWaitUs later; NONE ends here. *)
Disconnected(t) ==
    /\ At(t, "sleep") /\ UNCHANGED configfs
    /\ \/ request[t] # {} /\ Proceed(t, "ids")
       \/ /\ request[t] = {} /\ Tell(t, "SUCCESS")
          /\ UNCHANGED mCurrentUsbFunctionsApplied

validateAndSetVidPid(t) ==
    /\ At(t, "ids")
    /\ UNCHANGED configfs
    /\ \/ Vendor \in VendorLists(request[t]) /\ Proceed(t, "generic")
       \/ /\ Faults \/ Vendor \notin VendorLists(request[t])
          /\ Fail(t)

(***************************************************************************)
(* setupFunctions: links the generic functions, those of the vendor and    *)
(* adb, then pulls up the gadget or leaves that to the monitor.            *)
(***************************************************************************)

LinkStep(t, here, set, next) ==
    /\ At(t, here)
    /\ \/ Link(set) /\ Proceed(t, next)
       \/ /\ Faults /\ \E some \in SUBSET set : some # set /\ Link(some)
          /\ Fail(t)

addGenericAndroidFunctions(t) == LinkStep(t, "generic", request[t] \ {"adb"}, "vendor")
LinkVendorFunctions(t)        == LinkStep(t, "vendor", VendorLinks, "adb")
addAdb(t) ==
    LinkStep(t, "adb", request[t] \cap {"adb"},
             IF request[t] \cap Ffs = {} THEN "pullup" ELSE "monitor")

PullUp(t) ==
    /\ At(t, "pullup")
    /\ \/ /\ CanBind /\ Bind
          /\ mCurrentUsbFunctionsApplied' = TRUE
          /\ Tell(t, "SUCCESS")
       \/ (Faults \/ ~CanBind) /\ UNCHANGED configfs /\ Fail(t)

startMonitor(t) ==
    /\ At(t, "monitor")
    /\ monitor' = "watches" /\ watched' = request[t] /\ wants' = TRUE
    /\ Goto(t, IF hasCallback[t] THEN "wait" ELSE "return")
    /\ UNCHANGED <<configfs, outside, gadget, mLockSetCurrentFunction, gadgetPullup,
                   serving, status, report, answers>>

(* Seeded fault: the framework is told of a time-out, and ERROR returned. *)
waitForPullUpFails(t) ==
    /\ At(t, "wait") /\ Answer(t)
    /\ status' = [status EXCEPT ![t] = IF gadgetPullup THEN "SUCCESS" ELSE "ERROR"]
    /\ Goto(t, IF gadgetPullup THEN "return" ELSE "error")
    /\ UNCHANGED <<configfs, outside, gadget, mLockSetCurrentFunction, mon, serving, report>>

(* Seeded fault: the wait has no time limit. *)
waitForPullUpForever(t) ==
    /\ At(t, "wait") /\ gadgetPullup /\ Tell(t, "SUCCESS")
    /\ UNCHANGED <<configfs, mCurrentUsbFunctionsApplied>>

(* It returns at once if the gadget is up already, else when it is pulled  *)
(* up or "timeout" milliseconds have passed. *)
waitForPullUp(t) ==
    /\ At(t, "wait") /\ Tell(t, IF gadgetPullup THEN "SUCCESS" ELSE "ERROR")
    /\ UNCHANGED <<configfs, mCurrentUsbFunctionsApplied>>

ReportError(t) ==
    /\ At(t, "error") /\ Answer(t) /\ Goto(t, "return")
    /\ UNCHANGED <<configfs, outside, gadget, mLockSetCurrentFunction, mon, serving,
                   status, report>>

Return(t) ==
    /\ At(t, "return") /\ Goto(t, "idle")
    /\ mLockSetCurrentFunction' = mLockSetCurrentFunction \ {t}
    /\ UNCHANGED <<configfs, outside, gadget, mon, serving, status, report, answers>>

(***************************************************************************)
(* getCurrentUsbFunctions and reset, which take no lock                    *)
(***************************************************************************)

getCurrentUsbFunctions(t) ==
    /\ At(t, "idle") /\ calls < MaxCalls /\ calls' = calls + 1
    /\ Goto(t, "read")
    /\ UNCHANGED <<configfs, outside, gadget, mLockSetCurrentFunction, mon, request,
                   hasCallback, status, report, answers>>

(* The two arguments of the callback are evaluated in either order. *)
ReadFunctions(t) ==
    /\ pc[t] \in {"read", "appliedRead"}
    /\ report' = [report EXCEPT ![t].functions = mCurrentUsbFunctions]
    /\ Goto(t, IF pc[t] = "read" THEN "functionsRead" ELSE "tell")
    /\ UNCHANGED <<configfs, outside, gadget, mLockSetCurrentFunction, mon, serving,
                   status, answers>>

ReadApplied(t) ==
    /\ pc[t] \in {"read", "functionsRead"}
    /\ report' = [report EXCEPT ![t].applied = mCurrentUsbFunctionsApplied]
    /\ Goto(t, IF pc[t] = "read" THEN "appliedRead" ELSE "tell")
    /\ UNCHANGED <<configfs, outside, gadget, mLockSetCurrentFunction, mon, serving,
                   status, answers>>

getCurrentUsbFunctionsCb(t) ==
    /\ At(t, "tell") /\ UNCHANGED configfs /\ Proceed(t, "idle")

reset(t) ==
    /\ At(t, "idle") /\ calls < MaxCalls /\ calls' = calls + 1
    /\ PullDownUdc
    /\ UNCHANGED <<outside, gadget, mLockSetCurrentFunction, mon, request, hasCallback,
                   pc, status, report, answers>>

(***************************************************************************)
(* The system.  The members of UsbGadget have no initial value.            *)
(***************************************************************************)

Init ==
    /\ linked = {} /\ udc = {} /\ changes = 0
    /\ daemons = Ffs \cap UNION Requests
    /\ mCurrentUsbFunctions \in Requests /\ mCurrentUsbFunctionsApplied \in BOOLEAN
    /\ mLockSetCurrentFunction = {}
    /\ monitor = "off" /\ watched = {} /\ wants = FALSE /\ gadgetPullup = FALSE
    /\ pc = [t \in Threads |-> "idle"] /\ calls = 0
    /\ request = [t \in Threads |-> {}] /\ hasCallback = [t \in Threads |-> TRUE]
    /\ status = [t \in Threads |-> "SUCCESS"] /\ answers = [t \in Threads |-> 1]
    /\ report = [t \in Threads |-> [functions |-> {}, applied |-> FALSE]]
    /\ port = "idle"
    /\ upSince = NothingYet

Serve(t) ==
    \/ SetFunctions(t) \/ ClearApplied(t)
    \/ PullDown(t) \/ Unlink(t) \/ StopMonitor(t) \/ Disconnected(t)
    \/ validateAndSetVidPid(t)
    \/ addGenericAndroidFunctions(t) \/ LinkVendorFunctions(t) \/ addAdb(t)
    \/ PullUp(t) \/ startMonitor(t) \/ waitForPullUp(t)
    \/ ReportError(t) \/ Return(t)
    \/ ReadFunctions(t) \/ ReadApplied(t) \/ getCurrentUsbFunctionsCb(t)

Monitor == MonitorSeesDeath \/ MonitorPullsUp \/ currentFunctionsAppliedCallback

Next ==
    \/ \E t \in Threads :
        \/ Serve(t) \/ getCurrentUsbFunctions(t) \/ reset(t)
        \/ \E f \in Requests, c \in BOOLEAN : setCurrentUsbFunctions(t, f, c)
    \/ Monitor
    \/ \E f \in Ffs \cap UNION Requests : DaemonChange(f)
    \/ (\E on \in BOOLEAN : PortReads(on)) \/ PortWrites \/ PortResets

(* The threads of the service are scheduled, the monitor's included; calls *)
(* and daemons come or not.                                                *)
Fairness == (\A t \in Threads : WF_vars(Serve(t))) /\ WF_vars(Monitor)

Spec == Init /\ [][Next]_vars /\ Fairness

(***************************************************************************)
(* Properties                                                              *)
(***************************************************************************)

Places == {"idle", "lock", "clear", "down", "unlink", "stop", "sleep", "ids", "generic",
           "vendor", "adb", "pullup", "monitor", "wait", "error", "return",
           "read", "functionsRead", "appliedRead", "tell"}

Funcs == Ffs \cup VendorFunctions \cup UNION Requests

TypeOK ==
    /\ linked \subseteq Funcs /\ udc \subseteq Funcs /\ daemons \subseteq Funcs
    /\ mCurrentUsbFunctions \in Requests /\ watched \in Requests
    /\ mCurrentUsbFunctionsApplied \in BOOLEAN /\ wants \in BOOLEAN
    /\ gadgetPullup \in BOOLEAN
    /\ mLockSetCurrentFunction \in SUBSET Threads
    /\ monitor \in {"off", "watches", "pulledUp"}
    /\ pc \in [Threads -> Places] /\ calls \in 0 .. MaxCalls
    /\ request \in [Threads -> Requests] /\ hasCallback \in [Threads -> BOOLEAN]
    /\ status \in [Threads -> {"SUCCESS", "ERROR"}] /\ answers \in [Threads -> 0 .. 1]
    /\ report \in [Threads -> [functions : Requests, applied : BOOLEAN]]
    /\ port \in {"idle", "up", "down"}

(* "Pull up the gadget right away when there are no ffs functions"         *)
(* (UsbGadget.cpp:267), else wait for the monitor: when the framework is   *)
(* told SUCCESS, the host has been shown the whole set it asked for,       *)
(* whatever the other thread, the daemons and the USB HAL did meanwhile.   *)
SuccessMeansPulledUp ==
    \A t \in Threads :
        At(t, "return") /\ status[t] = "SUCCESS" /\ hasCallback[t] /\ request[t] # {}
            => upSince = Complete(request[t]) /\ mCurrentUsbFunctions = request[t]

(* The monitor, started for one request, never pulls up the links of a     *)
(* later one while they are still incomplete. *)
MonitorPullsUpWhole ==
    [][monitor = "watches" /\ monitor' = "pulledUp" => udc' = Complete(watched)]_vars

(* Every request with a callback is answered exactly once, whether it ends *)
(* in setupFunctions, in the error path or with NONE. *)
AnsweredOnce ==
    \A t \in Threads :
        At(t, "idle") => answers[t] = IF hasCallback[t] THEN 1 ELSE 0

(* Every call returns: neither the lock, nor the join of the monitor, nor  *)
(* the wait for a daemon that never comes blocks a thread for ever. *)
EveryCallReturns == \A t \in Threads : ~At(t, "idle") ~> At(t, "idle")
=============================================================================
