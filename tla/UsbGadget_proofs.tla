--------------------------- MODULE UsbGadget_proofs ---------------------------
(***************************************************************************)
(* Proofs about UsbGadget for any number of hwbinder threads, any requests *)
(* and any vendor functions, with or without the USB HAL beside it.        *)
(***************************************************************************)
EXTENDS UsbGadget, TLAPS

(***************************************************************************)
(* The inductive invariant                                                 *)
(***************************************************************************)

(* Where a thread stands while it has mLockSetCurrentFunction. *)
Held == {"clear", "down", "unlink", "stop", "sleep", "ids", "generic", "vendor", "adb",
         "pullup", "monitor", "wait", "error", "return"}

(* One thread at a time is past the lock. *)
LockHeld ==
    /\ \A t \in Threads : t \in mLockSetCurrentFunction <=> pc[t] \in Held
    /\ \A t, u \in mLockSetCurrentFunction : t = u

(* From resetGadget on, while no monitor runs, exactly what the request    *)
(* has got to is linked; a thread at "stop" has no links, so the monitor   *)
(* it has still to join cannot pull up.                                    *)
LinksInStep ==
    \A t \in Threads :
        /\ pc[t] \in Held => mCurrentUsbFunctions = request[t]
        /\ pc[t] \in {"ids", "generic", "vendor", "adb", "pullup", "monitor", "wait"}
              => request[t] # {}
        /\ pc[t] \in {"stop", "sleep", "ids", "generic"} => linked = {}
        /\ pc[t] = "vendor" => linked = request[t] \ {"adb"}
        /\ pc[t] = "adb" => linked = (request[t] \ {"adb"}) \cup VendorLinks
        /\ pc[t] \in {"pullup", "monitor", "wait"} => linked = Complete(request[t])
        /\ pc[t] \in {"sleep", "ids", "generic", "vendor", "adb", "pullup", "monitor"}
              => monitor = "off" /\ ~gadgetPullup

(* A monitor that runs has the links of its own request before it, or none. *)
MonitorInStep == monitor # "off" => linked = {} \/ linked = Complete(watched)

(* A thread that waits for the monitor, and one that returns SUCCESS.      *)
PulledUp ==
    \A t \in Threads :
        /\ pc[t] = "wait" /\ (gadgetPullup \/ monitor = "pulledUp")
              => upSince = Complete(request[t])
        /\ pc[t] = "error" => status[t] = "ERROR"
        /\ pc[t] = "return" /\ status[t] = "SUCCESS" /\ hasCallback[t] /\ request[t] # {}
              => upSince = Complete(request[t]) /\ linked = Complete(request[t])

(* No answer before the end of a request, one after it.                    *)
Unanswered == {"lock"} \cup (Held \ {"return"})

AnswersCounted ==
    \A t \in Threads :
        answers[t] = IF pc[t] \in Unanswered \/ ~hasCallback[t] THEN 0 ELSE 1

GadgetInv ==
    TypeOK /\ LockHeld /\ LinksInStep /\ MonitorInStep /\ PulledUp /\ AnswersCounted

(***************************************************************************)
(* Every step preserves it                                                 *)
(***************************************************************************)

(* The type invariant in parts: the sets of functions, the flags, the      *)
(* threads. *)
SetsOK ==
    /\ linked \subseteq Funcs /\ udc \subseteq Funcs /\ daemons \subseteq Funcs
    /\ mCurrentUsbFunctions \in Requests /\ watched \in Requests
    /\ request \in [Threads -> Requests]
    /\ mLockSetCurrentFunction \subseteq Threads

FlagsOK ==
    /\ mCurrentUsbFunctionsApplied \in BOOLEAN /\ wants \in BOOLEAN
    /\ gadgetPullup \in BOOLEAN /\ hasCallback \in [Threads -> BOOLEAN]

ThreadsOK ==
    /\ monitor \in {"off", "watches", "pulledUp"} /\ port \in {"idle", "up", "down"}
    /\ pc \in [Threads -> Places] /\ calls \in 0 .. MaxCalls
    /\ status \in [Threads -> {"SUCCESS", "ERROR"}]
    /\ answers \in [Threads -> 0 .. 1]

ReportOK == report \in [Threads -> [functions : Requests, applied : BOOLEAN]]

LEMMA TypeParts == TypeOK <=> SetsOK /\ FlagsOK /\ ThreadsOK /\ ReportOK
BY DEF TypeOK, SetsOK, FlagsOK, ThreadsOK, ReportOK

(* Only requested functions and those of the vendor are linked or bound. *)
LEMMA SetsStep == GadgetInv /\ [Next]_vars => SetsOK'
<1> SUFFICES ASSUME GadgetInv, [Next]_vars PROVE SetsOK'
  OBVIOUS
<1> USE DEF SetsOK, Funcs, VendorLinks, At, Goto, Proceed, Fail, configfs, outside,
        gadget, mon, serving
<1>0. SetsOK /\ FlagsOK /\ ThreadsOK /\ ReportOK
  BY TypeParts DEF GadgetInv
<1>1. ASSUME NEW t \in Threads, SetFunctions(t) PROVE SetsOK'
  BY <1>0, <1>1 DEF SetFunctions
<1>2. ASSUME NEW t \in Threads, ClearApplied(t) PROVE SetsOK'
  BY <1>0, <1>2 DEF ClearApplied
<1>3. ASSUME NEW t \in Threads, PullDown(t) PROVE SetsOK'
  BY <1>0, <1>3 DEF PullDown, PullDownUdc
<1>4. ASSUME NEW t \in Threads, Unlink(t) PROVE SetsOK'
  BY <1>0, <1>4 DEF Unlink
<1>5. ASSUME NEW t \in Threads, StopMonitor(t) PROVE SetsOK'
  BY <1>0, <1>5 DEF StopMonitor
<1>6. ASSUME NEW t \in Threads, Disconnected(t) PROVE SetsOK'
  BY <1>0, <1>6 DEF Disconnected, Tell, Answer
<1>7. ASSUME NEW t \in Threads, validateAndSetVidPid(t) PROVE SetsOK'
  BY <1>0, <1>7 DEF validateAndSetVidPid
<1>8. ASSUME NEW t \in Threads, addGenericAndroidFunctions(t) PROVE SetsOK'
  BY <1>0, <1>8 DEF addGenericAndroidFunctions, LinkStep, Link
<1>9. ASSUME NEW t \in Threads, LinkVendorFunctions(t) PROVE SetsOK'
  BY <1>0, <1>9 DEF LinkVendorFunctions, LinkStep, Link
<1>10. ASSUME NEW t \in Threads, addAdb(t) PROVE SetsOK'
  BY <1>0, <1>10 DEF addAdb, LinkStep, Link
<1>11. ASSUME NEW t \in Threads, PullUp(t) PROVE SetsOK'
  BY <1>0, <1>11 DEF PullUp, Bind, CanBind, Tell, Answer
<1>12. ASSUME NEW t \in Threads, startMonitor(t) PROVE SetsOK'
  BY <1>0, <1>12 DEF startMonitor
<1>13. ASSUME NEW t \in Threads, waitForPullUp(t) PROVE SetsOK'
  BY <1>0, <1>13 DEF waitForPullUp, Tell, Answer
<1>14. ASSUME NEW t \in Threads, ReportError(t) PROVE SetsOK'
  BY <1>0, <1>14 DEF ReportError, Answer
<1>15. ASSUME NEW t \in Threads, Return(t) PROVE SetsOK'
  BY <1>0, <1>15 DEF Return
<1>16. ASSUME NEW t \in Threads, ReadFunctions(t) PROVE SetsOK'
  BY <1>0, <1>16 DEF ReadFunctions
<1>17. ASSUME NEW t \in Threads, ReadApplied(t) PROVE SetsOK'
  BY <1>0, <1>17 DEF ReadApplied
<1>18. ASSUME NEW t \in Threads, getCurrentUsbFunctionsCb(t) PROVE SetsOK'
  BY <1>0, <1>18 DEF getCurrentUsbFunctionsCb
<1>19. ASSUME NEW t \in Threads, getCurrentUsbFunctions(t) PROVE SetsOK'
  BY <1>0, <1>19 DEF getCurrentUsbFunctions
<1>20. ASSUME NEW t \in Threads, reset(t) PROVE SetsOK'
  BY <1>0, <1>20 DEF reset, PullDownUdc
<1>21. ASSUME NEW t \in Threads, NEW f \in Requests, NEW c \in BOOLEAN,
             setCurrentUsbFunctions(t, f, c)
      PROVE  SetsOK'
  BY <1>0, <1>21 DEF setCurrentUsbFunctions
<1>22. CASE MonitorSeesDeath
  BY <1>0, <1>22 DEF MonitorSeesDeath
<1>23. CASE MonitorPullsUp
  BY <1>0, <1>23 DEF MonitorPullsUp, Bind, CanBind
<1>24. CASE currentFunctionsAppliedCallback
  BY <1>0, <1>24 DEF currentFunctionsAppliedCallback
<1>25. ASSUME NEW f \in Ffs \cap UNION Requests, DaemonChange(f) PROVE SetsOK'
  BY <1>0, <1>25 DEF DaemonChange
<1>26. ASSUME NEW on \in BOOLEAN, PortReads(on) PROVE SetsOK'
  BY <1>0, <1>26 DEF PortReads
<1>27. CASE PortWrites
  BY <1>0, <1>27 DEF PortWrites, Bind, CanBind, PullDownUdc
<1>28. CASE PortResets
  BY <1>0, <1>28 DEF PortResets, PullDownUdc
<1>29. CASE UNCHANGED vars
  BY <1>0, <1>29 DEF vars
<1>30. QED
  BY <1>1, <1>2, <1>3, <1>4, <1>5, <1>6, <1>7, <1>8, <1>9, <1>10, <1>11, <1>12, <1>13,
     <1>14, <1>15, <1>16, <1>17, <1>18, <1>19, <1>20, <1>21, <1>22, <1>23, <1>24, <1>25,
     <1>26, <1>27, <1>28, <1>29
     DEF Next, Serve, Monitor

(* Every flag stays a Boolean. *)
LEMMA FlagsStep == GadgetInv /\ [Next]_vars => FlagsOK'
<1> SUFFICES ASSUME GadgetInv, [Next]_vars PROVE FlagsOK'
  OBVIOUS
<1> USE DEF FlagsOK, At, Goto, Proceed, Fail, configfs, outside, gadget, mon, serving
<1>0. SetsOK /\ FlagsOK /\ ThreadsOK /\ ReportOK
  BY TypeParts DEF GadgetInv
<1>1. ASSUME NEW t \in Threads, SetFunctions(t) PROVE FlagsOK'
  BY <1>0, <1>1 DEF SetFunctions
<1>2. ASSUME NEW t \in Threads, ClearApplied(t) PROVE FlagsOK'
  BY <1>0, <1>2 DEF ClearApplied
<1>3. ASSUME NEW t \in Threads, PullDown(t) PROVE FlagsOK'
  BY <1>0, <1>3 DEF PullDown, PullDownUdc
<1>4. ASSUME NEW t \in Threads, Unlink(t) PROVE FlagsOK'
  BY <1>0, <1>4 DEF Unlink
<1>5. ASSUME NEW t \in Threads, StopMonitor(t) PROVE FlagsOK'
  BY <1>0, <1>5 DEF StopMonitor
<1>6. ASSUME NEW t \in Threads, Disconnected(t) PROVE FlagsOK'
  BY <1>0, <1>6 DEF Disconnected, Tell, Answer
<1>7. ASSUME NEW t \in Threads, validateAndSetVidPid(t) PROVE FlagsOK'
  BY <1>0, <1>7 DEF validateAndSetVidPid
<1>8. ASSUME NEW t \in Threads, addGenericAndroidFunctions(t) PROVE FlagsOK'
  BY <1>0, <1>8 DEF addGenericAndroidFunctions, LinkStep, Link
<1>9. ASSUME NEW t \in Threads, LinkVendorFunctions(t) PROVE FlagsOK'
  BY <1>0, <1>9 DEF LinkVendorFunctions, LinkStep, Link
<1>10. ASSUME NEW t \in Threads, addAdb(t) PROVE FlagsOK'
  BY <1>0, <1>10 DEF addAdb, LinkStep, Link
<1>11. ASSUME NEW t \in Threads, PullUp(t) PROVE FlagsOK'
  BY <1>0, <1>11 DEF PullUp, Bind, CanBind, Tell, Answer
<1>12. ASSUME NEW t \in Threads, startMonitor(t) PROVE FlagsOK'
  BY <1>0, <1>12 DEF startMonitor
<1>13. ASSUME NEW t \in Threads, waitForPullUp(t) PROVE FlagsOK'
  BY <1>0, <1>13 DEF waitForPullUp, Tell, Answer
<1>14. ASSUME NEW t \in Threads, ReportError(t) PROVE FlagsOK'
  BY <1>0, <1>14 DEF ReportError, Answer
<1>15. ASSUME NEW t \in Threads, Return(t) PROVE FlagsOK'
  BY <1>0, <1>15 DEF Return
<1>16. ASSUME NEW t \in Threads, ReadFunctions(t) PROVE FlagsOK'
  BY <1>0, <1>16 DEF ReadFunctions
<1>17. ASSUME NEW t \in Threads, ReadApplied(t) PROVE FlagsOK'
  BY <1>0, <1>17 DEF ReadApplied
<1>18. ASSUME NEW t \in Threads, getCurrentUsbFunctionsCb(t) PROVE FlagsOK'
  BY <1>0, <1>18 DEF getCurrentUsbFunctionsCb
<1>19. ASSUME NEW t \in Threads, getCurrentUsbFunctions(t) PROVE FlagsOK'
  BY <1>0, <1>19 DEF getCurrentUsbFunctions
<1>20. ASSUME NEW t \in Threads, reset(t) PROVE FlagsOK'
  BY <1>0, <1>20 DEF reset, PullDownUdc
<1>21. ASSUME NEW t \in Threads, NEW f \in Requests, NEW c \in BOOLEAN,
             setCurrentUsbFunctions(t, f, c)
      PROVE  FlagsOK'
  BY <1>0, <1>21 DEF setCurrentUsbFunctions
<1>22. CASE MonitorSeesDeath
  BY <1>0, <1>22 DEF MonitorSeesDeath
<1>23. CASE MonitorPullsUp
  BY <1>0, <1>23 DEF MonitorPullsUp, Bind, CanBind
<1>24. CASE currentFunctionsAppliedCallback
  BY <1>0, <1>24 DEF currentFunctionsAppliedCallback
<1>25. ASSUME NEW f \in Ffs \cap UNION Requests, DaemonChange(f) PROVE FlagsOK'
  BY <1>0, <1>25 DEF DaemonChange
<1>26. ASSUME NEW on \in BOOLEAN, PortReads(on) PROVE FlagsOK'
  BY <1>0, <1>26 DEF PortReads
<1>27. CASE PortWrites
  BY <1>0, <1>27 DEF PortWrites, Bind, CanBind, PullDownUdc
<1>28. CASE PortResets
  BY <1>0, <1>28 DEF PortResets, PullDownUdc
<1>29. CASE UNCHANGED vars
  BY <1>0, <1>29 DEF vars
<1>30. QED
  BY <1>1, <1>2, <1>3, <1>4, <1>5, <1>6, <1>7, <1>8, <1>9, <1>10, <1>11, <1>12, <1>13,
     <1>14, <1>15, <1>16, <1>17, <1>18, <1>19, <1>20, <1>21, <1>22, <1>23, <1>24, <1>25,
     <1>26, <1>27, <1>28, <1>29
     DEF Next, Serve, Monitor

(* The threads stand where they may, and nobody is answered twice. *)
LEMMA ThreadsStep == GadgetInv /\ [Next]_vars => ThreadsOK'
<1> SUFFICES ASSUME GadgetInv, [Next]_vars PROVE ThreadsOK'
  OBVIOUS
<1> USE ConstantsOK DEF ThreadsOK, FlagsOK, GadgetInv, AnswersCounted, Unanswered, Held,
        Places, At, Goto, Proceed, Fail, configfs, outside, gadget, mon, serving
<1>0. SetsOK /\ FlagsOK /\ ThreadsOK /\ ReportOK
  BY TypeParts DEF GadgetInv
<1>1. ASSUME NEW t \in Threads, SetFunctions(t) PROVE ThreadsOK'
  BY <1>0, <1>1 DEF SetFunctions
<1>2. ASSUME NEW t \in Threads, ClearApplied(t) PROVE ThreadsOK'
  BY <1>0, <1>2 DEF ClearApplied
<1>3. ASSUME NEW t \in Threads, PullDown(t) PROVE ThreadsOK'
  BY <1>0, <1>3 DEF PullDown, PullDownUdc
<1>4. ASSUME NEW t \in Threads, Unlink(t) PROVE ThreadsOK'
  BY <1>0, <1>4 DEF Unlink
<1>5. ASSUME NEW t \in Threads, StopMonitor(t) PROVE ThreadsOK'
  BY <1>0, <1>5 DEF StopMonitor
<1>6. ASSUME NEW t \in Threads, Disconnected(t) PROVE ThreadsOK'
  BY <1>0, <1>6 DEF Disconnected, Tell, Answer
<1>7. ASSUME NEW t \in Threads, validateAndSetVidPid(t) PROVE ThreadsOK'
  BY <1>0, <1>7 DEF validateAndSetVidPid
<1>8. ASSUME NEW t \in Threads, addGenericAndroidFunctions(t) PROVE ThreadsOK'
  BY <1>0, <1>8 DEF addGenericAndroidFunctions, LinkStep, Link
<1>9. ASSUME NEW t \in Threads, LinkVendorFunctions(t) PROVE ThreadsOK'
  BY <1>0, <1>9 DEF LinkVendorFunctions, LinkStep, Link
<1>10. ASSUME NEW t \in Threads, addAdb(t) PROVE ThreadsOK'
  BY <1>0, <1>10 DEF addAdb, LinkStep, Link
<1>11. ASSUME NEW t \in Threads, PullUp(t) PROVE ThreadsOK'
  BY <1>0, <1>11 DEF PullUp, Bind, CanBind, Tell, Answer
<1>12. ASSUME NEW t \in Threads, startMonitor(t) PROVE ThreadsOK'
  BY <1>0, <1>12 DEF startMonitor
<1>13. ASSUME NEW t \in Threads, waitForPullUp(t) PROVE ThreadsOK'
  BY <1>0, <1>13 DEF waitForPullUp, Tell, Answer
<1>14. ASSUME NEW t \in Threads, ReportError(t) PROVE ThreadsOK'
  BY <1>0, <1>14 DEF ReportError, Answer
<1>15. ASSUME NEW t \in Threads, Return(t) PROVE ThreadsOK'
  BY <1>0, <1>15 DEF Return
<1>16. ASSUME NEW t \in Threads, ReadFunctions(t) PROVE ThreadsOK'
  BY <1>0, <1>16 DEF ReadFunctions
<1>17. ASSUME NEW t \in Threads, ReadApplied(t) PROVE ThreadsOK'
  BY <1>0, <1>17 DEF ReadApplied
<1>18. ASSUME NEW t \in Threads, getCurrentUsbFunctionsCb(t) PROVE ThreadsOK'
  BY <1>0, <1>18 DEF getCurrentUsbFunctionsCb
<1>19. ASSUME NEW t \in Threads, getCurrentUsbFunctions(t) PROVE ThreadsOK'
  BY <1>0, <1>19 DEF getCurrentUsbFunctions
<1>20. ASSUME NEW t \in Threads, reset(t) PROVE ThreadsOK'
  BY <1>0, <1>20 DEF reset, PullDownUdc
<1>21. ASSUME NEW t \in Threads, NEW f \in Requests, NEW c \in BOOLEAN,
             setCurrentUsbFunctions(t, f, c)
      PROVE  ThreadsOK'
  BY <1>0, <1>21 DEF setCurrentUsbFunctions
<1>22. CASE MonitorSeesDeath
  BY <1>0, <1>22 DEF MonitorSeesDeath
<1>23. CASE MonitorPullsUp
  BY <1>0, <1>23 DEF MonitorPullsUp, Bind, CanBind
<1>24. CASE currentFunctionsAppliedCallback
  BY <1>0, <1>24 DEF currentFunctionsAppliedCallback
<1>25. ASSUME NEW f \in Ffs \cap UNION Requests, DaemonChange(f) PROVE ThreadsOK'
  BY <1>0, <1>25 DEF DaemonChange
<1>26. ASSUME NEW on \in BOOLEAN, PortReads(on) PROVE ThreadsOK'
  BY <1>0, <1>26 DEF PortReads
<1>27. CASE PortWrites
  BY <1>0, <1>27 DEF PortWrites, Bind, CanBind, PullDownUdc
<1>28. CASE PortResets
  BY <1>0, <1>28 DEF PortResets, PullDownUdc
<1>29. CASE UNCHANGED vars
  BY <1>0, <1>29 DEF vars
<1>30. QED
  BY <1>1, <1>2, <1>3, <1>4, <1>5, <1>6, <1>7, <1>8, <1>9, <1>10, <1>11, <1>12, <1>13,
     <1>14, <1>15, <1>16, <1>17, <1>18, <1>19, <1>20, <1>21, <1>22, <1>23, <1>24, <1>25,
     <1>26, <1>27, <1>28, <1>29
     DEF Next, Serve, Monitor

(* A report is made of a request and a flag. *)
LEMMA ReportStep == GadgetInv /\ [Next]_vars => ReportOK'
<1> SUFFICES ASSUME GadgetInv, [Next]_vars PROVE ReportOK'
  OBVIOUS
<1> USE DEF ReportOK, SetsOK, FlagsOK, At, Goto, Proceed, Fail, configfs, outside,
        gadget, mon, serving
<1>0. SetsOK /\ FlagsOK /\ ThreadsOK /\ ReportOK
  BY TypeParts DEF GadgetInv
<1>1. ASSUME NEW t \in Threads, SetFunctions(t) PROVE ReportOK'
  BY <1>0, <1>1 DEF SetFunctions
<1>2. ASSUME NEW t \in Threads, ClearApplied(t) PROVE ReportOK'
  BY <1>0, <1>2 DEF ClearApplied
<1>3. ASSUME NEW t \in Threads, PullDown(t) PROVE ReportOK'
  BY <1>0, <1>3 DEF PullDown, PullDownUdc
<1>4. ASSUME NEW t \in Threads, Unlink(t) PROVE ReportOK'
  BY <1>0, <1>4 DEF Unlink
<1>5. ASSUME NEW t \in Threads, StopMonitor(t) PROVE ReportOK'
  BY <1>0, <1>5 DEF StopMonitor
<1>6. ASSUME NEW t \in Threads, Disconnected(t) PROVE ReportOK'
  BY <1>0, <1>6 DEF Disconnected, Tell, Answer
<1>7. ASSUME NEW t \in Threads, validateAndSetVidPid(t) PROVE ReportOK'
  BY <1>0, <1>7 DEF validateAndSetVidPid
<1>8. ASSUME NEW t \in Threads, addGenericAndroidFunctions(t) PROVE ReportOK'
  BY <1>0, <1>8 DEF addGenericAndroidFunctions, LinkStep, Link
<1>9. ASSUME NEW t \in Threads, LinkVendorFunctions(t) PROVE ReportOK'
  BY <1>0, <1>9 DEF LinkVendorFunctions, LinkStep, Link
<1>10. ASSUME NEW t \in Threads, addAdb(t) PROVE ReportOK'
  BY <1>0, <1>10 DEF addAdb, LinkStep, Link
<1>11. ASSUME NEW t \in Threads, PullUp(t) PROVE ReportOK'
  BY <1>0, <1>11 DEF PullUp, Bind, CanBind, Tell, Answer
<1>12. ASSUME NEW t \in Threads, startMonitor(t) PROVE ReportOK'
  BY <1>0, <1>12 DEF startMonitor
<1>13. ASSUME NEW t \in Threads, waitForPullUp(t) PROVE ReportOK'
  BY <1>0, <1>13 DEF waitForPullUp, Tell, Answer
<1>14. ASSUME NEW t \in Threads, ReportError(t) PROVE ReportOK'
  BY <1>0, <1>14 DEF ReportError, Answer
<1>15. ASSUME NEW t \in Threads, Return(t) PROVE ReportOK'
  BY <1>0, <1>15 DEF Return
<1>16. ASSUME NEW t \in Threads, ReadFunctions(t) PROVE ReportOK'
  BY <1>0, <1>16 DEF ReadFunctions
<1>17. ASSUME NEW t \in Threads, ReadApplied(t) PROVE ReportOK'
  BY <1>0, <1>17 DEF ReadApplied
<1>18. ASSUME NEW t \in Threads, getCurrentUsbFunctionsCb(t) PROVE ReportOK'
  BY <1>0, <1>18 DEF getCurrentUsbFunctionsCb
<1>19. ASSUME NEW t \in Threads, getCurrentUsbFunctions(t) PROVE ReportOK'
  BY <1>0, <1>19 DEF getCurrentUsbFunctions
<1>20. ASSUME NEW t \in Threads, reset(t) PROVE ReportOK'
  BY <1>0, <1>20 DEF reset, PullDownUdc
<1>21. ASSUME NEW t \in Threads, NEW f \in Requests, NEW c \in BOOLEAN,
             setCurrentUsbFunctions(t, f, c)
      PROVE  ReportOK'
  BY <1>0, <1>21 DEF setCurrentUsbFunctions
<1>22. CASE MonitorSeesDeath
  BY <1>0, <1>22 DEF MonitorSeesDeath
<1>23. CASE MonitorPullsUp
  BY <1>0, <1>23 DEF MonitorPullsUp, Bind, CanBind
<1>24. CASE currentFunctionsAppliedCallback
  BY <1>0, <1>24 DEF currentFunctionsAppliedCallback
<1>25. ASSUME NEW f \in Ffs \cap UNION Requests, DaemonChange(f) PROVE ReportOK'
  BY <1>0, <1>25 DEF DaemonChange
<1>26. ASSUME NEW on \in BOOLEAN, PortReads(on) PROVE ReportOK'
  BY <1>0, <1>26 DEF PortReads
<1>27. CASE PortWrites
  BY <1>0, <1>27 DEF PortWrites, Bind, CanBind, PullDownUdc
<1>28. CASE PortResets
  BY <1>0, <1>28 DEF PortResets, PullDownUdc
<1>29. CASE UNCHANGED vars
  BY <1>0, <1>29 DEF vars
<1>30. QED
  BY <1>1, <1>2, <1>3, <1>4, <1>5, <1>6, <1>7, <1>8, <1>9, <1>10, <1>11, <1>12, <1>13,
     <1>14, <1>15, <1>16, <1>17, <1>18, <1>19, <1>20, <1>21, <1>22, <1>23, <1>24, <1>25,
     <1>26, <1>27, <1>28, <1>29
     DEF Next, Serve, Monitor

(* The lock is taken when free and released by its holder. *)
LEMMA LockStep == GadgetInv /\ [Next]_vars => LockHeld'
<1> SUFFICES ASSUME GadgetInv, [Next]_vars PROVE LockHeld'
  OBVIOUS
<1> USE DEF SetsOK, FlagsOK, ThreadsOK, Held, GadgetInv, LockHeld, At, Goto, Proceed,
        Fail, configfs, outside, gadget, mon, serving
<1>0. SetsOK /\ FlagsOK /\ ThreadsOK
  BY TypeParts DEF GadgetInv
<1>1. ASSUME NEW t \in Threads, SetFunctions(t) PROVE LockHeld'
  BY <1>0, <1>1 DEF SetFunctions
<1>2. ASSUME NEW t \in Threads, ClearApplied(t) PROVE LockHeld'
  BY <1>0, <1>2 DEF ClearApplied
<1>3. ASSUME NEW t \in Threads, PullDown(t) PROVE LockHeld'
  BY <1>0, <1>3 DEF PullDown, PullDownUdc
<1>4. ASSUME NEW t \in Threads, Unlink(t) PROVE LockHeld'
  BY <1>0, <1>4 DEF Unlink
<1>5. ASSUME NEW t \in Threads, StopMonitor(t) PROVE LockHeld'
  BY <1>0, <1>5 DEF StopMonitor
<1>6. ASSUME NEW t \in Threads, Disconnected(t) PROVE LockHeld'
  BY <1>0, <1>6 DEF Disconnected, Tell, Answer
<1>7. ASSUME NEW t \in Threads, validateAndSetVidPid(t) PROVE LockHeld'
  BY <1>0, <1>7 DEF validateAndSetVidPid
<1>8. ASSUME NEW t \in Threads, addGenericAndroidFunctions(t) PROVE LockHeld'
  BY <1>0, <1>8 DEF addGenericAndroidFunctions, LinkStep, Link
<1>9. ASSUME NEW t \in Threads, LinkVendorFunctions(t) PROVE LockHeld'
  BY <1>0, <1>9 DEF LinkVendorFunctions, LinkStep, Link
<1>10. ASSUME NEW t \in Threads, addAdb(t) PROVE LockHeld'
  BY <1>0, <1>10 DEF addAdb, LinkStep, Link
<1>11. ASSUME NEW t \in Threads, PullUp(t) PROVE LockHeld'
  BY <1>0, <1>11 DEF PullUp, Bind, CanBind, Tell, Answer
<1>12. ASSUME NEW t \in Threads, startMonitor(t) PROVE LockHeld'
  BY <1>0, <1>12 DEF startMonitor
<1>13. ASSUME NEW t \in Threads, waitForPullUp(t) PROVE LockHeld'
  BY <1>0, <1>13 DEF waitForPullUp, Tell, Answer
<1>14. ASSUME NEW t \in Threads, ReportError(t) PROVE LockHeld'
  BY <1>0, <1>14 DEF ReportError, Answer
<1>15. ASSUME NEW t \in Threads, Return(t) PROVE LockHeld'
  BY <1>0, <1>15 DEF Return
<1>16. ASSUME NEW t \in Threads, ReadFunctions(t) PROVE LockHeld'
  BY <1>0, <1>16 DEF ReadFunctions
<1>17. ASSUME NEW t \in Threads, ReadApplied(t) PROVE LockHeld'
  BY <1>0, <1>17 DEF ReadApplied
<1>18. ASSUME NEW t \in Threads, getCurrentUsbFunctionsCb(t) PROVE LockHeld'
  BY <1>0, <1>18 DEF getCurrentUsbFunctionsCb
<1>19. ASSUME NEW t \in Threads, getCurrentUsbFunctions(t) PROVE LockHeld'
  BY <1>0, <1>19 DEF getCurrentUsbFunctions
<1>20. ASSUME NEW t \in Threads, reset(t) PROVE LockHeld'
  BY <1>0, <1>20 DEF reset, PullDownUdc
<1>21. ASSUME NEW t \in Threads, NEW f \in Requests, NEW c \in BOOLEAN,
             setCurrentUsbFunctions(t, f, c)
      PROVE  LockHeld'
  BY <1>0, <1>21 DEF setCurrentUsbFunctions
<1>22. CASE MonitorSeesDeath
  BY <1>0, <1>22 DEF MonitorSeesDeath
<1>23. CASE MonitorPullsUp
  BY <1>0, <1>23 DEF MonitorPullsUp, Bind, CanBind
<1>24. CASE currentFunctionsAppliedCallback
  BY <1>0, <1>24 DEF currentFunctionsAppliedCallback
<1>25. ASSUME NEW f \in Ffs \cap UNION Requests, DaemonChange(f) PROVE LockHeld'
  BY <1>0, <1>25 DEF DaemonChange
<1>26. ASSUME NEW on \in BOOLEAN, PortReads(on) PROVE LockHeld'
  BY <1>0, <1>26 DEF PortReads
<1>27. CASE PortWrites
  BY <1>0, <1>27 DEF PortWrites, Bind, CanBind, PullDownUdc
<1>28. CASE PortResets
  BY <1>0, <1>28 DEF PortResets, PullDownUdc
<1>29. CASE UNCHANGED vars
  BY <1>0, <1>29 DEF vars
<1>30. QED
  BY <1>1, <1>2, <1>3, <1>4, <1>5, <1>6, <1>7, <1>8, <1>9, <1>10, <1>11, <1>12, <1>13,
     <1>14, <1>15, <1>16, <1>17, <1>18, <1>19, <1>20, <1>21, <1>22, <1>23, <1>24, <1>25,
     <1>26, <1>27, <1>28, <1>29
     DEF Next, Serve, Monitor

(* Only the holder of the lock links, and only after the monitor is gone. *)
LEMMA LinksStep == GadgetInv /\ [Next]_vars => LinksInStep'
<1> SUFFICES ASSUME GadgetInv, [Next]_vars PROVE LinksInStep'
  OBVIOUS
<1> USE DEF SetsOK, FlagsOK, ThreadsOK, Held, GadgetInv, LockHeld, LinksInStep,
        Complete, At, Goto, Proceed, Fail, configfs, outside, gadget, mon, serving
<1>0. SetsOK /\ FlagsOK /\ ThreadsOK
  BY TypeParts DEF GadgetInv
<1>1. ASSUME NEW t \in Threads, SetFunctions(t) PROVE LinksInStep'
  BY <1>0, <1>1 DEF SetFunctions
<1>2. ASSUME NEW t \in Threads, ClearApplied(t) PROVE LinksInStep'
  BY <1>0, <1>2 DEF ClearApplied
<1>3. ASSUME NEW t \in Threads, PullDown(t) PROVE LinksInStep'
  BY <1>0, <1>3 DEF PullDown, PullDownUdc
<1>4. ASSUME NEW t \in Threads, Unlink(t) PROVE LinksInStep'
  BY <1>0, <1>4 DEF Unlink
<1>5. ASSUME NEW t \in Threads, StopMonitor(t) PROVE LinksInStep'
  BY <1>0, <1>5 DEF StopMonitor
<1>6. ASSUME NEW t \in Threads, Disconnected(t) PROVE LinksInStep'
  BY <1>0, <1>6 DEF Disconnected, Tell, Answer
<1>7. ASSUME NEW t \in Threads, validateAndSetVidPid(t) PROVE LinksInStep'
  BY <1>0, <1>7 DEF validateAndSetVidPid
<1>8. ASSUME NEW t \in Threads, addGenericAndroidFunctions(t) PROVE LinksInStep'
  BY <1>0, <1>8 DEF addGenericAndroidFunctions, LinkStep, Link
<1>9. ASSUME NEW t \in Threads, LinkVendorFunctions(t) PROVE LinksInStep'
  BY <1>0, <1>9 DEF LinkVendorFunctions, LinkStep, Link
<1>10. ASSUME NEW t \in Threads, addAdb(t) PROVE LinksInStep'
  BY <1>0, <1>10 DEF addAdb, LinkStep, Link
<1>11. ASSUME NEW t \in Threads, PullUp(t) PROVE LinksInStep'
  BY <1>0, <1>11 DEF PullUp, Bind, CanBind, Tell, Answer
<1>12. ASSUME NEW t \in Threads, startMonitor(t) PROVE LinksInStep'
  BY <1>0, <1>12 DEF startMonitor
<1>13. ASSUME NEW t \in Threads, waitForPullUp(t) PROVE LinksInStep'
  BY <1>0, <1>13 DEF waitForPullUp, Tell, Answer
<1>14. ASSUME NEW t \in Threads, ReportError(t) PROVE LinksInStep'
  BY <1>0, <1>14 DEF ReportError, Answer
<1>15. ASSUME NEW t \in Threads, Return(t) PROVE LinksInStep'
  BY <1>0, <1>15 DEF Return
<1>16. ASSUME NEW t \in Threads, ReadFunctions(t) PROVE LinksInStep'
  BY <1>0, <1>16 DEF ReadFunctions
<1>17. ASSUME NEW t \in Threads, ReadApplied(t) PROVE LinksInStep'
  BY <1>0, <1>17 DEF ReadApplied
<1>18. ASSUME NEW t \in Threads, getCurrentUsbFunctionsCb(t) PROVE LinksInStep'
  BY <1>0, <1>18 DEF getCurrentUsbFunctionsCb
<1>19. ASSUME NEW t \in Threads, getCurrentUsbFunctions(t) PROVE LinksInStep'
  BY <1>0, <1>19 DEF getCurrentUsbFunctions
<1>20. ASSUME NEW t \in Threads, reset(t) PROVE LinksInStep'
  BY <1>0, <1>20 DEF reset, PullDownUdc
<1>21. ASSUME NEW t \in Threads, NEW f \in Requests, NEW c \in BOOLEAN,
             setCurrentUsbFunctions(t, f, c)
      PROVE  LinksInStep'
  BY <1>0, <1>21 DEF setCurrentUsbFunctions
<1>22. CASE MonitorSeesDeath
  BY <1>0, <1>22 DEF MonitorSeesDeath
<1>23. CASE MonitorPullsUp
  BY <1>0, <1>23 DEF MonitorPullsUp, Bind, CanBind
<1>24. CASE currentFunctionsAppliedCallback
  BY <1>0, <1>24 DEF currentFunctionsAppliedCallback
<1>25. ASSUME NEW f \in Ffs \cap UNION Requests, DaemonChange(f) PROVE LinksInStep'
  BY <1>0, <1>25 DEF DaemonChange
<1>26. ASSUME NEW on \in BOOLEAN, PortReads(on) PROVE LinksInStep'
  BY <1>0, <1>26 DEF PortReads
<1>27. CASE PortWrites
  BY <1>0, <1>27 DEF PortWrites, Bind, CanBind, PullDownUdc
<1>28. CASE PortResets
  BY <1>0, <1>28 DEF PortResets, PullDownUdc
<1>29. CASE UNCHANGED vars
  BY <1>0, <1>29 DEF vars
<1>30. QED
  BY <1>1, <1>2, <1>3, <1>4, <1>5, <1>6, <1>7, <1>8, <1>9, <1>10, <1>11, <1>12, <1>13,
     <1>14, <1>15, <1>16, <1>17, <1>18, <1>19, <1>20, <1>21, <1>22, <1>23, <1>24, <1>25,
     <1>26, <1>27, <1>28, <1>29
     DEF Next, Serve, Monitor

(* Links change under a running monitor only to none. *)
LEMMA MonitorStep == GadgetInv /\ [Next]_vars => MonitorInStep'
<1> SUFFICES ASSUME GadgetInv, [Next]_vars PROVE MonitorInStep'
  OBVIOUS
<1> USE DEF SetsOK, FlagsOK, ThreadsOK, Held, GadgetInv, LockHeld, LinksInStep,
        MonitorInStep, Complete, At, Goto, Proceed, Fail, configfs, outside, gadget,
        mon, serving
<1>0. SetsOK /\ FlagsOK /\ ThreadsOK
  BY TypeParts DEF GadgetInv
<1>1. ASSUME NEW t \in Threads, SetFunctions(t) PROVE MonitorInStep'
  BY <1>0, <1>1 DEF SetFunctions
<1>2. ASSUME NEW t \in Threads, ClearApplied(t) PROVE MonitorInStep'
  BY <1>0, <1>2 DEF ClearApplied
<1>3. ASSUME NEW t \in Threads, PullDown(t) PROVE MonitorInStep'
  BY <1>0, <1>3 DEF PullDown, PullDownUdc
<1>4. ASSUME NEW t \in Threads, Unlink(t) PROVE MonitorInStep'
  BY <1>0, <1>4 DEF Unlink
<1>5. ASSUME NEW t \in Threads, StopMonitor(t) PROVE MonitorInStep'
  BY <1>0, <1>5 DEF StopMonitor
<1>6. ASSUME NEW t \in Threads, Disconnected(t) PROVE MonitorInStep'
  BY <1>0, <1>6 DEF Disconnected, Tell, Answer
<1>7. ASSUME NEW t \in Threads, validateAndSetVidPid(t) PROVE MonitorInStep'
  BY <1>0, <1>7 DEF validateAndSetVidPid
<1>8. ASSUME NEW t \in Threads, addGenericAndroidFunctions(t) PROVE MonitorInStep'
  BY <1>0, <1>8 DEF addGenericAndroidFunctions, LinkStep, Link
<1>9. ASSUME NEW t \in Threads, LinkVendorFunctions(t) PROVE MonitorInStep'
  BY <1>0, <1>9 DEF LinkVendorFunctions, LinkStep, Link
<1>10. ASSUME NEW t \in Threads, addAdb(t) PROVE MonitorInStep'
  BY <1>0, <1>10 DEF addAdb, LinkStep, Link
<1>11. ASSUME NEW t \in Threads, PullUp(t) PROVE MonitorInStep'
  BY <1>0, <1>11 DEF PullUp, Bind, CanBind, Tell, Answer
<1>12. ASSUME NEW t \in Threads, startMonitor(t) PROVE MonitorInStep'
  BY <1>0, <1>12 DEF startMonitor
<1>13. ASSUME NEW t \in Threads, waitForPullUp(t) PROVE MonitorInStep'
  BY <1>0, <1>13 DEF waitForPullUp, Tell, Answer
<1>14. ASSUME NEW t \in Threads, ReportError(t) PROVE MonitorInStep'
  BY <1>0, <1>14 DEF ReportError, Answer
<1>15. ASSUME NEW t \in Threads, Return(t) PROVE MonitorInStep'
  BY <1>0, <1>15 DEF Return
<1>16. ASSUME NEW t \in Threads, ReadFunctions(t) PROVE MonitorInStep'
  BY <1>0, <1>16 DEF ReadFunctions
<1>17. ASSUME NEW t \in Threads, ReadApplied(t) PROVE MonitorInStep'
  BY <1>0, <1>17 DEF ReadApplied
<1>18. ASSUME NEW t \in Threads, getCurrentUsbFunctionsCb(t) PROVE MonitorInStep'
  BY <1>0, <1>18 DEF getCurrentUsbFunctionsCb
<1>19. ASSUME NEW t \in Threads, getCurrentUsbFunctions(t) PROVE MonitorInStep'
  BY <1>0, <1>19 DEF getCurrentUsbFunctions
<1>20. ASSUME NEW t \in Threads, reset(t) PROVE MonitorInStep'
  BY <1>0, <1>20 DEF reset, PullDownUdc
<1>21. ASSUME NEW t \in Threads, NEW f \in Requests, NEW c \in BOOLEAN,
             setCurrentUsbFunctions(t, f, c)
      PROVE  MonitorInStep'
  BY <1>0, <1>21 DEF setCurrentUsbFunctions
<1>22. CASE MonitorSeesDeath
  BY <1>0, <1>22 DEF MonitorSeesDeath
<1>23. CASE MonitorPullsUp
  BY <1>0, <1>23 DEF MonitorPullsUp, Bind, CanBind
<1>24. CASE currentFunctionsAppliedCallback
  BY <1>0, <1>24 DEF currentFunctionsAppliedCallback
<1>25. ASSUME NEW f \in Ffs \cap UNION Requests, DaemonChange(f) PROVE MonitorInStep'
  BY <1>0, <1>25 DEF DaemonChange
<1>26. ASSUME NEW on \in BOOLEAN, PortReads(on) PROVE MonitorInStep'
  BY <1>0, <1>26 DEF PortReads
<1>27. CASE PortWrites
  BY <1>0, <1>27 DEF PortWrites, Bind, CanBind, PullDownUdc
<1>28. CASE PortResets
  BY <1>0, <1>28 DEF PortResets, PullDownUdc
<1>29. CASE UNCHANGED vars
  BY <1>0, <1>29 DEF vars
<1>30. QED
  BY <1>1, <1>2, <1>3, <1>4, <1>5, <1>6, <1>7, <1>8, <1>9, <1>10, <1>11, <1>12, <1>13,
     <1>14, <1>15, <1>16, <1>17, <1>18, <1>19, <1>20, <1>21, <1>22, <1>23, <1>24, <1>25,
     <1>26, <1>27, <1>28, <1>29
     DEF Next, Serve, Monitor

(* What is pulled up while a complete request is linked is that request. *)
LEMMA PulledUpStep == GadgetInv /\ [Next]_vars => PulledUp'
<1> SUFFICES ASSUME GadgetInv, [Next]_vars PROVE PulledUp'
  OBVIOUS
<1> USE DEF SetsOK, FlagsOK, ThreadsOK, Held, GadgetInv, LockHeld, LinksInStep,
        PulledUp, MonitorInStep, At, Goto, Proceed, Fail, configfs, outside, gadget,
        mon, serving
<1>0. SetsOK /\ FlagsOK /\ ThreadsOK
  BY TypeParts DEF GadgetInv
<1>1. ASSUME NEW t \in Threads, SetFunctions(t) PROVE PulledUp'
  BY <1>0, <1>1 DEF SetFunctions
<1>2. ASSUME NEW t \in Threads, ClearApplied(t) PROVE PulledUp'
  BY <1>0, <1>2 DEF ClearApplied
<1>3. ASSUME NEW t \in Threads, PullDown(t) PROVE PulledUp'
  BY <1>0, <1>3 DEF PullDown, PullDownUdc
<1>4. ASSUME NEW t \in Threads, Unlink(t) PROVE PulledUp'
  BY <1>0, <1>4 DEF Unlink
<1>5. ASSUME NEW t \in Threads, StopMonitor(t) PROVE PulledUp'
  BY <1>0, <1>5 DEF StopMonitor
<1>6. ASSUME NEW t \in Threads, Disconnected(t) PROVE PulledUp'
  BY <1>0, <1>6 DEF Disconnected, Tell, Answer
<1>7. ASSUME NEW t \in Threads, validateAndSetVidPid(t) PROVE PulledUp'
  BY <1>0, <1>7 DEF validateAndSetVidPid
<1>8. ASSUME NEW t \in Threads, addGenericAndroidFunctions(t) PROVE PulledUp'
  BY <1>0, <1>8 DEF addGenericAndroidFunctions, LinkStep, Link
<1>9. ASSUME NEW t \in Threads, LinkVendorFunctions(t) PROVE PulledUp'
  BY <1>0, <1>9 DEF LinkVendorFunctions, LinkStep, Link
<1>10. ASSUME NEW t \in Threads, addAdb(t) PROVE PulledUp'
  BY <1>0, <1>10 DEF addAdb, LinkStep, Link
<1>11. ASSUME NEW t \in Threads, PullUp(t) PROVE PulledUp'
  BY <1>0, <1>11 DEF PullUp, Bind, CanBind, Tell, Answer
<1>12. ASSUME NEW t \in Threads, startMonitor(t) PROVE PulledUp'
  BY <1>0, <1>12 DEF startMonitor
<1>13. ASSUME NEW t \in Threads, waitForPullUp(t) PROVE PulledUp'
  BY <1>0, <1>13 DEF waitForPullUp, Tell, Answer
<1>14. ASSUME NEW t \in Threads, ReportError(t) PROVE PulledUp'
  BY <1>0, <1>14 DEF ReportError, Answer
<1>15. ASSUME NEW t \in Threads, Return(t) PROVE PulledUp'
  BY <1>0, <1>15 DEF Return
<1>16. ASSUME NEW t \in Threads, ReadFunctions(t) PROVE PulledUp'
  BY <1>0, <1>16 DEF ReadFunctions
<1>17. ASSUME NEW t \in Threads, ReadApplied(t) PROVE PulledUp'
  BY <1>0, <1>17 DEF ReadApplied
<1>18. ASSUME NEW t \in Threads, getCurrentUsbFunctionsCb(t) PROVE PulledUp'
  BY <1>0, <1>18 DEF getCurrentUsbFunctionsCb
<1>19. ASSUME NEW t \in Threads, getCurrentUsbFunctions(t) PROVE PulledUp'
  BY <1>0, <1>19 DEF getCurrentUsbFunctions
<1>20. ASSUME NEW t \in Threads, reset(t) PROVE PulledUp'
  BY <1>0, <1>20 DEF reset, PullDownUdc
<1>21. ASSUME NEW t \in Threads, NEW f \in Requests, NEW c \in BOOLEAN,
             setCurrentUsbFunctions(t, f, c)
      PROVE  PulledUp'
  BY <1>0, <1>21 DEF setCurrentUsbFunctions
<1>22. CASE MonitorSeesDeath
  BY <1>0, <1>22 DEF MonitorSeesDeath
<1>23. CASE MonitorPullsUp
  BY <1>0, <1>23 DEF MonitorPullsUp, Bind, CanBind
<1>24. CASE currentFunctionsAppliedCallback
  BY <1>0, <1>24 DEF currentFunctionsAppliedCallback
<1>25. ASSUME NEW f \in Ffs \cap UNION Requests, DaemonChange(f) PROVE PulledUp'
  BY <1>0, <1>25 DEF DaemonChange
<1>26. ASSUME NEW on \in BOOLEAN, PortReads(on) PROVE PulledUp'
  BY <1>0, <1>26 DEF PortReads
<1>27. CASE PortWrites
  BY <1>0, <1>27 DEF PortWrites, Bind, CanBind, PullDownUdc
<1>28. CASE PortResets
  BY <1>0, <1>28 DEF PortResets, PullDownUdc
<1>29. CASE UNCHANGED vars
  BY <1>0, <1>29 DEF vars
<1>30. QED
  BY <1>1, <1>2, <1>3, <1>4, <1>5, <1>6, <1>7, <1>8, <1>9, <1>10, <1>11, <1>12, <1>13,
     <1>14, <1>15, <1>16, <1>17, <1>18, <1>19, <1>20, <1>21, <1>22, <1>23, <1>24, <1>25,
     <1>26, <1>27, <1>28, <1>29
     DEF Next, Serve, Monitor

(* One answer on each way to the return. *)
LEMMA AnswersStep == GadgetInv /\ [Next]_vars => AnswersCounted'
<1> SUFFICES ASSUME GadgetInv, [Next]_vars PROVE AnswersCounted'
  OBVIOUS
<1> USE DEF SetsOK, FlagsOK, ThreadsOK, Held, GadgetInv, AnswersCounted, Unanswered, At,
        Goto, Proceed, Fail, configfs, outside, gadget, mon, serving
<1>0. SetsOK /\ FlagsOK /\ ThreadsOK
  BY TypeParts DEF GadgetInv
<1>1. ASSUME NEW t \in Threads, SetFunctions(t) PROVE AnswersCounted'
  BY <1>0, <1>1 DEF SetFunctions
<1>2. ASSUME NEW t \in Threads, ClearApplied(t) PROVE AnswersCounted'
  BY <1>0, <1>2 DEF ClearApplied
<1>3. ASSUME NEW t \in Threads, PullDown(t) PROVE AnswersCounted'
  BY <1>0, <1>3 DEF PullDown, PullDownUdc
<1>4. ASSUME NEW t \in Threads, Unlink(t) PROVE AnswersCounted'
  BY <1>0, <1>4 DEF Unlink
<1>5. ASSUME NEW t \in Threads, StopMonitor(t) PROVE AnswersCounted'
  BY <1>0, <1>5 DEF StopMonitor
<1>6. ASSUME NEW t \in Threads, Disconnected(t) PROVE AnswersCounted'
  BY <1>0, <1>6 DEF Disconnected, Tell, Answer
<1>7. ASSUME NEW t \in Threads, validateAndSetVidPid(t) PROVE AnswersCounted'
  BY <1>0, <1>7 DEF validateAndSetVidPid
<1>8. ASSUME NEW t \in Threads, addGenericAndroidFunctions(t) PROVE AnswersCounted'
  BY <1>0, <1>8 DEF addGenericAndroidFunctions, LinkStep, Link
<1>9. ASSUME NEW t \in Threads, LinkVendorFunctions(t) PROVE AnswersCounted'
  BY <1>0, <1>9 DEF LinkVendorFunctions, LinkStep, Link
<1>10. ASSUME NEW t \in Threads, addAdb(t) PROVE AnswersCounted'
  BY <1>0, <1>10 DEF addAdb, LinkStep, Link
<1>11. ASSUME NEW t \in Threads, PullUp(t) PROVE AnswersCounted'
  BY <1>0, <1>11 DEF PullUp, Bind, CanBind, Tell, Answer
<1>12. ASSUME NEW t \in Threads, startMonitor(t) PROVE AnswersCounted'
  BY <1>0, <1>12 DEF startMonitor
<1>13. ASSUME NEW t \in Threads, waitForPullUp(t) PROVE AnswersCounted'
  BY <1>0, <1>13 DEF waitForPullUp, Tell, Answer
<1>14. ASSUME NEW t \in Threads, ReportError(t) PROVE AnswersCounted'
  BY <1>0, <1>14 DEF ReportError, Answer
<1>15. ASSUME NEW t \in Threads, Return(t) PROVE AnswersCounted'
  BY <1>0, <1>15 DEF Return
<1>16. ASSUME NEW t \in Threads, ReadFunctions(t) PROVE AnswersCounted'
  BY <1>0, <1>16 DEF ReadFunctions
<1>17. ASSUME NEW t \in Threads, ReadApplied(t) PROVE AnswersCounted'
  BY <1>0, <1>17 DEF ReadApplied
<1>18. ASSUME NEW t \in Threads, getCurrentUsbFunctionsCb(t) PROVE AnswersCounted'
  BY <1>0, <1>18 DEF getCurrentUsbFunctionsCb
<1>19. ASSUME NEW t \in Threads, getCurrentUsbFunctions(t) PROVE AnswersCounted'
  BY <1>0, <1>19 DEF getCurrentUsbFunctions
<1>20. ASSUME NEW t \in Threads, reset(t) PROVE AnswersCounted'
  BY <1>0, <1>20 DEF reset, PullDownUdc
<1>21. ASSUME NEW t \in Threads, NEW f \in Requests, NEW c \in BOOLEAN,
             setCurrentUsbFunctions(t, f, c)
      PROVE  AnswersCounted'
  BY <1>0, <1>21 DEF setCurrentUsbFunctions
<1>22. CASE MonitorSeesDeath
  BY <1>0, <1>22 DEF MonitorSeesDeath
<1>23. CASE MonitorPullsUp
  BY <1>0, <1>23 DEF MonitorPullsUp, Bind, CanBind
<1>24. CASE currentFunctionsAppliedCallback
  BY <1>0, <1>24 DEF currentFunctionsAppliedCallback
<1>25. ASSUME NEW f \in Ffs \cap UNION Requests, DaemonChange(f) PROVE AnswersCounted'
  BY <1>0, <1>25 DEF DaemonChange
<1>26. ASSUME NEW on \in BOOLEAN, PortReads(on) PROVE AnswersCounted'
  BY <1>0, <1>26 DEF PortReads
<1>27. CASE PortWrites
  BY <1>0, <1>27 DEF PortWrites, Bind, CanBind, PullDownUdc
<1>28. CASE PortResets
  BY <1>0, <1>28 DEF PortResets, PullDownUdc
<1>29. CASE UNCHANGED vars
  BY <1>0, <1>29 DEF vars
<1>30. QED
  BY <1>1, <1>2, <1>3, <1>4, <1>5, <1>6, <1>7, <1>8, <1>9, <1>10, <1>11, <1>12, <1>13,
     <1>14, <1>15, <1>16, <1>17, <1>18, <1>19, <1>20, <1>21, <1>22, <1>23, <1>24, <1>25,
     <1>26, <1>27, <1>28, <1>29
     DEF Next, Serve, Monitor

LEMMA GadgetInit == Init => GadgetInv
<1> SUFFICES ASSUME Init PROVE GadgetInv
  OBVIOUS
<1>1. SetsOK /\ FlagsOK
  BY ConstantsOK DEF Init, SetsOK, FlagsOK, Funcs
<1>2. ThreadsOK /\ ReportOK
  BY ConstantsOK DEF Init, ThreadsOK, ReportOK, Places
<1>3. LockHeld /\ LinksInStep /\ MonitorInStep
  BY DEF Init, LockHeld, LinksInStep, MonitorInStep, Held
<1>4. PulledUp /\ AnswersCounted
  BY DEF Init, PulledUp, AnswersCounted, Unanswered, Held
<1>5. QED BY <1>1, <1>2, <1>3, <1>4, TypeParts DEF GadgetInv

LEMMA GadgetStep == GadgetInv /\ [Next]_vars => GadgetInv'
<1> SUFFICES ASSUME GadgetInv, [Next]_vars PROVE GadgetInv'
  OBVIOUS
<1>1. SetsOK' /\ FlagsOK' /\ ThreadsOK' /\ ReportOK'
  BY SetsStep, FlagsStep, ThreadsStep, ReportStep
<1>2. TypeOK'
  BY <1>1 DEF TypeOK, SetsOK, FlagsOK, ThreadsOK, ReportOK
<1>3. QED
  BY <1>2, LockStep, LinksStep, MonitorStep, PulledUpStep, AnswersStep DEF GadgetInv

LEMMA GadgetInvCorrect == Spec => []GadgetInv
BY GadgetInit, GadgetStep, PTL DEF Spec

(***************************************************************************)
(* What follows from it                                                    *)
(***************************************************************************)

(* Every variable of the gadget HAL keeps its type. *)
THEOREM GadgetTypeCorrect == Spec => []TypeOK
<1>1. GadgetInv => TypeOK
  BY DEF GadgetInv
<1>2. QED BY <1>1, GadgetInvCorrect, PTL

(* When the framework is told SUCCESS the host has been shown the whole    *)
(* set it asked for, whatever the other threads, the daemons and the USB   *)
(* HAL did meanwhile. *)
THEOREM SuccessMeansPulledUpCorrect == Spec => []SuccessMeansPulledUp
<1>1. GadgetInv => SuccessMeansPulledUp
  BY DEF GadgetInv, SuccessMeansPulledUp, PulledUp, LinksInStep, Held, At
<1>2. QED BY <1>1, GadgetInvCorrect, PTL

(* Every request with a callback is answered exactly once. *)
THEOREM AnsweredOnceCorrect == Spec => []AnsweredOnce
<1>1. GadgetInv => AnsweredOnce
  BY DEF GadgetInv, AnsweredOnce, AnswersCounted, Unanswered, Held, At
<1>2. QED BY <1>1, GadgetInvCorrect, PTL

(* The monitor never pulls up the links of a later request half done. *)
THEOREM MonitorPullsUpWholeCorrect == Spec => MonitorPullsUpWhole
<1>1. ASSUME GadgetInv, [Next]_vars, monitor = "watches", monitor' = "pulledUp"
      PROVE  udc' = Complete(watched)
  <2>1. MonitorPullsUp
    <3>1. ASSUME NEW t \in Threads, Serve(t) \/ getCurrentUsbFunctions(t) \/ reset(t)
          PROVE  FALSE
      BY <1>1, <3>1 DEF Serve, SetFunctions, ClearApplied, PullDown, Unlink, StopMonitor,
         Disconnected, validateAndSetVidPid, addGenericAndroidFunctions,
         LinkVendorFunctions, addAdb, LinkStep, PullUp, startMonitor, waitForPullUp,
         ReportError, Return, ReadFunctions, ReadApplied, getCurrentUsbFunctionsCb,
         getCurrentUsbFunctions, reset, Proceed, Fail, Tell, mon
    <3>2. ASSUME NEW t \in Threads, NEW f \in Requests, NEW c \in BOOLEAN,
                 setCurrentUsbFunctions(t, f, c)
          PROVE  FALSE
      BY <1>1, <3>2 DEF setCurrentUsbFunctions, mon
    <3>3. ~MonitorSeesDeath /\ ~currentFunctionsAppliedCallback
      BY <1>1 DEF MonitorSeesDeath, currentFunctionsAppliedCallback
    <3>4. ~(\/ \E f \in Ffs \cap UNION Requests : DaemonChange(f)
            \/ \E on \in BOOLEAN : PortReads(on)
            \/ PortWrites \/ PortResets \/ UNCHANGED vars)
      BY <1>1 DEF DaemonChange, PortReads, PortWrites, PortResets, vars, mon
    <3>5. QED BY <1>1, <3>1, <3>2, <3>3, <3>4 DEF Next, Monitor
  <2>2. linked # {} /\ udc' = linked
    BY <2>1 DEF MonitorPullsUp, CanBind, Bind
  <2>3. QED BY <1>1, <2>2 DEF GadgetInv, MonitorInStep
<1>2. QED BY <1>1, GadgetInvCorrect, PTL DEF Spec, MonitorPullsUpWhole
=============================================================================
