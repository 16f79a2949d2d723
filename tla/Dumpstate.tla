------------------------------ MODULE Dumpstate ------------------------------
(***************************************************************************)
(* The dumpstate HAL (DumpstateDevice.cpp), a lazy service that exits      *)
(* after every dump: the binder thread, the modem thread it starts when    *)
(* verbose logging is on, and what the two leave behind in properties and  *)
(* under the modem log directory.  External are the framework, init, which *)
(* starts and stops diag_mdlog as its property says, diag_mdlog itself,    *)
(* which rotates its logs, and whoever may kill the service.               *)
(*                                                                         *)
(* The content of a file is abstracted to the dump that wrote it last, and *)
(* whether the end of something older is still behind it: files are opened *)
(* without O_TRUNC.                                                        *)
(***************************************************************************)
EXTENDS Integers, Sequences, FiniteSets, Functions

CONSTANTS
    MaxLogs,     \* bound: logs diag_mdlog writes
    LogLimit,    \* logs it keeps
    maxFileNum,  \* DIAG_MDLOG_NUMBER_BUGREPORT; -1: no limit
    IsUserBuild, \* PropertiesHelper::IsUserBuild()
    MaxDumps,    \* bound: dumps
    MaxFaults,   \* bound: kills, commands that time out, failed accesses
    Absent,      \* in place of a file that does not exist
    NoTar        \* in place of an archive that does not exist

DIAG_LOG_PREFIX == "diag_log_"
Log(n)   == <<DIAG_LOG_PREFIX, n>>
Poweron  == <<"diag_poweron_log.qmdl", 0>>
Radio    == <<"ril, netmgr, tcpdump and extended logs", 0>>
LogFiles == {Log(n) : n \in 1 .. MaxLogs}
Names    == LogFiles \cup {Poweron, Radio}
Copies   == [dump : 1 .. MaxDumps, stale : BOOLEAN]
Archives == [items : SUBSET (Names \X Copies), tail : BOOLEAN]

ASSUME ConstantsOK ==
    /\ MaxLogs \in Nat \ {0} /\ LogLimit \in Nat \ {0}
    /\ maxFileNum \in Nat \cup {-1}
    /\ IsUserBuild \in BOOLEAN
    /\ MaxDumps \in Nat /\ MaxFaults \in Nat
    /\ Absent \notin Copies /\ NoTar \notin Archives

VARIABLES
    \* Properties.
    verbose,     \* VENDOR_VERBOSE_LOGGING_ENABLED_PROPERTY
    located,     \* MODEM_LOG_LOC_PROPERTY and MODEM_LOG_PREFIX_PROPERTY are set
    persist,     \* DIAG_MDLOG_PERSIST_PROPERTY
    mdlog,       \* DIAG_MDLOG_PROPERTY: init starts and stops diag_mdlog by it
    status,      \* DIAG_MDLOG_STATUS_PROPERTY: diag_mdlog runs
    efs,         \* MODEM_EFS_DUMP_PROPERTY
    \* Files.
    oldest, newest,   \* numbers of the first and the last log diag_mdlog keeps
    dirExists,   \* is there a modem_log directory?
    dir,         \* the files in it
    tar,         \* <prefix>all.tar, or NoTar
    report,      \* what the framework's descriptor has been given
    \* The service.
    pc, tpc,     \* where the binder thread and the modem thread stand
    diagLogEnabled, diagLogStarted,   \* locals of dumpModemThread
    pending,     \* files a dumpLogs in progress has still to copy
    dump, faults,
    \* History for the properties.
    before,      \* mdlog when the dump began
    touched,     \* somebody else wrote mdlog during the dump
    troubled,    \* something failed or timed out in this dump
    expected,    \* the newest logs when diag_mdlog was allowed to go on
    dirty        \* a dump was killed or could not clean up behind itself

props   == <<verbose, located, persist, mdlog, status, efs>>
logs    == <<oldest, newest>>
files   == <<dirExists, dir, tar>>
locals  == <<diagLogEnabled, diagLogStarted, pending>>
count   == <<dump, faults>>
history == <<before, touched, troubled, expected, dirty>>
vars    == <<props, logs, files, report, pc, tpc, locals, count, history>>

(***************************************************************************)
(* Files                                                                   *)
(***************************************************************************)

Content(d) == {<<f, d[f]>> : f \in {g \in Names : d[g] # Absent}}

(* The files dumpLogs picks from a directory: those with the prefix, from  *)
(* the last name back, maxFileNum of them. *)
Newest(entries) ==
    LET matching == {f \in entries : f[1] = DIAG_LOG_PREFIX}
        Newer(f) == Cardinality({g \in matching : g[2] > f[2]})
    IN  {f \in matching : maxFileNum = -1 \/ Newer(f) < maxFileNum}

(* alphasort, from the end: one sequence, as the numbers differ. *)
NewestFirst(entries) ==
    {s \in [1 .. Cardinality(entries) -> entries] :
        /\ Range(s) = entries
        /\ \A i, j \in DOMAIN s : i < j => s[i][2] > s[j][2]}

diagLogDir == {Log(n) : n \in oldest .. newest} \cup {Poweron}

(* copyFile writes over a file of an earlier dump from its start. *)
Copied(f) ==
    {[dump |-> dump, stale |-> s] : s \in IF dir[f] = Absent THEN {FALSE} ELSE BOOLEAN}

(* Seeded fault: a file counts as copied where there is no directory. *)
AfterCopyAnyway(f) == {[dir EXCEPT ![f] = c] : c \in Copied(f)}

(* dir may become this after a copyFile: nothing happens if there is no    *)
(* directory. *)
AfterCopy(f) ==
    IF dirExists THEN {[dir EXCEPT ![f] = c] : c \in Copied(f)} ELSE {dir}

(* createTarFile, likewise over what there may be. *)
Tars ==
    IF ~dirExists THEN {tar}
    ELSE {[items |-> Content(dir), tail |-> s] :
             s \in IF tar = NoTar THEN {FALSE} ELSE BOOLEAN}

Init ==
    /\ verbose \in BOOLEAN /\ located \in BOOLEAN /\ persist \in BOOLEAN
    /\ mdlog \in BOOLEAN /\ status = (mdlog /\ persist) /\ efs = FALSE
    /\ oldest = 1 /\ newest = 1
    /\ dirExists = FALSE /\ dir = [f \in Names |-> Absent] /\ tar = NoTar
    /\ report = NoTar
    /\ pc = "idle" /\ tpc = "none"
    /\ diagLogEnabled = FALSE /\ diagLogStarted = FALSE /\ pending = <<>>
    /\ dump = 0 /\ faults = 0
    /\ before = FALSE /\ touched = FALSE /\ troubled = FALSE
    /\ expected = {} /\ dirty = FALSE

(* One of the things that may go wrong does. *)
Trouble == faults < MaxFaults /\ faults' = faults + 1 /\ troubled' = TRUE
Smooth  == UNCHANGED <<faults, troubled>>

(***************************************************************************)
(* dumpstateBoard_1_1, on the only binder thread                           *)
(***************************************************************************)

Goto(place) == pc' = place

(* A call: init starts the service if it is not running. *)
Begin ==
    /\ pc = "idle" /\ dump < MaxDumps
    /\ dump' = dump + 1 /\ Goto("args")
    /\ before' = mdlog /\ touched' = FALSE /\ troubled' = FALSE /\ expected' = {}
    /\ report' = NoTar
    /\ UNCHANGED <<props, logs, files, tpc, locals, faults, dirty>>

(* No descriptor, a mode that is unknown or for another kind of device:    *)
(* refused.  Otherwise the modem is notified, for at most a second. *)
CheckArguments ==
    /\ pc = "args"
    /\ Goto("return") \/ Goto("modem")
    /\ UNCHANGED <<props, logs, files, report, tpc, locals, count, history>>

(* pthread_create, if verbose logging is on and there is a second          *)
(* descriptor; without the thread the rest is dumped all the same. *)
StartModemThread ==
    /\ pc = "modem"
    /\ \/ verbose /\ tpc' = "start"
       \/ UNCHANGED tpc
    /\ Goto("touch")
    /\ UNCHANGED <<props, logs, files, report, locals, count, history>>

(* The sections of the report: files copied and commands run, each with a  *)
(* time-out, one after the other. *)
Section(from, to) ==
    /\ pc = from /\ Goto(to)
    /\ UNCHANGED <<props, logs, files, report, tpc, locals, count, history>>

DumpTouch   == Section("touch", "display")
DumpDisplay == Section("display", "storage")
DumpStorage == Section("storage", "rest")   \* DumpF2FS, DumpUFS, DumpPower
DumpRest    == Section("rest", "join")

(* Seeded fault: the modem thread is not waited for. *)
JoinNot ==
    /\ pc = "join"
    /\ Goto("return")
    /\ UNCHANGED <<props, logs, files, report, tpc, locals, count, history>>

Join ==
    /\ pc = "join" /\ tpc \in {"none", "done"}
    /\ Goto("return")
    /\ UNCHANGED <<props, logs, files, report, tpc, locals, count, history>>

(* The answer; then the post-command task calls exit(0), which ends every  *)
(* thread. *)
Return ==
    /\ pc = "return"
    /\ Goto("idle") /\ tpc' = "none" /\ pending' = <<>>
    /\ UNCHANGED <<props, logs, files, report, diagLogEnabled, diagLogStarted, count, history>>

(* Any time no dump keeps the binder thread busy. *)
setVerboseLoggingEnabled ==
    /\ pc = "idle"
    /\ verbose' = ~verbose
    /\ UNCHANGED <<located, persist, mdlog, status, efs, logs, files, report, pc, tpc, locals,
                   count, history>>

(***************************************************************************)
(* dumpModemThread                                                         *)
(***************************************************************************)

Next2(place) == tpc' = place

ReadProperties ==
    /\ tpc = "start"
    /\ \/ ~located /\ Next2("done") /\ UNCHANGED <<diagLogEnabled, diagLogStarted>>
       \/ /\ located /\ Next2("stop")
          /\ diagLogEnabled' = persist /\ diagLogStarted' = status
    /\ UNCHANGED <<props, logs, files, report, pc, pending, count, history>>

StopMdlog ==
    /\ tpc = "stop"
    /\ \/ /\ diagLogEnabled /\ diagLogStarted
          /\ mdlog' = FALSE /\ Next2("wait")
       \/ ~(diagLogEnabled /\ diagLogStarted) /\ UNCHANGED mdlog /\ Next2("mkdir")
    /\ UNCHANGED <<verbose, located, persist, status, efs, logs, files, report, pc, locals,
                   count, history>>

(* Seeded fault: the copying starts without a wait. *)
WaitForStatusNot ==
    /\ tpc = "wait"
    /\ Next2("mkdir") /\ Smooth
    /\ UNCHANGED <<props, logs, files, report, pc, locals, dump, before, touched, expected,
                   dirty>>

(* Seeded fault: the wait has no time-out. *)
WaitForStatusForever ==
    /\ tpc = "wait"
    /\ ~status /\ Smooth
    /\ Next2("mkdir")
    /\ UNCHANGED <<props, logs, files, report, pc, locals, dump, before, touched, expected,
                   dirty>>

(* WaitForProperty, ten seconds at most. *)
WaitForStatus ==
    /\ tpc = "wait"
    /\ \/ ~status /\ Smooth
       \/ status /\ troubled' = TRUE /\ UNCHANGED faults
    /\ Next2("mkdir")
    /\ UNCHANGED <<props, logs, files, report, pc, locals, dump, before, touched, expected,
                   dirty>>

(* mkdir -p, two seconds at most. *)
MakeDir ==
    /\ tpc = "mkdir"
    /\ \/ dirExists' = TRUE /\ Smooth
       \/ UNCHANGED dirExists /\ Trouble
    /\ Next2(IF diagLogEnabled THEN "diag" ELSE "poweron")
    /\ UNCHANGED <<props, logs, dir, tar, report, pc, locals, dump, before, touched, expected,
                   dirty>>

(* scandir of diagLogDir. *)
ListLogs ==
    /\ tpc = "diag"
    /\ pending' \in NewestFirst(Newest(diagLogDir))
    /\ Next2("copy")
    /\ UNCHANGED <<props, logs, files, report, pc, diagLogEnabled, diagLogStarted, count,
                   history>>

(* A log that is gone when its turn comes is not replaced by another one. *)
CopyLog ==
    /\ tpc = "copy" /\ pending # <<>>
    /\ IF Head(pending) \in diagLogDir THEN dir' \in AfterCopy(Head(pending)) ELSE UNCHANGED dir
    /\ pending' = Tail(pending)
    /\ UNCHANGED <<props, logs, dirExists, tar, report, pc, tpc, diagLogEnabled,
                   diagLogStarted, count, history>>

RestartMdlog ==
    /\ tpc = "copy" /\ pending = <<>>
    /\ mdlog' = (mdlog \/ diagLogStarted)
    /\ expected' = Newest(diagLogDir)
    /\ Next2("poweron")
    /\ UNCHANGED <<verbose, located, persist, status, efs, logs, files, report, pc, locals,
                   count, before, touched, troubled, dirty>>

(* The power-on log; on a build for developers the modem is asked for its  *)
(* file system. *)
CopyPoweron ==
    /\ tpc = "poweron"
    /\ dir' \in AfterCopy(Poweron)
    /\ efs' = (efs \/ ~IsUserBuild)
    /\ Next2(IF IsUserBuild THEN "tar" ELSE "radio")
    /\ UNCHANGED <<verbose, located, persist, mdlog, status, logs, dirExists, tar, report, pc,
                   locals, count, history>>

(* tcpdump, RIL, netmgr and extended logs. *)
CopyRadio ==
    /\ tpc = "radio"
    /\ dir' \in AfterCopy(Radio)
    /\ Next2("efs")
    /\ UNCHANGED <<props, logs, dirExists, tar, report, pc, locals, count, history>>

EfsDumpOff ==
    /\ tpc = "efs"
    /\ efs' = FALSE
    /\ Next2("tar")
    /\ UNCHANGED <<verbose, located, persist, mdlog, status, logs, files, report, pc, locals,
                   count, history>>

CreateTarFile ==
    /\ tpc = "tar"
    /\ tar' \in Tars
    /\ Next2("send")
    /\ UNCHANGED <<props, logs, dirExists, dir, report, pc, locals, count, history>>

(* The archive is copied to the framework's descriptor, as far as it goes. *)
SendTar ==
    /\ tpc = "send"
    /\ report' = tar
    /\ Next2("rmdir")
    /\ UNCHANGED <<props, logs, files, pc, locals, count, history>>

(* Seeded fault: the directory is left for the next dump. *)
RemoveDirNot ==
    /\ tpc = "rmdir"
    /\ UNCHANGED <<dirExists, dir>> /\ Smooth /\ UNCHANGED dirty
    /\ Next2("rmtar")
    /\ UNCHANGED <<props, logs, tar, report, pc, locals, dump, before, touched, expected>>

(* rm -r, two seconds at most: it may have removed a part. *)
RemoveDir ==
    /\ tpc = "rmdir"
    /\ \/ /\ dirExists' = FALSE /\ dir' = [f \in Names |-> Absent]
          /\ Smooth /\ UNCHANGED dirty
       \/ /\ dirExists /\ Trouble /\ dirty' = TRUE
          /\ \E f \in Names : dir' = [dir EXCEPT ![f] = Absent]
          /\ UNCHANGED dirExists
    /\ Next2("rmtar")
    /\ UNCHANGED <<props, logs, tar, report, pc, locals, dump, before, touched, expected>>

RemoveTar ==
    /\ tpc = "rmtar"
    /\ \/ tar' = NoTar /\ Smooth /\ UNCHANGED dirty
       \/ tar # NoTar /\ UNCHANGED tar /\ Trouble /\ dirty' = TRUE
    /\ Next2("done")
    /\ UNCHANGED <<props, logs, dirExists, dir, report, pc, locals, dump, before, touched,
                   expected>>

(***************************************************************************)
(* The rest of the device (external)                                       *)
(***************************************************************************)

(* init follows the property in its own time. *)
InitStartsOrStops ==
    /\ status # (mdlog /\ persist)
    /\ status' = (mdlog /\ persist)
    /\ UNCHANGED <<verbose, located, persist, mdlog, efs, logs, files, report, pc, tpc, locals,
                   count, history>>

(* diag_mdlog begins another log, and removes the oldest of too many. *)
Rotate ==
    /\ status /\ newest < MaxLogs
    /\ newest' = newest + 1
    /\ oldest' = IF newest + 1 - oldest < LogLimit THEN oldest ELSE oldest + 1
    /\ UNCHANGED <<props, files, report, pc, tpc, locals, count, history>>

(* Somebody switches modem logging, during a dump or not. *)
OtherSwitch ==
    /\ faults < MaxFaults /\ faults' = faults + 1
    /\ mdlog' = ~mdlog /\ touched' = TRUE
    /\ UNCHANGED <<verbose, located, persist, status, efs, logs, files, report, pc, tpc, locals,
                   dump, before, troubled, expected, dirty>>

(* The service is killed; an archive in the making is left half done. *)
Kill ==
    /\ pc # "idle"
    /\ Trouble /\ dirty' = TRUE
    /\ IF tpc = "tar" THEN tar' \in Tars \cup {tar} ELSE UNCHANGED tar
    /\ Goto("idle") /\ tpc' = "none" /\ pending' = <<>>
    /\ UNCHANGED <<props, logs, dirExists, dir, report, diagLogEnabled, diagLogStarted, dump,
                   before, touched, expected>>

(***************************************************************************)
(* The system                                                              *)
(***************************************************************************)

BinderStep ==
    \/ CheckArguments \/ StartModemThread
    \/ DumpTouch \/ DumpDisplay \/ DumpStorage \/ DumpRest
    \/ Join \/ Return

ModemStep ==
    \/ ReadProperties \/ StopMdlog \/ WaitForStatus \/ MakeDir
    \/ ListLogs \/ CopyLog \/ RestartMdlog
    \/ CopyPoweron \/ CopyRadio \/ EfsDumpOff
    \/ CreateTarFile \/ SendTar \/ RemoveDir \/ RemoveTar

Next ==
    \/ Begin \/ setVerboseLoggingEnabled
    \/ BinderStep \/ ModemStep
    \/ InitStartsOrStops \/ Rotate \/ OtherSwitch \/ Kill

(* Both threads run, and every command and wait ends by its time-out; init *)
(* and diag_mdlog owe nothing. *)
Fairness == WF_vars(BinderStep) /\ WF_vars(ModemStep)

Spec == Init /\ [][Next]_vars /\ Fairness

(***************************************************************************)
(* Properties                                                              *)
(***************************************************************************)

Places == {"idle", "args", "modem", "touch", "display", "storage", "rest", "join", "return"}
ThreadPlaces == {"none", "start", "stop", "wait", "mkdir", "diag", "copy", "poweron", "radio",
                 "efs", "tar", "send", "rmdir", "rmtar", "done"}

TypeOK ==
    /\ verbose \in BOOLEAN /\ located \in BOOLEAN /\ persist \in BOOLEAN
    /\ mdlog \in BOOLEAN /\ status \in BOOLEAN /\ efs \in BOOLEAN
    /\ oldest \in 1 .. newest /\ newest \in 1 .. MaxLogs /\ newest - oldest < LogLimit
    /\ dirExists \in BOOLEAN /\ dir \in [Names -> Copies \cup {Absent}]
    /\ ~dirExists => \A f \in Names : dir[f] = Absent
    /\ tar \in Archives \cup {NoTar} /\ report \in Archives \cup {NoTar}
    /\ pc \in Places /\ tpc \in ThreadPlaces /\ (tpc # "none" => pc # "idle")
    /\ diagLogEnabled \in BOOLEAN /\ diagLogStarted \in BOOLEAN /\ pending \in Seq(LogFiles)
    /\ dump \in 0 .. MaxDumps /\ faults \in 0 .. MaxFaults
    /\ before \in BOOLEAN /\ touched \in BOOLEAN /\ troubled \in BOOLEAN
    /\ expected \subseteq LogFiles /\ dirty \in BOOLEAN

(* Whatever way a dump takes, slow or failing, when it is over modem       *)
(* logging is not left off if it was on before and nobody else switched    *)
(* it, and the modem is no longer asked to dump its file system; only a    *)
(* dump that was killed half way leaves that behind. *)
SwitchesRestored ==
    pc = "idle" /\ ~dirty => ~efs /\ (before /\ ~touched /\ dump > 0 => mdlog)

(* What the framework is given was written by this dump, all of it, unless *)
(* an earlier one was killed or could not clean up: then leftovers of that *)
(* dump are in the archive, or behind its end. *)
ReportIsOfThisDump ==
    report # NoTar /\ ~dirty =>
        /\ ~report.tail
        /\ \A item \in report.items : item[2] = [dump |-> dump, stale |-> FALSE]

(* A dump in which nothing failed reports the newest logs of diag_mdlog,   *)
(* as many as configured, which do not change while they are listed and    *)
(* copied: it has been stopped, and only then goes on.                     *)
NewestLogsReported ==
    tpc = "done" /\ located /\ ~dirty /\ ~troubled /\ ~touched
        /\ diagLogEnabled /\ diagLogStarted =>
        {item[1] : item \in report.items} \ {Poweron, Radio} = expected

(* A dump always ends, with whatever diag_mdlog does, or the service has   *)
(* been killed. *)
EveryDumpReturns == pc # "idle" ~> pc = "idle"
=============================================================================
