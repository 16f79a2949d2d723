--------------------------- MODULE Dumpstate_proofs ---------------------------
(***************************************************************************)
(* The dumpstate HAL, proved for every number of logs, of dumps and of     *)
(* faults.  DumpInv is the inductive invariant: as long as no dump has     *)
(* been killed or has failed to clean up behind itself, it says at each    *)
(* place of the modem thread which files exist, of which dump they are,    *)
(* which switches the thread has yet to set back and, if nothing else      *)
(* went wrong, that the logs do not change while they are copied.          *)
(***************************************************************************)
EXTENDS Dumpstate, TLAPS, FiniteSetTheorems, FunctionTheorems

(* The modem thread is started after the arguments were checked, and       *)
(* joined before the call returns. *)
ThreadInCall ==
    /\ pc # "idle" => dump > 0
    /\ pc \in {"args", "modem"} => tpc = "none"
    /\ pc = "return" => tpc \in {"none", "done"}

(* The modem is asked for its file system by this dump only. *)
EfsInStep == efs /\ ~dirty => tpc \in {"radio", "efs"}

(* Modem logging that was on is on, or this dump will switch it on again. *)
MdlogInStep ==
    before /\ ~touched /\ dump > 0 /\ ~dirty =>
        \/ mdlog
        \/ diagLogEnabled /\ diagLogStarted /\ tpc \in {"wait", "mkdir", "diag", "copy"}

(* Outside its part of the dump there is no directory and no archive.      *)
CleanInStep ==
    ~dirty =>
        /\ tpc \in {"none", "start", "stop", "wait", "mkdir", "rmtar", "done"} => ~dirExists
        /\ tpc \notin {"send", "rmdir", "rmtar"} => tar = NoTar

(* No file is listed twice to be copied. *)
ListedOnce == \A i, j \in DOMAIN pending : i # j => pending[i] # pending[j]

(* What is yet to be copied is not in the directory. *)
FreshInStep ==
    ~dirty =>
        /\ tpc = "diag" => \A f \in Names : dir[f] = Absent
        /\ tpc = "copy" => \A i \in DOMAIN pending : dir[pending[i]] = Absent
        /\ tpc \in {"copy", "poweron"} => dir[Poweron] = Absent
        /\ tpc \in {"copy", "poweron", "radio"} => dir[Radio] = Absent

(* A copy and an archive made whole by this dump. *)
ThisCopy == [dump |-> dump, stale |-> FALSE]
Whole(archive) == ~archive.tail /\ \A item \in archive.items : item[2] = ThisCopy

FilesOfThisDump ==
    ~dirty =>
        /\ \A f \in Names : dir[f] # Absent => dir[f] = ThisCopy
        /\ tar # NoTar => Whole(tar)
        /\ report # NoTar => Whole(report)

(* A dump that stopped diag_mdlog, and in which nothing went wrong. *)
Quiet == located /\ ~dirty /\ ~troubled /\ ~touched /\ diagLogEnabled /\ diagLogStarted

StoppedInStep ==
    Quiet =>
        /\ tpc \in {"wait", "mkdir", "diag", "copy"} => ~mdlog
        /\ tpc \in {"mkdir", "diag", "copy"} => ~status

(* A dump in which nothing went wrong has a directory to copy to. *)
DirectoryInStep ==
    ~troubled /\ tpc \in {"diag", "copy", "poweron", "radio", "efs", "tar"} => dirExists

(* The logs copied so far, and those in an archive. *)
CopiedLogs == {f \in LogFiles : dir[f] # Absent}
LogsOf(archive) == {item[1] : item \in archive.items} \ {Poweron, Radio}

LogsInStep ==
    Quiet =>
        /\ tpc = "copy" => CopiedLogs \cup Range(pending) = Newest(diagLogDir)
        /\ tpc \in {"poweron", "radio", "efs", "tar"} => CopiedLogs = expected
        /\ tpc = "send" => LogsOf(tar) = expected
        /\ tpc \in {"rmdir", "rmtar", "done"} => LogsOf(report) = expected

DumpInv ==
    /\ TypeOK /\ ThreadInCall
    /\ EfsInStep /\ MdlogInStep
    /\ CleanInStep /\ ListedOnce /\ FreshInStep /\ FilesOfThisDump
    /\ StoppedInStep /\ DirectoryInStep /\ LogsInStep

(***************************************************************************)
(* The operators of the model                                              *)
(***************************************************************************)

(* The type invariant in parts: the properties, the files, the service,    *)
(* the history. *)
PropsOK ==
    /\ verbose \in BOOLEAN /\ located \in BOOLEAN /\ persist \in BOOLEAN
    /\ mdlog \in BOOLEAN /\ status \in BOOLEAN /\ efs \in BOOLEAN

FilesOK ==
    /\ oldest \in 1 .. newest /\ newest \in 1 .. MaxLogs /\ newest - oldest < LogLimit
    /\ dirExists \in BOOLEAN /\ dir \in [Names -> Copies \cup {Absent}]
    /\ ~dirExists => \A f \in Names : dir[f] = Absent
    /\ tar \in Archives \cup {NoTar} /\ report \in Archives \cup {NoTar}

FlowOK ==
    /\ pc \in Places /\ tpc \in ThreadPlaces /\ (tpc # "none" => pc # "idle")
    /\ diagLogEnabled \in BOOLEAN /\ diagLogStarted \in BOOLEAN /\ pending \in Seq(LogFiles)
    /\ dump \in 0 .. MaxDumps /\ faults \in 0 .. MaxFaults

HistoryOK ==
    /\ before \in BOOLEAN /\ touched \in BOOLEAN /\ troubled \in BOOLEAN
    /\ expected \subseteq LogFiles /\ dirty \in BOOLEAN

LEMMA TypeParts == TypeOK <=> PropsOK /\ FilesOK /\ FlowOK /\ HistoryOK
BY DEF TypeOK, PropsOK, FilesOK, FlowOK, HistoryOK

(* The other two files are no logs of diag_mdlog. *)
LEMMA NotLogs == Poweron \notin LogFiles /\ Radio \notin LogFiles /\ Poweron # Radio
BY DEF Poweron, Radio, LogFiles, Log, DIAG_LOG_PREFIX

(* The newest logs are logs that are there, and finitely many. *)
LEMMA NewestType ==
    ASSUME FilesOK
    PROVE  /\ Newest(diagLogDir) \subseteq LogFiles /\ Newest(diagLogDir) \subseteq diagLogDir
           /\ Cardinality(Newest(diagLogDir)) \in Nat
<1>1. Newest(diagLogDir) \subseteq diagLogDir
  BY DEF Newest
<1>2. \A f \in Newest(diagLogDir) : f[1] = DIAG_LOG_PREFIX
  BY DEF Newest
<1>3. Poweron[1] # DIAG_LOG_PREFIX
  BY DEF Poweron, DIAG_LOG_PREFIX
<1>4. {Log(n) : n \in oldest .. newest} \subseteq LogFiles
  <2>1. oldest .. newest \subseteq 1 .. MaxLogs
    BY ConstantsOK DEF FilesOK
  <2>2. QED BY <2>1 DEF LogFiles
<1>5. Newest(diagLogDir) \subseteq {Log(n) : n \in oldest .. newest}
  BY <1>1, <1>2, <1>3 DEF diagLogDir
<1>6. IsFiniteSet(oldest .. newest)
  BY FS_Interval DEF FilesOK
<1>7. IsFiniteSet({Log(n) : n \in oldest .. newest})
  <2> DEFINE LogOf == [n \in oldest .. newest |-> Log(n)]
  <2>1. LogOf \in Surjection(oldest .. newest, {Log(n) : n \in oldest .. newest})
    BY DEF Surjection
  <2>2. QED BY <1>6, <2>1, FS_Surjection
<1>8. IsFiniteSet(Newest(diagLogDir))
  BY <1>5, <1>7, FS_Subset
<1>9. QED BY <1>1, <1>4, <1>5, <1>8, FS_CardinalityType

(* What scandir and alphasort return: every entry, and only once. *)
LEMMA NewestFirstLists ==
    ASSUME NEW entries \in SUBSET LogFiles, Cardinality(entries) \in Nat, NEW s \in NewestFirst(entries)
    PROVE  /\ s \in Seq(entries) /\ Range(s) = entries
           /\ \A i, j \in DOMAIN s : i # j => s[i] # s[j]
<1>1. /\ s \in [1 .. Cardinality(entries) -> entries] /\ Range(s) = entries
      /\ \A i, j \in DOMAIN s : i < j => s[i][2] > s[j][2]
  BY DEF NewestFirst
<1>2. s \in Seq(entries)
  BY <1>1
<1>3. ASSUME NEW i \in DOMAIN s, NEW j \in DOMAIN s, i # j PROVE s[i] # s[j]
  <2>1. DOMAIN s = 1 .. Cardinality(entries)
    BY <1>1
  <2>2. s[i] \in LogFiles /\ s[j] \in LogFiles
    BY <1>1
  <2>3. s[i][2] \in Int /\ s[j][2] \in Int
    BY <2>2 DEF LogFiles, Log
  <2>4. s[i][2] > s[j][2] \/ s[j][2] > s[i][2]
    BY <1>1, <1>3, <2>1
  <2>5. QED BY <2>3, <2>4
<1>4. QED BY <1>1, <1>2, <1>3

(* What copying a file does to the directory. *)
LEMMA AfterCopyDoes ==
    ASSUME FilesOK, dump \in 1 .. MaxDumps, NEW f \in Names, NEW new \in AfterCopy(f)
    PROVE  /\ new \in [Names -> Copies \cup {Absent}]
           /\ ~dirExists => new = dir
           /\ dirExists => new[f] \in Copies /\ new[f] # Absent
           /\ dirExists /\ dir[f] = Absent => new[f] = ThisCopy
           /\ \A h \in Names \ {f} : new[h] = dir[h]
<1>1. dir \in [Names -> Copies \cup {Absent}]
  BY DEF FilesOK
<1>2. ASSUME NEW c \in Copied(f) PROVE c \in Copies /\ (dir[f] = Absent => c = ThisCopy)
  <2>1. PICK s \in IF dir[f] = Absent THEN {FALSE} ELSE BOOLEAN : c = [dump |-> dump, stale |-> s]
    BY DEF Copied
  <2>2. s \in BOOLEAN /\ (dir[f] = Absent => s = FALSE)
    BY <2>1
  <2>3. QED BY <2>1, <2>2 DEF Copies, ThisCopy
<1>3. CASE ~dirExists
  BY <1>1, <1>3 DEF AfterCopy
<1>4. CASE dirExists
  <2>1. PICK c \in Copied(f) : new = [dir EXCEPT ![f] = c]
    BY <1>4 DEF AfterCopy
  <2>2. c \in Copies /\ c # Absent
    BY <1>2, ConstantsOK
  <2>3. new[f] = c /\ new \in [Names -> Copies \cup {Absent}] /\ \A h \in Names \ {f} : new[h] = dir[h]
    BY <1>1, <2>1, <2>2
  <2>4. QED BY <1>2, <1>4, <2>2, <2>3
<1>5. QED BY <1>3, <1>4

(* What is in the archive of a directory. *)
LEMMA TarsDoes ==
    ASSUME FilesOK, NEW new \in Tars
    PROVE  /\ new \in Archives \cup {NoTar}
           /\ ~dirExists => new = tar
           /\ dirExists => new # NoTar /\ new.items = Content(dir)
           /\ dirExists /\ tar = NoTar => ~new.tail
<1>1. dir \in [Names -> Copies \cup {Absent}] /\ tar \in Archives \cup {NoTar}
  BY DEF FilesOK
<1>2. CASE ~dirExists
  BY <1>1, <1>2 DEF Tars
<1>3. CASE dirExists
  <2>1. PICK s \in IF tar = NoTar THEN {FALSE} ELSE BOOLEAN :
              new = [items |-> Content(dir), tail |-> s]
    BY <1>3 DEF Tars
  <2>2. Content(dir) \subseteq Names \X Copies
    BY <1>1 DEF Content
  <2>3. new \in Archives
    BY <2>1, <2>2 DEF Archives
  <2>4. QED BY <1>3, <2>1, <2>3, ConstantsOK
<1>4. QED BY <1>2, <1>3

LEMMA ContentLogs ==
    ASSUME NEW archive, archive.items = Content(dir)
    PROVE  LogsOf(archive) = CopiedLogs
<1>1. {item[1] : item \in archive.items} = {f \in Names : dir[f] # Absent}
  <2> DEFINE Present == {f \in Names : dir[f] # Absent}
  <2>1. archive.items = {<<f, dir[f]>> : f \in Present}
    BY DEF Content
  <2>2. ASSUME NEW f \in Present PROVE \E item \in archive.items : item[1] = f
    <3>1. <<f, dir[f]>> \in archive.items /\ <<f, dir[f]>>[1] = f
      BY <2>1
    <3>2. QED BY <3>1
  <2>3. ASSUME NEW item \in archive.items PROVE item[1] \in Present
    BY <2>1
  <2>4. QED BY <2>2, <2>3
<1>2. QED BY <1>1, NotLogs DEF LogsOf, CopiedLogs, Names

(* The first of the listed files and the others. *)
LEMMA HeadTail ==
    ASSUME NEW S, NEW s \in Seq(S), s # <<>>
    PROVE  /\ Head(s) \in S /\ Head(s) = s[1] /\ 1 \in DOMAIN s /\ Tail(s) \in Seq(S)
           /\ \A i \in DOMAIN Tail(s) : i + 1 \in DOMAIN s /\ Tail(s)[i] = s[i + 1] /\ i + 1 # 1
           /\ Range(s) = {Head(s)} \cup Range(Tail(s))
<1>1. Len(s) \in Nat /\ Len(s) > 0 /\ DOMAIN s = 1 .. Len(s)
  OBVIOUS
<1>2. Head(s) = s[1] /\ Tail(s) \in Seq(S) /\ Len(Tail(s)) = Len(s) - 1
  OBVIOUS
<1>3. DOMAIN Tail(s) = 1 .. Len(s) - 1
  BY <1>2
<1>4. ASSUME NEW i \in 1 .. Len(s) - 1
      PROVE  i + 1 \in DOMAIN s /\ Tail(s)[i] = s[i + 1] /\ i + 1 # 1
  BY <1>1, <1>2
<1>5. ASSUME NEW i \in DOMAIN s, i # 1 PROVE i - 1 \in DOMAIN Tail(s) /\ Tail(s)[i - 1] = s[i]
  BY <1>1, <1>2, <1>3, <1>5
<1>6. Range(s) = {s[i] : i \in DOMAIN s} /\ Range(Tail(s)) = {Tail(s)[i] : i \in DOMAIN Tail(s)}
  BY DEF Range
<1>7. Range(s) \subseteq {Head(s)} \cup Range(Tail(s))
  BY <1>2, <1>5, <1>6
<1>8. Range(Tail(s)) \subseteq Range(s)
  BY <1>3, <1>4, <1>6
<1>9. Head(s) \in Range(s)
  BY <1>1, <1>2, <1>6
<1>10. s[1] \in S
  BY <1>1
<1>11. QED BY <1>1, <1>2, <1>3, <1>4, <1>7, <1>8, <1>9, <1>10

(***************************************************************************)
(* Every step preserves it                                                 *)
(***************************************************************************)

(* A dump is counted while it lasts, and what is taken from the sequence   *)
(* of files is a file. *)
LEMMA InTheDump == ASSUME DumpInv, tpc # "none" PROVE dump \in 1 .. MaxDumps
BY ConstantsOK DEF DumpInv, TypeOK, ThreadInCall

LEMMA PropsStep == DumpInv /\ [Next]_vars => PropsOK'
<1> SUFFICES ASSUME DumpInv, [Next]_vars PROVE PropsOK'
  OBVIOUS
<1> USE DEF PropsOK, props, logs, files, locals, count, history, Goto, Next2, Smooth,
        Trouble
<1>0. PropsOK /\ FilesOK /\ FlowOK /\ HistoryOK
  BY TypeParts DEF DumpInv
<1>1. CASE Begin
  BY <1>0, <1>1 DEF Begin
<1>2. CASE setVerboseLoggingEnabled
  BY <1>0, <1>2 DEF setVerboseLoggingEnabled
<1>3. CASE CheckArguments
  BY <1>0, <1>3 DEF CheckArguments
<1>4. CASE StartModemThread
  BY <1>0, <1>4 DEF StartModemThread
<1>5. CASE DumpTouch
  BY <1>0, <1>5 DEF DumpTouch, Section
<1>6. CASE DumpDisplay
  BY <1>0, <1>6 DEF DumpDisplay, Section
<1>7. CASE DumpStorage
  BY <1>0, <1>7 DEF DumpStorage, Section
<1>8. CASE DumpRest
  BY <1>0, <1>8 DEF DumpRest, Section
<1>9. CASE Join
  BY <1>0, <1>9 DEF Join
<1>10. CASE Return
  BY <1>0, <1>10 DEF Return
<1>11. CASE ReadProperties
  BY <1>0, <1>11 DEF ReadProperties
<1>12. CASE StopMdlog
  BY <1>0, <1>12 DEF StopMdlog
<1>13. CASE WaitForStatus
  BY <1>0, <1>13 DEF WaitForStatus
<1>14. CASE MakeDir
  BY <1>0, <1>14 DEF MakeDir
<1>15. CASE ListLogs
  BY <1>0, <1>15 DEF ListLogs
<1>16. CASE CopyLog
  BY <1>0, <1>16 DEF CopyLog
<1>17. CASE RestartMdlog
  BY <1>0, <1>17 DEF RestartMdlog
<1>18. CASE CopyPoweron
  BY <1>0, <1>18 DEF CopyPoweron
<1>19. CASE CopyRadio
  BY <1>0, <1>19 DEF CopyRadio
<1>20. CASE EfsDumpOff
  BY <1>0, <1>20 DEF EfsDumpOff
<1>21. CASE CreateTarFile
  BY <1>0, <1>21 DEF CreateTarFile
<1>22. CASE SendTar
  BY <1>0, <1>22 DEF SendTar
<1>23. CASE RemoveDir
  BY <1>0, <1>23 DEF RemoveDir
<1>24. CASE RemoveTar
  BY <1>0, <1>24 DEF RemoveTar
<1>25. CASE InitStartsOrStops
  BY <1>0, <1>25 DEF InitStartsOrStops
<1>26. CASE Rotate
  BY <1>0, <1>26 DEF Rotate
<1>27. CASE OtherSwitch
  BY <1>0, <1>27 DEF OtherSwitch
<1>28. CASE Kill
  BY <1>0, <1>28 DEF Kill
<1>29. CASE UNCHANGED vars
  BY <1>0, <1>29 DEF vars
<1>30. QED
  BY <1>1, <1>2, <1>3, <1>4, <1>5, <1>6, <1>7, <1>8, <1>9, <1>10, <1>11, <1>12, <1>13,
     <1>14, <1>15, <1>16, <1>17, <1>18, <1>19, <1>20, <1>21, <1>22, <1>23, <1>24, <1>25,
     <1>26, <1>27, <1>28, <1>29
     DEF Next, BinderStep, ModemStep

LEMMA FilesStep == DumpInv /\ [Next]_vars => FilesOK'
<1> SUFFICES ASSUME DumpInv, [Next]_vars PROVE FilesOK'
  OBVIOUS
<1> USE ConstantsOK DEF props, logs, files, locals, count, history, Goto, Next2, Smooth,
        Trouble
<1>0. PropsOK /\ FilesOK /\ FlowOK /\ HistoryOK
  BY TypeParts DEF DumpInv
<1>1. CASE Begin
  BY <1>0, <1>1 DEF FilesOK, Begin
<1>2. CASE setVerboseLoggingEnabled
  BY <1>0, <1>2 DEF FilesOK, setVerboseLoggingEnabled
<1>3. CASE CheckArguments
  BY <1>0, <1>3 DEF FilesOK, CheckArguments
<1>4. CASE StartModemThread
  BY <1>0, <1>4 DEF FilesOK, StartModemThread
<1>5. CASE DumpTouch
  BY <1>0, <1>5 DEF FilesOK, DumpTouch, Section
<1>6. CASE DumpDisplay
  BY <1>0, <1>6 DEF FilesOK, DumpDisplay, Section
<1>7. CASE DumpStorage
  BY <1>0, <1>7 DEF FilesOK, DumpStorage, Section
<1>8. CASE DumpRest
  BY <1>0, <1>8 DEF FilesOK, DumpRest, Section
<1>9. CASE Join
  BY <1>0, <1>9 DEF FilesOK, Join
<1>10. CASE Return
  BY <1>0, <1>10 DEF FilesOK, Return
<1>11. CASE ReadProperties
  BY <1>0, <1>11 DEF FilesOK, ReadProperties
<1>12. CASE StopMdlog
  BY <1>0, <1>12 DEF FilesOK, StopMdlog
<1>13. CASE WaitForStatus
  BY <1>0, <1>13 DEF FilesOK, WaitForStatus
<1>14. CASE MakeDir
  BY <1>0, <1>14 DEF FilesOK, MakeDir
<1>15. CASE ListLogs
  BY <1>0, <1>15 DEF FilesOK, ListLogs
<1>16. CASE CopyLog
  <2>1. Head(pending) \in Names /\ dump \in 1 .. MaxDumps
    BY <1>0, <1>16, InTheDump, HeadTail DEF Names, CopyLog, FlowOK
  <2>2. dir' \in [Names -> Copies \cup {Absent}] /\ (~dirExists => dir' = dir)
    BY <1>0, <1>16, <2>1, AfterCopyDoes DEF CopyLog, FilesOK
  <2>3. QED BY <1>0, <1>16, <2>2 DEF CopyLog, FilesOK
<1>17. CASE RestartMdlog
  BY <1>0, <1>17 DEF FilesOK, RestartMdlog
<1>18. CASE CopyPoweron
  <2>1. Poweron \in Names /\ dump \in 1 .. MaxDumps
    BY <1>0, <1>18, InTheDump DEF Names, CopyPoweron
  <2>2. dir' \in [Names -> Copies \cup {Absent}] /\ (~dirExists => dir' = dir)
    BY <1>0, <1>18, <2>1, AfterCopyDoes DEF CopyPoweron
  <2>3. QED BY <1>0, <1>18, <2>2 DEF CopyPoweron, FilesOK
<1>19. CASE CopyRadio
  <2>1. Radio \in Names /\ dump \in 1 .. MaxDumps
    BY <1>0, <1>19, InTheDump DEF Names, CopyRadio
  <2>2. dir' \in [Names -> Copies \cup {Absent}] /\ (~dirExists => dir' = dir)
    BY <1>0, <1>19, <2>1, AfterCopyDoes DEF CopyRadio
  <2>3. QED BY <1>0, <1>19, <2>2 DEF CopyRadio, FilesOK
<1>20. CASE EfsDumpOff
  BY <1>0, <1>20 DEF FilesOK, EfsDumpOff
<1>21. CASE CreateTarFile
  <2>1. tar' \in Archives \cup {NoTar}
    BY <1>0, <1>21, TarsDoes DEF CreateTarFile
  <2>2. QED BY <1>0, <1>21, <2>1 DEF CreateTarFile, FilesOK
<1>22. CASE SendTar
  BY <1>0, <1>22 DEF FilesOK, SendTar
<1>23. CASE RemoveDir
  BY <1>0, <1>23 DEF FilesOK, RemoveDir
<1>24. CASE RemoveTar
  BY <1>0, <1>24 DEF FilesOK, RemoveTar
<1>25. CASE InitStartsOrStops
  BY <1>0, <1>25 DEF FilesOK, InitStartsOrStops
<1>26. CASE Rotate
  BY <1>0, <1>26 DEF FilesOK, Rotate
<1>27. CASE OtherSwitch
  BY <1>0, <1>27 DEF FilesOK, OtherSwitch
<1>28. CASE Kill
  <2>1. tar' \in Archives \cup {NoTar}
    BY <1>0, <1>28, TarsDoes DEF Kill, FilesOK
  <2>2. QED BY <1>0, <1>28, <2>1 DEF Kill, FilesOK
<1>29. CASE UNCHANGED vars
  BY <1>0, <1>29 DEF FilesOK, vars
<1>30. QED
  BY <1>1, <1>2, <1>3, <1>4, <1>5, <1>6, <1>7, <1>8, <1>9, <1>10, <1>11, <1>12, <1>13,
     <1>14, <1>15, <1>16, <1>17, <1>18, <1>19, <1>20, <1>21, <1>22, <1>23, <1>24, <1>25,
     <1>26, <1>27, <1>28, <1>29
     DEF Next, BinderStep, ModemStep

LEMMA FlowStep == DumpInv /\ [Next]_vars => FlowOK'
<1> SUFFICES ASSUME DumpInv, [Next]_vars PROVE FlowOK'
  OBVIOUS
<1> USE ConstantsOK DEF FlowOK, Places, ThreadPlaces, ThreadInCall, DumpInv, props,
        logs, files, locals, count, history, Goto, Next2, Smooth, Trouble
<1>0. PropsOK /\ FilesOK /\ FlowOK /\ HistoryOK
  BY TypeParts DEF DumpInv
<1>1. CASE Begin
  BY <1>0, <1>1 DEF Begin
<1>2. CASE setVerboseLoggingEnabled
  BY <1>0, <1>2 DEF setVerboseLoggingEnabled
<1>3. CASE CheckArguments
  BY <1>0, <1>3 DEF CheckArguments
<1>4. CASE StartModemThread
  BY <1>0, <1>4 DEF StartModemThread
<1>5. CASE DumpTouch
  BY <1>0, <1>5 DEF DumpTouch, Section
<1>6. CASE DumpDisplay
  BY <1>0, <1>6 DEF DumpDisplay, Section
<1>7. CASE DumpStorage
  BY <1>0, <1>7 DEF DumpStorage, Section
<1>8. CASE DumpRest
  BY <1>0, <1>8 DEF DumpRest, Section
<1>9. CASE Join
  BY <1>0, <1>9 DEF Join
<1>10. CASE Return
  BY <1>0, <1>10 DEF Return
<1>11. CASE ReadProperties
  BY <1>0, <1>11 DEF ReadProperties, PropsOK
<1>12. CASE StopMdlog
  BY <1>0, <1>12 DEF StopMdlog
<1>13. CASE WaitForStatus
  BY <1>0, <1>13 DEF WaitForStatus
<1>14. CASE MakeDir
  BY <1>0, <1>14 DEF MakeDir
<1>15. CASE ListLogs
  <2>1. pending' \in Seq(Newest(diagLogDir)) /\ Newest(diagLogDir) \subseteq LogFiles
    BY <1>0, <1>15, NewestType, NewestFirstLists DEF ListLogs
  <2>2. pending' \in Seq(LogFiles)
    BY <2>1
  <2>3. QED BY <1>0, <1>15, <2>2 DEF ListLogs
<1>16. CASE CopyLog
  BY <1>0, <1>16 DEF CopyLog
<1>17. CASE RestartMdlog
  BY <1>0, <1>17 DEF RestartMdlog
<1>18. CASE CopyPoweron
  BY <1>0, <1>18 DEF CopyPoweron
<1>19. CASE CopyRadio
  BY <1>0, <1>19 DEF CopyRadio
<1>20. CASE EfsDumpOff
  BY <1>0, <1>20 DEF EfsDumpOff
<1>21. CASE CreateTarFile
  BY <1>0, <1>21 DEF CreateTarFile
<1>22. CASE SendTar
  BY <1>0, <1>22 DEF SendTar
<1>23. CASE RemoveDir
  BY <1>0, <1>23 DEF RemoveDir
<1>24. CASE RemoveTar
  BY <1>0, <1>24 DEF RemoveTar
<1>25. CASE InitStartsOrStops
  BY <1>0, <1>25 DEF InitStartsOrStops
<1>26. CASE Rotate
  BY <1>0, <1>26 DEF Rotate
<1>27. CASE OtherSwitch
  BY <1>0, <1>27 DEF OtherSwitch
<1>28. CASE Kill
  BY <1>0, <1>28 DEF Kill
<1>29. CASE UNCHANGED vars
  BY <1>0, <1>29 DEF vars
<1>30. QED
  BY <1>1, <1>2, <1>3, <1>4, <1>5, <1>6, <1>7, <1>8, <1>9, <1>10, <1>11, <1>12, <1>13,
     <1>14, <1>15, <1>16, <1>17, <1>18, <1>19, <1>20, <1>21, <1>22, <1>23, <1>24, <1>25,
     <1>26, <1>27, <1>28, <1>29
     DEF Next, BinderStep, ModemStep

LEMMA HistoryStep == DumpInv /\ [Next]_vars => HistoryOK'
<1> SUFFICES ASSUME DumpInv, [Next]_vars PROVE HistoryOK'
  OBVIOUS
<1> USE DEF HistoryOK, props, logs, files, locals, count, history, Goto, Next2, Smooth,
        Trouble
<1>0. PropsOK /\ FilesOK /\ FlowOK /\ HistoryOK
  BY TypeParts DEF DumpInv
<1>1. CASE Begin
  BY <1>0, <1>1 DEF Begin, PropsOK
<1>2. CASE setVerboseLoggingEnabled
  BY <1>0, <1>2 DEF setVerboseLoggingEnabled
<1>3. CASE CheckArguments
  BY <1>0, <1>3 DEF CheckArguments
<1>4. CASE StartModemThread
  BY <1>0, <1>4 DEF StartModemThread
<1>5. CASE DumpTouch
  BY <1>0, <1>5 DEF DumpTouch, Section
<1>6. CASE DumpDisplay
  BY <1>0, <1>6 DEF DumpDisplay, Section
<1>7. CASE DumpStorage
  BY <1>0, <1>7 DEF DumpStorage, Section
<1>8. CASE DumpRest
  BY <1>0, <1>8 DEF DumpRest, Section
<1>9. CASE Join
  BY <1>0, <1>9 DEF Join
<1>10. CASE Return
  BY <1>0, <1>10 DEF Return
<1>11. CASE ReadProperties
  BY <1>0, <1>11 DEF ReadProperties
<1>12. CASE StopMdlog
  BY <1>0, <1>12 DEF StopMdlog
<1>13. CASE WaitForStatus
  BY <1>0, <1>13 DEF WaitForStatus
<1>14. CASE MakeDir
  BY <1>0, <1>14 DEF MakeDir
<1>15. CASE ListLogs
  BY <1>0, <1>15 DEF ListLogs
<1>16. CASE CopyLog
  BY <1>0, <1>16 DEF CopyLog
<1>17. CASE RestartMdlog
  <2>1. Newest(diagLogDir) \subseteq LogFiles
    BY <1>0, NewestType
  <2>2. QED BY <1>0, <1>17, <2>1 DEF RestartMdlog
<1>18. CASE CopyPoweron
  BY <1>0, <1>18 DEF CopyPoweron
<1>19. CASE CopyRadio
  BY <1>0, <1>19 DEF CopyRadio
<1>20. CASE EfsDumpOff
  BY <1>0, <1>20 DEF EfsDumpOff
<1>21. CASE CreateTarFile
  BY <1>0, <1>21 DEF CreateTarFile
<1>22. CASE SendTar
  BY <1>0, <1>22 DEF SendTar
<1>23. CASE RemoveDir
  BY <1>0, <1>23 DEF RemoveDir
<1>24. CASE RemoveTar
  BY <1>0, <1>24 DEF RemoveTar
<1>25. CASE InitStartsOrStops
  BY <1>0, <1>25 DEF InitStartsOrStops
<1>26. CASE Rotate
  BY <1>0, <1>26 DEF Rotate
<1>27. CASE OtherSwitch
  BY <1>0, <1>27 DEF OtherSwitch
<1>28. CASE Kill
  BY <1>0, <1>28 DEF Kill
<1>29. CASE UNCHANGED vars
  BY <1>0, <1>29 DEF vars
<1>30. QED
  BY <1>1, <1>2, <1>3, <1>4, <1>5, <1>6, <1>7, <1>8, <1>9, <1>10, <1>11, <1>12, <1>13,
     <1>14, <1>15, <1>16, <1>17, <1>18, <1>19, <1>20, <1>21, <1>22, <1>23, <1>24, <1>25,
     <1>26, <1>27, <1>28, <1>29
     DEF Next, BinderStep, ModemStep

LEMMA ThreadInCallStep == DumpInv /\ [Next]_vars => ThreadInCall'
<1> SUFFICES ASSUME DumpInv, [Next]_vars PROVE ThreadInCall'
  OBVIOUS
<1> USE ConstantsOK DEF ThreadInCall, DumpInv, FlowOK, Places, props, logs, files,
        locals, count, history, Goto, Next2, Smooth, Trouble
<1>0. PropsOK /\ FilesOK /\ FlowOK /\ HistoryOK
  BY TypeParts DEF DumpInv
<1>1. CASE Begin
  BY <1>0, <1>1 DEF Begin
<1>2. CASE setVerboseLoggingEnabled
  BY <1>0, <1>2 DEF setVerboseLoggingEnabled
<1>3. CASE CheckArguments
  BY <1>0, <1>3 DEF CheckArguments
<1>4. CASE StartModemThread
  BY <1>0, <1>4 DEF StartModemThread
<1>5. CASE DumpTouch
  BY <1>0, <1>5 DEF DumpTouch, Section
<1>6. CASE DumpDisplay
  BY <1>0, <1>6 DEF DumpDisplay, Section
<1>7. CASE DumpStorage
  BY <1>0, <1>7 DEF DumpStorage, Section
<1>8. CASE DumpRest
  BY <1>0, <1>8 DEF DumpRest, Section
<1>9. CASE Join
  BY <1>0, <1>9 DEF Join
<1>10. CASE Return
  BY <1>0, <1>10 DEF Return
<1>11. CASE ReadProperties
  BY <1>0, <1>11 DEF ReadProperties
<1>12. CASE StopMdlog
  BY <1>0, <1>12 DEF StopMdlog
<1>13. CASE WaitForStatus
  BY <1>0, <1>13 DEF WaitForStatus
<1>14. CASE MakeDir
  BY <1>0, <1>14 DEF MakeDir
<1>15. CASE ListLogs
  BY <1>0, <1>15 DEF ListLogs
<1>16. CASE CopyLog
  BY <1>0, <1>16 DEF CopyLog
<1>17. CASE RestartMdlog
  BY <1>0, <1>17 DEF RestartMdlog
<1>18. CASE CopyPoweron
  BY <1>0, <1>18 DEF CopyPoweron
<1>19. CASE CopyRadio
  BY <1>0, <1>19 DEF CopyRadio
<1>20. CASE EfsDumpOff
  BY <1>0, <1>20 DEF EfsDumpOff
<1>21. CASE CreateTarFile
  BY <1>0, <1>21 DEF CreateTarFile
<1>22. CASE SendTar
  BY <1>0, <1>22 DEF SendTar
<1>23. CASE RemoveDir
  BY <1>0, <1>23 DEF RemoveDir
<1>24. CASE RemoveTar
  BY <1>0, <1>24 DEF RemoveTar
<1>25. CASE InitStartsOrStops
  BY <1>0, <1>25 DEF InitStartsOrStops
<1>26. CASE Rotate
  BY <1>0, <1>26 DEF Rotate
<1>27. CASE OtherSwitch
  BY <1>0, <1>27 DEF OtherSwitch
<1>28. CASE Kill
  BY <1>0, <1>28 DEF Kill
<1>29. CASE UNCHANGED vars
  BY <1>0, <1>29 DEF vars
<1>30. QED
  BY <1>1, <1>2, <1>3, <1>4, <1>5, <1>6, <1>7, <1>8, <1>9, <1>10, <1>11, <1>12, <1>13,
     <1>14, <1>15, <1>16, <1>17, <1>18, <1>19, <1>20, <1>21, <1>22, <1>23, <1>24, <1>25,
     <1>26, <1>27, <1>28, <1>29
     DEF Next, BinderStep, ModemStep

LEMMA EfsInStepStep == DumpInv /\ [Next]_vars => EfsInStep'
<1> SUFFICES ASSUME DumpInv, [Next]_vars PROVE EfsInStep'
  OBVIOUS
<1> USE DEF EfsInStep, DumpInv, ThreadInCall, FlowOK, props, logs, files, locals, count,
        history, Goto, Next2, Smooth, Trouble
<1>0. PropsOK /\ FilesOK /\ FlowOK /\ HistoryOK
  BY TypeParts DEF DumpInv
<1>1. CASE Begin
  BY <1>0, <1>1 DEF Begin
<1>2. CASE setVerboseLoggingEnabled
  BY <1>0, <1>2 DEF setVerboseLoggingEnabled
<1>3. CASE CheckArguments
  BY <1>0, <1>3 DEF CheckArguments
<1>4. CASE StartModemThread
  BY <1>0, <1>4 DEF StartModemThread
<1>5. CASE DumpTouch
  BY <1>0, <1>5 DEF DumpTouch, Section
<1>6. CASE DumpDisplay
  BY <1>0, <1>6 DEF DumpDisplay, Section
<1>7. CASE DumpStorage
  BY <1>0, <1>7 DEF DumpStorage, Section
<1>8. CASE DumpRest
  BY <1>0, <1>8 DEF DumpRest, Section
<1>9. CASE Join
  BY <1>0, <1>9 DEF Join
<1>10. CASE Return
  BY <1>0, <1>10 DEF Return
<1>11. CASE ReadProperties
  BY <1>0, <1>11 DEF ReadProperties
<1>12. CASE StopMdlog
  BY <1>0, <1>12 DEF StopMdlog
<1>13. CASE WaitForStatus
  BY <1>0, <1>13 DEF WaitForStatus
<1>14. CASE MakeDir
  BY <1>0, <1>14 DEF MakeDir
<1>15. CASE ListLogs
  BY <1>0, <1>15 DEF ListLogs
<1>16. CASE CopyLog
  BY <1>0, <1>16 DEF CopyLog
<1>17. CASE RestartMdlog
  BY <1>0, <1>17 DEF RestartMdlog
<1>18. CASE CopyPoweron
  BY <1>0, <1>18 DEF CopyPoweron
<1>19. CASE CopyRadio
  BY <1>0, <1>19 DEF CopyRadio
<1>20. CASE EfsDumpOff
  BY <1>0, <1>20 DEF EfsDumpOff
<1>21. CASE CreateTarFile
  BY <1>0, <1>21 DEF CreateTarFile
<1>22. CASE SendTar
  BY <1>0, <1>22 DEF SendTar
<1>23. CASE RemoveDir
  BY <1>0, <1>23 DEF RemoveDir
<1>24. CASE RemoveTar
  BY <1>0, <1>24 DEF RemoveTar
<1>25. CASE InitStartsOrStops
  BY <1>0, <1>25 DEF InitStartsOrStops
<1>26. CASE Rotate
  BY <1>0, <1>26 DEF Rotate
<1>27. CASE OtherSwitch
  BY <1>0, <1>27 DEF OtherSwitch
<1>28. CASE Kill
  BY <1>0, <1>28 DEF Kill
<1>29. CASE UNCHANGED vars
  BY <1>0, <1>29 DEF vars
<1>30. QED
  BY <1>1, <1>2, <1>3, <1>4, <1>5, <1>6, <1>7, <1>8, <1>9, <1>10, <1>11, <1>12, <1>13,
     <1>14, <1>15, <1>16, <1>17, <1>18, <1>19, <1>20, <1>21, <1>22, <1>23, <1>24, <1>25,
     <1>26, <1>27, <1>28, <1>29
     DEF Next, BinderStep, ModemStep

LEMMA MdlogInStepStep == DumpInv /\ [Next]_vars => MdlogInStep'
<1> SUFFICES ASSUME DumpInv, [Next]_vars PROVE MdlogInStep'
  OBVIOUS
<1> USE DEF MdlogInStep, DumpInv, ThreadInCall, FlowOK, props, logs, files, locals,
        count, history, Goto, Next2, Smooth, Trouble
<1>0. PropsOK /\ FilesOK /\ FlowOK /\ HistoryOK
  BY TypeParts DEF DumpInv
<1>1. CASE Begin
  BY <1>0, <1>1 DEF Begin
<1>2. CASE setVerboseLoggingEnabled
  BY <1>0, <1>2 DEF setVerboseLoggingEnabled
<1>3. CASE CheckArguments
  BY <1>0, <1>3 DEF CheckArguments
<1>4. CASE StartModemThread
  BY <1>0, <1>4 DEF StartModemThread
<1>5. CASE DumpTouch
  BY <1>0, <1>5 DEF DumpTouch, Section
<1>6. CASE DumpDisplay
  BY <1>0, <1>6 DEF DumpDisplay, Section
<1>7. CASE DumpStorage
  BY <1>0, <1>7 DEF DumpStorage, Section
<1>8. CASE DumpRest
  BY <1>0, <1>8 DEF DumpRest, Section
<1>9. CASE Join
  BY <1>0, <1>9 DEF Join
<1>10. CASE Return
  BY <1>0, <1>10 DEF Return
<1>11. CASE ReadProperties
  BY <1>0, <1>11 DEF ReadProperties
<1>12. CASE StopMdlog
  BY <1>0, <1>12 DEF StopMdlog
<1>13. CASE WaitForStatus
  BY <1>0, <1>13 DEF WaitForStatus
<1>14. CASE MakeDir
  BY <1>0, <1>14 DEF MakeDir
<1>15. CASE ListLogs
  BY <1>0, <1>15 DEF ListLogs
<1>16. CASE CopyLog
  BY <1>0, <1>16 DEF CopyLog
<1>17. CASE RestartMdlog
  BY <1>0, <1>17 DEF RestartMdlog
<1>18. CASE CopyPoweron
  BY <1>0, <1>18 DEF CopyPoweron
<1>19. CASE CopyRadio
  BY <1>0, <1>19 DEF CopyRadio
<1>20. CASE EfsDumpOff
  BY <1>0, <1>20 DEF EfsDumpOff
<1>21. CASE CreateTarFile
  BY <1>0, <1>21 DEF CreateTarFile
<1>22. CASE SendTar
  BY <1>0, <1>22 DEF SendTar
<1>23. CASE RemoveDir
  BY <1>0, <1>23 DEF RemoveDir
<1>24. CASE RemoveTar
  BY <1>0, <1>24 DEF RemoveTar
<1>25. CASE InitStartsOrStops
  BY <1>0, <1>25 DEF InitStartsOrStops
<1>26. CASE Rotate
  BY <1>0, <1>26 DEF Rotate
<1>27. CASE OtherSwitch
  BY <1>0, <1>27 DEF OtherSwitch
<1>28. CASE Kill
  BY <1>0, <1>28 DEF Kill
<1>29. CASE UNCHANGED vars
  BY <1>0, <1>29 DEF vars
<1>30. QED
  BY <1>1, <1>2, <1>3, <1>4, <1>5, <1>6, <1>7, <1>8, <1>9, <1>10, <1>11, <1>12, <1>13,
     <1>14, <1>15, <1>16, <1>17, <1>18, <1>19, <1>20, <1>21, <1>22, <1>23, <1>24, <1>25,
     <1>26, <1>27, <1>28, <1>29
     DEF Next, BinderStep, ModemStep

LEMMA CleanInStepStep == DumpInv /\ [Next]_vars => CleanInStep'
<1> SUFFICES ASSUME DumpInv, [Next]_vars PROVE CleanInStep'
  OBVIOUS
<1> USE DEF CleanInStep, DumpInv, ThreadInCall, props, logs, files, locals, count,
        history, Goto, Next2, Smooth, Trouble
<1>0. PropsOK /\ FilesOK /\ FlowOK /\ HistoryOK
  BY TypeParts DEF DumpInv
<1>1. CASE Begin
  BY <1>0, <1>1 DEF Begin
<1>2. CASE setVerboseLoggingEnabled
  BY <1>0, <1>2 DEF setVerboseLoggingEnabled
<1>3. CASE CheckArguments
  BY <1>0, <1>3 DEF CheckArguments
<1>4. CASE StartModemThread
  BY <1>0, <1>4 DEF StartModemThread
<1>5. CASE DumpTouch
  BY <1>0, <1>5 DEF DumpTouch, Section
<1>6. CASE DumpDisplay
  BY <1>0, <1>6 DEF DumpDisplay, Section
<1>7. CASE DumpStorage
  BY <1>0, <1>7 DEF DumpStorage, Section
<1>8. CASE DumpRest
  BY <1>0, <1>8 DEF DumpRest, Section
<1>9. CASE Join
  BY <1>0, <1>9 DEF Join
<1>10. CASE Return
  BY <1>0, <1>10 DEF Return
<1>11. CASE ReadProperties
  BY <1>0, <1>11 DEF ReadProperties
<1>12. CASE StopMdlog
  BY <1>0, <1>12 DEF StopMdlog
<1>13. CASE WaitForStatus
  BY <1>0, <1>13 DEF WaitForStatus
<1>14. CASE MakeDir
  BY <1>0, <1>14 DEF MakeDir
<1>15. CASE ListLogs
  BY <1>0, <1>15 DEF ListLogs
<1>16. CASE CopyLog
  BY <1>0, <1>16 DEF CopyLog
<1>17. CASE RestartMdlog
  BY <1>0, <1>17 DEF RestartMdlog
<1>18. CASE CopyPoweron
  BY <1>0, <1>18 DEF CopyPoweron
<1>19. CASE CopyRadio
  BY <1>0, <1>19 DEF CopyRadio
<1>20. CASE EfsDumpOff
  BY <1>0, <1>20 DEF EfsDumpOff
<1>21. CASE CreateTarFile
  BY <1>0, <1>21 DEF CreateTarFile
<1>22. CASE SendTar
  BY <1>0, <1>22 DEF SendTar
<1>23. CASE RemoveDir
  BY <1>0, <1>23 DEF RemoveDir
<1>24. CASE RemoveTar
  BY <1>0, <1>24 DEF RemoveTar
<1>25. CASE InitStartsOrStops
  BY <1>0, <1>25 DEF InitStartsOrStops
<1>26. CASE Rotate
  BY <1>0, <1>26 DEF Rotate
<1>27. CASE OtherSwitch
  BY <1>0, <1>27 DEF OtherSwitch
<1>28. CASE Kill
  BY <1>0, <1>28 DEF Kill
<1>29. CASE UNCHANGED vars
  BY <1>0, <1>29 DEF vars
<1>30. QED
  BY <1>1, <1>2, <1>3, <1>4, <1>5, <1>6, <1>7, <1>8, <1>9, <1>10, <1>11, <1>12, <1>13,
     <1>14, <1>15, <1>16, <1>17, <1>18, <1>19, <1>20, <1>21, <1>22, <1>23, <1>24, <1>25,
     <1>26, <1>27, <1>28, <1>29
     DEF Next, BinderStep, ModemStep

LEMMA StoppedInStepStep == DumpInv /\ [Next]_vars => StoppedInStep'
<1> SUFFICES ASSUME DumpInv, [Next]_vars PROVE StoppedInStep'
  OBVIOUS
<1> USE DEF StoppedInStep, Quiet, DumpInv, props, logs, files, locals, count, history,
        Goto, Next2, Smooth, Trouble
<1>0. PropsOK /\ FilesOK /\ FlowOK /\ HistoryOK
  BY TypeParts DEF DumpInv
<1>1. CASE Begin
  BY <1>0, <1>1 DEF Begin, FlowOK
<1>2. CASE setVerboseLoggingEnabled
  BY <1>0, <1>2 DEF setVerboseLoggingEnabled
<1>3. CASE CheckArguments
  BY <1>0, <1>3 DEF CheckArguments
<1>4. CASE StartModemThread
  BY <1>0, <1>4 DEF StartModemThread
<1>5. CASE DumpTouch
  BY <1>0, <1>5 DEF DumpTouch, Section
<1>6. CASE DumpDisplay
  BY <1>0, <1>6 DEF DumpDisplay, Section
<1>7. CASE DumpStorage
  BY <1>0, <1>7 DEF DumpStorage, Section
<1>8. CASE DumpRest
  BY <1>0, <1>8 DEF DumpRest, Section
<1>9. CASE Join
  BY <1>0, <1>9 DEF Join
<1>10. CASE Return
  BY <1>0, <1>10 DEF Return
<1>11. CASE ReadProperties
  BY <1>0, <1>11 DEF ReadProperties
<1>12. CASE StopMdlog
  BY <1>0, <1>12 DEF StopMdlog
<1>13. CASE WaitForStatus
  BY <1>0, <1>13 DEF WaitForStatus
<1>14. CASE MakeDir
  BY <1>0, <1>14 DEF MakeDir
<1>15. CASE ListLogs
  BY <1>0, <1>15 DEF ListLogs
<1>16. CASE CopyLog
  BY <1>0, <1>16 DEF CopyLog
<1>17. CASE RestartMdlog
  BY <1>0, <1>17 DEF RestartMdlog
<1>18. CASE CopyPoweron
  BY <1>0, <1>18 DEF CopyPoweron
<1>19. CASE CopyRadio
  BY <1>0, <1>19 DEF CopyRadio
<1>20. CASE EfsDumpOff
  BY <1>0, <1>20 DEF EfsDumpOff
<1>21. CASE CreateTarFile
  BY <1>0, <1>21 DEF CreateTarFile
<1>22. CASE SendTar
  BY <1>0, <1>22 DEF SendTar
<1>23. CASE RemoveDir
  BY <1>0, <1>23 DEF RemoveDir
<1>24. CASE RemoveTar
  BY <1>0, <1>24 DEF RemoveTar
<1>25. CASE InitStartsOrStops
  BY <1>0, <1>25 DEF InitStartsOrStops
<1>26. CASE Rotate
  BY <1>0, <1>26 DEF Rotate
<1>27. CASE OtherSwitch
  BY <1>0, <1>27 DEF OtherSwitch
<1>28. CASE Kill
  BY <1>0, <1>28 DEF Kill
<1>29. CASE UNCHANGED vars
  BY <1>0, <1>29 DEF vars
<1>30. QED
  BY <1>1, <1>2, <1>3, <1>4, <1>5, <1>6, <1>7, <1>8, <1>9, <1>10, <1>11, <1>12, <1>13,
     <1>14, <1>15, <1>16, <1>17, <1>18, <1>19, <1>20, <1>21, <1>22, <1>23, <1>24, <1>25,
     <1>26, <1>27, <1>28, <1>29
     DEF Next, BinderStep, ModemStep

LEMMA DirectoryInStepStep == DumpInv /\ [Next]_vars => DirectoryInStep'
<1> SUFFICES ASSUME DumpInv, [Next]_vars PROVE DirectoryInStep'
  OBVIOUS
<1> USE DEF DirectoryInStep, DumpInv, props, logs, files, locals, count, history, Goto,
        Next2, Smooth, Trouble
<1>0. PropsOK /\ FilesOK /\ FlowOK /\ HistoryOK
  BY TypeParts DEF DumpInv
<1>1. CASE Begin
  BY <1>0, <1>1 DEF Begin, FlowOK
<1>2. CASE setVerboseLoggingEnabled
  BY <1>0, <1>2 DEF setVerboseLoggingEnabled
<1>3. CASE CheckArguments
  BY <1>0, <1>3 DEF CheckArguments
<1>4. CASE StartModemThread
  BY <1>0, <1>4 DEF StartModemThread
<1>5. CASE DumpTouch
  BY <1>0, <1>5 DEF DumpTouch, Section
<1>6. CASE DumpDisplay
  BY <1>0, <1>6 DEF DumpDisplay, Section
<1>7. CASE DumpStorage
  BY <1>0, <1>7 DEF DumpStorage, Section
<1>8. CASE DumpRest
  BY <1>0, <1>8 DEF DumpRest, Section
<1>9. CASE Join
  BY <1>0, <1>9 DEF Join
<1>10. CASE Return
  BY <1>0, <1>10 DEF Return
<1>11. CASE ReadProperties
  BY <1>0, <1>11 DEF ReadProperties
<1>12. CASE StopMdlog
  BY <1>0, <1>12 DEF StopMdlog
<1>13. CASE WaitForStatus
  BY <1>0, <1>13 DEF WaitForStatus
<1>14. CASE MakeDir
  BY <1>0, <1>14 DEF MakeDir
<1>15. CASE ListLogs
  BY <1>0, <1>15 DEF ListLogs
<1>16. CASE CopyLog
  BY <1>0, <1>16 DEF CopyLog
<1>17. CASE RestartMdlog
  BY <1>0, <1>17 DEF RestartMdlog
<1>18. CASE CopyPoweron
  BY <1>0, <1>18 DEF CopyPoweron
<1>19. CASE CopyRadio
  BY <1>0, <1>19 DEF CopyRadio
<1>20. CASE EfsDumpOff
  BY <1>0, <1>20 DEF EfsDumpOff
<1>21. CASE CreateTarFile
  BY <1>0, <1>21 DEF CreateTarFile
<1>22. CASE SendTar
  BY <1>0, <1>22 DEF SendTar
<1>23. CASE RemoveDir
  BY <1>0, <1>23 DEF RemoveDir
<1>24. CASE RemoveTar
  BY <1>0, <1>24 DEF RemoveTar
<1>25. CASE InitStartsOrStops
  BY <1>0, <1>25 DEF InitStartsOrStops
<1>26. CASE Rotate
  BY <1>0, <1>26 DEF Rotate
<1>27. CASE OtherSwitch
  BY <1>0, <1>27 DEF OtherSwitch
<1>28. CASE Kill
  BY <1>0, <1>28 DEF Kill
<1>29. CASE UNCHANGED vars
  BY <1>0, <1>29 DEF vars
<1>30. QED
  BY <1>1, <1>2, <1>3, <1>4, <1>5, <1>6, <1>7, <1>8, <1>9, <1>10, <1>11, <1>12, <1>13,
     <1>14, <1>15, <1>16, <1>17, <1>18, <1>19, <1>20, <1>21, <1>22, <1>23, <1>24, <1>25,
     <1>26, <1>27, <1>28, <1>29
     DEF Next, BinderStep, ModemStep

LEMMA ListedOnceStep == DumpInv /\ [Next]_vars => ListedOnce'
<1> SUFFICES ASSUME DumpInv, [Next]_vars PROVE ListedOnce'
  OBVIOUS
<1> USE DEF DumpInv, props, logs, files, locals, count, history, Goto, Next2, Smooth,
        Trouble
<1>0. PropsOK /\ FilesOK /\ FlowOK /\ HistoryOK
  BY TypeParts DEF DumpInv
<1>1. CASE Begin
  BY <1>0, <1>1 DEF ListedOnce, Begin
<1>2. CASE setVerboseLoggingEnabled
  BY <1>0, <1>2 DEF ListedOnce, setVerboseLoggingEnabled
<1>3. CASE CheckArguments
  BY <1>0, <1>3 DEF ListedOnce, CheckArguments
<1>4. CASE StartModemThread
  BY <1>0, <1>4 DEF ListedOnce, StartModemThread
<1>5. CASE DumpTouch
  BY <1>0, <1>5 DEF ListedOnce, DumpTouch, Section
<1>6. CASE DumpDisplay
  BY <1>0, <1>6 DEF ListedOnce, DumpDisplay, Section
<1>7. CASE DumpStorage
  BY <1>0, <1>7 DEF ListedOnce, DumpStorage, Section
<1>8. CASE DumpRest
  BY <1>0, <1>8 DEF ListedOnce, DumpRest, Section
<1>9. CASE Join
  BY <1>0, <1>9 DEF ListedOnce, Join
<1>10. CASE Return
  <2>1. DOMAIN pending' = {}
    BY <1>10 DEF Return
  <2>2. QED BY <2>1 DEF ListedOnce
<1>11. CASE ReadProperties
  BY <1>0, <1>11 DEF ListedOnce, ReadProperties
<1>12. CASE StopMdlog
  BY <1>0, <1>12 DEF ListedOnce, StopMdlog
<1>13. CASE WaitForStatus
  BY <1>0, <1>13 DEF ListedOnce, WaitForStatus
<1>14. CASE MakeDir
  BY <1>0, <1>14 DEF ListedOnce, MakeDir
<1>15. CASE ListLogs
  <2>1. pending' \in Seq(LogFiles) /\ Range(pending') = Newest(diagLogDir)
    BY <1>0, <1>15, NewestType, NewestFirstLists DEF ListLogs
  <2>2. \A i, j \in DOMAIN pending' : i # j => pending'[i] # pending'[j]
    BY <1>0, <1>15, NewestType, NewestFirstLists DEF ListLogs
  <2>3. QED BY <2>2 DEF ListedOnce
<1>16. CASE CopyLog
  <2>1. pending \in Seq(LogFiles) /\ pending # <<>> /\ pending' = Tail(pending)
    BY <1>0, <1>16 DEF CopyLog, FlowOK
  <2>2. \A i \in DOMAIN pending' :
            i + 1 \in DOMAIN pending /\ pending'[i] = pending[i + 1] /\ i + 1 # 1
    BY <2>1, HeadTail
  <2>3. /\ Head(pending) = pending[1] /\ 1 \in DOMAIN pending /\ Head(pending) \in LogFiles
        /\ Range(pending) = {Head(pending)} \cup Range(pending')
    BY <2>1, HeadTail
  <2>4. ASSUME NEW i \in DOMAIN pending', NEW j \in DOMAIN pending', i # j
        PROVE  pending'[i] # pending'[j]
    <3>1. i \in Int /\ j \in Int
      BY <2>1, HeadTail
    <3>2. i + 1 # j + 1
      BY <2>4, <3>1
    <3>3. QED BY <2>2, <3>2 DEF ListedOnce
  <2>5. QED BY <2>4 DEF ListedOnce
<1>17. CASE RestartMdlog
  BY <1>0, <1>17 DEF ListedOnce, RestartMdlog
<1>18. CASE CopyPoweron
  BY <1>0, <1>18 DEF ListedOnce, CopyPoweron
<1>19. CASE CopyRadio
  BY <1>0, <1>19 DEF ListedOnce, CopyRadio
<1>20. CASE EfsDumpOff
  BY <1>0, <1>20 DEF ListedOnce, EfsDumpOff
<1>21. CASE CreateTarFile
  BY <1>0, <1>21 DEF ListedOnce, CreateTarFile
<1>22. CASE SendTar
  BY <1>0, <1>22 DEF ListedOnce, SendTar
<1>23. CASE RemoveDir
  BY <1>0, <1>23 DEF ListedOnce, RemoveDir
<1>24. CASE RemoveTar
  BY <1>0, <1>24 DEF ListedOnce, RemoveTar
<1>25. CASE InitStartsOrStops
  BY <1>0, <1>25 DEF ListedOnce, InitStartsOrStops
<1>26. CASE Rotate
  BY <1>0, <1>26 DEF ListedOnce, Rotate
<1>27. CASE OtherSwitch
  BY <1>0, <1>27 DEF ListedOnce, OtherSwitch
<1>28. CASE Kill
  <2>1. DOMAIN pending' = {}
    BY <1>28 DEF Kill
  <2>2. QED BY <2>1 DEF ListedOnce
<1>29. CASE UNCHANGED vars
  BY <1>0, <1>29 DEF ListedOnce, vars
<1>30. QED
  BY <1>1, <1>2, <1>3, <1>4, <1>5, <1>6, <1>7, <1>8, <1>9, <1>10, <1>11, <1>12, <1>13,
     <1>14, <1>15, <1>16, <1>17, <1>18, <1>19, <1>20, <1>21, <1>22, <1>23, <1>24, <1>25,
     <1>26, <1>27, <1>28, <1>29
     DEF Next, BinderStep, ModemStep

LEMMA FreshInStepStep == DumpInv /\ [Next]_vars => FreshInStep'
<1> SUFFICES ASSUME DumpInv, [Next]_vars PROVE FreshInStep'
  OBVIOUS
<1> USE DEF DumpInv, props, logs, files, locals, count, history, Goto, Next2, Smooth,
        Trouble
<1>0. PropsOK /\ FilesOK /\ FlowOK /\ HistoryOK
  BY TypeParts DEF DumpInv
<1>1. CASE Begin
  BY <1>0, <1>1 DEF FreshInStep, Begin, FlowOK
<1>2. CASE setVerboseLoggingEnabled
  BY <1>0, <1>2 DEF FreshInStep, setVerboseLoggingEnabled
<1>3. CASE CheckArguments
  BY <1>0, <1>3 DEF FreshInStep, CheckArguments
<1>4. CASE StartModemThread
  BY <1>0, <1>4 DEF FreshInStep, StartModemThread
<1>5. CASE DumpTouch
  BY <1>0, <1>5 DEF FreshInStep, DumpTouch, Section
<1>6. CASE DumpDisplay
  BY <1>0, <1>6 DEF FreshInStep, DumpDisplay, Section
<1>7. CASE DumpStorage
  BY <1>0, <1>7 DEF FreshInStep, DumpStorage, Section
<1>8. CASE DumpRest
  BY <1>0, <1>8 DEF FreshInStep, DumpRest, Section
<1>9. CASE Join
  BY <1>0, <1>9 DEF FreshInStep, Join
<1>10. CASE Return
  BY <1>0, <1>10 DEF FreshInStep, Return
<1>11. CASE ReadProperties
  BY <1>0, <1>11 DEF FreshInStep, ReadProperties
<1>12. CASE StopMdlog
  BY <1>0, <1>12 DEF FreshInStep, StopMdlog
<1>13. CASE WaitForStatus
  BY <1>0, <1>13 DEF FreshInStep, WaitForStatus
<1>14. CASE MakeDir
  <2>1. ~dirty => \A f \in Names : dir[f] = Absent
    BY <1>0, <1>14 DEF MakeDir, CleanInStep, FilesOK
  <2>2. Poweron \in Names /\ Radio \in Names
    BY DEF Names
  <2>3. QED BY <1>0, <1>14, <2>1, <2>2 DEF MakeDir, FreshInStep
<1>15. CASE ListLogs
  <2>1. pending' \in Seq(LogFiles) /\ Range(pending') = Newest(diagLogDir)
    BY <1>0, <1>15, NewestType, NewestFirstLists DEF ListLogs
  <2>2. \A i, j \in DOMAIN pending' : i # j => pending'[i] # pending'[j]
    BY <1>0, <1>15, NewestType, NewestFirstLists DEF ListLogs
  <2>3. \A i \in DOMAIN pending' : pending'[i] \in Names
    BY <2>1 DEF Names
  <2>4. Poweron \in Names /\ Radio \in Names
    BY DEF Names
  <2>5. QED BY <1>0, <1>15, <2>3, <2>4 DEF ListLogs, FreshInStep
<1>16. CASE CopyLog
  <2>1. pending \in Seq(LogFiles) /\ pending # <<>> /\ pending' = Tail(pending)
    BY <1>0, <1>16 DEF CopyLog, FlowOK
  <2>2. \A i \in DOMAIN pending' :
            i + 1 \in DOMAIN pending /\ pending'[i] = pending[i + 1] /\ i + 1 # 1
    BY <2>1, HeadTail
  <2>3. /\ Head(pending) = pending[1] /\ 1 \in DOMAIN pending /\ Head(pending) \in LogFiles
        /\ Range(pending) = {Head(pending)} \cup Range(pending')
    BY <2>1, HeadTail
  <2>4. dump \in 1 .. MaxDumps /\ Head(pending) \in Names
    BY <1>16, <2>3, InTheDump DEF CopyLog, Names
  <2>5. ASSUME NEW h \in Names
        PROVE  dir'[h] # dir[h] => h = Head(pending) /\ (dir[h] = Absent => dir'[h] = ThisCopy)
    <3>1. CASE Head(pending) \in diagLogDir
      <4>1. dir' \in AfterCopy(Head(pending))
        BY <1>16, <3>1 DEF CopyLog
      <4>2. QED BY <1>0, <2>4, <4>1, AfterCopyDoes
    <3>2. CASE Head(pending) \notin diagLogDir
      BY <1>16, <3>2 DEF CopyLog
    <3>3. QED BY <3>1, <3>2
  <2>6. ASSUME ~dirty, NEW i \in DOMAIN pending' PROVE dir'[pending'[i]] = Absent
    <3>1. i + 1 \in DOMAIN pending /\ pending'[i] = pending[i + 1] /\ pending[i + 1] # pending[1]
      BY <2>2, <2>3 DEF ListedOnce
    <3>2. pending[i + 1] \in Names
      BY <2>1, <3>1 DEF Names
    <3>3. dir[pending[i + 1]] = Absent
      BY <1>16, <2>6, <3>1 DEF CopyLog, FreshInStep
    <3>4. QED BY <2>3, <2>5, <3>1, <3>2, <3>3
  <2>7. dir'[Poweron] = dir[Poweron] /\ dir'[Radio] = dir[Radio]
    BY <2>3, <2>5, NotLogs DEF Names
  <2>8. QED BY <1>0, <1>16, <2>6, <2>7 DEF CopyLog, FreshInStep
<1>17. CASE RestartMdlog
  BY <1>0, <1>17 DEF FreshInStep, RestartMdlog
<1>18. CASE CopyPoweron
  <2>1. Poweron \in Names /\ Radio \in Names /\ dump \in 1 .. MaxDumps
    BY <1>18, InTheDump DEF CopyPoweron, Names
  <2>2. dir'[Radio] = dir[Radio]
    BY <1>0, <1>18, <2>1, AfterCopyDoes, NotLogs DEF CopyPoweron
  <2>3. QED BY <1>0, <1>18, <2>2 DEF CopyPoweron, FreshInStep
<1>19. CASE CopyRadio
  BY <1>0, <1>19 DEF FreshInStep, CopyRadio
<1>20. CASE EfsDumpOff
  BY <1>0, <1>20 DEF FreshInStep, EfsDumpOff
<1>21. CASE CreateTarFile
  BY <1>0, <1>21 DEF FreshInStep, CreateTarFile
<1>22. CASE SendTar
  BY <1>0, <1>22 DEF FreshInStep, SendTar
<1>23. CASE RemoveDir
  BY <1>0, <1>23 DEF FreshInStep, RemoveDir
<1>24. CASE RemoveTar
  BY <1>0, <1>24 DEF FreshInStep, RemoveTar
<1>25. CASE InitStartsOrStops
  BY <1>0, <1>25 DEF FreshInStep, InitStartsOrStops
<1>26. CASE Rotate
  BY <1>0, <1>26 DEF FreshInStep, Rotate
<1>27. CASE OtherSwitch
  BY <1>0, <1>27 DEF FreshInStep, OtherSwitch
<1>28. CASE Kill
  BY <1>0, <1>28 DEF FreshInStep, Kill
<1>29. CASE UNCHANGED vars
  BY <1>0, <1>29 DEF FreshInStep, vars
<1>30. QED
  BY <1>1, <1>2, <1>3, <1>4, <1>5, <1>6, <1>7, <1>8, <1>9, <1>10, <1>11, <1>12, <1>13,
     <1>14, <1>15, <1>16, <1>17, <1>18, <1>19, <1>20, <1>21, <1>22, <1>23, <1>24, <1>25,
     <1>26, <1>27, <1>28, <1>29
     DEF Next, BinderStep, ModemStep

LEMMA FilesOfThisDumpStep == DumpInv /\ [Next]_vars => FilesOfThisDump'
<1> SUFFICES ASSUME DumpInv, [Next]_vars PROVE FilesOfThisDump'
  OBVIOUS
<1> USE DEF DumpInv, props, logs, files, locals, count, history, Goto, Next2, Smooth,
        Trouble
<1>0. PropsOK /\ FilesOK /\ FlowOK /\ HistoryOK
  BY TypeParts DEF DumpInv
<1>1. CASE Begin
  BY <1>0, <1>1 DEF Begin, FilesOfThisDump, FlowOK, CleanInStep, FilesOK
<1>2. CASE setVerboseLoggingEnabled
  BY <1>0, <1>2 DEF FilesOfThisDump, ThisCopy, Whole, setVerboseLoggingEnabled
<1>3. CASE CheckArguments
  BY <1>0, <1>3 DEF FilesOfThisDump, ThisCopy, Whole, CheckArguments
<1>4. CASE StartModemThread
  BY <1>0, <1>4 DEF FilesOfThisDump, ThisCopy, Whole, StartModemThread
<1>5. CASE DumpTouch
  BY <1>0, <1>5 DEF FilesOfThisDump, ThisCopy, Whole, DumpTouch, Section
<1>6. CASE DumpDisplay
  BY <1>0, <1>6 DEF FilesOfThisDump, ThisCopy, Whole, DumpDisplay, Section
<1>7. CASE DumpStorage
  BY <1>0, <1>7 DEF FilesOfThisDump, ThisCopy, Whole, DumpStorage, Section
<1>8. CASE DumpRest
  BY <1>0, <1>8 DEF FilesOfThisDump, ThisCopy, Whole, DumpRest, Section
<1>9. CASE Join
  BY <1>0, <1>9 DEF FilesOfThisDump, ThisCopy, Whole, Join
<1>10. CASE Return
  BY <1>0, <1>10 DEF FilesOfThisDump, ThisCopy, Whole, Return
<1>11. CASE ReadProperties
  BY <1>0, <1>11 DEF FilesOfThisDump, ThisCopy, Whole, ReadProperties
<1>12. CASE StopMdlog
  BY <1>0, <1>12 DEF FilesOfThisDump, ThisCopy, Whole, StopMdlog
<1>13. CASE WaitForStatus
  BY <1>0, <1>13 DEF FilesOfThisDump, ThisCopy, Whole, WaitForStatus
<1>14. CASE MakeDir
  BY <1>0, <1>14 DEF FilesOfThisDump, ThisCopy, Whole, MakeDir
<1>15. CASE ListLogs
  BY <1>0, <1>15 DEF FilesOfThisDump, ThisCopy, Whole, ListLogs
<1>16. CASE CopyLog
  <2>1. pending \in Seq(LogFiles) /\ pending # <<>> /\ pending' = Tail(pending)
    BY <1>0, <1>16 DEF CopyLog, FlowOK
  <2>2. \A i \in DOMAIN pending' :
            i + 1 \in DOMAIN pending /\ pending'[i] = pending[i + 1] /\ i + 1 # 1
    BY <2>1, HeadTail
  <2>3. /\ Head(pending) = pending[1] /\ 1 \in DOMAIN pending /\ Head(pending) \in LogFiles
        /\ Range(pending) = {Head(pending)} \cup Range(pending')
    BY <2>1, HeadTail
  <2>4. dump \in 1 .. MaxDumps /\ Head(pending) \in Names
    BY <1>16, <2>3, InTheDump DEF CopyLog, Names
  <2>5. ASSUME NEW h \in Names
        PROVE  dir'[h] # dir[h] => h = Head(pending) /\ (dir[h] = Absent => dir'[h] = ThisCopy)
    <3>1. CASE Head(pending) \in diagLogDir
      <4>1. dir' \in AfterCopy(Head(pending))
        BY <1>16, <3>1 DEF CopyLog
      <4>2. QED BY <1>0, <2>4, <4>1, AfterCopyDoes
    <3>2. CASE Head(pending) \notin diagLogDir
      BY <1>16, <3>2 DEF CopyLog
    <3>3. QED BY <3>1, <3>2
  <2>6. ~dirty => dir[Head(pending)] = Absent
    BY <1>16, <2>3 DEF CopyLog, FreshInStep
  <2>7. QED BY <1>0, <1>16, <2>4, <2>5, <2>6 DEF CopyLog, FilesOfThisDump, ThisCopy, Whole
<1>17. CASE RestartMdlog
  BY <1>0, <1>17 DEF FilesOfThisDump, ThisCopy, Whole, RestartMdlog
<1>18. CASE CopyPoweron
  <2>1. Poweron \in Names /\ dump \in 1 .. MaxDumps
    BY <1>18, InTheDump DEF CopyPoweron, Names
  <2>2. ~dirty => dir[Poweron] = Absent
    BY <1>18 DEF CopyPoweron, FreshInStep
  <2>3. ~dirty => \A h \in Names : dir'[h] = dir[h] \/ dir'[h] = ThisCopy
    BY <1>0, <1>18, <2>1, <2>2, AfterCopyDoes DEF CopyPoweron
  <2>4. QED BY <1>0, <1>18, <2>3 DEF CopyPoweron, FilesOfThisDump, ThisCopy, Whole
<1>19. CASE CopyRadio
  <2>1. Radio \in Names /\ dump \in 1 .. MaxDumps
    BY <1>19, InTheDump DEF CopyRadio, Names
  <2>2. ~dirty => dir[Radio] = Absent
    BY <1>19 DEF CopyRadio, FreshInStep
  <2>3. ~dirty => \A h \in Names : dir'[h] = dir[h] \/ dir'[h] = ThisCopy
    BY <1>0, <1>19, <2>1, <2>2, AfterCopyDoes DEF CopyRadio
  <2>4. QED BY <1>0, <1>19, <2>3 DEF CopyRadio, FilesOfThisDump, ThisCopy, Whole
<1>20. CASE EfsDumpOff
  BY <1>0, <1>20 DEF FilesOfThisDump, ThisCopy, Whole, EfsDumpOff
<1>21. CASE CreateTarFile
  <2>1. ASSUME ~dirty, tar' # NoTar PROVE Whole(tar')
    <3>1. tar = NoTar
      BY <1>21, <2>1 DEF CreateTarFile, CleanInStep
    <3>2. tar'.items = Content(dir) /\ ~tar'.tail
      BY <1>0, <1>21, <2>1, <3>1, TarsDoes DEF CreateTarFile
    <3>3. ASSUME NEW item \in Content(dir) PROVE item[2] = ThisCopy
      BY <2>1, <3>3 DEF Content, FilesOfThisDump
    <3>4. QED BY <3>2, <3>3 DEF Whole
  <2>2. QED BY <1>0, <1>21, <2>1 DEF CreateTarFile, FilesOfThisDump, ThisCopy, Whole
<1>22. CASE SendTar
  BY <1>0, <1>22 DEF FilesOfThisDump, ThisCopy, Whole, SendTar
<1>23. CASE RemoveDir
  BY <1>0, <1>23 DEF FilesOfThisDump, ThisCopy, Whole, RemoveDir
<1>24. CASE RemoveTar
  BY <1>0, <1>24 DEF FilesOfThisDump, ThisCopy, Whole, RemoveTar
<1>25. CASE InitStartsOrStops
  BY <1>0, <1>25 DEF FilesOfThisDump, ThisCopy, Whole, InitStartsOrStops
<1>26. CASE Rotate
  BY <1>0, <1>26 DEF FilesOfThisDump, ThisCopy, Whole, Rotate
<1>27. CASE OtherSwitch
  BY <1>0, <1>27 DEF FilesOfThisDump, ThisCopy, Whole, OtherSwitch
<1>28. CASE Kill
  BY <1>0, <1>28 DEF FilesOfThisDump, ThisCopy, Whole, Kill
<1>29. CASE UNCHANGED vars
  BY <1>0, <1>29 DEF FilesOfThisDump, ThisCopy, Whole, vars
<1>30. QED
  BY <1>1, <1>2, <1>3, <1>4, <1>5, <1>6, <1>7, <1>8, <1>9, <1>10, <1>11, <1>12, <1>13,
     <1>14, <1>15, <1>16, <1>17, <1>18, <1>19, <1>20, <1>21, <1>22, <1>23, <1>24, <1>25,
     <1>26, <1>27, <1>28, <1>29
     DEF Next, BinderStep, ModemStep

LEMMA LogsInStepStep == DumpInv /\ [Next]_vars => LogsInStep'
<1> SUFFICES ASSUME DumpInv, [Next]_vars PROVE LogsInStep'
  OBVIOUS
<1> USE DEF DumpInv, props, logs, files, locals, count, history, Goto, Next2, Smooth,
        Trouble
<1>0. PropsOK /\ FilesOK /\ FlowOK /\ HistoryOK
  BY TypeParts DEF DumpInv
<1>1. CASE Begin
  BY <1>0, <1>1 DEF Begin, LogsInStep, FlowOK
<1>2. CASE setVerboseLoggingEnabled
  <2>1. CopiedLogs' = CopiedLogs /\ Newest(diagLogDir)' = Newest(diagLogDir)
    BY <1>2 DEF CopiedLogs, diagLogDir, Newest, setVerboseLoggingEnabled
  <2>2. QED BY <1>0, <1>2, <2>1 DEF LogsInStep, Quiet, setVerboseLoggingEnabled
<1>3. CASE CheckArguments
  <2>1. CopiedLogs' = CopiedLogs /\ Newest(diagLogDir)' = Newest(diagLogDir)
    BY <1>3 DEF CopiedLogs, diagLogDir, Newest, CheckArguments
  <2>2. QED BY <1>0, <1>3, <2>1 DEF LogsInStep, Quiet, CheckArguments
<1>4. CASE StartModemThread
  <2>1. CopiedLogs' = CopiedLogs /\ Newest(diagLogDir)' = Newest(diagLogDir)
    BY <1>4 DEF CopiedLogs, diagLogDir, Newest, StartModemThread
  <2>2. QED BY <1>0, <1>4, <2>1 DEF LogsInStep, Quiet, StartModemThread
<1>5. CASE DumpTouch
  <2>1. CopiedLogs' = CopiedLogs /\ Newest(diagLogDir)' = Newest(diagLogDir)
    BY <1>5 DEF CopiedLogs, diagLogDir, Newest, DumpTouch, Section
  <2>2. QED BY <1>0, <1>5, <2>1 DEF LogsInStep, Quiet, DumpTouch, Section
<1>6. CASE DumpDisplay
  <2>1. CopiedLogs' = CopiedLogs /\ Newest(diagLogDir)' = Newest(diagLogDir)
    BY <1>6 DEF CopiedLogs, diagLogDir, Newest, DumpDisplay, Section
  <2>2. QED BY <1>0, <1>6, <2>1 DEF LogsInStep, Quiet, DumpDisplay, Section
<1>7. CASE DumpStorage
  <2>1. CopiedLogs' = CopiedLogs /\ Newest(diagLogDir)' = Newest(diagLogDir)
    BY <1>7 DEF CopiedLogs, diagLogDir, Newest, DumpStorage, Section
  <2>2. QED BY <1>0, <1>7, <2>1 DEF LogsInStep, Quiet, DumpStorage, Section
<1>8. CASE DumpRest
  <2>1. CopiedLogs' = CopiedLogs /\ Newest(diagLogDir)' = Newest(diagLogDir)
    BY <1>8 DEF CopiedLogs, diagLogDir, Newest, DumpRest, Section
  <2>2. QED BY <1>0, <1>8, <2>1 DEF LogsInStep, Quiet, DumpRest, Section
<1>9. CASE Join
  <2>1. CopiedLogs' = CopiedLogs /\ Newest(diagLogDir)' = Newest(diagLogDir)
    BY <1>9 DEF CopiedLogs, diagLogDir, Newest, Join
  <2>2. QED BY <1>0, <1>9, <2>1 DEF LogsInStep, Quiet, Join
<1>10. CASE Return
  BY <1>0, <1>10 DEF Return, LogsInStep, Quiet
<1>11. CASE ReadProperties
  BY <1>0, <1>11 DEF ReadProperties, LogsInStep, Quiet
<1>12. CASE StopMdlog
  <2>1. CopiedLogs' = CopiedLogs /\ Newest(diagLogDir)' = Newest(diagLogDir)
    BY <1>12 DEF CopiedLogs, diagLogDir, Newest, StopMdlog
  <2>2. QED BY <1>0, <1>12, <2>1 DEF LogsInStep, Quiet, StopMdlog
<1>13. CASE WaitForStatus
  <2>1. CopiedLogs' = CopiedLogs /\ Newest(diagLogDir)' = Newest(diagLogDir)
    BY <1>13 DEF CopiedLogs, diagLogDir, Newest, WaitForStatus
  <2>2. QED BY <1>0, <1>13, <2>1 DEF LogsInStep, Quiet, WaitForStatus
<1>14. CASE MakeDir
  BY <1>0, <1>14 DEF MakeDir, LogsInStep, Quiet
<1>15. CASE ListLogs
  <2>1. pending' \in Seq(LogFiles) /\ Range(pending') = Newest(diagLogDir)
    BY <1>0, <1>15, NewestType, NewestFirstLists DEF ListLogs
  <2>2. \A i, j \in DOMAIN pending' : i # j => pending'[i] # pending'[j]
    BY <1>0, <1>15, NewestType, NewestFirstLists DEF ListLogs
  <2>3. ~dirty => CopiedLogs = {}
    BY <1>15 DEF ListLogs, FreshInStep, CopiedLogs, Names
  <2>4. CopiedLogs' = CopiedLogs /\ Newest(diagLogDir)' = Newest(diagLogDir)
    BY <1>15 DEF ListLogs, CopiedLogs, diagLogDir, Newest
  <2>5. Quiet' => CopiedLogs' \cup Range(pending') = Newest(diagLogDir)'
    BY <1>15, <2>1, <2>3, <2>4 DEF ListLogs, Quiet
  <2>6. QED BY <1>15, <2>5 DEF ListLogs, LogsInStep
<1>16. CASE CopyLog
  <2>1. pending \in Seq(LogFiles) /\ pending # <<>> /\ pending' = Tail(pending)
    BY <1>0, <1>16 DEF CopyLog, FlowOK
  <2>2. \A i \in DOMAIN pending' :
            i + 1 \in DOMAIN pending /\ pending'[i] = pending[i + 1] /\ i + 1 # 1
    BY <2>1, HeadTail
  <2>3. /\ Head(pending) = pending[1] /\ 1 \in DOMAIN pending /\ Head(pending) \in LogFiles
        /\ Range(pending) = {Head(pending)} \cup Range(pending')
    BY <2>1, HeadTail
  <2>4. dump \in 1 .. MaxDumps /\ Head(pending) \in Names
    BY <1>16, <2>3, InTheDump DEF CopyLog, Names
  <2>5. ASSUME NEW h \in Names
        PROVE  dir'[h] # dir[h] => h = Head(pending) /\ (dir[h] = Absent => dir'[h] = ThisCopy)
    <3>1. CASE Head(pending) \in diagLogDir
      <4>1. dir' \in AfterCopy(Head(pending))
        BY <1>16, <3>1 DEF CopyLog
      <4>2. QED BY <1>0, <2>4, <4>1, AfterCopyDoes
    <3>2. CASE Head(pending) \notin diagLogDir
      BY <1>16, <3>2 DEF CopyLog
    <3>3. QED BY <3>1, <3>2
  <2>6. Newest(diagLogDir)' = Newest(diagLogDir) /\ Quiet' = Quiet
    BY <1>16 DEF CopyLog, diagLogDir, Newest, Quiet
  <2>7. ASSUME Quiet PROVE CopiedLogs' = CopiedLogs \cup {Head(pending)}
    <3>1. dirExists
      BY <1>16, <2>7 DEF CopyLog, Quiet, DirectoryInStep
    <3>2. Head(pending) \in Newest(diagLogDir)
      BY <1>16, <2>3, <2>7 DEF CopyLog, LogsInStep
    <3>3. dir' \in AfterCopy(Head(pending))
      BY <1>0, <1>16, <3>2, NewestType DEF CopyLog
    <3>4. dir'[Head(pending)] # Absent /\ \A h \in Names \ {Head(pending)} : dir'[h] = dir[h]
      BY <1>0, <2>4, <3>1, <3>3, AfterCopyDoes
    <3>5. LogFiles \subseteq Names
      BY DEF Names
    <3>6. QED BY <2>3, <3>4, <3>5 DEF CopiedLogs
  <2>8. QED BY <1>16, <2>3, <2>6, <2>7 DEF CopyLog, LogsInStep
<1>17. CASE RestartMdlog
  <2>1. Range(pending) = {}
    BY <1>17 DEF RestartMdlog, Range
  <2>2. CopiedLogs' = CopiedLogs /\ Quiet' = Quiet
    BY <1>17 DEF RestartMdlog, CopiedLogs, Quiet
  <2>3. QED BY <1>17, <2>1, <2>2 DEF RestartMdlog, LogsInStep
<1>18. CASE CopyPoweron
  <2>1. Poweron \in Names /\ dump \in 1 .. MaxDumps
    BY <1>18, InTheDump DEF CopyPoweron, Names
  <2>2. \A h \in Names \ {Poweron} : dir'[h] = dir[h]
    BY <1>0, <1>18, <2>1, AfterCopyDoes DEF CopyPoweron
  <2>3. CopiedLogs' = CopiedLogs
    BY <2>2, NotLogs DEF CopiedLogs, Names
  <2>4. QED BY <1>18, <2>3 DEF CopyPoweron, LogsInStep, Quiet
<1>19. CASE CopyRadio
  <2>1. Radio \in Names /\ dump \in 1 .. MaxDumps
    BY <1>19, InTheDump DEF CopyRadio, Names
  <2>2. \A h \in Names \ {Radio} : dir'[h] = dir[h]
    BY <1>0, <1>19, <2>1, AfterCopyDoes DEF CopyRadio
  <2>3. CopiedLogs' = CopiedLogs
    BY <2>2, NotLogs DEF CopiedLogs, Names
  <2>4. QED BY <1>19, <2>3 DEF CopyRadio, LogsInStep, Quiet
<1>20. CASE EfsDumpOff
  <2>1. CopiedLogs' = CopiedLogs /\ Newest(diagLogDir)' = Newest(diagLogDir)
    BY <1>20 DEF CopiedLogs, diagLogDir, Newest, EfsDumpOff
  <2>2. QED BY <1>0, <1>20, <2>1 DEF LogsInStep, Quiet, EfsDumpOff
<1>21. CASE CreateTarFile
  <2>1. ASSUME Quiet PROVE LogsOf(tar') = expected
    <3>1. dirExists /\ CopiedLogs = expected
      BY <1>21, <2>1 DEF CreateTarFile, Quiet, DirectoryInStep, LogsInStep
    <3>2. tar'.items = Content(dir)
      BY <1>0, <1>21, <3>1, TarsDoes DEF CreateTarFile
    <3>3. QED BY <3>1, <3>2, ContentLogs
  <2>2. QED BY <1>21, <2>1 DEF CreateTarFile, LogsInStep, Quiet, LogsOf
<1>22. CASE SendTar
  <2>1. report' = tar /\ (Quiet' <=> Quiet) /\ expected' = expected
    BY <1>22 DEF SendTar, Quiet
  <2>2. QED BY <1>22, <2>1 DEF SendTar, LogsInStep
<1>23. CASE RemoveDir
  BY <1>0, <1>23 DEF RemoveDir, LogsInStep, Quiet
<1>24. CASE RemoveTar
  BY <1>0, <1>24 DEF RemoveTar, LogsInStep, Quiet
<1>25. CASE InitStartsOrStops
  <2>1. CopiedLogs' = CopiedLogs /\ Newest(diagLogDir)' = Newest(diagLogDir)
    BY <1>25 DEF CopiedLogs, diagLogDir, Newest, InitStartsOrStops
  <2>2. QED BY <1>0, <1>25, <2>1 DEF LogsInStep, Quiet, InitStartsOrStops
<1>26. CASE Rotate
  <2>1. Quiet => tpc # "copy"
    BY <1>26 DEF Rotate, StoppedInStep
  <2>2. CopiedLogs' = CopiedLogs
    BY <1>26 DEF Rotate, CopiedLogs
  <2>3. QED BY <1>26, <2>1, <2>2 DEF Rotate, LogsInStep, Quiet
<1>27. CASE OtherSwitch
  <2>1. CopiedLogs' = CopiedLogs /\ Newest(diagLogDir)' = Newest(diagLogDir)
    BY <1>27 DEF CopiedLogs, diagLogDir, Newest, OtherSwitch
  <2>2. QED BY <1>0, <1>27, <2>1 DEF LogsInStep, Quiet, OtherSwitch
<1>28. CASE Kill
  BY <1>0, <1>28 DEF Kill, LogsInStep, Quiet
<1>29. CASE UNCHANGED vars
  <2>1. CopiedLogs' = CopiedLogs /\ Newest(diagLogDir)' = Newest(diagLogDir)
    BY <1>29 DEF CopiedLogs, diagLogDir, Newest, vars
  <2>2. QED BY <1>0, <1>29, <2>1 DEF LogsInStep, Quiet, vars
<1>30. QED
  BY <1>1, <1>2, <1>3, <1>4, <1>5, <1>6, <1>7, <1>8, <1>9, <1>10, <1>11, <1>12, <1>13,
     <1>14, <1>15, <1>16, <1>17, <1>18, <1>19, <1>20, <1>21, <1>22, <1>23, <1>24, <1>25,
     <1>26, <1>27, <1>28, <1>29
     DEF Next, BinderStep, ModemStep

(* It holds at the beginning, and so it always holds. *)
LEMMA DumpInvInit == Init => DumpInv
<1> SUFFICES ASSUME Init PROVE DumpInv
  OBVIOUS
<1> USE ConstantsOK DEF Init
<1>1. PropsOK
  BY DEF PropsOK
<1>2. FilesOK
  <2>1. dir \in [Names -> Copies \cup {Absent}] /\ \A f \in Names : dir[f] = Absent
    OBVIOUS
  <2>2. oldest \in 1 .. newest /\ newest \in 1 .. MaxLogs /\ newest - oldest < LogLimit
    OBVIOUS
  <2>3. QED BY <2>1, <2>2 DEF FilesOK
<1>3. FlowOK
  <2>1. pending \in Seq(LogFiles)
    OBVIOUS
  <2>2. dump \in 0 .. MaxDumps /\ faults \in 0 .. MaxFaults
    OBVIOUS
  <2>3. pc \in Places /\ tpc \in ThreadPlaces /\ tpc = "none"
    BY DEF Places, ThreadPlaces
  <2>4. QED BY <2>1, <2>2, <2>3 DEF FlowOK
<1>4. HistoryOK
  BY DEF HistoryOK
<1>5. DOMAIN pending = {}
  OBVIOUS
<1>6. ThreadInCall /\ EfsInStep /\ MdlogInStep /\ CleanInStep /\ ListedOnce
  BY <1>5 DEF ThreadInCall, EfsInStep, MdlogInStep, CleanInStep, ListedOnce
<1>7. FreshInStep /\ FilesOfThisDump /\ StoppedInStep /\ DirectoryInStep /\ LogsInStep
  BY DEF FreshInStep, FilesOfThisDump, StoppedInStep, DirectoryInStep, LogsInStep
<1>8. QED BY <1>1, <1>2, <1>3, <1>4, <1>6, <1>7, TypeParts DEF DumpInv

LEMMA TypeStep == DumpInv /\ [Next]_vars => TypeOK'
<1> SUFFICES ASSUME DumpInv, [Next]_vars PROVE TypeOK'
  OBVIOUS
<1>1. PropsOK' /\ FilesOK' /\ FlowOK' /\ HistoryOK'
  BY PropsStep, FilesStep, FlowStep, HistoryStep
<1>2. QED BY <1>1 DEF TypeOK, PropsOK, FilesOK, FlowOK, HistoryOK

LEMMA DumpInvStep == DumpInv /\ [Next]_vars => DumpInv'
<1> SUFFICES ASSUME DumpInv, [Next]_vars PROVE DumpInv'
  OBVIOUS
<1>1. TypeOK' /\ ThreadInCall' /\ EfsInStep' /\ MdlogInStep'
  BY TypeStep, ThreadInCallStep, EfsInStepStep, MdlogInStepStep
<1>2. CleanInStep' /\ ListedOnce' /\ FreshInStep' /\ FilesOfThisDump'
  BY CleanInStepStep, ListedOnceStep, FreshInStepStep, FilesOfThisDumpStep
<1>3. StoppedInStep' /\ DirectoryInStep' /\ LogsInStep'
  BY StoppedInStepStep, DirectoryInStepStep, LogsInStepStep
<1>4. QED BY <1>1, <1>2, <1>3 DEF DumpInv

LEMMA DumpInvCorrect == Spec => []DumpInv
<1>1. QED BY DumpInvInit, DumpInvStep, PTL DEF Spec

(***************************************************************************)
(* What the dumpstate HAL promises                                         *)
(***************************************************************************)

(* Every variable of dumpstateBoard_1_1, of dumpModemThread and of what    *)
(* they leave behind keeps its type; what is copied needs a directory.     *)
THEOREM DumpTypeCorrect == Spec => []TypeOK
<1>1. DumpInv => TypeOK
  BY DEF DumpInv
<1>2. QED BY <1>1, DumpInvCorrect, PTL

(* When dumpstateBoard_1_1 is over, modem logging that was on is on, and   *)
(* the modem is not asked for its file system, unless a dump was killed or *)
(* somebody else switched the logging. *)
THEOREM SwitchesRestoredCorrect == Spec => []SwitchesRestored
<1>1. DumpInv => SwitchesRestored
  BY DEF DumpInv, TypeOK, EfsInStep, MdlogInStep, SwitchesRestored
<1>2. QED BY <1>1, DumpInvCorrect, PTL

(* The archive dumpModemThread sends was written by this dump, all of it,  *)
(* as long as every earlier one cleaned up behind itself.                  *)
THEOREM ReportIsOfThisDumpCorrect == Spec => []ReportIsOfThisDump
<1>1. DumpInv => ReportIsOfThisDump
  BY DEF DumpInv, FilesOfThisDump, Whole, ThisCopy, ReportIsOfThisDump
<1>2. QED BY <1>1, DumpInvCorrect, PTL

(* A dump that stopped diag_mdlog, and in which nothing failed, sends the  *)
(* newest of its logs, as many as configured, and no others.               *)
THEOREM NewestLogsCorrect == Spec => []NewestLogsReported
<1>1. DumpInv => NewestLogsReported
  BY DEF DumpInv, LogsInStep, Quiet, LogsOf, NewestLogsReported
<1>2. QED BY <1>1, DumpInvCorrect, PTL
=============================================================================
