------------------------------ MODULE RailData ------------------------------
(***************************************************************************)
(* The power rail data provider (RailDataProvider.cpp): the one binder     *)
(* thread of the power stats service, and the detached thread a streaming  *)
(* session leaves behind, which share mOdpm under its lock; the clients    *)
(* that read a session's message queue and the power monitors of the       *)
(* kernel are external.                                                    *)
(*                                                                         *)
(* A reading is abstracted to its timestamp.  A sample, one reading of     *)
(* every rail, is what is written to a message queue in one piece; a queue *)
(* is shared memory, which the client may read after the service has freed *)
(* its end of it.                                                          *)
(***************************************************************************)
EXTENDS Naturals, Sequences, FiniteSets, SequencesExt

CONSTANTS
    Devices,     \* the power monitors
    RailsOf,     \* RailsOf[d]: the rails of monitor d, in the order of its files
    Pollers,     \* the threads of the sessions
    Calls,       \* the calls clients make
    MAX_QUEUE_SIZE,     \* in samples
    MAX_SAMPLING_RATE,
    Second,      \* milliseconds in a second (1000)
    Word,        \* 2^w for the uint32_t of the code
    MaxCalls,    \* bound: calls
    MaxClock,    \* bound: time stamps
    MaxMisread,  \* bound: files that are not sound
    Faults       \* may sysfs and queue creation fail?

(* Rail names are distinct: emplace would ignore a second one, and its      *)
(* index would stay unused. *)
ASSUME ConstantsOK ==
    /\ IsFiniteSet(Devices)
    /\ \A d, e \in Devices :
          /\ RailsOf[d] \in Seq(Range(RailsOf[d])) /\ IsInjective(RailsOf[d])
          /\ d # e => Range(RailsOf[d]) \cap Range(RailsOf[e]) = {}
    /\ {"binder", "free", "null"} \cap Pollers = {}
    /\ {MAX_QUEUE_SIZE, MAX_SAMPLING_RATE, Second, Word} \subseteq Nat \ {0}
    /\ Calls \subseteq [kind : {"getRailInfo"}]
          \cup [kind : {"getEnergyData"}, railIndices : Seq(0 .. Word - 1)]
          \cup [kind : {"streamEnergyData"}, timeMs : 0 .. Word - 1, samplingRate : 0 .. Word - 1]
    /\ MaxCalls \in Nat /\ MaxClock \in Nat \ {0} /\ MaxMisread \in Nat /\ Faults \in BOOLEAN

VARIABLES
    clock,           \* what the monitors put into energy_value
    devicePaths,     \* the monitors found
    railsInfo,       \* [rail, device] at position index + 1
    hwEnabled,
    reading,         \* reading[n]: timestamp of the rail with index n - 1
    misread,         \* history: the monitors whose files were read though not sound
    mLock,           \* its holder, or "free"
    fmqSynchronized, \* the session whose queue it owns, or "null"
    fmq,             \* fmq[k]: samples in the shared memory of session k
    pc,              \* pc[t]: where thread t stands
    at,              \* at[t]: the monitor t parses next
    call,            \* the call the binder thread serves
    answer,          \* what its client was told last
    numSamples, currSamples,   \* of each session
    calls,           \* calls so far
    since            \* clock when the call of getEnergyData took the lock

mOdpm == <<devicePaths, railsInfo, hwEnabled, reading, misread, fmqSynchronized>>
count == <<numSamples, currSamples>>
vars  == <<clock, devicePaths, railsInfo, hwEnabled, reading, misread, mLock, fmqSynchronized, fmq,
           pc, at, call, answer, numSamples, currSamples, calls, since>>

(***************************************************************************)
(* Start-up: findIioPowerMonitorNodes and parsePowerRails                  *)
(***************************************************************************)

Threads == {"binder"} \cup Pollers
Kinds   == {"getRailInfo", "getEnergyData", "streamEnergyData"}
Status  == {"SUCCESS", "NOT_SUPPORTED", "FILESYSTEM_ERROR", "INVALID_INPUT",
            "INSUFFICIENT_RESOURCES"}
NoData  == <<>>
NoAnswer == [status |-> "none", data |-> NoData]

(* What name, or sampling_rate and enabled_rails, of a node turn out to be. *)
SysfsState == IF Faults THEN {"ok", "nameless", "unreadable", "badRate"} ELSE {"ok"}

(* readdir lists the nodes in any order; one whose name cannot be read is   *)
(* passed over. *)
findIioPowerMonitorNodes(sysfs) == SetToSeqs({d \in Devices : sysfs[d] # "nameless"})

(* A monitor whose files cannot be read is passed over, a rate that is no  *)
(* number ends the search.  <<n, i>> is line i of the n-th monitor. *)
RailLines(paths, sysfs) ==
    LET Reached(n) == \A m \in 1 .. n : sysfs[paths[m]] # "badRate"
        Readable == {n \in DOMAIN paths : Reached(n) /\ sysfs[paths[n]] = "ok"}
    IN  UNION {{n} \X DOMAIN RailsOf[paths[n]] : n \in Readable}

Before(l, m) == l[1] < m[1] \/ (l[1] = m[1] /\ l[2] < m[2])

(* The rails of the lines, in their order. *)
parsePowerRails(paths, sysfs) ==
    {[i \in DOMAIN lines |-> [rail |-> RailsOf[paths[lines[i][1]]][lines[i][2]],
                              device |-> paths[lines[i][1]]]] :
        lines \in {ls \in SetToSeqs(RailLines(paths, sysfs)) :
                     \A i, j \in DOMAIN ls : i < j => Before(ls[i], ls[j])}}

Init ==
    /\ \E sysfs \in [Devices -> SysfsState] :
          /\ devicePaths \in findIioPowerMonitorNodes(sysfs)
          /\ railsInfo \in parsePowerRails(devicePaths, sysfs)
    /\ hwEnabled = (devicePaths # <<>> /\ railsInfo # <<>>)
    /\ reading = [n \in DOMAIN railsInfo |-> 0] /\ misread = <<>>
    /\ clock = 1 /\ mLock = "free" /\ fmqSynchronized = "null"
    /\ fmq = [k \in Pollers |-> <<>>]
    /\ pc = [t \in Threads |-> IF t = "binder" THEN "idle" ELSE "unborn"]
    /\ at = [t \in Threads |-> 1]
    /\ call = [kind |-> "getRailInfo"]
    /\ answer = NoAnswer
    /\ numSamples = [k \in Pollers |-> 0] /\ currSamples = [k \in Pollers |-> 0]
    /\ calls = 0 /\ since = 0

Goto(t, place) == pc' = [pc EXCEPT ![t] = place]

(***************************************************************************)
(* parseIioEnergyNodes, by the thread that holds mLock: one monitor per    *)
(* step.  Until a line of one word, the timestamp, every line is passed    *)
(* over, and nobody counts the rails that follow: a file without a         *)
(* timestamp or with too few rails is taken.  Only a bad line after the    *)
(* timestamp, or a file that cannot be read, is an error, and the readings *)
(* of the lines before it have changed by then.  A timestamp that is no    *)
(* number is 0, and is taken with a warning.                               *)
(***************************************************************************)

Holding(t, place) == pc[t] = place /\ mLock = t

Device(t) == devicePaths[at[t]]

(* reading after the first n lines of the monitor's file, under timestamp. *)
ReadingAfter(d, n, timestamp) ==
    [i \in DOMAIN reading |->
        IF \E j \in 1 .. n : railsInfo[i] = [rail |-> RailsOf[d][j], device |-> d]
        THEN timestamp ELSE reading[i]]

NextDevice(t) == at' = [at EXCEPT ![t] = @ + 1] /\ UNCHANGED pc

(* Seeded fault: the error of a bad line is not handed on. *)
ParseFailedIgnored(t) == NextDevice(t)

ParseFailed(t) == Goto(t, "failed") /\ at' = [at EXCEPT ![t] = 1]

(* A file with a wrong timestamp, or that is taken without all its rails;   *)
(* one without a timestamp is taken without any. *)
Misread(d) ==
    /\ Faults /\ Len(misread) < MaxMisread
    /\ misread' = Append(misread, d)

parseIioEnergyNode(t) ==
    /\ Holding(t, "parse") /\ hwEnabled /\ at[t] \in DOMAIN devicePaths
    /\ \E n \in 0 .. Len(RailsOf[Device(t)]), timestamp \in {0, clock} :
          /\ reading' = ReadingAfter(Device(t), n, timestamp)
          /\ \/ /\ NextDevice(t)
                /\ IF n = Len(RailsOf[Device(t)]) /\ timestamp = clock
                   THEN UNCHANGED misread ELSE Misread(Device(t))
             \/ /\ Faults /\ ParseFailed(t)
                /\ IF timestamp = clock THEN UNCHANGED misread ELSE Misread(Device(t))
    /\ UNCHANGED <<clock, devicePaths, railsInfo, hwEnabled, mLock, fmqSynchronized, fmq, call, answer,
                   count, calls, since>>

parseIioEnergyNodes(t) ==
    /\ Holding(t, "parse")
    /\ \/ ~hwEnabled /\ Goto(t, "failed")
       \/ hwEnabled /\ at[t] \notin DOMAIN devicePaths /\ Goto(t, "parsed")
    /\ at' = [at EXCEPT ![t] = 1]
    /\ UNCHANGED <<clock, mOdpm, mLock, fmq, call, answer, count, calls, since>>

(***************************************************************************)
(* The binder thread                                                       *)
(***************************************************************************)

Call ==
    /\ pc["binder"] = "idle" /\ calls < MaxCalls
    /\ \E c \in Calls : call' = c
    /\ calls' = calls + 1 /\ answer' = NoAnswer
    /\ Goto("binder", "lock")
    /\ UNCHANGED <<clock, mOdpm, mLock, fmq, at, count, since>>

LockForCall ==
    /\ pc["binder"] = "lock" /\ mLock = "free"
    /\ mLock' = "binder"
    /\ since' = IF call.kind = "getEnergyData" THEN clock ELSE 0
    /\ Goto("binder", IF call.kind = "getEnergyData" THEN "parse" ELSE call.kind)
    /\ UNCHANGED <<clock, mOdpm, fmq, at, call, answer, count, calls>>

(* The callback is made and the lock_guard goes. *)
Answer(status, data) ==
    /\ answer' = [status |-> status, data |-> data]
    /\ mLock' = "free" /\ Goto("binder", "idle")

getRailInfo ==
    /\ Holding("binder", "getRailInfo")
    /\ \/ ~hwEnabled /\ Answer("NOT_SUPPORTED", NoData)
       \/ hwEnabled /\ Answer("SUCCESS", NoData)
    /\ UNCHANGED <<clock, mOdpm, fmq, at, call, count, calls, since>>

getEnergyDataFailed ==
    /\ Holding("binder", "failed")
    /\ Answer(IF hwEnabled THEN "FILESYSTEM_ERROR" ELSE "NOT_SUPPORTED", NoData)
    /\ UNCHANGED <<clock, mOdpm, fmq, at, call, count, calls, since>>

(* All rails for an empty list of indices. *)
getEnergyData ==
    /\ Holding("binder", "parsed")
    /\ \/ call.railIndices = <<>> /\ Answer("SUCCESS", reading)
       \/ /\ call.railIndices # <<>>
          /\ \A i \in Range(call.railIndices) : i < Len(reading)
          /\ Answer("SUCCESS", [n \in DOMAIN call.railIndices |->
                                  reading[call.railIndices[n] + 1]])
       \/ /\ \E i \in Range(call.railIndices) : i >= Len(reading)
          /\ Answer("INVALID_INPUT", NoData)
    /\ UNCHANGED <<clock, mOdpm, fmq, at, call, count, calls, since>>

(* Seeded fault: a session in progress is not looked at. *)
SessionOpenIgnored == FALSE

SessionOpen == fmqSynchronized # "null"

(* sps and numSamples are uint32_t: a product that does not fit wraps.  A   *)
(* rate of 0 is a session of no samples: 1000000 / sps, which is undefined, *)
(* is 0 on arm64 and is only slept by. *)
Min2(x, y) == IF x < y THEN x ELSE y
Samples(timeMs, samplingRate) ==
    ((timeMs * Min2(samplingRate, MAX_SAMPLING_RATE)) % Word) \div Second

streamEnergyDataRefused ==
    /\ Holding("binder", "streamEnergyData")
    /\ SessionOpen \/ Faults
    /\ Answer("INSUFFICIENT_RESOURCES", NoData)
    /\ UNCHANGED <<clock, mOdpm, fmq, at, call, count, calls, since>>

(* The queue is made and the thread is started and detached; which of the  *)
(* threads not yet born it is makes no difference. *)
streamEnergyData ==
    /\ Holding("binder", "streamEnergyData") /\ ~SessionOpen
    /\ \E k \in Pollers :
          /\ pc[k] = "unborn" /\ k = CHOOSE j \in Pollers : pc[j] = "unborn"
          /\ fmqSynchronized' = k
          /\ numSamples' = [numSamples EXCEPT ![k] = Samples(call.timeMs, call.samplingRate)]
          /\ pc' = [pc EXCEPT ![k] = "test", !["binder"] = "describe"]
    /\ UNCHANGED <<clock, devicePaths, railsInfo, hwEnabled, reading, misread, mLock, fmq, at, call,
                   answer, currSamples, calls, since>>

(* The queue's descriptor is handed out. *)
Describe ==
    /\ Holding("binder", "describe")
    /\ Answer("SUCCESS", NoData)
    /\ UNCHANGED <<clock, mOdpm, fmq, at, call, count, calls, since>>

(***************************************************************************)
(* The thread of session k                                                 *)
(***************************************************************************)

(* Seeded fault: one sample too many. *)
TestSamplesInclusive(k) ==
    /\ pc[k] = "test"
    /\ Goto(k, IF currSamples[k] <= numSamples[k] THEN "lock" ELSE "end")
    /\ UNCHANGED <<clock, mOdpm, mLock, fmq, at, call, answer, count, calls, since>>

TestSamples(k) ==
    /\ pc[k] = "test"
    /\ Goto(k, IF currSamples[k] < numSamples[k] THEN "lock" ELSE "end")
    /\ UNCHANGED <<clock, mOdpm, mLock, fmq, at, call, answer, count, calls, since>>

LockForSample(k) ==
    /\ pc[k] = "lock" /\ mLock = "free"
    /\ mLock' = k
    /\ Goto(k, "parse")
    /\ UNCHANGED <<clock, mOdpm, fmq, at, call, answer, count, calls, since>>

SampleDone(k) ==
    /\ mLock' = "free"
    /\ currSamples' = [currSamples EXCEPT ![k] = @ + 1]
    /\ Goto(k, "sleep")
    /\ UNCHANGED <<clock, mOdpm, at, call, answer, numSamples, calls, since>>

(* writeBlocking finds room.  Its result is not looked at, the sample counts. *)
WriteSample(k) ==
    /\ Holding(k, "parsed")
    /\ Len(fmq[fmqSynchronized]) < MAX_QUEUE_SIZE
    /\ fmq' = [fmq EXCEPT ![fmqSynchronized] = Append(@, reading)]
    /\ SampleDone(k)

(* Seeded fault: the write waits for as long as it takes. *)
WriteTimesOutNever(k) == FALSE /\ UNCHANGED vars

(* No room within WRITE_TIMEOUT_NS: mLock has been held all the while. *)
WriteTimesOut(k) ==
    /\ Holding(k, "parsed")
    /\ Len(fmq[fmqSynchronized]) >= MAX_QUEUE_SIZE
    /\ UNCHANGED fmq /\ SampleDone(k)

SampleFailed(k) ==
    /\ Holding(k, "failed")
    /\ mLock' = "free" /\ Goto(k, "end")
    /\ UNCHANGED <<clock, mOdpm, fmq, at, call, answer, count, calls, since>>

(* usleep, which a signal may interrupt. *)
Sleep(k) ==
    /\ pc[k] = "sleep"
    /\ Goto(k, "test") \/ Goto(k, "end")
    /\ UNCHANGED <<clock, mOdpm, mLock, fmq, at, call, answer, count, calls, since>>

EndSession(k) ==
    /\ pc[k] = "end" /\ mLock = "free"
    /\ fmqSynchronized' = "null" /\ Goto(k, "ended")
    /\ UNCHANGED <<clock, devicePaths, railsInfo, hwEnabled, reading, misread, mLock, fmq, at, call,
                   answer, count, calls, since>>

(***************************************************************************)
(* The clients and the monitors (external)                                 *)
(***************************************************************************)

ReadSample ==
    /\ \E k \in Pollers : fmq[k] # <<>> /\ fmq' = [fmq EXCEPT ![k] = Tail(@)]
    /\ UNCHANGED <<clock, mOdpm, mLock, pc, at, call, answer, count, calls, since>>

Tick ==
    /\ clock < MaxClock /\ clock' = clock + 1
    /\ UNCHANGED <<mOdpm, mLock, fmq, pc, at, call, answer, count, calls, since>>

(***************************************************************************)
(* The system                                                              *)
(***************************************************************************)

BinderStep ==
    \/ LockForCall \/ parseIioEnergyNode("binder") \/ parseIioEnergyNodes("binder")
    \/ getRailInfo \/ getEnergyData \/ getEnergyDataFailed
    \/ streamEnergyData \/ streamEnergyDataRefused \/ Describe

PollStep(k) ==
    \/ TestSamples(k) \/ LockForSample(k) \/ parseIioEnergyNode(k) \/ parseIioEnergyNodes(k)
    \/ WriteSample(k) \/ WriteTimesOut(k) \/ SampleFailed(k) \/ Sleep(k) \/ EndSession(k)

Next ==
    \/ Call \/ BinderStep \/ (\E k \in Pollers : PollStep(k))
    \/ ReadSample \/ Tick

(* The threads run and a timed write ends; clients owe nothing. *)
Fairness == WF_vars(BinderStep) /\ \A k \in Pollers : WF_vars(PollStep(k))

Spec == Init /\ [][Next]_vars /\ Fairness

(***************************************************************************)
(* Properties                                                              *)
(***************************************************************************)

BinderPlaces == {"idle", "lock", "parse", "parsed", "failed", "describe"} \cup Kinds
PollerPlaces == {"unborn", "test", "lock", "parse", "parsed", "failed", "sleep", "end", "ended"}
Readings     == [DOMAIN railsInfo -> 0 .. MaxClock]

TypeOK ==
    /\ clock \in 1 .. MaxClock /\ since \in 0 .. clock /\ calls \in 0 .. MaxCalls
    /\ hwEnabled \in BOOLEAN /\ devicePaths \in Seq(Devices)
    /\ reading \in Readings /\ misread \in Seq(Devices)
    /\ mLock \in Threads \cup {"free"} /\ fmqSynchronized \in Pollers \cup {"null"}
    /\ fmq \in [Pollers -> Seq(Readings)]
    /\ \A k \in Pollers : Len(fmq[k]) <= MAX_QUEUE_SIZE
    /\ DOMAIN pc = Threads /\ pc["binder"] \in BinderPlaces
    /\ \A k \in Pollers : pc[k] \in PollerPlaces
    /\ at \in [Threads -> 1 .. Len(devicePaths) + 1]
    /\ call \in Calls \cup {[kind |-> "getRailInfo"]}
    /\ answer \in [status : Status \cup {"none"}, data : Seq(0 .. MaxClock)]
    /\ numSamples \in [Pollers -> Nat] /\ currSamples \in [Pollers -> Nat]
    /\ \A k \in Pollers : currSamples[k] <= numSamples[k]

(* The queue a session writes to, or whose descriptor the binder thread is *)
(* about to hand out, is its own and has not been freed: the detached      *)
(* thread, which outlives the call, and a later call do not meet on it.    *)
QueueAliveWhileUsed ==
    /\ \A k \in Pollers :
           pc[k] \notin {"unborn", "ended"} => fmqSynchronized = k
    /\ pc["binder"] = "describe" => fmqSynchronized # "null"

(* Every file of rail i's monitor was sound, or an error. *)
Trusted(i) == railsInfo[i].device \notin Range(misread)

SameTime(sample) ==
    \A i, j \in DOMAIN sample :
        Trusted(i) /\ railsInfo[i].device = railsInfo[j].device => sample[i] = sample[j]

(* The rail the n-th entry of the answer in progress is about. *)
RailAsked(n) == IF call.railIndices = <<>> THEN n ELSE call.railIndices[n] + 1

(* A client sees whole readings: in a sample of the queue, or the answer   *)
(* to getEnergyData, the rails of a monitor have one timestamp, although a *)
(* parse that failed half way has left a mixture in mOdpm and both threads *)
(* overwrite it; samples follow each other in time; and no answer is older *)
(* than its call.  Except for the rails of a monitor of which a file that  *)
(* lacked the timestamp, or a rail, was taken: parseIioEnergyNode returns  *)
(* 0 for it, and the old readings are handed out as new ones. *)
SamplesAreWhole ==
    /\ \A k \in Pollers :
           /\ \A n \in DOMAIN fmq[k] : SameTime(fmq[k][n])
           /\ \A n \in 1 .. Len(fmq[k]) - 1 :
                  \A i \in DOMAIN railsInfo : Trusted(i) => fmq[k][n][i] <= fmq[k][n + 1][i]
    /\ pc["binder"] = "idle" /\ call.kind = "getEnergyData" /\ answer.status = "SUCCESS" =>
           /\ call.railIndices = <<>> => SameTime(answer.data)
           /\ \A n \in DOMAIN answer.data : Trusted(RailAsked(n)) => answer.data[n] >= since

(* No client can hold up the service: a session ends, and frees the queue  *)
(* for the next one, and every call is answered, even when nobody reads    *)
(* the queue the session writes to under mLock. *)
NothingHangs ==
    /\ fmqSynchronized # "null" ~> fmqSynchronized = "null"
    /\ pc["binder"] # "idle" ~> pc["binder"] = "idle"

(* Every step of the provider is a step of the abstract streams, or leaves *)
(* them unchanged: although a session's thread outlives the call that made *)
(* it and shares queue, readings and lock with later calls, sessions never *)
(* overlap, and each client gets readings that are whole as far as files   *)
(* were sound, at most as many as asked. *)
Abs == INSTANCE EnergyStreams WITH
    Sessions <- Pollers,
    Monitors <- Devices,
    Size     <- MAX_QUEUE_SIZE,
    monitor  <- [i \in DOMAIN railsInfo |-> railsInfo[i].device],
    phase    <- [k \in Pollers |-> CASE pc[k] = "unborn" -> "new"
                                     [] pc[k] = "ended" -> "over"
                                     [] OTHER -> "open"],
    queue    <- fmq,
    misread  <- Range(misread),
    asked    <- numSamples,
    sent     <- currSamples

ImplementsEnergyStreams == Abs!Spec
=============================================================================
