-------------------------- MODULE RailData_proofs --------------------------
(***************************************************************************)
(* Proofs about the power rail data provider: for any monitors, rails,     *)
(* number of sessions, queue size and sequence of calls, the queue a       *)
(* thread uses is its own and alive, and clients see whole readings of the *)
(* monitors none of whose files was misread.                               *)
(*                                                                         *)
(* The argument.  mLock is held exactly at the places between lock and     *)
(* unlock (LockHeld), so one thread parses at a time and the monitors it   *)
(* has read so far carry one timestamp each (ReadInStep), whatever a       *)
(* failed parse left behind for the next one to overwrite, except those    *)
(* misread, which stay so (TrustStep).  A session's                        *)
(* thread is alive exactly while the queue is its own (SessionOwned).      *)
(* Readings only grow, so a queued sample stays below them (SamplesInStep).*)
(* The same invariant makes each step one of the abstract EnergyStreams or *)
(* an unseen one (StreamsStep).                                            *)
(***************************************************************************)
EXTENDS RailData, FiniteSetTheorems, FunctionTheorems, TLAPS

(***************************************************************************)
(* The inductive invariant                                                 *)
(***************************************************************************)

Rails == UNION {Range(RailsOf[d]) : d \in Devices}

(* Every rail found is a line of the file of a monitor found. *)
RailsFound ==
    /\ railsInfo \in Seq([rail : Rails, device : Devices])
    /\ \A i \in DOMAIN railsInfo :
          /\ railsInfo[i].rail \in Range(RailsOf[railsInfo[i].device])
          /\ railsInfo[i].device \in Range(devicePaths)

Parsing == {"parse", "parsed", "failed"}

(* The lock_guard of a call, and the lock and unlock of a sample. *)
LockHeld ==
    /\ mLock = "binder" <=> pc["binder"] \in Parsing \cup Kinds \cup {"describe"}
    /\ \A k \in Pollers : mLock = k <=> pc[k] \in Parsing

(* The binder thread is in the function it was called for. *)
CallServed ==
    /\ pc["binder"] \in Parsing => call.kind = "getEnergyData"
    /\ pc["binder"] \in Kinds => call.kind = pc["binder"]
    /\ pc["binder"] = "describe" => call.kind = "streamEnergyData"
    /\ pc["binder"] # "idle" => answer = NoAnswer

(* A session whose thread runs has the queue; the thread of another one    *)
(* has not been started or has ended. *)
SessionOwned ==
    /\ \A k \in Pollers : pc[k] \notin {"unborn", "ended"} => fmqSynchronized = k
    /\ pc["binder"] = "describe" => fmqSynchronized # "null"

(* A session takes no more samples than it was asked for. *)
SamplesCounted ==
    \A k \in Pollers :
        /\ pc[k] = "unborn" => currSamples[k] = 0
        /\ pc[k] \in Parsing \cup {"lock"} => currSamples[k] < numSamples[k]

(* A parse begins with the first monitor. *)
ParseFromStart == \A t \in Threads : pc[t] # "parse" => at[t] = 1

(* Thread t has read monitor d completely in this parse. *)
HasRead(t, d) == pc[t] = "parsed" \/ \E n \in 1 .. at[t] - 1 : devicePaths[n] = d

(* The monitors it has read carry one timestamp each, one not older than   *)
(* the call. *)
ReadBy(t) ==
    pc[t] \in {"parse", "parsed"} =>
        \A i \in DOMAIN railsInfo : Trusted(i) /\ HasRead(t, railsInfo[i].device) =>
            /\ \A j \in DOMAIN railsInfo :
                  railsInfo[i].device = railsInfo[j].device => reading[i] = reading[j]
            /\ t = "binder" => reading[i] >= since

ReadInStep == \A t \in Threads : ReadBy(t)

NotAhead == \A i \in DOMAIN railsInfo : reading[i] <= clock

(* Queued samples are whole, in order, and not ahead of the readings. *)
QueueInStep(k) ==
    \A n \in DOMAIN fmq[k] :
        /\ SameTime(fmq[k][n])
        /\ \A i \in DOMAIN railsInfo : Trusted(i) => fmq[k][n][i] <= reading[i]
        /\ n + 1 \in DOMAIN fmq[k] =>
              \A i \in DOMAIN railsInfo : Trusted(i) => fmq[k][n][i] <= fmq[k][n + 1][i]

SamplesInStep == \A k \in Pollers : QueueInStep(k)

(* So is the answer of a call that asked for readings. *)
AnswerInStep ==
    pc["binder"] = "idle" /\ call.kind = "getEnergyData" /\ answer.status = "SUCCESS" =>
        /\ call.railIndices = <<>> => SameTime(answer.data)
        /\ \A n \in DOMAIN answer.data : Trusted(RailAsked(n)) => answer.data[n] >= since

RailInv ==
    /\ TypeOK /\ RailsFound /\ LockHeld /\ CallServed /\ SessionOwned /\ SamplesCounted
    /\ ParseFromStart /\ ReadInStep /\ NotAhead /\ SamplesInStep /\ AnswerInStep

(***************************************************************************)
(* Every step preserves it                                                 *)
(***************************************************************************)

(* The type invariant in parts: times, places, monitors, readings, the     *)
(* call, the counters of the sessions. *)
TimesOK == clock \in 1 .. MaxClock /\ since \in 0 .. clock /\ calls \in 0 .. MaxCalls

PlacesOK ==
    /\ mLock \in Threads \cup {"free"} /\ fmqSynchronized \in Pollers \cup {"null"}
    /\ DOMAIN pc = Threads /\ pc["binder"] \in BinderPlaces
    /\ \A k \in Pollers : pc[k] \in PollerPlaces

NodesOK == devicePaths \in Seq(Devices) /\ at \in [Threads -> 1 .. Len(devicePaths) + 1]

QueuesOK ==
    /\ fmq \in [Pollers -> Seq(Readings)]
    /\ \A k \in Pollers : Len(fmq[k]) <= MAX_QUEUE_SIZE

CallOK ==
    /\ call \in Calls \cup {[kind |-> "getRailInfo"]}
    /\ answer \in [status : Status \cup {"none"}, data : Seq(0 .. MaxClock)]

CountsOK ==
    /\ numSamples \in [Pollers -> Nat] /\ currSamples \in [Pollers -> Nat]
    /\ \A k \in Pollers : currSamples[k] <= numSamples[k]

LEMMA TypeParts ==
    TypeOK <=> /\ TimesOK /\ PlacesOK /\ NodesOK /\ QueuesOK /\ CallOK /\ CountsOK
               /\ reading \in Readings /\ hwEnabled \in BOOLEAN /\ misread \in Seq(Devices)
BY DEF TypeOK, TimesOK, PlacesOK, NodesOK, QueuesOK, CallOK, CountsOK

(* Distinct threads, and the two values that are no thread. *)
LEMMA Names ==
    /\ Threads = {"binder"} \cup Pollers
    /\ "binder" \notin Pollers /\ "free" \notin Threads /\ "null" \notin Pollers
BY ConstantsOK DEF Threads

(* Calls are of three kinds, and ask with numbers. *)
LEMMA CallKinds ==
    ASSUME NEW c \in Calls \cup {[kind |-> "getRailInfo"]}
    PROVE  /\ c.kind \in Kinds
           /\ c.kind = "getEnergyData" => c.railIndices \in Seq(Nat)
           /\ c.kind = "streamEnergyData" => c.timeMs \in Nat /\ c.samplingRate \in Nat
BY ConstantsOK DEF Kinds

(* The number of samples of a session is a natural number. *)
LEMMA SamplesType ==
    ASSUME NEW timeMs \in Nat, NEW samplingRate \in Nat
    PROVE  Samples(timeMs, samplingRate) \in Nat
<1>1. Min2(samplingRate, MAX_SAMPLING_RATE) \in Nat
  BY ConstantsOK DEF Min2
<1>2. (timeMs * Min2(samplingRate, MAX_SAMPLING_RATE)) \in Nat
  BY <1>1
<1>3. (timeMs * Min2(samplingRate, MAX_SAMPLING_RATE)) % Word \in Nat
  BY <1>2, ConstantsOK
<1>4. QED BY <1>3, ConstantsOK DEF Samples

(* Functions on 1 .. n are sequences, and back. *)
LEMMA SeqOfFunction ==
    ASSUME NEW S, NEW n \in Nat, NEW f \in [1 .. n -> S]
    PROVE  f \in Seq(S) /\ Len(f) = n
OBVIOUS

LEMMA ElementOf ==
    ASSUME NEW S, NEW s \in Seq(S), NEW i \in DOMAIN s
    PROVE  s[i] \in S
OBVIOUS

(* The readings are a sequence, one for each rail. *)
LEMMA ReadingSeq ==
    ASSUME RailInv
    PROVE  /\ DOMAIN railsInfo = 1 .. Len(railsInfo) /\ Len(railsInfo) \in Nat
           /\ DOMAIN reading = DOMAIN railsInfo
           /\ reading \in Seq(0 .. MaxClock) /\ Len(reading) = Len(railsInfo)
<1>1. DOMAIN railsInfo = 1 .. Len(railsInfo) /\ Len(railsInfo) \in Nat
  BY DEF RailInv, RailsFound
<1>2. reading \in [1 .. Len(railsInfo) -> 0 .. MaxClock]
  BY <1>1 DEF RailInv, TypeOK, Readings
<1>3. QED BY <1>1, <1>2, SeqOfFunction

(* The answer for a list of indices. *)
LEMMA PickedSeq ==
    ASSUME RailInv, call.kind = "getEnergyData",
           \A i \in Range(call.railIndices) : i < Len(reading)
    PROVE  /\ \A n \in DOMAIN call.railIndices : call.railIndices[n] + 1 \in DOMAIN reading
           /\ [n \in DOMAIN call.railIndices |-> reading[call.railIndices[n] + 1]]
                \in Seq(0 .. MaxClock)
<1>1. call.railIndices \in Seq(Nat)
  BY CallKinds DEF RailInv, TypeOK
<1>2. DOMAIN reading = 1 .. Len(reading) /\ Len(reading) \in Nat
  BY ReadingSeq
<1>3. ASSUME NEW n \in DOMAIN call.railIndices
      PROVE  call.railIndices[n] + 1 \in DOMAIN reading
  <2>1. call.railIndices[n] \in Range(call.railIndices)
    BY DEF Range
  <2>2. call.railIndices[n] \in Nat
    BY <1>1
  <2>3. call.railIndices[n] < Len(reading)
    BY <2>1
  <2>4. QED BY <1>2, <2>2, <2>3
<1>4. \A n \in DOMAIN call.railIndices : reading[call.railIndices[n] + 1] \in 0 .. MaxClock
  BY <1>3 DEF RailInv, TypeOK, Readings
<1>5. DOMAIN call.railIndices = 1 .. Len(call.railIndices) /\ Len(call.railIndices) \in Nat
  BY <1>1
<1>6. [n \in DOMAIN call.railIndices |-> reading[call.railIndices[n] + 1]]
         \in [1 .. Len(call.railIndices) -> 0 .. MaxClock]
  BY <1>4, <1>5
<1>7. QED BY <1>3, <1>5, <1>6, SeqOfFunction

(* The rails and monitors are those found at the start. *)
Frozen == UNCHANGED <<devicePaths, railsInfo, hwEnabled>>

LEMMA FrozenStep == [Next]_vars => Frozen
<1> SUFFICES ASSUME [Next]_vars PROVE Frozen
  OBVIOUS
<1> USE DEF Frozen, mOdpm, count, Goto
<1>1. CASE Call
  BY <1>1 DEF Call
<1>2. CASE LockForCall
  BY <1>2 DEF LockForCall
<1>3. ASSUME NEW t \in Threads, parseIioEnergyNode(t) PROVE Frozen
  BY <1>3 DEF parseIioEnergyNode, NextDevice, ParseFailed, Holding
<1>4. ASSUME NEW t \in Threads, parseIioEnergyNodes(t) PROVE Frozen
  BY <1>4 DEF parseIioEnergyNodes, Holding
<1>5. CASE getRailInfo
  BY <1>5 DEF getRailInfo, Answer, Holding
<1>6. CASE getEnergyData
  BY <1>6 DEF getEnergyData, Answer, Holding
<1>7. CASE getEnergyDataFailed
  BY <1>7 DEF getEnergyDataFailed, Answer, Holding
<1>8. CASE streamEnergyData
  BY <1>8 DEF streamEnergyData, SessionOpen, Holding
<1>9. CASE streamEnergyDataRefused
  BY <1>9 DEF streamEnergyDataRefused, Answer, Holding
<1>10. CASE Describe
  BY <1>10 DEF Describe, Answer, Holding
<1>11. ASSUME NEW k \in Pollers, TestSamples(k) PROVE Frozen
  BY <1>11 DEF TestSamples
<1>12. ASSUME NEW k \in Pollers, LockForSample(k) PROVE Frozen
  BY <1>12 DEF LockForSample
<1>13. ASSUME NEW k \in Pollers, WriteSample(k) PROVE Frozen
  BY <1>13 DEF WriteSample, SampleDone, Holding
<1>14. ASSUME NEW k \in Pollers, WriteTimesOut(k) PROVE Frozen
  BY <1>14 DEF WriteTimesOut, SampleDone, Holding
<1>15. ASSUME NEW k \in Pollers, SampleFailed(k) PROVE Frozen
  BY <1>15 DEF SampleFailed, Holding
<1>16. ASSUME NEW k \in Pollers, Sleep(k) PROVE Frozen
  BY <1>16 DEF Sleep
<1>17. ASSUME NEW k \in Pollers, EndSession(k) PROVE Frozen
  BY <1>17 DEF EndSession
<1>18. CASE ReadSample
  BY <1>18 DEF ReadSample
<1>19. CASE Tick
  BY <1>19 DEF Tick
<1>20. CASE UNCHANGED vars
  BY <1>20 DEF vars
<1>21. QED
  BY <1>1, <1>2, <1>3, <1>4, <1>5, <1>6, <1>7, <1>8, <1>9, <1>10, <1>11, <1>12, <1>13,
     <1>14, <1>15, <1>16, <1>17, <1>18, <1>19, <1>20
     DEF Next, BinderStep, PollStep, Threads

(* Times do not run backwards. *)
LEMMA TimesStep == RailInv /\ [Next]_vars => TimesOK'
<1> SUFFICES ASSUME RailInv, [Next]_vars PROVE TimesOK'
  OBVIOUS
<1> USE ConstantsOK DEF TimesOK, mOdpm, count, Goto
<1>0. TimesOK /\ PlacesOK /\ NodesOK /\ QueuesOK /\ CallOK /\ CountsOK
  BY TypeParts DEF RailInv
<1>1. CASE Call
  BY <1>0, <1>1 DEF Call
<1>2. CASE LockForCall
  BY <1>0, <1>2 DEF LockForCall
<1>3. ASSUME NEW t \in Threads, parseIioEnergyNode(t) PROVE TimesOK'
  BY <1>0, <1>3 DEF parseIioEnergyNode, NextDevice, ParseFailed, Holding
<1>4. ASSUME NEW t \in Threads, parseIioEnergyNodes(t) PROVE TimesOK'
  BY <1>0, <1>4 DEF parseIioEnergyNodes, Holding
<1>5. CASE getRailInfo
  BY <1>0, <1>5 DEF getRailInfo, Answer, Holding
<1>6. CASE getEnergyData
  BY <1>0, <1>6 DEF getEnergyData, Answer, Holding
<1>7. CASE getEnergyDataFailed
  BY <1>0, <1>7 DEF getEnergyDataFailed, Answer, Holding
<1>8. CASE streamEnergyData
  BY <1>0, <1>8 DEF streamEnergyData, SessionOpen, Holding
<1>9. CASE streamEnergyDataRefused
  BY <1>0, <1>9 DEF streamEnergyDataRefused, Answer, Holding
<1>10. CASE Describe
  BY <1>0, <1>10 DEF Describe, Answer, Holding
<1>11. ASSUME NEW k \in Pollers, TestSamples(k) PROVE TimesOK'
  BY <1>0, <1>11 DEF TestSamples
<1>12. ASSUME NEW k \in Pollers, LockForSample(k) PROVE TimesOK'
  BY <1>0, <1>12 DEF LockForSample
<1>13. ASSUME NEW k \in Pollers, WriteSample(k) PROVE TimesOK'
  BY <1>0, <1>13 DEF WriteSample, SampleDone, Holding
<1>14. ASSUME NEW k \in Pollers, WriteTimesOut(k) PROVE TimesOK'
  BY <1>0, <1>14 DEF WriteTimesOut, SampleDone, Holding
<1>15. ASSUME NEW k \in Pollers, SampleFailed(k) PROVE TimesOK'
  BY <1>0, <1>15 DEF SampleFailed, Holding
<1>16. ASSUME NEW k \in Pollers, Sleep(k) PROVE TimesOK'
  BY <1>0, <1>16 DEF Sleep
<1>17. ASSUME NEW k \in Pollers, EndSession(k) PROVE TimesOK'
  BY <1>0, <1>17 DEF EndSession
<1>18. CASE ReadSample
  BY <1>0, <1>18 DEF ReadSample
<1>19. CASE Tick
  BY <1>0, <1>19 DEF Tick
<1>20. CASE UNCHANGED vars
  BY <1>0, <1>20 DEF vars
<1>21. QED
  BY <1>1, <1>2, <1>3, <1>4, <1>5, <1>6, <1>7, <1>8, <1>9, <1>10, <1>11, <1>12, <1>13,
     <1>14, <1>15, <1>16, <1>17, <1>18, <1>19, <1>20
     DEF Next, BinderStep, PollStep, Threads

(* Every thread stands where it may. *)
LEMMA PlacesStep == RailInv /\ [Next]_vars => PlacesOK'
<1> SUFFICES ASSUME RailInv, [Next]_vars PROVE PlacesOK'
  OBVIOUS
<1> USE Names DEF PlacesOK, BinderPlaces, PollerPlaces, Kinds, mOdpm, count, Goto
<1>0. TimesOK /\ PlacesOK /\ NodesOK /\ QueuesOK /\ CallOK /\ CountsOK
  BY TypeParts DEF RailInv
<1>00. call.kind \in Kinds
  BY <1>0, CallKinds DEF CallOK
<1>1. CASE Call
  BY <1>0, <1>00, <1>1 DEF Call
<1>2. CASE LockForCall
  BY <1>0, <1>00, <1>2 DEF LockForCall
<1>3. ASSUME NEW t \in Threads, parseIioEnergyNode(t) PROVE PlacesOK'
  BY <1>0, <1>00, <1>3 DEF parseIioEnergyNode, NextDevice, ParseFailed, Holding
<1>4. ASSUME NEW t \in Threads, parseIioEnergyNodes(t) PROVE PlacesOK'
  BY <1>0, <1>00, <1>4 DEF parseIioEnergyNodes, Holding
<1>5. CASE getRailInfo
  BY <1>0, <1>00, <1>5 DEF getRailInfo, Answer, Holding
<1>6. CASE getEnergyData
  BY <1>0, <1>00, <1>6 DEF getEnergyData, Answer, Holding
<1>7. CASE getEnergyDataFailed
  BY <1>0, <1>00, <1>7 DEF getEnergyDataFailed, Answer, Holding
<1>8. CASE streamEnergyData
  BY <1>0, <1>00, <1>8 DEF streamEnergyData, SessionOpen, Holding
<1>9. CASE streamEnergyDataRefused
  BY <1>0, <1>00, <1>9 DEF streamEnergyDataRefused, Answer, Holding
<1>10. CASE Describe
  BY <1>0, <1>00, <1>10 DEF Describe, Answer, Holding
<1>11. ASSUME NEW k \in Pollers, TestSamples(k) PROVE PlacesOK'
  BY <1>0, <1>00, <1>11 DEF TestSamples
<1>12. ASSUME NEW k \in Pollers, LockForSample(k) PROVE PlacesOK'
  BY <1>0, <1>00, <1>12 DEF LockForSample
<1>13. ASSUME NEW k \in Pollers, WriteSample(k) PROVE PlacesOK'
  BY <1>0, <1>00, <1>13 DEF WriteSample, SampleDone, Holding
<1>14. ASSUME NEW k \in Pollers, WriteTimesOut(k) PROVE PlacesOK'
  BY <1>0, <1>00, <1>14 DEF WriteTimesOut, SampleDone, Holding
<1>15. ASSUME NEW k \in Pollers, SampleFailed(k) PROVE PlacesOK'
  BY <1>0, <1>00, <1>15 DEF SampleFailed, Holding
<1>16. ASSUME NEW k \in Pollers, Sleep(k) PROVE PlacesOK'
  BY <1>0, <1>00, <1>16 DEF Sleep
<1>17. ASSUME NEW k \in Pollers, EndSession(k) PROVE PlacesOK'
  BY <1>0, <1>00, <1>17 DEF EndSession
<1>18. CASE ReadSample
  BY <1>0, <1>00, <1>18 DEF ReadSample
<1>19. CASE Tick
  BY <1>0, <1>00, <1>19 DEF Tick
<1>20. CASE UNCHANGED vars
  BY <1>0, <1>00, <1>20 DEF vars
<1>21. QED
  BY <1>1, <1>2, <1>3, <1>4, <1>5, <1>6, <1>7, <1>8, <1>9, <1>10, <1>11, <1>12, <1>13,
     <1>14, <1>15, <1>16, <1>17, <1>18, <1>19, <1>20
     DEF Next, BinderStep, PollStep, Threads

(* No thread parses beyond the last monitor. *)
LEMMA NodesStep == RailInv /\ [Next]_vars => NodesOK'
<1> SUFFICES ASSUME RailInv, [Next]_vars PROVE NodesOK'
  OBVIOUS
<1> USE FrozenStep, Names DEF NodesOK, mOdpm, count, Goto
<1>0. TimesOK /\ PlacesOK /\ NodesOK /\ QueuesOK /\ CallOK /\ CountsOK
  BY TypeParts DEF RailInv
<1>1. CASE Call
  BY <1>0, <1>1 DEF Call
<1>2. CASE LockForCall
  BY <1>0, <1>2 DEF LockForCall
<1>3. ASSUME NEW t \in Threads, parseIioEnergyNode(t) PROVE NodesOK'
  <2>1. at[t] \in 1 .. Len(devicePaths) /\ Len(devicePaths) \in Nat
    BY <1>0, <1>3 DEF parseIioEnergyNode
  <2>2. at[t] + 1 \in 1 .. Len(devicePaths) + 1
    BY <2>1
  <2>3. at' = [at EXCEPT ![t] = at[t] + 1] \/ at' = [at EXCEPT ![t] = 1]
    BY <1>3 DEF parseIioEnergyNode, NextDevice, ParseFailed
  <2>30. at \in [Threads -> 1 .. Len(devicePaths) + 1] /\ 1 \in 1 .. Len(devicePaths) + 1
    BY <1>0, <2>1
  <2>4. at' \in [Threads -> 1 .. Len(devicePaths) + 1]
    BY <2>2, <2>3, <2>30
  <2>5. QED BY <1>0, <2>4, <1>3, FrozenStep DEF Frozen
<1>4. ASSUME NEW t \in Threads, parseIioEnergyNodes(t) PROVE NodesOK'
  BY <1>0, <1>4 DEF parseIioEnergyNodes, Holding
<1>5. CASE getRailInfo
  BY <1>0, <1>5 DEF getRailInfo, Answer, Holding
<1>6. CASE getEnergyData
  BY <1>0, <1>6 DEF getEnergyData, Answer, Holding
<1>7. CASE getEnergyDataFailed
  BY <1>0, <1>7 DEF getEnergyDataFailed, Answer, Holding
<1>8. CASE streamEnergyData
  BY <1>0, <1>8 DEF streamEnergyData, SessionOpen, Holding
<1>9. CASE streamEnergyDataRefused
  BY <1>0, <1>9 DEF streamEnergyDataRefused, Answer, Holding
<1>10. CASE Describe
  BY <1>0, <1>10 DEF Describe, Answer, Holding
<1>11. ASSUME NEW k \in Pollers, TestSamples(k) PROVE NodesOK'
  BY <1>0, <1>11 DEF TestSamples
<1>12. ASSUME NEW k \in Pollers, LockForSample(k) PROVE NodesOK'
  BY <1>0, <1>12 DEF LockForSample
<1>13. ASSUME NEW k \in Pollers, WriteSample(k) PROVE NodesOK'
  BY <1>0, <1>13 DEF WriteSample, SampleDone, Holding
<1>14. ASSUME NEW k \in Pollers, WriteTimesOut(k) PROVE NodesOK'
  BY <1>0, <1>14 DEF WriteTimesOut, SampleDone, Holding
<1>15. ASSUME NEW k \in Pollers, SampleFailed(k) PROVE NodesOK'
  BY <1>0, <1>15 DEF SampleFailed, Holding
<1>16. ASSUME NEW k \in Pollers, Sleep(k) PROVE NodesOK'
  BY <1>0, <1>16 DEF Sleep
<1>17. ASSUME NEW k \in Pollers, EndSession(k) PROVE NodesOK'
  BY <1>0, <1>17 DEF EndSession
<1>18. CASE ReadSample
  BY <1>0, <1>18 DEF ReadSample
<1>19. CASE Tick
  BY <1>0, <1>19 DEF Tick
<1>20. CASE UNCHANGED vars
  BY <1>0, <1>20 DEF vars
<1>21. QED
  BY <1>1, <1>2, <1>3, <1>4, <1>5, <1>6, <1>7, <1>8, <1>9, <1>10, <1>11, <1>12, <1>13,
     <1>14, <1>15, <1>16, <1>17, <1>18, <1>19, <1>20
     DEF Next, BinderStep, PollStep, Threads

(* What is asked and answered. *)
LEMMA CallStep == RailInv /\ [Next]_vars => CallOK'
<1> SUFFICES ASSUME RailInv, [Next]_vars PROVE CallOK'
  OBVIOUS
<1> USE DEF CallOK, Status, NoAnswer, NoData, mOdpm, count, Goto
<1>0. TimesOK /\ PlacesOK /\ NodesOK /\ QueuesOK /\ CallOK /\ CountsOK
  BY TypeParts DEF RailInv
<1>1. CASE Call
  BY <1>0, <1>1 DEF Call
<1>2. CASE LockForCall
  BY <1>0, <1>2 DEF LockForCall
<1>3. ASSUME NEW t \in Threads, parseIioEnergyNode(t) PROVE CallOK'
  BY <1>0, <1>3 DEF parseIioEnergyNode, NextDevice, ParseFailed, Holding
<1>4. ASSUME NEW t \in Threads, parseIioEnergyNodes(t) PROVE CallOK'
  BY <1>0, <1>4 DEF parseIioEnergyNodes, Holding
<1>5. CASE getRailInfo
  <2>1. \E s \in Status : answer' = [status |-> s, data |-> <<>>]
    BY <1>5 DEF getRailInfo, Answer
  <2>2. <<>> \in Seq(0 .. MaxClock)
    OBVIOUS
  <2>3. call' = call
    BY <1>5 DEF getRailInfo
  <2>4. QED BY <1>0, <2>1, <2>2, <2>3
<1>6. CASE getEnergyData
  <2>1. \E d \in Seq(0 .. MaxClock) : \E s \in Status : answer' = [status |-> s, data |-> d]
    <3>1. CASE Answer("SUCCESS", reading)
      BY <3>1, ReadingSeq DEF Answer
    <3>2. CASE /\ \A i \in Range(call.railIndices) : i < Len(reading)
               /\ Answer("SUCCESS", [n \in DOMAIN call.railIndices |->
                                       reading[call.railIndices[n] + 1]])
      <4>1. call.kind = "getEnergyData"
        BY <1>6 DEF getEnergyData, Holding, RailInv, CallServed, Parsing
      <4>2. QED BY <3>2, <4>1, PickedSeq DEF Answer
    <3>3. CASE Answer("INVALID_INPUT", NoData)
      <4>1. <<>> \in Seq(0 .. MaxClock)
        OBVIOUS
      <4>2. QED BY <3>3, <4>1 DEF Answer
    <3>4. QED BY <3>1, <3>2, <3>3, <1>6 DEF getEnergyData
  <2>2. call' = call
    BY <1>6 DEF getEnergyData
  <2>3. QED BY <1>0, <2>1, <2>2
<1>7. CASE getEnergyDataFailed
  BY <1>0, <1>7 DEF getEnergyDataFailed, Answer, Holding
<1>8. CASE streamEnergyData
  BY <1>0, <1>8 DEF streamEnergyData, SessionOpen, Holding
<1>9. CASE streamEnergyDataRefused
  BY <1>0, <1>9 DEF streamEnergyDataRefused, Answer, Holding
<1>10. CASE Describe
  BY <1>0, <1>10 DEF Describe, Answer, Holding
<1>11. ASSUME NEW k \in Pollers, TestSamples(k) PROVE CallOK'
  BY <1>0, <1>11 DEF TestSamples
<1>12. ASSUME NEW k \in Pollers, LockForSample(k) PROVE CallOK'
  BY <1>0, <1>12 DEF LockForSample
<1>13. ASSUME NEW k \in Pollers, WriteSample(k) PROVE CallOK'
  BY <1>0, <1>13 DEF WriteSample, SampleDone, Holding
<1>14. ASSUME NEW k \in Pollers, WriteTimesOut(k) PROVE CallOK'
  BY <1>0, <1>14 DEF WriteTimesOut, SampleDone, Holding
<1>15. ASSUME NEW k \in Pollers, SampleFailed(k) PROVE CallOK'
  BY <1>0, <1>15 DEF SampleFailed, Holding
<1>16. ASSUME NEW k \in Pollers, Sleep(k) PROVE CallOK'
  BY <1>0, <1>16 DEF Sleep
<1>17. ASSUME NEW k \in Pollers, EndSession(k) PROVE CallOK'
  BY <1>0, <1>17 DEF EndSession
<1>18. CASE ReadSample
  BY <1>0, <1>18 DEF ReadSample
<1>19. CASE Tick
  BY <1>0, <1>19 DEF Tick
<1>20. CASE UNCHANGED vars
  BY <1>0, <1>20 DEF vars
<1>21. QED
  BY <1>1, <1>2, <1>3, <1>4, <1>5, <1>6, <1>7, <1>8, <1>9, <1>10, <1>11, <1>12, <1>13,
     <1>14, <1>15, <1>16, <1>17, <1>18, <1>19, <1>20
     DEF Next, BinderStep, PollStep, Threads

(* No session takes more samples than it was asked for. *)
LEMMA CountsStep == RailInv /\ [Next]_vars => CountsOK'
<1> SUFFICES ASSUME RailInv, [Next]_vars PROVE CountsOK'
  OBVIOUS
<1> USE Names DEF CountsOK, mOdpm, count, Goto
<1>0. TimesOK /\ PlacesOK /\ NodesOK /\ QueuesOK /\ CallOK /\ CountsOK
  BY TypeParts DEF RailInv
<1>1. CASE Call
  BY <1>0, <1>1 DEF Call
<1>2. CASE LockForCall
  BY <1>0, <1>2 DEF LockForCall
<1>3. ASSUME NEW t \in Threads, parseIioEnergyNode(t) PROVE CountsOK'
  BY <1>0, <1>3 DEF parseIioEnergyNode, NextDevice, ParseFailed, Holding
<1>4. ASSUME NEW t \in Threads, parseIioEnergyNodes(t) PROVE CountsOK'
  BY <1>0, <1>4 DEF parseIioEnergyNodes, Holding
<1>5. CASE getRailInfo
  BY <1>0, <1>5 DEF getRailInfo, Answer, Holding
<1>6. CASE getEnergyData
  BY <1>0, <1>6 DEF getEnergyData, Answer, Holding
<1>7. CASE getEnergyDataFailed
  BY <1>0, <1>7 DEF getEnergyDataFailed, Answer, Holding
<1>8. CASE streamEnergyData
  <2>1. call.timeMs \in Nat /\ call.samplingRate \in Nat
    BY <1>0, <1>8, CallKinds DEF CallOK, CallServed, RailInv, streamEnergyData, Holding, Kinds
  <2>2. PICK k \in Pollers :
           /\ pc[k] = "unborn"
           /\ numSamples' = [numSamples EXCEPT ![k] = Samples(call.timeMs, call.samplingRate)]
    BY <1>8 DEF streamEnergyData
  <2>3. Samples(call.timeMs, call.samplingRate) \in Nat
    BY <2>1, SamplesType
  <2>4. currSamples[k] = 0 /\ currSamples' = currSamples
    BY <2>2, <1>8 DEF RailInv, SamplesCounted, streamEnergyData
  <2>5. QED BY <1>0, <2>2, <2>3, <2>4
<1>9. CASE streamEnergyDataRefused
  BY <1>0, <1>9 DEF streamEnergyDataRefused, Answer, Holding
<1>10. CASE Describe
  BY <1>0, <1>10 DEF Describe, Answer, Holding
<1>11. ASSUME NEW k \in Pollers, TestSamples(k) PROVE CountsOK'
  BY <1>0, <1>11 DEF TestSamples
<1>12. ASSUME NEW k \in Pollers, LockForSample(k) PROVE CountsOK'
  BY <1>0, <1>12 DEF LockForSample
<1>13. ASSUME NEW k \in Pollers, WriteSample(k) PROVE CountsOK'
  <2>1. currSamples[k] < numSamples[k]
    BY <1>13 DEF RailInv, SamplesCounted, Parsing, WriteSample, Holding
  <2>2. QED BY <1>0, <2>1, <1>13 DEF WriteSample, SampleDone
<1>14. ASSUME NEW k \in Pollers, WriteTimesOut(k) PROVE CountsOK'
  <2>1. currSamples[k] < numSamples[k]
    BY <1>14 DEF RailInv, SamplesCounted, Parsing, WriteTimesOut, Holding
  <2>2. QED BY <1>0, <2>1, <1>14 DEF WriteTimesOut, SampleDone
<1>15. ASSUME NEW k \in Pollers, SampleFailed(k) PROVE CountsOK'
  BY <1>0, <1>15 DEF SampleFailed, Holding
<1>16. ASSUME NEW k \in Pollers, Sleep(k) PROVE CountsOK'
  BY <1>0, <1>16 DEF Sleep
<1>17. ASSUME NEW k \in Pollers, EndSession(k) PROVE CountsOK'
  BY <1>0, <1>17 DEF EndSession
<1>18. CASE ReadSample
  BY <1>0, <1>18 DEF ReadSample
<1>19. CASE Tick
  BY <1>0, <1>19 DEF Tick
<1>20. CASE UNCHANGED vars
  BY <1>0, <1>20 DEF vars
<1>21. QED
  BY <1>1, <1>2, <1>3, <1>4, <1>5, <1>6, <1>7, <1>8, <1>9, <1>10, <1>11, <1>12, <1>13,
     <1>14, <1>15, <1>16, <1>17, <1>18, <1>19, <1>20
     DEF Next, BinderStep, PollStep, Threads

(* The lock is taken when it is free and given back by its holder. *)
LEMMA LockStep == RailInv /\ [Next]_vars => LockHeld'
<1> SUFFICES ASSUME RailInv, [Next]_vars PROVE LockHeld'
  OBVIOUS
<1> USE Names DEF LockHeld, CallServed, Parsing, Kinds, PlacesOK, BinderPlaces,
        PollerPlaces, RailInv, mOdpm, count, Goto
<1>0. TimesOK /\ PlacesOK /\ NodesOK /\ QueuesOK /\ CallOK /\ CountsOK
  BY TypeParts DEF RailInv
<1>00. call.kind \in Kinds
  BY <1>0, CallKinds DEF CallOK
<1>1. CASE Call
  BY <1>0, <1>00, <1>1 DEF Call
<1>2. CASE LockForCall
  BY <1>0, <1>00, <1>2 DEF LockForCall
<1>3. ASSUME NEW t \in Threads, parseIioEnergyNode(t) PROVE LockHeld'
  BY <1>0, <1>00, <1>3 DEF parseIioEnergyNode, NextDevice, ParseFailed, Holding
<1>4. ASSUME NEW t \in Threads, parseIioEnergyNodes(t) PROVE LockHeld'
  BY <1>0, <1>00, <1>4 DEF parseIioEnergyNodes, Holding
<1>5. CASE getRailInfo
  BY <1>0, <1>00, <1>5 DEF getRailInfo, Answer, Holding
<1>6. CASE getEnergyData
  BY <1>0, <1>00, <1>6 DEF getEnergyData, Answer, Holding
<1>7. CASE getEnergyDataFailed
  BY <1>0, <1>00, <1>7 DEF getEnergyDataFailed, Answer, Holding
<1>8. CASE streamEnergyData
  BY <1>0, <1>00, <1>8 DEF streamEnergyData, SessionOpen, Holding
<1>9. CASE streamEnergyDataRefused
  BY <1>0, <1>00, <1>9 DEF streamEnergyDataRefused, Answer, Holding
<1>10. CASE Describe
  BY <1>0, <1>00, <1>10 DEF Describe, Answer, Holding
<1>11. ASSUME NEW k \in Pollers, TestSamples(k) PROVE LockHeld'
  BY <1>0, <1>00, <1>11 DEF TestSamples
<1>12. ASSUME NEW k \in Pollers, LockForSample(k) PROVE LockHeld'
  BY <1>0, <1>00, <1>12 DEF LockForSample
<1>13. ASSUME NEW k \in Pollers, WriteSample(k) PROVE LockHeld'
  BY <1>0, <1>00, <1>13 DEF WriteSample, SampleDone, Holding
<1>14. ASSUME NEW k \in Pollers, WriteTimesOut(k) PROVE LockHeld'
  BY <1>0, <1>00, <1>14 DEF WriteTimesOut, SampleDone, Holding
<1>15. ASSUME NEW k \in Pollers, SampleFailed(k) PROVE LockHeld'
  BY <1>0, <1>00, <1>15 DEF SampleFailed, Holding
<1>16. ASSUME NEW k \in Pollers, Sleep(k) PROVE LockHeld'
  BY <1>0, <1>00, <1>16 DEF Sleep
<1>17. ASSUME NEW k \in Pollers, EndSession(k) PROVE LockHeld'
  BY <1>0, <1>00, <1>17 DEF EndSession
<1>18. CASE ReadSample
  BY <1>0, <1>00, <1>18 DEF ReadSample
<1>19. CASE Tick
  BY <1>0, <1>00, <1>19 DEF Tick
<1>20. CASE UNCHANGED vars
  BY <1>0, <1>00, <1>20 DEF vars
<1>21. QED
  BY <1>1, <1>2, <1>3, <1>4, <1>5, <1>6, <1>7, <1>8, <1>9, <1>10, <1>11, <1>12, <1>13,
     <1>14, <1>15, <1>16, <1>17, <1>18, <1>19, <1>20
     DEF Next, BinderStep, PollStep, Threads

(* The binder thread serves one call at a time. *)
LEMMA ServedStep == RailInv /\ [Next]_vars => CallServed'
<1> SUFFICES ASSUME RailInv, [Next]_vars PROVE CallServed'
  OBVIOUS
<1> USE Names DEF CallServed, LockHeld, Parsing, Kinds, CallOK, PlacesOK, BinderPlaces,
        PollerPlaces, RailInv, mOdpm, count, Goto
<1>0. TimesOK /\ PlacesOK /\ NodesOK /\ QueuesOK /\ CallOK /\ CountsOK
  BY TypeParts DEF RailInv
<1>00. call.kind \in Kinds
  BY <1>0, CallKinds DEF CallOK
<1>1. CASE Call
  BY <1>0, <1>00, <1>1 DEF Call
<1>2. CASE LockForCall
  BY <1>0, <1>00, <1>2 DEF LockForCall
<1>3. ASSUME NEW t \in Threads, parseIioEnergyNode(t) PROVE CallServed'
  BY <1>0, <1>00, <1>3 DEF parseIioEnergyNode, NextDevice, ParseFailed, Holding
<1>4. ASSUME NEW t \in Threads, parseIioEnergyNodes(t) PROVE CallServed'
  BY <1>0, <1>00, <1>4 DEF parseIioEnergyNodes, Holding
<1>5. CASE getRailInfo
  BY <1>0, <1>00, <1>5 DEF getRailInfo, Answer, Holding
<1>6. CASE getEnergyData
  BY <1>0, <1>00, <1>6 DEF getEnergyData, Answer, Holding
<1>7. CASE getEnergyDataFailed
  BY <1>0, <1>00, <1>7 DEF getEnergyDataFailed, Answer, Holding
<1>8. CASE streamEnergyData
  BY <1>0, <1>00, <1>8 DEF streamEnergyData, SessionOpen, Holding
<1>9. CASE streamEnergyDataRefused
  BY <1>0, <1>00, <1>9 DEF streamEnergyDataRefused, Answer, Holding
<1>10. CASE Describe
  BY <1>0, <1>00, <1>10 DEF Describe, Answer, Holding
<1>11. ASSUME NEW k \in Pollers, TestSamples(k) PROVE CallServed'
  BY <1>0, <1>00, <1>11 DEF TestSamples
<1>12. ASSUME NEW k \in Pollers, LockForSample(k) PROVE CallServed'
  BY <1>0, <1>00, <1>12 DEF LockForSample
<1>13. ASSUME NEW k \in Pollers, WriteSample(k) PROVE CallServed'
  BY <1>0, <1>00, <1>13 DEF WriteSample, SampleDone, Holding
<1>14. ASSUME NEW k \in Pollers, WriteTimesOut(k) PROVE CallServed'
  BY <1>0, <1>00, <1>14 DEF WriteTimesOut, SampleDone, Holding
<1>15. ASSUME NEW k \in Pollers, SampleFailed(k) PROVE CallServed'
  BY <1>0, <1>00, <1>15 DEF SampleFailed, Holding
<1>16. ASSUME NEW k \in Pollers, Sleep(k) PROVE CallServed'
  BY <1>0, <1>00, <1>16 DEF Sleep
<1>17. ASSUME NEW k \in Pollers, EndSession(k) PROVE CallServed'
  BY <1>0, <1>00, <1>17 DEF EndSession
<1>18. CASE ReadSample
  BY <1>0, <1>00, <1>18 DEF ReadSample
<1>19. CASE Tick
  BY <1>0, <1>00, <1>19 DEF Tick
<1>20. CASE UNCHANGED vars
  BY <1>0, <1>00, <1>20 DEF vars
<1>21. QED
  BY <1>1, <1>2, <1>3, <1>4, <1>5, <1>6, <1>7, <1>8, <1>9, <1>10, <1>11, <1>12, <1>13,
     <1>14, <1>15, <1>16, <1>17, <1>18, <1>19, <1>20
     DEF Next, BinderStep, PollStep, Threads

(* A session is made when there is none, and ends by its own thread. *)
LEMMA OwnedStep == RailInv /\ [Next]_vars => SessionOwned'
<1> SUFFICES ASSUME RailInv, [Next]_vars PROVE SessionOwned'
  OBVIOUS
<1> USE Names DEF SessionOwned, LockHeld, PlacesOK, PollerPlaces, BinderPlaces, Parsing,
        Kinds, RailInv, mOdpm, count, Goto
<1>0. TimesOK /\ PlacesOK /\ NodesOK /\ QueuesOK /\ CallOK /\ CountsOK
  BY TypeParts DEF RailInv
<1>00. call.kind \in Kinds
  BY <1>0, CallKinds DEF CallOK
<1>1. CASE Call
  BY <1>0, <1>00, <1>1 DEF Call
<1>2. CASE LockForCall
  BY <1>0, <1>00, <1>2 DEF LockForCall
<1>3. ASSUME NEW t \in Threads, parseIioEnergyNode(t) PROVE SessionOwned'
  BY <1>0, <1>00, <1>3 DEF parseIioEnergyNode, NextDevice, ParseFailed, Holding
<1>4. ASSUME NEW t \in Threads, parseIioEnergyNodes(t) PROVE SessionOwned'
  BY <1>0, <1>00, <1>4 DEF parseIioEnergyNodes, Holding
<1>5. CASE getRailInfo
  BY <1>0, <1>00, <1>5 DEF getRailInfo, Answer, Holding
<1>6. CASE getEnergyData
  BY <1>0, <1>00, <1>6 DEF getEnergyData, Answer, Holding
<1>7. CASE getEnergyDataFailed
  BY <1>0, <1>00, <1>7 DEF getEnergyDataFailed, Answer, Holding
<1>8. CASE streamEnergyData
  BY <1>0, <1>00, <1>8 DEF streamEnergyData, SessionOpen, Holding
<1>9. CASE streamEnergyDataRefused
  BY <1>0, <1>00, <1>9 DEF streamEnergyDataRefused, Answer, Holding
<1>10. CASE Describe
  BY <1>0, <1>00, <1>10 DEF Describe, Answer, Holding
<1>11. ASSUME NEW k \in Pollers, TestSamples(k) PROVE SessionOwned'
  BY <1>0, <1>00, <1>11 DEF TestSamples
<1>12. ASSUME NEW k \in Pollers, LockForSample(k) PROVE SessionOwned'
  BY <1>0, <1>00, <1>12 DEF LockForSample
<1>13. ASSUME NEW k \in Pollers, WriteSample(k) PROVE SessionOwned'
  BY <1>0, <1>00, <1>13 DEF WriteSample, SampleDone, Holding
<1>14. ASSUME NEW k \in Pollers, WriteTimesOut(k) PROVE SessionOwned'
  BY <1>0, <1>00, <1>14 DEF WriteTimesOut, SampleDone, Holding
<1>15. ASSUME NEW k \in Pollers, SampleFailed(k) PROVE SessionOwned'
  BY <1>0, <1>00, <1>15 DEF SampleFailed, Holding
<1>16. ASSUME NEW k \in Pollers, Sleep(k) PROVE SessionOwned'
  BY <1>0, <1>00, <1>16 DEF Sleep
<1>17. ASSUME NEW k \in Pollers, EndSession(k) PROVE SessionOwned'
  BY <1>0, <1>00, <1>17 DEF EndSession
<1>18. CASE ReadSample
  BY <1>0, <1>00, <1>18 DEF ReadSample
<1>19. CASE Tick
  BY <1>0, <1>00, <1>19 DEF Tick
<1>20. CASE UNCHANGED vars
  BY <1>0, <1>00, <1>20 DEF vars
<1>21. QED
  BY <1>1, <1>2, <1>3, <1>4, <1>5, <1>6, <1>7, <1>8, <1>9, <1>10, <1>11, <1>12, <1>13,
     <1>14, <1>15, <1>16, <1>17, <1>18, <1>19, <1>20
     DEF Next, BinderStep, PollStep, Threads

(* A sample is taken after the count was tested. *)
LEMMA CountedStep == RailInv /\ [Next]_vars => SamplesCounted'
<1> SUFFICES ASSUME RailInv, [Next]_vars PROVE SamplesCounted'
  OBVIOUS
<1> USE Names DEF SamplesCounted, LockHeld, CountsOK, PlacesOK, PollerPlaces,
        BinderPlaces, Parsing, RailInv, mOdpm, count, Goto
<1>0. TimesOK /\ PlacesOK /\ NodesOK /\ QueuesOK /\ CallOK /\ CountsOK
  BY TypeParts DEF RailInv
<1>1. CASE Call
  BY <1>0, <1>1 DEF Call
<1>2. CASE LockForCall
  BY <1>0, <1>2 DEF LockForCall
<1>3. ASSUME NEW t \in Threads, parseIioEnergyNode(t) PROVE SamplesCounted'
  BY <1>0, <1>3 DEF parseIioEnergyNode, NextDevice, ParseFailed, Holding
<1>4. ASSUME NEW t \in Threads, parseIioEnergyNodes(t) PROVE SamplesCounted'
  BY <1>0, <1>4 DEF parseIioEnergyNodes, Holding
<1>5. CASE getRailInfo
  BY <1>0, <1>5 DEF getRailInfo, Answer, Holding
<1>6. CASE getEnergyData
  BY <1>0, <1>6 DEF getEnergyData, Answer, Holding
<1>7. CASE getEnergyDataFailed
  BY <1>0, <1>7 DEF getEnergyDataFailed, Answer, Holding
<1>8. CASE streamEnergyData
  BY <1>0, <1>8 DEF streamEnergyData, SessionOpen, Holding
<1>9. CASE streamEnergyDataRefused
  BY <1>0, <1>9 DEF streamEnergyDataRefused, Answer, Holding
<1>10. CASE Describe
  BY <1>0, <1>10 DEF Describe, Answer, Holding
<1>11. ASSUME NEW k \in Pollers, TestSamples(k) PROVE SamplesCounted'
  BY <1>0, <1>11 DEF TestSamples
<1>12. ASSUME NEW k \in Pollers, LockForSample(k) PROVE SamplesCounted'
  BY <1>0, <1>12 DEF LockForSample
<1>13. ASSUME NEW k \in Pollers, WriteSample(k) PROVE SamplesCounted'
  BY <1>0, <1>13 DEF WriteSample, SampleDone, Holding
<1>14. ASSUME NEW k \in Pollers, WriteTimesOut(k) PROVE SamplesCounted'
  BY <1>0, <1>14 DEF WriteTimesOut, SampleDone, Holding
<1>15. ASSUME NEW k \in Pollers, SampleFailed(k) PROVE SamplesCounted'
  BY <1>0, <1>15 DEF SampleFailed, Holding
<1>16. ASSUME NEW k \in Pollers, Sleep(k) PROVE SamplesCounted'
  BY <1>0, <1>16 DEF Sleep
<1>17. ASSUME NEW k \in Pollers, EndSession(k) PROVE SamplesCounted'
  BY <1>0, <1>17 DEF EndSession
<1>18. CASE ReadSample
  BY <1>0, <1>18 DEF ReadSample
<1>19. CASE Tick
  BY <1>0, <1>19 DEF Tick
<1>20. CASE UNCHANGED vars
  BY <1>0, <1>20 DEF vars
<1>21. QED
  BY <1>1, <1>2, <1>3, <1>4, <1>5, <1>6, <1>7, <1>8, <1>9, <1>10, <1>11, <1>12, <1>13,
     <1>14, <1>15, <1>16, <1>17, <1>18, <1>19, <1>20
     DEF Next, BinderStep, PollStep, Threads

(* A parse leaves its counter at the start again. *)
LEMMA FromStartStep == RailInv /\ [Next]_vars => ParseFromStart'
<1> SUFFICES ASSUME RailInv, [Next]_vars PROVE ParseFromStart'
  OBVIOUS
<1> USE Names DEF ParseFromStart, NodesOK, PlacesOK, RailInv, mOdpm, count, Goto
<1>0. TimesOK /\ PlacesOK /\ NodesOK /\ QueuesOK /\ CallOK /\ CountsOK
  BY TypeParts DEF RailInv
<1>1. CASE Call
  BY <1>0, <1>1 DEF Call
<1>2. CASE LockForCall
  BY <1>0, <1>2 DEF LockForCall
<1>3. ASSUME NEW t \in Threads, parseIioEnergyNode(t) PROVE ParseFromStart'
  BY <1>0, <1>3 DEF parseIioEnergyNode, NextDevice, ParseFailed, Holding
<1>4. ASSUME NEW t \in Threads, parseIioEnergyNodes(t) PROVE ParseFromStart'
  BY <1>0, <1>4 DEF parseIioEnergyNodes, Holding
<1>5. CASE getRailInfo
  BY <1>0, <1>5 DEF getRailInfo, Answer, Holding
<1>6. CASE getEnergyData
  BY <1>0, <1>6 DEF getEnergyData, Answer, Holding
<1>7. CASE getEnergyDataFailed
  BY <1>0, <1>7 DEF getEnergyDataFailed, Answer, Holding
<1>8. CASE streamEnergyData
  BY <1>0, <1>8 DEF streamEnergyData, SessionOpen, Holding
<1>9. CASE streamEnergyDataRefused
  BY <1>0, <1>9 DEF streamEnergyDataRefused, Answer, Holding
<1>10. CASE Describe
  BY <1>0, <1>10 DEF Describe, Answer, Holding
<1>11. ASSUME NEW k \in Pollers, TestSamples(k) PROVE ParseFromStart'
  BY <1>0, <1>11 DEF TestSamples
<1>12. ASSUME NEW k \in Pollers, LockForSample(k) PROVE ParseFromStart'
  BY <1>0, <1>12 DEF LockForSample
<1>13. ASSUME NEW k \in Pollers, WriteSample(k) PROVE ParseFromStart'
  BY <1>0, <1>13 DEF WriteSample, SampleDone, Holding
<1>14. ASSUME NEW k \in Pollers, WriteTimesOut(k) PROVE ParseFromStart'
  BY <1>0, <1>14 DEF WriteTimesOut, SampleDone, Holding
<1>15. ASSUME NEW k \in Pollers, SampleFailed(k) PROVE ParseFromStart'
  BY <1>0, <1>15 DEF SampleFailed, Holding
<1>16. ASSUME NEW k \in Pollers, Sleep(k) PROVE ParseFromStart'
  BY <1>0, <1>16 DEF Sleep
<1>17. ASSUME NEW k \in Pollers, EndSession(k) PROVE ParseFromStart'
  BY <1>0, <1>17 DEF EndSession
<1>18. CASE ReadSample
  BY <1>0, <1>18 DEF ReadSample
<1>19. CASE Tick
  BY <1>0, <1>19 DEF Tick
<1>20. CASE UNCHANGED vars
  BY <1>0, <1>20 DEF vars
<1>21. QED
  BY <1>1, <1>2, <1>3, <1>4, <1>5, <1>6, <1>7, <1>8, <1>9, <1>10, <1>11, <1>12, <1>13,
     <1>14, <1>15, <1>16, <1>17, <1>18, <1>19, <1>20
     DEF Next, BinderStep, PollStep, Threads

(* What a parse does to the readings: the first n lines of the monitor's   *)
(* file give their rails its timestamp. *)
Read(d, n, timestamp) ==
    /\ d \in Devices /\ n \in 0 .. Len(RailsOf[d]) /\ timestamp \in {0, clock}
    /\ reading' = ReadingAfter(d, n, timestamp)

LEMMA ParseReads ==
    ASSUME RailInv, NEW d, NEW n, NEW timestamp, Read(d, n, timestamp)
    PROVE  /\ reading' \in Readings
           /\ \A i \in DOMAIN railsInfo : reading'[i] = timestamp \/ reading'[i] = reading[i]
           /\ \A i \in DOMAIN railsInfo : railsInfo[i].device # d => reading'[i] = reading[i]
           /\ n = Len(RailsOf[d]) =>
                 \A i \in DOMAIN railsInfo : railsInfo[i].device = d => reading'[i] = timestamp
<1>1. DOMAIN reading = DOMAIN railsInfo
  BY ReadingSeq
<1>2. timestamp \in 0 .. MaxClock
  BY ConstantsOK DEF Read, RailInv, TypeOK
<1>3. reading' \in Readings
  BY <1>1, <1>2 DEF Read, ReadingAfter, RailInv, TypeOK, Readings
<1>4. \A i \in DOMAIN railsInfo : reading'[i] = timestamp \/ reading'[i] = reading[i]
  BY <1>1 DEF Read, ReadingAfter
<1>5. \A i \in DOMAIN railsInfo : railsInfo[i].device # d => reading'[i] = reading[i]
  BY <1>1 DEF Read, ReadingAfter
<1>6. ASSUME n = Len(RailsOf[d]), NEW i \in DOMAIN railsInfo, railsInfo[i].device = d
      PROVE  reading'[i] = timestamp
  <2>1. RailsOf[d] \in Seq(Range(RailsOf[d]))
    BY ConstantsOK DEF Read
  <2>2. DOMAIN RailsOf[d] = 1 .. n
    BY <1>6, <2>1
  <2>3. PICK j \in 1 .. n : railsInfo[i].rail = RailsOf[d][j]
    BY <1>6, <2>2 DEF RailInv, RailsFound, Range
  <2>4. railsInfo \in Seq([rail : Rails, device : Devices])
    BY DEF RailInv, RailsFound
  <2>40. railsInfo[i] \in [rail : Rails, device : Devices]
    BY <1>6, <2>4, ElementOf, ReadingSeq
  <2>5. railsInfo[i] = [rail |-> RailsOf[d][j], device |-> d]
    BY <1>6, <2>3, <2>40
  <2>6. QED BY <1>1, <2>3, <2>5 DEF Read, ReadingAfter
<1>7. QED BY <1>3, <1>4, <1>5, <1>6

(* Nothing else touches them.  A monitor whose timestamp is wrong is       *)
(* misread. *)
ReadingKept ==
    \/ reading' = reading /\ misread' = misread
    \/ \E t \in Threads :
        /\ Holding(t, "parse") /\ at[t] \in DOMAIN devicePaths
        /\ \E n \in 0 .. Len(RailsOf[Device(t)]), timestamp \in {0, clock} :
              /\ Read(Device(t), n, timestamp)
              /\ \/ misread' = misread /\ timestamp = clock
                 \/ misread' = Append(misread, Device(t))

LEMMA ReadingFrame == RailInv /\ [Next]_vars => ReadingKept
<1> SUFFICES ASSUME RailInv, [Next]_vars PROVE ReadingKept
  OBVIOUS
<1> USE DEF ReadingKept, mOdpm, count, Goto
<1>0. TimesOK /\ PlacesOK /\ NodesOK /\ QueuesOK /\ CallOK /\ CountsOK
  BY TypeParts DEF RailInv
<1>1. CASE Call
  BY <1>0, <1>1 DEF Call
<1>2. CASE LockForCall
  BY <1>0, <1>2 DEF LockForCall
<1>3. ASSUME NEW t \in Threads, parseIioEnergyNode(t) PROVE ReadingKept
  <2>1. at[t] \in DOMAIN devicePaths /\ Holding(t, "parse")
    BY <1>3 DEF parseIioEnergyNode
  <2>2. Device(t) \in Devices
    BY <1>0, <2>1 DEF NodesOK, Device
  <2>3. \E n \in 0 .. Len(RailsOf[Device(t)]), timestamp \in {0, clock} :
            /\ reading' = ReadingAfter(Device(t), n, timestamp)
            /\ \/ misread' = misread /\ timestamp = clock
               \/ misread' = Append(misread, Device(t))
    BY <1>3 DEF parseIioEnergyNode, Misread
  <2>4. QED BY <2>1, <2>2, <2>3 DEF Read, ReadingKept
<1>4. ASSUME NEW t \in Threads, parseIioEnergyNodes(t) PROVE ReadingKept
  BY <1>0, <1>4 DEF parseIioEnergyNodes, Holding
<1>5. CASE getRailInfo
  BY <1>0, <1>5 DEF getRailInfo, Answer, Holding
<1>6. CASE getEnergyData
  BY <1>0, <1>6 DEF getEnergyData, Answer, Holding
<1>7. CASE getEnergyDataFailed
  BY <1>0, <1>7 DEF getEnergyDataFailed, Answer, Holding
<1>8. CASE streamEnergyData
  BY <1>0, <1>8 DEF streamEnergyData, SessionOpen, Holding
<1>9. CASE streamEnergyDataRefused
  BY <1>0, <1>9 DEF streamEnergyDataRefused, Answer, Holding
<1>10. CASE Describe
  BY <1>0, <1>10 DEF Describe, Answer, Holding
<1>11. ASSUME NEW k \in Pollers, TestSamples(k) PROVE ReadingKept
  BY <1>0, <1>11 DEF TestSamples
<1>12. ASSUME NEW k \in Pollers, LockForSample(k) PROVE ReadingKept
  BY <1>0, <1>12 DEF LockForSample
<1>13. ASSUME NEW k \in Pollers, WriteSample(k) PROVE ReadingKept
  BY <1>0, <1>13 DEF WriteSample, SampleDone, Holding
<1>14. ASSUME NEW k \in Pollers, WriteTimesOut(k) PROVE ReadingKept
  BY <1>0, <1>14 DEF WriteTimesOut, SampleDone, Holding
<1>15. ASSUME NEW k \in Pollers, SampleFailed(k) PROVE ReadingKept
  BY <1>0, <1>15 DEF SampleFailed, Holding
<1>16. ASSUME NEW k \in Pollers, Sleep(k) PROVE ReadingKept
  BY <1>0, <1>16 DEF Sleep
<1>17. ASSUME NEW k \in Pollers, EndSession(k) PROVE ReadingKept
  BY <1>0, <1>17 DEF EndSession
<1>18. CASE ReadSample
  BY <1>0, <1>18 DEF ReadSample
<1>19. CASE Tick
  BY <1>0, <1>19 DEF Tick
<1>20. CASE UNCHANGED vars
  BY <1>0, <1>20 DEF vars
<1>21. QED
  BY <1>1, <1>2, <1>3, <1>4, <1>5, <1>6, <1>7, <1>8, <1>9, <1>10, <1>11, <1>12, <1>13,
     <1>14, <1>15, <1>16, <1>17, <1>18, <1>19, <1>20
     DEF Next, BinderStep, PollStep, Threads

LEMMA RangeOfAppend ==
    ASSUME NEW S, NEW s \in Seq(S), NEW d
    PROVE  /\ \A x \in Range(s) : x \in Range(Append(s, d))
           /\ d \in Range(Append(s, d))
<1>1. /\ DOMAIN Append(s, d) = 1 .. Len(s) + 1 /\ Len(s) \in Nat /\ DOMAIN s = 1 .. Len(s)
      /\ Append(s, d)[Len(s) + 1] = d
      /\ \A n \in 1 .. Len(s) : Append(s, d)[n] = s[n]
  OBVIOUS
<1>2. \A n \in 1 .. Len(s) : n \in DOMAIN Append(s, d)
  BY <1>1
<1>3. Len(s) + 1 \in DOMAIN Append(s, d)
  BY <1>1
<1>4. QED BY <1>1, <1>2, <1>3 DEF Range

(* A monitor once misread stays so. *)
LEMMA TrustStep ==
    RailInv /\ [Next]_vars =>
        /\ misread' \in Seq(Devices) /\ Range(misread) \subseteq Range(misread')
        /\ railsInfo' = railsInfo
        /\ \A i \in DOMAIN railsInfo : Trusted(i)' => Trusted(i)
<1> SUFFICES ASSUME RailInv, [Next]_vars
             PROVE  /\ misread' \in Seq(Devices) /\ Range(misread) \subseteq Range(misread')
                    /\ railsInfo' = railsInfo
                    /\ \A i \in DOMAIN railsInfo : Trusted(i)' => Trusted(i)
  OBVIOUS
<1>1. misread \in Seq(Devices)
  BY DEF RailInv, TypeOK
<1>2. misread' \in Seq(Devices) /\ Range(misread) \subseteq Range(misread')
  <2>1. CASE misread' = misread
    BY <1>1, <2>1
  <2>2. ASSUME NEW d \in Devices, misread' = Append(misread, d)
        PROVE  misread' \in Seq(Devices) /\ Range(misread) \subseteq Range(misread')
    <3>1. Append(misread, d) \in Seq(Devices)
      BY <1>1
    <3>2. QED BY <1>1, <2>2, <3>1, RangeOfAppend
  <2>3. QED BY <2>1, <2>2, ReadingFrame DEF ReadingKept, Read
<1>3. railsInfo' = railsInfo
  BY FrozenStep DEF Frozen
<1>4. QED BY <1>2, <1>3 DEF Trusted

(* Readings grow up to the clock, unless their monitor is misread. *)
LEMMA ReadingGrows ==
    RailInv /\ [Next]_vars =>
        /\ reading' \in Readings
        /\ \A i \in DOMAIN railsInfo :
              reading'[i] <= clock /\ (Trusted(i)' => reading[i] <= reading'[i])
<1> SUFFICES ASSUME RailInv, [Next]_vars
             PROVE  /\ reading' \in Readings
                    /\ \A i \in DOMAIN railsInfo :
                          reading'[i] <= clock /\ (Trusted(i)' => reading[i] <= reading'[i])
  OBVIOUS
<1>1. /\ reading \in Readings /\ clock \in Nat
      /\ \A i \in DOMAIN railsInfo : reading[i] \in Nat /\ reading[i] <= clock
  BY DEF RailInv, TypeOK, Readings, NotAhead
<1>2. CASE reading' = reading
  BY <1>1, <1>2
<1>3. ASSUME NEW d, NEW n, NEW timestamp, Read(d, n, timestamp),
             (misread' = misread /\ timestamp = clock) \/ misread' = Append(misread, d)
      PROVE  /\ reading' \in Readings
             /\ \A i \in DOMAIN railsInfo :
                   reading'[i] <= clock /\ (Trusted(i)' => reading[i] <= reading'[i])
  <2>1. timestamp \in {0, clock}
    BY <1>3 DEF Read
  <2>2. ASSUME NEW i \in DOMAIN railsInfo, Trusted(i)' PROVE reading[i] <= reading'[i]
    <3>1. CASE timestamp = clock
      BY <1>1, <1>3, <3>1, ParseReads
    <3>2. CASE misread' = Append(misread, d)
      <4>1. railsInfo[i].device # d
        BY <2>2, <3>2, TrustStep, RangeOfAppend DEF Trusted, RailInv, TypeOK
      <4>2. QED BY <1>1, <1>3, <4>1, ParseReads
    <3>3. QED BY <1>3, <3>1, <3>2
  <2>3. QED BY <1>1, <1>3, <2>1, <2>2, ParseReads
<1>4. QED BY <1>1, <1>2, <1>3, ReadingFrame DEF ReadingKept

(* The clock is the monitors'. *)
ClockKept == clock' = clock \/ Tick

LEMMA ClockFrame == [Next]_vars => ClockKept
<1> SUFFICES ASSUME [Next]_vars PROVE ClockKept
  OBVIOUS
<1> USE DEF ClockKept, mOdpm, count, Goto
<1>1. CASE Call
  BY <1>1 DEF Call
<1>2. CASE LockForCall
  BY <1>2 DEF LockForCall
<1>3. ASSUME NEW t \in Threads, parseIioEnergyNode(t) PROVE ClockKept
  BY <1>3 DEF parseIioEnergyNode, NextDevice, ParseFailed, Holding
<1>4. ASSUME NEW t \in Threads, parseIioEnergyNodes(t) PROVE ClockKept
  BY <1>4 DEF parseIioEnergyNodes, Holding
<1>5. CASE getRailInfo
  BY <1>5 DEF getRailInfo, Answer, Holding
<1>6. CASE getEnergyData
  BY <1>6 DEF getEnergyData, Answer, Holding
<1>7. CASE getEnergyDataFailed
  BY <1>7 DEF getEnergyDataFailed, Answer, Holding
<1>8. CASE streamEnergyData
  BY <1>8 DEF streamEnergyData, SessionOpen, Holding
<1>9. CASE streamEnergyDataRefused
  BY <1>9 DEF streamEnergyDataRefused, Answer, Holding
<1>10. CASE Describe
  BY <1>10 DEF Describe, Answer, Holding
<1>11. ASSUME NEW k \in Pollers, TestSamples(k) PROVE ClockKept
  BY <1>11 DEF TestSamples
<1>12. ASSUME NEW k \in Pollers, LockForSample(k) PROVE ClockKept
  BY <1>12 DEF LockForSample
<1>13. ASSUME NEW k \in Pollers, WriteSample(k) PROVE ClockKept
  BY <1>13 DEF WriteSample, SampleDone, Holding
<1>14. ASSUME NEW k \in Pollers, WriteTimesOut(k) PROVE ClockKept
  BY <1>14 DEF WriteTimesOut, SampleDone, Holding
<1>15. ASSUME NEW k \in Pollers, SampleFailed(k) PROVE ClockKept
  BY <1>15 DEF SampleFailed, Holding
<1>16. ASSUME NEW k \in Pollers, Sleep(k) PROVE ClockKept
  BY <1>16 DEF Sleep
<1>17. ASSUME NEW k \in Pollers, EndSession(k) PROVE ClockKept
  BY <1>17 DEF EndSession
<1>18. CASE ReadSample
  BY <1>18 DEF ReadSample
<1>19. CASE Tick
  BY <1>19 DEF Tick
<1>20. CASE UNCHANGED vars
  BY <1>20 DEF vars
<1>21. QED
  BY <1>1, <1>2, <1>3, <1>4, <1>5, <1>6, <1>7, <1>8, <1>9, <1>10, <1>11, <1>12, <1>13,
     <1>14, <1>15, <1>16, <1>17, <1>18, <1>19, <1>20
     DEF Next, BinderStep, PollStep, Threads

LEMMA NotAheadStep == RailInv /\ [Next]_vars => NotAhead' /\ (reading \in Readings)'
<1> SUFFICES ASSUME RailInv, [Next]_vars PROVE NotAhead' /\ (reading \in Readings)'
  OBVIOUS
<1>1. railsInfo' = railsInfo
  BY FrozenStep DEF Frozen
<1>2. clock \in Nat /\ clock' \in Nat /\ clock <= clock'
  <2>1. clock' = clock \/ Tick
    BY ClockFrame DEF ClockKept
  <2>2. QED BY <2>1 DEF Tick, RailInv, TypeOK
<1>3. Readings' = Readings
  BY <1>1 DEF Readings
<1>4. \A i \in DOMAIN railsInfo : reading'[i] \in Nat
  BY ReadingGrows DEF Readings
<1>5. QED BY <1>1, <1>2, <1>3, <1>4, ReadingGrows DEF NotAhead

(* Thread s, if it is parsing, has just begun, or goes on where it was, or *)
(* takes its next step. *)
ParseOrRest(s) ==
    \/ pc'[s] \notin {"parse", "parsed"}
    \/ pc'[s] = "parse" /\ at'[s] = 1 /\ pc[s] # "parse"
    \/ pc'[s] = pc[s] /\ at'[s] = at[s] /\ reading' = reading /\ since' = since
    \/ parseIioEnergyNode(s) \/ parseIioEnergyNodes(s)

Resting == \A s \in Threads : ParseOrRest(s)

LEMMA ParseFrame == RailInv /\ [Next]_vars => Resting
<1> SUFFICES ASSUME RailInv, [Next]_vars PROVE Resting
  OBVIOUS
<1> USE Names DEF Resting, ParseOrRest, LockHeld, ParseFromStart, PlacesOK,
        BinderPlaces, PollerPlaces, Parsing, Kinds, RailInv, mOdpm, count, Goto
<1>0. PlacesOK /\ NodesOK /\ CallOK
  BY TypeParts DEF RailInv
<1>00. (at \in [Threads -> 1 .. Len(devicePaths) + 1]) /\ call.kind \in Kinds
  BY <1>0, CallKinds DEF CallOK, NodesOK
<1>1. CASE Call
  BY <1>0, <1>00, <1>1 DEF Call
<1>2. CASE LockForCall
  BY <1>0, <1>00, <1>2 DEF LockForCall
<1>3. ASSUME NEW t \in Threads, parseIioEnergyNode(t) PROVE Resting
  <2>1. mLock = t /\ (pc' = pc \/ pc' = [pc EXCEPT ![t] = "failed"])
    BY <1>3 DEF parseIioEnergyNode, NextDevice, ParseFailed, Holding
  <2>2. ASSUME NEW s \in Threads, s # t PROVE pc'[s] \notin {"parse", "parsed"}
    BY <1>0, <2>1, <2>2
  <2>3. QED BY <1>3, <2>2
<1>4. ASSUME NEW t \in Threads, parseIioEnergyNodes(t) PROVE Resting
  BY <1>0, <1>00, <1>4 DEF parseIioEnergyNodes, Holding
<1>5. CASE getRailInfo
  BY <1>0, <1>00, <1>5 DEF getRailInfo, Answer, Holding
<1>6. CASE getEnergyData
  BY <1>0, <1>00, <1>6 DEF getEnergyData, Answer, Holding
<1>7. CASE getEnergyDataFailed
  BY <1>0, <1>00, <1>7 DEF getEnergyDataFailed, Answer, Holding
<1>8. CASE streamEnergyData
  BY <1>0, <1>00, <1>8 DEF streamEnergyData, SessionOpen, Holding
<1>9. CASE streamEnergyDataRefused
  BY <1>0, <1>00, <1>9 DEF streamEnergyDataRefused, Answer, Holding
<1>10. CASE Describe
  BY <1>0, <1>00, <1>10 DEF Describe, Answer, Holding
<1>11. ASSUME NEW k \in Pollers, TestSamples(k) PROVE Resting
  BY <1>0, <1>00, <1>11 DEF TestSamples
<1>12. ASSUME NEW k \in Pollers, LockForSample(k) PROVE Resting
  BY <1>0, <1>00, <1>12 DEF LockForSample
<1>13. ASSUME NEW k \in Pollers, WriteSample(k) PROVE Resting
  BY <1>0, <1>00, <1>13 DEF WriteSample, SampleDone, Holding
<1>14. ASSUME NEW k \in Pollers, WriteTimesOut(k) PROVE Resting
  BY <1>0, <1>00, <1>14 DEF WriteTimesOut, SampleDone, Holding
<1>15. ASSUME NEW k \in Pollers, SampleFailed(k) PROVE Resting
  BY <1>0, <1>00, <1>15 DEF SampleFailed, Holding
<1>16. ASSUME NEW k \in Pollers, Sleep(k) PROVE Resting
  BY <1>0, <1>00, <1>16 DEF Sleep
<1>17. ASSUME NEW k \in Pollers, EndSession(k) PROVE Resting
  BY <1>0, <1>00, <1>17 DEF EndSession
<1>18. CASE ReadSample
  BY <1>0, <1>00, <1>18 DEF ReadSample
<1>19. CASE Tick
  BY <1>0, <1>00, <1>19 DEF Tick
<1>20. CASE UNCHANGED vars
  BY <1>0, <1>00, <1>20 DEF vars
<1>21. QED
  BY <1>1, <1>2, <1>3, <1>4, <1>5, <1>6, <1>7, <1>8, <1>9, <1>10, <1>11, <1>12, <1>13,
     <1>14, <1>15, <1>16, <1>17, <1>18, <1>19, <1>20
     DEF Next, BinderStep, PollStep, Threads

(* Only the holder of the lock changes a reading, and it gives all rails   *)
(* of a monitor the time of its file, unless it misreads it. *)
LEMMA ReadStep == RailInv /\ [Next]_vars => ReadInStep'
<1> SUFFICES ASSUME RailInv, [Next]_vars, NEW s \in Threads PROVE ReadBy(s)'
  BY DEF ReadInStep, Threads
<1>0. \A i \in DOMAIN railsInfo : Trusted(i)' => Trusted(i)
  BY TrustStep
<1>1. railsInfo' = railsInfo /\ devicePaths' = devicePaths
  BY FrozenStep DEF Frozen
<1>2. ReadBy(s) /\ (pc[s] # "parse" => at[s] = 1)
  BY DEF RailInv, ReadInStep, ParseFromStart
<1>3. CASE pc'[s] \notin {"parse", "parsed"}
  BY <1>3 DEF ReadBy
<1>4. CASE pc'[s] = "parse" /\ at'[s] = 1 /\ pc[s] # "parse"
  BY <1>4 DEF ReadBy, HasRead
<1>5. CASE pc'[s] = pc[s] /\ at'[s] = at[s] /\ reading' = reading /\ since' = since
  BY <1>0, <1>1, <1>2, <1>5 DEF ReadBy, HasRead
<1>6. CASE parseIioEnergyNode(s)
  <2>1. pc[s] = "parse" /\ mLock = s /\ at[s] \in DOMAIN devicePaths /\ since' = since
    BY <1>6 DEF parseIioEnergyNode, Holding
  <2>2. CASE ParseFailed(s)
    <3>1. pc'[s] = "failed"
      BY <2>2 DEF ParseFailed, Goto, RailInv, TypeOK
    <3>2. QED BY <3>1 DEF ReadBy
  <2>3. ASSUME NEW n \in 0 .. Len(RailsOf[Device(s)]), NEW timestamp \in {0, clock},
               reading' = ReadingAfter(Device(s), n, timestamp), NextDevice(s),
               \/ n = Len(RailsOf[Device(s)]) /\ timestamp = clock
               \/ misread' = Append(misread, Device(s))
        PROVE  ReadBy(s)'
    <3>1. devicePaths \in Seq(Devices) /\ at[s] \in Nat \ {0} /\ at'[s] = at[s] + 1 /\ pc' = pc
      BY <2>3 DEF RailInv, TypeOK, NextDevice
    <3>2. Device(s) \in Devices /\ Device(s) = devicePaths[at[s]]
      BY <2>1, <3>1 DEF Device
    <3>3. Read(Device(s), n, timestamp)
      BY <2>3, <3>2 DEF Read
    <3>4. since <= clock /\ since \in Nat /\ clock \in Nat
      BY DEF RailInv, TypeOK
    <3>5. ASSUME NEW i \in DOMAIN railsInfo, Trusted(i)', HasRead(s, railsInfo[i].device)'
          PROVE  /\ \A j \in DOMAIN railsInfo : railsInfo[i].device = railsInfo[j].device
                       => reading'[i] = reading'[j]
                 /\ s = "binder" => reading'[i] >= since
      <4>1. CASE railsInfo[i].device = Device(s)
        <5>1. Device(s) \notin Range(misread')
          BY <1>1, <3>5, <4>1 DEF Trusted
        <5>2. misread \in Seq(Devices)
          BY DEF RailInv, TypeOK
        <5>3. n = Len(RailsOf[Device(s)]) /\ timestamp = clock
          BY <2>3, <3>2, <5>1, <5>2, RangeOfAppend
        <5>4. QED BY <3>3, <3>4, <4>1, <5>3, ParseReads
      <4>2. CASE railsInfo[i].device # Device(s)
        <5>1. HasRead(s, railsInfo[i].device)
          BY <1>1, <2>1, <2>3, <3>1, <3>2, <3>5, <4>2 DEF HasRead
        <5>2. QED BY <1>0, <1>2, <2>1, <3>3, <3>5, <4>2, <5>1, ParseReads DEF ReadBy
      <4>3. QED BY <4>1, <4>2
    <3>6. QED BY <1>1, <2>1, <3>5 DEF ReadBy, HasRead
  <2>4. QED BY <1>6, <2>2, <2>3 DEF parseIioEnergyNode, Misread
<1>7. CASE parseIioEnergyNodes(s)
  <2>1. pc[s] = "parse" /\ reading' = reading /\ since' = since
    BY <1>7 DEF parseIioEnergyNodes, Holding, mOdpm
  <2>2. CASE pc'[s] = "failed"
    BY <2>2 DEF ReadBy
  <2>3. CASE pc'[s] # "failed"
    <3>1. at[s] \notin DOMAIN devicePaths
      BY <1>7, <2>3 DEF parseIioEnergyNodes, Goto, RailInv, TypeOK
    <3>2. devicePaths \in Seq(Devices) /\ at[s] \in 1 .. Len(devicePaths) + 1
      BY DEF RailInv, TypeOK
    <3>3. DOMAIN devicePaths = 1 .. at[s] - 1
      BY <3>1, <3>2
    <3>4. \A i \in DOMAIN railsInfo : HasRead(s, railsInfo[i].device)
      BY <3>3 DEF HasRead, RailInv, RailsFound, Range
    <3>5. QED BY <1>0, <1>1, <1>2, <2>1, <3>4 DEF ReadBy
  <2>4. QED BY <2>2, <2>3
<1>8. QED
  BY <1>3, <1>4, <1>5, <1>6, <1>7, ParseFrame DEF Resting, ParseOrRest

(* When every monitor has been read the readings are one sample, as far as *)
(* the files were sound. *)
LEMMA WholeWhenParsed ==
    ASSUME RailInv, NEW t \in Threads, pc[t] = "parsed"
    PROVE  /\ SameTime(reading)
           /\ t = "binder" => \A i \in DOMAIN reading : Trusted(i) => reading[i] >= since
<1>1. \A i, j \in DOMAIN reading :
         Trusted(i) /\ railsInfo[i].device = railsInfo[j].device => reading[i] = reading[j]
  BY ReadingSeq DEF RailInv, ReadInStep, ReadBy, HasRead
<1>2. t = "binder" => \A i \in DOMAIN reading : Trusted(i) => reading[i] >= since
  BY ReadingSeq DEF RailInv, ReadInStep, ReadBy, HasRead
<1>3. QED BY <1>1, <1>2 DEF SameTime

(* A queue changes by a sample at its end or by the read of its first. *)
QueueKept ==
    \/ fmq' = fmq
    \/ \E k \in Pollers :
          /\ pc[k] = "parsed" /\ Len(fmq[k]) < MAX_QUEUE_SIZE /\ reading' = reading
          /\ fmq' = [fmq EXCEPT ![k] = Append(fmq[k], reading)]
    \/ \E k \in Pollers :
          fmq[k] # <<>> /\ fmq' = [fmq EXCEPT ![k] = Tail(fmq[k])] /\ reading' = reading

LEMMA QueueFrame == RailInv /\ [Next]_vars => QueueKept
<1> SUFFICES ASSUME RailInv, [Next]_vars PROVE QueueKept
  OBVIOUS
<1> USE DEF QueueKept, SessionOwned, RailInv, mOdpm, count, Goto
<1>1. CASE Call
  BY <1>1 DEF Call
<1>2. CASE LockForCall
  BY <1>2 DEF LockForCall
<1>3. ASSUME NEW t \in Threads, parseIioEnergyNode(t) PROVE QueueKept
  BY <1>3 DEF parseIioEnergyNode, NextDevice, ParseFailed, Holding
<1>4. ASSUME NEW t \in Threads, parseIioEnergyNodes(t) PROVE QueueKept
  BY <1>4 DEF parseIioEnergyNodes, Holding
<1>5. CASE getRailInfo
  BY <1>5 DEF getRailInfo, Answer, Holding
<1>6. CASE getEnergyData
  BY <1>6 DEF getEnergyData, Answer, Holding
<1>7. CASE getEnergyDataFailed
  BY <1>7 DEF getEnergyDataFailed, Answer, Holding
<1>8. CASE streamEnergyData
  BY <1>8 DEF streamEnergyData, SessionOpen, Holding
<1>9. CASE streamEnergyDataRefused
  BY <1>9 DEF streamEnergyDataRefused, Answer, Holding
<1>10. CASE Describe
  BY <1>10 DEF Describe, Answer, Holding
<1>11. ASSUME NEW k \in Pollers, TestSamples(k) PROVE QueueKept
  BY <1>11 DEF TestSamples
<1>12. ASSUME NEW k \in Pollers, LockForSample(k) PROVE QueueKept
  BY <1>12 DEF LockForSample
<1>13. ASSUME NEW k \in Pollers, WriteSample(k) PROVE QueueKept
  BY <1>13 DEF WriteSample, SampleDone, Holding
<1>14. ASSUME NEW k \in Pollers, WriteTimesOut(k) PROVE QueueKept
  BY <1>14 DEF WriteTimesOut, SampleDone, Holding
<1>15. ASSUME NEW k \in Pollers, SampleFailed(k) PROVE QueueKept
  BY <1>15 DEF SampleFailed, Holding
<1>16. ASSUME NEW k \in Pollers, Sleep(k) PROVE QueueKept
  BY <1>16 DEF Sleep
<1>17. ASSUME NEW k \in Pollers, EndSession(k) PROVE QueueKept
  BY <1>17 DEF EndSession
<1>18. CASE ReadSample
  BY <1>18 DEF ReadSample
<1>19. CASE Tick
  BY <1>19 DEF Tick
<1>20. CASE UNCHANGED vars
  BY <1>20 DEF vars
<1>21. QED
  BY <1>1, <1>2, <1>3, <1>4, <1>5, <1>6, <1>7, <1>8, <1>9, <1>10, <1>11, <1>12, <1>13,
     <1>14, <1>15, <1>16, <1>17, <1>18, <1>19, <1>20
     DEF Next, BinderStep, PollStep, Threads

LEMMA QueuesStep == RailInv /\ [Next]_vars => QueuesOK'
<1> SUFFICES ASSUME RailInv, [Next]_vars PROVE QueuesOK'
  OBVIOUS
<1>1. Readings' = Readings /\ reading \in Readings
  BY FrozenStep DEF Frozen, Readings, RailInv, TypeOK
<1>2. QueuesOK /\ MAX_QUEUE_SIZE \in Nat
  BY ConstantsOK, TypeParts DEF RailInv
<1>3. CASE fmq' = fmq
  BY <1>1, <1>2, <1>3 DEF QueuesOK
<1>4. ASSUME NEW k \in Pollers, Len(fmq[k]) < MAX_QUEUE_SIZE,
             fmq' = [fmq EXCEPT ![k] = Append(fmq[k], reading)]
      PROVE  QueuesOK'
  <2>1. Append(fmq[k], reading) \in Seq(Readings)
    BY <1>1, <1>2 DEF QueuesOK
  <2>2. Len(Append(fmq[k], reading)) <= MAX_QUEUE_SIZE
    BY <1>2, <1>4 DEF QueuesOK
  <2>3. QED BY <1>1, <1>2, <1>4, <2>1, <2>2 DEF QueuesOK
<1>5. ASSUME NEW k \in Pollers, fmq[k] # <<>>, fmq' = [fmq EXCEPT ![k] = Tail(fmq[k])]
      PROVE  QueuesOK'
  <2>1. fmq[k] \in Seq(Readings) /\ Len(fmq[k]) <= MAX_QUEUE_SIZE
    BY <1>2 DEF QueuesOK
  <2>2. Tail(fmq[k]) \in Seq(Readings) /\ Len(Tail(fmq[k])) <= MAX_QUEUE_SIZE
    BY <1>2, <1>5, <2>1
  <2>3. QED BY <1>1, <1>2, <1>5, <2>2 DEF QueuesOK
<1>6. QED BY <1>3, <1>4, <1>5, QueueFrame DEF QueueKept

(* A sample is written when every monitor has been read, later samples     *)
(* after earlier ones. *)
LEMMA SamplesStep == RailInv /\ [Next]_vars => SamplesInStep'
<1> SUFFICES ASSUME RailInv, [Next]_vars, NEW k \in Pollers PROVE QueueInStep(k)'
  BY DEF SamplesInStep
<1>1. railsInfo' = railsInfo /\ \A i \in DOMAIN railsInfo : Trusted(i)' => Trusted(i)
  BY TrustStep
<1>2. fmq[k] \in Seq(Readings) /\ fmq \in [Pollers -> Seq(Readings)] /\ QueueInStep(k)
  BY DEF RailInv, TypeOK, SamplesInStep
<1>3. \A n \in DOMAIN fmq[k] : \A i \in DOMAIN railsInfo :
         fmq[k][n][i] \in Nat /\ reading[i] \in Nat /\ reading'[i] \in Nat
  <2>1. reading \in Readings /\ reading' \in Readings
    BY ReadingGrows DEF RailInv, TypeOK
  <2>2. \A n \in DOMAIN fmq[k] : fmq[k][n] \in Readings
    BY <1>2, ElementOf
  <2>3. QED BY <2>1, <2>2 DEF Readings
<1>4. \A n \in DOMAIN fmq[k] : \A i \in DOMAIN railsInfo :
         Trusted(i)' => fmq[k][n][i] <= reading'[i]
  BY <1>1, <1>2, <1>3, ReadingGrows DEF QueueInStep
<1> DEFINE Whole(sample) ==
             \A i, j \in DOMAIN railsInfo :
                 Trusted(i)' /\ railsInfo[i].device = railsInfo[j].device => sample[i] = sample[j]
<1>40. ASSUME NEW sample \in Readings, SameTime(sample) PROVE Whole(sample)
  BY <1>1, <1>40 DEF SameTime, Readings
<1>41. \A n \in DOMAIN fmq[k] : fmq[k][n] \in Readings /\ Whole(fmq[k][n])
  BY <1>2, <1>40, ElementOf DEF QueueInStep
<1>43. ASSUME \A n \in DOMAIN fmq'[k] :
                /\ fmq'[k][n] \in Readings /\ Whole(fmq'[k][n])
                /\ \A i \in DOMAIN railsInfo : Trusted(i)' => fmq'[k][n][i] <= reading'[i]
                /\ n + 1 \in DOMAIN fmq'[k] => \A i \in DOMAIN railsInfo :
                      Trusted(i)' => fmq'[k][n][i] <= fmq'[k][n + 1][i]
       PROVE  QueueInStep(k)'
  <2>1. \A n \in DOMAIN fmq'[k] : SameTime(fmq[k][n])'
    BY <1>1, <1>43 DEF SameTime, Readings
  <2>2. QED BY <1>1, <1>43, <2>1 DEF QueueInStep
<1>44. \A n \in DOMAIN fmq[k] : n + 1 \in DOMAIN fmq[k] => \A i \in DOMAIN railsInfo :
          Trusted(i)' => fmq[k][n][i] <= fmq[k][n + 1][i]
  BY <1>1, <1>2 DEF QueueInStep
<1>5. CASE fmq'[k] = fmq[k]
  BY <1>4, <1>41, <1>43, <1>44, <1>5
<1>6. CASE pc[k] = "parsed" /\ fmq'[k] = Append(fmq[k], reading) /\ reading' = reading
  <2>1. reading \in Readings /\ Whole(reading)
    BY <1>6, <1>40, WholeWhenParsed DEF Threads, RailInv, TypeOK
  <2>2. /\ DOMAIN fmq[k] = 1 .. Len(fmq[k]) /\ Len(fmq[k]) \in Nat
        /\ DOMAIN fmq'[k] = 1 .. Len(fmq[k]) + 1
        /\ \A n \in 1 .. Len(fmq[k]) : fmq'[k][n] = fmq[k][n]
        /\ fmq'[k][Len(fmq[k]) + 1] = reading
    BY <1>2, <1>6
  <2>3. \A n \in DOMAIN fmq'[k] : fmq'[k][n] \in Readings /\ Whole(fmq'[k][n])
    <3> HIDE DEF Whole
    <3>1. QED BY <1>41, <2>1, <2>2
  <2>4. ASSUME NEW n \in DOMAIN fmq'[k], NEW i \in DOMAIN railsInfo, Trusted(i)'
        PROVE  fmq'[k][n][i] <= reading'[i]
    <3>1. CASE n \in DOMAIN fmq[k]
      BY <1>4, <2>2, <2>4, <3>1
    <3>2. CASE n = Len(fmq[k]) + 1
      <4>1. reading[i] \in Nat
        BY DEF RailInv, TypeOK, Readings
      <4>2. QED BY <1>6, <2>2, <3>2, <4>1
    <3>3. QED BY <2>2, <2>4, <3>1, <3>2
  <2>5. ASSUME NEW n \in DOMAIN fmq'[k], n + 1 \in DOMAIN fmq'[k], NEW i \in DOMAIN railsInfo,
               Trusted(i)'
        PROVE  fmq'[k][n][i] <= fmq'[k][n + 1][i]
    <3>1. n \in DOMAIN fmq[k] /\ n \in Nat
      BY <2>2, <2>5
    <3>2. CASE n + 1 \in DOMAIN fmq[k]
      BY <1>44, <2>2, <2>5, <3>1, <3>2
    <3>3. CASE n + 1 = Len(fmq[k]) + 1
      BY <1>4, <1>6, <2>2, <2>5, <3>1, <3>3
    <3>4. QED BY <2>2, <2>5, <3>2, <3>3
  <2> HIDE DEF Whole
  <2>6. QED BY <1>43, <2>3, <2>4, <2>5
<1>7. CASE fmq[k] # <<>> /\ fmq'[k] = Tail(fmq[k]) /\ reading' = reading
  <2>1. /\ DOMAIN fmq[k] = 1 .. Len(fmq[k]) /\ Len(fmq[k]) \in Nat
        /\ DOMAIN fmq'[k] = 1 .. Len(fmq[k]) - 1
        /\ \A n \in 1 .. Len(fmq[k]) - 1 : fmq'[k][n] = fmq[k][n + 1]
    BY <1>2, <1>7
  <2>2. ASSUME NEW n \in DOMAIN fmq'[k]
        PROVE  n + 1 \in DOMAIN fmq[k] /\ fmq'[k][n] = fmq[k][n + 1]
    BY <2>1
  <2>3. ASSUME NEW n \in DOMAIN fmq'[k], n + 1 \in DOMAIN fmq'[k]
        PROVE  (n + 1) + 1 \in DOMAIN fmq[k] /\ fmq'[k][n + 1] = fmq[k][(n + 1) + 1]
    BY <2>1, <2>3
  <2>4. \A n \in DOMAIN fmq'[k] : fmq'[k][n] \in Readings /\ Whole(fmq'[k][n])
    <3> HIDE DEF Whole
    <3>1. QED BY <1>41, <2>2
  <2>5. \A n \in DOMAIN fmq'[k] : \A i \in DOMAIN railsInfo :
           Trusted(i)' => fmq'[k][n][i] <= reading'[i]
    BY <1>4, <2>2
  <2>6. ASSUME NEW n \in DOMAIN fmq'[k], n + 1 \in DOMAIN fmq'[k], NEW i \in DOMAIN railsInfo,
               Trusted(i)'
        PROVE  fmq'[k][n][i] <= fmq'[k][n + 1][i]
    BY <1>44, <2>2, <2>3, <2>6
  <2> HIDE DEF Whole
  <2>7. QED BY <1>43, <2>4, <2>5, <2>6
<1>8. QED
  BY <1>2, <1>5, <1>6, <1>7, QueueFrame DEF QueueKept

(* The binder thread at rest keeps its answer; on the way to rest from     *)
(* "parsed" it answers with what it has read. *)
AnswerKept ==
    \/ pc'["binder"] # "idle"
    \/ call'.kind # "getEnergyData"
    \/ answer'.status # "SUCCESS"
    \/ UNCHANGED <<call, answer, since>> /\ pc["binder"] = "idle"
    \/ /\ pc["binder"] = "parsed" /\ UNCHANGED <<call, since>>
       /\ \/ call.railIndices = <<>> /\ answer'.data = reading
          \/ /\ call.railIndices # <<>> /\ \A i \in Range(call.railIndices) : i < Len(reading)
             /\ answer'.data = [n \in DOMAIN call.railIndices |-> reading[call.railIndices[n] + 1]]

LEMMA AnswerFrame == RailInv /\ [Next]_vars => AnswerKept
<1> SUFFICES ASSUME RailInv, [Next]_vars PROVE AnswerKept
  OBVIOUS
<1> USE Names DEF AnswerKept, CallServed, LockHeld, PlacesOK, Parsing, Kinds, RailInv,
        mOdpm, count, Goto
<1>0. PlacesOK /\ CallOK
  BY TypeParts DEF RailInv
<1>00. call.kind \in Kinds
  BY <1>0, CallKinds DEF CallOK
<1>1. CASE Call
  BY <1>0, <1>00, <1>1 DEF Call
<1>2. CASE LockForCall
  BY <1>0, <1>00, <1>2 DEF LockForCall
<1>3. ASSUME NEW t \in Threads, parseIioEnergyNode(t) PROVE AnswerKept
  BY <1>0, <1>00, <1>3 DEF parseIioEnergyNode, NextDevice, ParseFailed, Holding
<1>4. ASSUME NEW t \in Threads, parseIioEnergyNodes(t) PROVE AnswerKept
  BY <1>0, <1>00, <1>4 DEF parseIioEnergyNodes, Holding
<1>5. CASE getRailInfo
  BY <1>0, <1>00, <1>5 DEF getRailInfo, Answer, Holding
<1>6. CASE getEnergyData
  BY <1>0, <1>00, <1>6 DEF getEnergyData, Answer, Holding
<1>7. CASE getEnergyDataFailed
  BY <1>0, <1>00, <1>7 DEF getEnergyDataFailed, Answer, Holding
<1>8. CASE streamEnergyData
  BY <1>0, <1>00, <1>8 DEF streamEnergyData, SessionOpen, Holding
<1>9. CASE streamEnergyDataRefused
  BY <1>0, <1>00, <1>9 DEF streamEnergyDataRefused, Answer, Holding
<1>10. CASE Describe
  BY <1>0, <1>00, <1>10 DEF Describe, Answer, Holding
<1>11. ASSUME NEW k \in Pollers, TestSamples(k) PROVE AnswerKept
  BY <1>0, <1>00, <1>11 DEF TestSamples
<1>12. ASSUME NEW k \in Pollers, LockForSample(k) PROVE AnswerKept
  BY <1>0, <1>00, <1>12 DEF LockForSample
<1>13. ASSUME NEW k \in Pollers, WriteSample(k) PROVE AnswerKept
  BY <1>0, <1>00, <1>13 DEF WriteSample, SampleDone, Holding
<1>14. ASSUME NEW k \in Pollers, WriteTimesOut(k) PROVE AnswerKept
  BY <1>0, <1>00, <1>14 DEF WriteTimesOut, SampleDone, Holding
<1>15. ASSUME NEW k \in Pollers, SampleFailed(k) PROVE AnswerKept
  BY <1>0, <1>00, <1>15 DEF SampleFailed, Holding
<1>16. ASSUME NEW k \in Pollers, Sleep(k) PROVE AnswerKept
  BY <1>0, <1>00, <1>16 DEF Sleep
<1>17. ASSUME NEW k \in Pollers, EndSession(k) PROVE AnswerKept
  BY <1>0, <1>00, <1>17 DEF EndSession
<1>18. CASE ReadSample
  BY <1>0, <1>00, <1>18 DEF ReadSample
<1>19. CASE Tick
  BY <1>0, <1>00, <1>19 DEF Tick
<1>20. CASE UNCHANGED vars
  BY <1>0, <1>00, <1>20 DEF vars
<1>21. QED
  BY <1>1, <1>2, <1>3, <1>4, <1>5, <1>6, <1>7, <1>8, <1>9, <1>10, <1>11, <1>12, <1>13,
     <1>14, <1>15, <1>16, <1>17, <1>18, <1>19, <1>20
     DEF Next, BinderStep, PollStep, Threads

LEMMA AnswerStep == RailInv /\ [Next]_vars => AnswerInStep'
<1> SUFFICES ASSUME RailInv, [Next]_vars, pc'["binder"] = "idle",
                    call'.kind = "getEnergyData", answer'.status = "SUCCESS"
             PROVE  /\ call'.railIndices = <<>> => SameTime(answer.data)'
                    /\ \A n \in DOMAIN answer'.data :
                          Trusted(RailAsked(n))' => answer'.data[n] >= since'
  BY DEF AnswerInStep
<1>1. railsInfo' = railsInfo /\ Range(misread) \subseteq Range(misread')
  BY TrustStep
<1>2. CASE UNCHANGED <<call, answer, since>> /\ pc["binder"] = "idle"
  <2>1. AnswerInStep
    BY DEF RailInv
  <2>2. QED BY <1>1, <1>2, <2>1 DEF AnswerInStep, SameTime, Trusted, RailAsked
<1>3. CASE /\ pc["binder"] = "parsed" /\ UNCHANGED <<call, since>>
           /\ call.railIndices = <<>> /\ answer'.data = reading
  <2>1. SameTime(reading) /\ \A i \in DOMAIN reading : Trusted(i) => reading[i] >= since
    BY <1>3, WholeWhenParsed DEF Threads
  <2>2. QED BY <1>1, <1>3, <2>1 DEF SameTime, Trusted, RailAsked
<1>4. CASE /\ pc["binder"] = "parsed" /\ UNCHANGED <<call, since>>
           /\ call.railIndices # <<>> /\ \A i \in Range(call.railIndices) : i < Len(reading)
           /\ answer'.data = [n \in DOMAIN call.railIndices |-> reading[call.railIndices[n] + 1]]
  <2>1. \A i \in DOMAIN reading : Trusted(i) => reading[i] >= since
    BY <1>4, WholeWhenParsed DEF Threads
  <2>2. \A n \in DOMAIN call.railIndices : call.railIndices[n] + 1 \in DOMAIN reading
    BY <1>4, PickedSeq
  <2>3. QED BY <1>1, <1>4, <2>1, <2>2 DEF Trusted, RailAsked
<1>5. QED BY <1>2, <1>3, <1>4, AnswerFrame DEF AnswerKept

(***************************************************************************)
(* The initial states                                                      *)
(***************************************************************************)

(* An ordering of a finite set is a sequence of its members. *)
LEMMA Orderings ==
    ASSUME NEW S, IsFiniteSet(S), NEW s \in SetToSeqs(S)
    PROVE  s \in Seq(S) /\ DOMAIN s = 1 .. Len(s) /\ Len(s) \in Nat
<1>1. Cardinality(S) \in Nat
  BY FS_CardinalityType
<1>2. s \in [1 .. Cardinality(S) -> S]
  BY DEF SetToSeqs
<1>3. QED BY <1>1, <1>2, SeqOfFunction

(* There are finitely many lines to read. *)
LEMMA LinesFinite ==
    ASSUME NEW sysfs, NEW paths \in Seq(Devices)
    PROVE  /\ IsFiniteSet(RailLines(paths, sysfs))
           /\ \A l \in RailLines(paths, sysfs) :
                 l[1] \in DOMAIN paths /\ l[2] \in DOMAIN RailsOf[paths[l[1]]]
<1> DEFINE Reached(n) == \A m \in 1 .. n : sysfs[paths[m]] # "badRate"
           Readable == {n \in DOMAIN paths : Reached(n) /\ sysfs[paths[n]] = "ok"}
           File == [n \in Readable |-> {n} \X DOMAIN RailsOf[paths[n]]]
           Files == {{n} \X DOMAIN RailsOf[paths[n]] : n \in Readable}
<1>1. RailLines(paths, sysfs) = UNION Files
  BY DEF RailLines
<1>2. IsFiniteSet(Readable)
  <2>1. IsFiniteSet(1 .. Len(paths))
    BY FS_Interval
  <2>2. Readable \in SUBSET (1 .. Len(paths))
    OBVIOUS
  <2> HIDE DEF Readable
  <2>3. QED BY <2>1, <2>2, FS_Subset
<1>3. IsFiniteSet(Files)
  <2>1. File \in Surjection(Readable, Files)
    BY DEF Surjection
  <2> HIDE DEF Readable, File, Files
  <2>2. QED BY <1>2, <2>1, FS_Surjection
<1>4. ASSUME NEW F \in Files PROVE IsFiniteSet(F)
  <2>1. PICK n \in DOMAIN paths : F = {n} \X DOMAIN RailsOf[paths[n]]
    OBVIOUS
  <2>2. RailsOf[paths[n]] \in Seq(Range(RailsOf[paths[n]]))
    BY ConstantsOK
  <2>3. IsFiniteSet(1 .. Len(RailsOf[paths[n]])) /\ IsFiniteSet({n})
    <3>1. Len(RailsOf[paths[n]]) \in Int
      BY <2>2
    <3>2. IsFiniteSet(1 .. Len(RailsOf[paths[n]]))
      BY <3>1, FS_Interval
    <3>3. QED BY <3>2, FS_Singleton
  <2>4. IsFiniteSet(DOMAIN RailsOf[paths[n]])
    BY <2>2, <2>3
  <2>5. QED BY <2>1, <2>3, <2>4, FS_Product
<1>5. IsFiniteSet(UNION Files)
  <2> HIDE DEF Files
  <2>1. QED BY <1>3, <1>4, FS_UNION
<1>6. \A l \in UNION Files : l[1] \in DOMAIN paths /\ l[2] \in DOMAIN RailsOf[paths[l[1]]]
  OBVIOUS
<1>7. QED BY <1>1, <1>5, <1>6

(* The rails found are lines of the files of the monitors found. *)
LEMMA RailsAtStart ==
    ASSUME Init
    PROVE  devicePaths \in Seq(Devices) /\ RailsFound
<1>1. PICK sysfs \in [Devices -> SysfsState] :
         /\ devicePaths \in findIioPowerMonitorNodes(sysfs)
         /\ railsInfo \in parsePowerRails(devicePaths, sysfs)
  BY DEF Init
<1> DEFINE Named == {d \in Devices : sysfs[d] # "nameless"}
           L == RailLines(devicePaths, sysfs)
<1>2. IsFiniteSet(Named) /\ Named \subseteq Devices
  BY ConstantsOK, FS_Subset
<1>3. devicePaths \in SetToSeqs(Named)
  BY <1>1 DEF findIioPowerMonitorNodes
<1>4. devicePaths \in Seq(Devices)
  <2> HIDE DEF Named
  <2>1. devicePaths \in Seq(Named)
    BY <1>2, <1>3, Orderings
  <2>2. QED BY <1>2, <2>1
<1>5. PICK lines \in SetToSeqs(L) :
         railsInfo = [i \in DOMAIN lines |->
                        [rail |-> RailsOf[devicePaths[lines[i][1]]][lines[i][2]],
                         device |-> devicePaths[lines[i][1]]]]
  BY <1>1 DEF parsePowerRails
<1> HIDE DEF L
<1>6. lines \in Seq(L) /\ DOMAIN lines = 1 .. Len(lines) /\ Len(lines) \in Nat
  BY <1>4, <1>5, LinesFinite, Orderings DEF L
<1>7. ASSUME NEW i \in DOMAIN lines
      PROVE  /\ railsInfo[i] \in [rail : Rails, device : Devices]
             /\ railsInfo[i].rail \in Range(RailsOf[railsInfo[i].device])
             /\ railsInfo[i].device \in Range(devicePaths)
  <2>1. lines[i] \in L
    BY <1>6, ElementOf
  <2>2. /\ lines[i][1] \in DOMAIN devicePaths
        /\ lines[i][2] \in DOMAIN RailsOf[devicePaths[lines[i][1]]]
    BY <1>4, <2>1, LinesFinite DEF L
  <2>3. devicePaths[lines[i][1]] \in Devices
    BY <1>4, <2>2
  <2>4. RailsOf[devicePaths[lines[i][1]]][lines[i][2]] \in Range(RailsOf[devicePaths[lines[i][1]]])
    BY <2>2 DEF Range
  <2>5. QED BY <1>5, <2>2, <2>3, <2>4 DEF Rails, Range
<1>8. railsInfo \in Seq([rail : Rails, device : Devices]) /\ DOMAIN railsInfo = DOMAIN lines
  <2>1. railsInfo \in [1 .. Len(lines) -> [rail : Rails, device : Devices]]
    BY <1>5, <1>6, <1>7
  <2>2. QED BY <1>6, <2>1, SeqOfFunction
<1>9. QED BY <1>4, <1>7, <1>8 DEF RailsFound

LEMMA RailInit == Init => RailInv
<1> SUFFICES ASSUME Init PROVE RailInv
  OBVIOUS
<1>0. devicePaths \in Seq(Devices) /\ RailsFound
  BY RailsAtStart
<1>1. TimesOK /\ PlacesOK
  BY ConstantsOK, Names DEF Init, TimesOK, PlacesOK, BinderPlaces, PollerPlaces
<1>2. NodesOK
  BY <1>0 DEF Init, NodesOK
<1>3. QueuesOK
  <2>1. <<>> \in Seq(Readings) /\ Len(<<>>) = 0
    OBVIOUS
  <2>2. QED BY <2>1, ConstantsOK DEF Init, QueuesOK
<1>4. CallOK
  <2>1. <<>> \in Seq(0 .. MaxClock)
    OBVIOUS
  <2>2. QED BY <2>1 DEF Init, CallOK, NoAnswer, NoData
<1>5. CountsOK /\ SamplesCounted
  BY Names DEF Init, CountsOK, SamplesCounted, Threads, Parsing
<1>6. reading \in Readings /\ NotAhead
  BY ConstantsOK DEF Init, Readings, NotAhead
<1>7. hwEnabled \in BOOLEAN /\ misread \in Seq(Devices)
  BY DEF Init
<1>8. LockHeld /\ CallServed /\ SessionOwned
  BY Names DEF Init, LockHeld, CallServed, SessionOwned, Parsing, Kinds, Threads
<1>9. ParseFromStart /\ ReadInStep /\ AnswerInStep
  BY Names DEF Init, ParseFromStart, ReadInStep, ReadBy, AnswerInStep, NoAnswer
<1>10. SamplesInStep
  BY DEF Init, SamplesInStep, QueueInStep
<1>11. QED
  BY <1>0, <1>1, <1>2, <1>3, <1>4, <1>5, <1>6, <1>7, <1>8, <1>9, <1>10, TypeParts DEF RailInv

LEMMA RailStep == RailInv /\ [Next]_vars => RailInv'
<1> SUFFICES ASSUME RailInv, [Next]_vars PROVE RailInv'
  OBVIOUS
<1>1. TimesOK' /\ PlacesOK' /\ NodesOK' /\ QueuesOK' /\ CallOK' /\ CountsOK'
  BY TimesStep, PlacesStep, NodesStep, QueuesStep, CallStep, CountsStep
<1>2. hwEnabled' \in BOOLEAN
  BY FrozenStep DEF Frozen, RailInv, TypeOK
<1>3. TypeOK'
  BY <1>1, <1>2, NotAheadStep, TrustStep
     DEF TypeOK, TimesOK, PlacesOK, NodesOK, QueuesOK, CallOK, CountsOK
<1>4. RailsFound'
  BY FrozenStep DEF Frozen, RailInv, RailsFound, Range
<1>5. QED
  BY <1>3, <1>4, LockStep, ServedStep, OwnedStep, CountedStep, FromStartStep, ReadStep,
     NotAheadStep, SamplesStep, AnswerStep DEF RailInv

LEMMA RailInvCorrect == Spec => []RailInv
BY RailInit, RailStep, PTL DEF Spec

(***************************************************************************)
(* What follows from it                                                    *)
(***************************************************************************)

(* Every variable of the rail data provider keeps its type; in particular  *)
(* no session takes more samples than it was asked for. *)
THEOREM RailTypeCorrect == Spec => []TypeOK
<1>1. RailInv => TypeOK
  BY DEF RailInv
<1>2. QED BY <1>1, RailInvCorrect, PTL

(* The queue a session writes to, or the binder thread is about to         *)
(* describe, has not been freed. *)
THEOREM QueueAliveCorrect == Spec => []QueueAliveWhileUsed
<1>1. RailInv => QueueAliveWhileUsed
  BY DEF RailInv, SessionOwned, QueueAliveWhileUsed
<1>2. QED BY <1>1, RailInvCorrect, PTL

(* Clients see whole readings, in the order of time, none older than the   *)
(* call that asked for it, of every monitor of which no file without its   *)
(* timestamp or without all its rails has been taken. *)
THEOREM SamplesAreWholeCorrect == Spec => []SamplesAreWhole
<1>1. RailInv => SamplesAreWhole
  <2> SUFFICES ASSUME RailInv PROVE SamplesAreWhole
    OBVIOUS
  <2>1. ASSUME NEW k \in Pollers
        PROVE  /\ \A n \in DOMAIN fmq[k] : SameTime(fmq[k][n])
               /\ \A n \in 1 .. Len(fmq[k]) - 1 :
                     \A i \in DOMAIN railsInfo : Trusted(i) => fmq[k][n][i] <= fmq[k][n + 1][i]
    <3>1. DOMAIN fmq[k] = 1 .. Len(fmq[k]) /\ Len(fmq[k]) \in Nat
      BY DEF RailInv, TypeOK
    <3>2. \A n \in 1 .. Len(fmq[k]) - 1 : n \in DOMAIN fmq[k] /\ n + 1 \in DOMAIN fmq[k]
      BY <3>1
    <3>3. QED BY <3>2 DEF RailInv, SamplesInStep, QueueInStep
  <2>2. AnswerInStep
    BY DEF RailInv
  <2>3. QED BY <2>1, <2>2 DEF SamplesAreWhole, AnswerInStep
<1>2. QED BY <1>1, RailInvCorrect, PTL

(***************************************************************************)
(* The provider implements the abstract streams                            *)
(*                                                                         *)
(* The detached thread has the queue from its start to its end             *)
(* (SessionOwned), so a call that finds the queue free finds no session    *)
(* open; what it writes has been read completely under the lock            *)
(* (WholeWhenParsed), and it has tested its count before (SamplesCounted). *)
(***************************************************************************)

(* The monitors and phases as the refinement mapping reads them. *)
MonitorOf == [i \in DOMAIN railsInfo |-> railsInfo[i].device]

PhaseOf(place) == CASE place = "unborn" -> "new" [] place = "ended" -> "over" [] OTHER -> "open"

Phase == [k \in Pollers |-> PhaseOf(pc[k])]

(* A step after which every session stands in the same phase. *)
LEMMA StreamsUnchanged ==
    ASSUME UNCHANGED <<railsInfo, reading, misread, fmq, count>>,
           \A k \in Pollers : PhaseOf(pc'[k]) = PhaseOf(pc[k])
    PROVE  UNCHANGED Abs!vars
<1>1. Phase' = Phase
  BY DEF Phase, PhaseOf
<1>2. QED BY <1>1 DEF Abs!vars, Phase, PhaseOf, count

(* A thread goes on without beginning or ending a session. *)
LEMMA SamePhase ==
    ASSUME RailInv, NEW t \in Threads, NEW place \in BinderPlaces \cup PollerPlaces, Goto(t, place),
           t \in Pollers => PhaseOf(place) = PhaseOf(pc[t])
    PROVE  \A k \in Pollers : PhaseOf(pc'[k]) = PhaseOf(pc[k])
<1>1. DOMAIN pc = Threads /\ pc' = [pc EXCEPT ![t] = place]
  BY DEF RailInv, TypeOK, Goto
<1>2. QED BY <1>1, Names

(* A sample of an open session, sent or lost. *)
LEMMA SampleStep ==
    ASSUME RailInv, [Next]_vars, NEW k \in Pollers, WriteSample(k) \/ WriteTimesOut(k)
    PROVE  Abs!Put(k)
<1>1. pc[k] = "parsed" /\ fmqSynchronized = k /\ k \in Threads
  BY Names DEF WriteSample, WriteTimesOut, Holding, RailInv, SessionOwned
<1>2. /\ SampleDone(k) /\ UNCHANGED <<reading, misread, railsInfo, numSamples>>
      /\ currSamples' = [currSamples EXCEPT ![k] = currSamples[k] + 1]
  BY DEF WriteSample, WriteTimesOut, SampleDone, mOdpm, count
<1>3. Phase' = Phase
  <2>1. Goto(k, "sleep") /\ PhaseOf("sleep") = PhaseOf(pc[k])
    BY <1>1, <1>2 DEF SampleDone, PhaseOf
  <2>2. \A j \in Pollers : PhaseOf(pc'[j]) = PhaseOf(pc[j])
    BY <1>1, <2>1, SamePhase DEF PollerPlaces
  <2>3. QED BY <2>2 DEF Phase
<1>4. Phase[k] = "open" /\ currSamples[k] < numSamples[k]
  BY <1>1 DEF Phase, PhaseOf, RailInv, SamplesCounted, Parsing
<1>5. \A i, j \in DOMAIN MonitorOf :
         MonitorOf[i] = MonitorOf[j] /\ MonitorOf[i] \notin Range(misread) => reading[i] = reading[j]
  BY <1>1, WholeWhenParsed, ReadingSeq DEF MonitorOf, SameTime, Trusted
<1>6. IF Len(fmq[k]) < MAX_QUEUE_SIZE THEN fmq' = [fmq EXCEPT ![k] = Append(fmq[k], reading)]
                                      ELSE fmq' = fmq
  <2>1. Len(fmq[k]) \in Nat /\ MAX_QUEUE_SIZE \in Nat
    BY ConstantsOK DEF RailInv, TypeOK
  <2>2. QED BY <1>1, <2>1 DEF WriteSample, WriteTimesOut
<1>7. QED
  BY <1>2, <1>3, <1>4, <1>5, <1>6
     DEF Abs!Put, Abs!Due, Abs!Whole, Phase, PhaseOf, MonitorOf

(* A session begins only when no other one is open. *)
LEMMA OpenStep ==
    ASSUME RailInv, streamEnergyData
    PROVE  \E k \in Pollers : Abs!Open(k)
<1>1. PICK k \in Pollers :
         /\ pc[k] = "unborn"
         /\ numSamples' = [numSamples EXCEPT ![k] = Samples(call.timeMs, call.samplingRate)]
         /\ pc' = [pc EXCEPT ![k] = "test", !["binder"] = "describe"]
  BY DEF streamEnergyData
<1>2. fmqSynchronized = "null" /\ call.kind = "streamEnergyData"
  BY DEF streamEnergyData, SessionOpen, Holding, RailInv, CallServed, Kinds
<1>3. \A j \in Pollers : Phase[j] # "open"
  BY <1>2, Names DEF RailInv, SessionOwned, Phase, PhaseOf
<1>4. DOMAIN pc = Threads /\ k \in Threads /\ k # "binder"
  BY Names DEF RailInv, TypeOK
<1>5. Phase' = [Phase EXCEPT ![k] = "open"] /\ Phase[k] = "new"
  BY <1>1, <1>4, Names DEF Phase, PhaseOf
<1>6. Samples(call.timeMs, call.samplingRate) \in Nat
  BY <1>2, CallKinds, SamplesType DEF RailInv, TypeOK
<1>7. numSamples'[k] \in Nat /\ numSamples' = [numSamples EXCEPT ![k] = numSamples'[k]]
  <2>1. DOMAIN numSamples = Pollers
    BY DEF RailInv, TypeOK
  <2>2. QED BY <1>1, <1>6, <2>1
<1>8. UNCHANGED <<railsInfo, reading, misread, fmq, currSamples>>
  BY DEF streamEnergyData
<1>9. Abs!Open(k)
  BY <1>3, <1>5, <1>7, <1>8 DEF Abs!Open, Phase, PhaseOf
<1>10. QED BY <1>9

LEMMA CloseStep ==
    ASSUME RailInv, NEW k \in Pollers, EndSession(k)
    PROVE  Abs!Close(k)
<1>1. DOMAIN pc = Threads /\ k \in Threads
  BY Names DEF RailInv, TypeOK
<1>2. Phase' = [Phase EXCEPT ![k] = "over"] /\ Phase[k] = "open"
  BY <1>1, Names DEF EndSession, Goto, Phase, PhaseOf
<1>3. QED BY <1>2 DEF EndSession, count, Abs!Close, Phase, PhaseOf

(* A parse changes readings only, and not backwards, except of a monitor   *)
(* it gives up. *)
LEMMA ParseStep ==
    ASSUME RailInv, [Next]_vars, NEW t \in Threads, parseIioEnergyNode(t)
    PROVE  Abs!Refresh
<1>1. reading' \in [DOMAIN MonitorOf -> Nat]
      /\ \A i \in DOMAIN MonitorOf :
            MonitorOf[i] \notin Range(misread') => reading[i] <= reading'[i]
  BY ReadingGrows, TrustStep DEF Readings, MonitorOf, Trusted
<1>10. Range(misread') \in SUBSET Devices /\ Range(misread) \subseteq Range(misread')
  <2>1. misread' \in Seq(Devices)
    BY TrustStep
  <2>2. Range(misread') \in SUBSET Devices
    BY <2>1, ElementOf DEF Range
  <2>3. QED BY <2>2, TrustStep
<1>2. UNCHANGED <<railsInfo, fmq, count>>
  BY DEF parseIioEnergyNode
<1>3. \A k \in Pollers : PhaseOf(pc'[k]) = PhaseOf(pc[k])
  <2>1. CASE pc' = pc
    BY <2>1
  <2>2. CASE Goto(t, "failed")
    BY <2>2, SamePhase DEF parseIioEnergyNode, Holding, PhaseOf, PollerPlaces
  <2>3. QED BY <2>1, <2>2 DEF parseIioEnergyNode, NextDevice, ParseFailed
<1>4. Phase' = Phase
  BY <1>3 DEF Phase
<1>5. QED BY <1>1, <1>10, <1>2, <1>4 DEF Abs!Refresh, MonitorOf, Phase, PhaseOf, count

(* The binder thread takes calls and answers them; none of this shows. *)
LEMMA BinderUnseen ==
    ASSUME RailInv, Call \/ LockForCall \/ getRailInfo \/ getEnergyDataFailed \/ getEnergyData
                    \/ streamEnergyDataRefused \/ Describe
    PROVE  UNCHANGED Abs!vars
<1>1. \E place : Goto("binder", place)
  <2>1. CASE Call
    BY <2>1 DEF Call
  <2>2. CASE LockForCall
    BY <2>2 DEF LockForCall
  <2>3. CASE getRailInfo \/ getEnergyDataFailed \/ getEnergyData
             \/ streamEnergyDataRefused \/ Describe
    <3>1. Goto("binder", "idle")
      BY <2>3 DEF getRailInfo, getEnergyDataFailed, getEnergyData, streamEnergyDataRefused,
         Describe, Answer
    <3>2. QED BY <3>1
  <2>4. QED BY <2>1, <2>2, <2>3
<1>4. \A k \in Pollers : pc'[k] = pc[k]
  BY <1>1, Names DEF Goto
<1>2. UNCHANGED <<railsInfo, reading, misread, fmq, count>>
  BY DEF Call, LockForCall, getRailInfo, getEnergyDataFailed, getEnergyData,
     streamEnergyDataRefused, Describe, mOdpm
<1>3. QED BY <1>4, <1>2, StreamsUnchanged

(* Neither does what a session's thread does between its samples. *)
LEMMA PollerUnseen ==
    ASSUME RailInv, NEW k \in Pollers,
           TestSamples(k) \/ LockForSample(k) \/ SampleFailed(k) \/ Sleep(k)
    PROVE  UNCHANGED Abs!vars
<1>1. k \in Threads
  BY Names
<1>2. \E place \in {"lock", "end", "parse", "test"} :
         Goto(k, place) /\ pc[k] \in {"test", "lock", "failed", "sleep"}
  BY DEF TestSamples, LockForSample, SampleFailed, Sleep, Holding
<1>3. \A j \in Pollers : PhaseOf(pc'[j]) = PhaseOf(pc[j])
  BY <1>1, <1>2, SamePhase DEF PhaseOf, PollerPlaces
<1>4. UNCHANGED <<railsInfo, reading, misread, fmq, count>>
  BY DEF TestSamples, LockForSample, SampleFailed, Sleep, mOdpm
<1>5. QED BY <1>3, <1>4, StreamsUnchanged

LEMMA StreamsStep == RailInv /\ [Next]_vars => [Abs!Next]_(Abs!vars)
<1> SUFFICES ASSUME RailInv, [Next]_vars PROVE Abs!Next \/ UNCHANGED Abs!vars
  OBVIOUS
<1>1. CASE Call \/ LockForCall \/ getRailInfo \/ getEnergyDataFailed \/ getEnergyData
           \/ streamEnergyDataRefused \/ Describe
  BY <1>1, BinderUnseen
<1>2. ASSUME NEW t \in Threads, parseIioEnergyNode(t) PROVE Abs!Next
  BY <1>2, ParseStep DEF Abs!Next
<1>3. ASSUME NEW t \in Threads, parseIioEnergyNodes(t) PROVE UNCHANGED Abs!vars
  <2>1. \E place \in {"parsed", "failed"} : Goto(t, place) /\ pc[t] = "parse"
    BY <1>3 DEF parseIioEnergyNodes, Holding
  <2>2. \A k \in Pollers : PhaseOf(pc'[k]) = PhaseOf(pc[k])
    BY <2>1, SamePhase DEF PhaseOf, PollerPlaces
  <2>3. QED BY <1>3, <2>2, StreamsUnchanged DEF parseIioEnergyNodes, mOdpm
<1>4. CASE streamEnergyData
  BY <1>4, OpenStep DEF Abs!Next
<1>5. ASSUME NEW k \in Pollers, TestSamples(k) \/ LockForSample(k) \/ SampleFailed(k) \/ Sleep(k)
      PROVE  UNCHANGED Abs!vars
  BY <1>5, PollerUnseen
<1>6. ASSUME NEW k \in Pollers, WriteSample(k) \/ WriteTimesOut(k) PROVE Abs!Next
  BY <1>6, SampleStep DEF Abs!Next
<1>7. ASSUME NEW k \in Pollers, EndSession(k) PROVE Abs!Next
  BY <1>7, CloseStep DEF Abs!Next
<1>8. CASE ReadSample
  <2>1. PICK k \in Pollers : fmq[k] # <<>> /\ fmq' = [fmq EXCEPT ![k] = Tail(fmq[k])]
    BY <1>8 DEF ReadSample
  <2>2. Abs!Take(k)
    BY <1>8, <2>1 DEF ReadSample, mOdpm, count, Abs!Take
  <2>3. QED BY <2>2 DEF Abs!Next
<1>9. CASE Tick
  BY <1>9, StreamsUnchanged DEF Tick, mOdpm
<1>10. CASE UNCHANGED vars
  BY <1>10, StreamsUnchanged DEF vars, count
<1>11. QED
  BY <1>1, <1>2, <1>3, <1>4, <1>5, <1>6, <1>7, <1>8, <1>9, <1>10, Names
     DEF Next, BinderStep, PollStep

LEMMA StreamsInit == Init => Abs!Init
<1> SUFFICES ASSUME Init PROVE Abs!Init
  OBVIOUS
<1>1. RailInv
  BY RailInit
<1>2. MonitorOf \in Seq(Devices)
  <2>1. \A i \in DOMAIN railsInfo : railsInfo[i].device \in Devices
    <3>1. devicePaths \in Seq(Devices)
      BY <1>1 DEF RailInv, TypeOK
    <3>2. ASSUME NEW i \in DOMAIN railsInfo PROVE railsInfo[i].device \in Devices
      <4>1. railsInfo[i].device \in Range(devicePaths)
        BY <1>1, <3>2 DEF RailInv, RailsFound
      <4>2. PICK n \in DOMAIN devicePaths : railsInfo[i].device = devicePaths[n]
        BY <4>1 DEF Range
      <4>3. QED BY <3>1, <4>2, ElementOf
    <3>3. QED BY <3>2
  <2>2. DOMAIN railsInfo = 1 .. Len(railsInfo) /\ Len(railsInfo) \in Nat
    BY <1>1, ReadingSeq
  <2>3. MonitorOf \in [1 .. Len(railsInfo) -> Devices]
    BY <2>1, <2>2 DEF MonitorOf
  <2>4. QED BY <2>2, <2>3, SeqOfFunction
<1>3. Phase = [k \in Pollers |-> "new"]
  BY Names DEF Init, Phase, PhaseOf
<1>4. reading = [i \in DOMAIN MonitorOf |-> 0] /\ Range(misread) = {}
  BY DEF Init, MonitorOf, Range
<1>5. QED BY <1>2, <1>3, <1>4 DEF Init, Abs!Init, MonitorOf, Phase, PhaseOf

(* Every behaviour of the provider is one of the abstract streams: the     *)
(* lock, the detached threads and the parses that fail never show through; *)
(* a file that is taken though it is not sound gives its monitor up. *)
THEOREM RefinesEnergyStreams == Spec => ImplementsEnergyStreams
BY StreamsInit, StreamsStep, RailInvCorrect, PTL
   DEF Spec, ImplementsEnergyStreams, Abs!Spec
=============================================================================
