---------------------------- MODULE EnergyStreams ----------------------------
(***************************************************************************)
(* What the power rail data provider promises to the clients of streaming  *)
(* sessions, without its lock, threads, files and the parses that fail     *)
(* half way: sessions are open one at a time, the readings only grow, and  *)
(* what a client finds in its queue are readings as they were at one       *)
(* moment, with one timestamp for all rails of a monitor, and no more of   *)
(* them than it asked for.  A monitor whose files are not to be relied on  *)
(* is given up once and for all.                                           *)
(* RailData is shown to implement this specification.                      *)
(***************************************************************************)
EXTENDS Naturals, Sequences

CONSTANTS
    Sessions,
    Monitors,
    Size        \* how many samples a queue holds

VARIABLES
    monitor,    \* monitor[i]: the monitor of rail i
    reading,    \* reading[i]: the timestamp of rail i
    misread,    \* the monitors given up
    phase,      \* phase[k]: "new", "open" or "over"
    queue,      \* queue[k]: the samples for the client of session k
    asked,      \* asked[k]: how many samples it wants
    sent        \* sent[k]: how many it has been sent, lost ones included

vars == <<monitor, reading, misread, phase, queue, asked, sent>>

Init ==
    /\ monitor \in Seq(Monitors)
    /\ reading = [i \in DOMAIN monitor |-> 0] /\ misread = {}
    /\ phase = [k \in Sessions |-> "new"]
    /\ queue = [k \in Sessions |-> <<>>]
    /\ asked = [k \in Sessions |-> 0]
    /\ sent  = [k \in Sessions |-> 0]

(* Some rails are read again, and some monitors perhaps given up. *)
Refresh ==
    /\ reading' \in [DOMAIN monitor -> Nat]
    /\ misread' \in SUBSET Monitors /\ misread \subseteq misread'
    /\ \A i \in DOMAIN monitor : monitor[i] \notin misread' => reading[i] <= reading'[i]
    /\ UNCHANGED <<monitor, phase, queue, asked, sent>>

(* Session k begins; no other one is open. *)
Open(k) ==
    /\ phase[k] = "new" /\ \A j \in Sessions : phase[j] # "open"
    /\ phase' = [phase EXCEPT ![k] = "open"]
    /\ asked'[k] \in Nat /\ asked' = [asked EXCEPT ![k] = asked'[k]]
    /\ UNCHANGED <<monitor, reading, misread, queue, sent>>

(* All rails of a monitor that is not given up have been read together. *)
Whole ==
    \A i, j \in DOMAIN monitor :
        monitor[i] = monitor[j] /\ monitor[i] \notin misread => reading[i] = reading[j]

Due(k) == phase[k] = "open" /\ sent[k] < asked[k]

(* A sample is sent, or lost when the client does not read its queue. *)
Put(k) ==
    /\ Due(k) /\ Whole
    /\ IF Len(queue[k]) < Size THEN queue' = [queue EXCEPT ![k] = Append(@, reading)]
                               ELSE UNCHANGED queue
    /\ sent' = [sent EXCEPT ![k] = @ + 1]
    /\ UNCHANGED <<monitor, reading, misread, phase, asked>>

(* The client reads its queue, whether the session is over or not. *)
Take(k) ==
    /\ queue[k] # <<>> /\ queue' = [queue EXCEPT ![k] = Tail(@)]
    /\ UNCHANGED <<monitor, reading, misread, phase, asked, sent>>

(* The session ends, perhaps before its time. *)
Close(k) ==
    /\ phase[k] = "open" /\ phase' = [phase EXCEPT ![k] = "over"]
    /\ UNCHANGED <<monitor, reading, misread, queue, asked, sent>>

Next ==
    \/ Refresh
    \/ \E k \in Sessions : Open(k) \/ Put(k) \/ Take(k) \/ Close(k)

Spec == Init /\ [][Next]_vars
=============================================================================
