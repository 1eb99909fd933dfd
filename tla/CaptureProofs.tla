---------------------------- MODULE CaptureProofs ----------------------------
(***************************************************************************)
(* Theorems about Capture, for any list of backends, any variant of the    *)
(* types and any number of packets, failures, interrupts and kills.        *)
(***************************************************************************)
EXTENDS Capture, TLAPS

\* The thread takes no further step.
Dead == {"none", "ended", "died", "killed", "cut"}

\* Whether the packet in the callback may be missing from backend b.
Outstanding(b) ==
  IF \/ sniffer \in {"extract", "count", "cut"}
     \/ sniffer \in {"write", "commit"} /\ j <= b
  THEN 1 ELSE 0

\* Every packet is in each backend, an error, or outstanding there.
Kept ==
  \A b \in Sinks : (b \in lost => Backends[b] = "jsonl")
                 /\ (b \notin lost => delivered <= Stored(b) + errors + Outstanding(b))

\* The row whose commit is next is in the database's transaction, unless the
\* database was closed in between.
Inserted ==
  sniffer = "commit" =>
    Backends[j] = "sqlite" /\ (open[j] => delivered <= rows[j] + pending[j] + errors)

\* A closed backend holds nothing back.
NothingHeld == \A b \in Sinks : ~open[b] => pending[b] = 0

\* Backends are closed from the first one on.
ClosedUpTo ==
  /\ main \in {"halt", "join"} => k = 1
  /\ main \in {"close", "close_db"} => \A b \in Sinks : b < k => ~open[b]
  /\ main = "close_db" => Backends[k] = "sqlite"
  /\ returned > 0 => \A b \in Sinks : ~open[b]

\* A thread that can write says `running`; once stop() closes backends, there
\* is none unless the call missed it.
Halted ==
  /\ sniffer \in {"opening"} \union Sniffing => running
  /\ main = "new" => returned = 0 /\ sniffer = "none"
  /\ sniffer \in {"killed", "cut"} => main = "killed"
  /\ (main \in {"close", "close_db"} \/ returned > 0) /\ ~missed => sniffer \in Dead

\* A call of stop() that is not over has not returned.
Called == returned <= calls /\ (main \in Stopping => returned < calls)

Inv == TypeOK /\ Called /\ Kept /\ Inserted /\ NothingHeld /\ ClosedUpTo /\ Halted

-----------------------------------------------------------------------------
\* What the storage steps make of a count for each backend.
LEMMA Updates ==
  \A S : \A f \in [S -> Nat], g \in [S -> Nat], s \in S :
    /\ [f EXCEPT ![s] = 0] \in [S -> Nat]
    /\ [f EXCEPT ![s] = @ + 1] \in [S -> Nat]
    /\ [f EXCEPT ![s] = @ + g[s]] \in [S -> Nat]
    /\ [f EXCEPT ![s] = @ + g[s] + 1] \in [S -> Nat]
<1> SUFFICES ASSUME NEW S, NEW f \in [S -> Nat], NEW g \in [S -> Nat], NEW s \in S
             PROVE  /\ [f EXCEPT ![s] = 0] \in [S -> Nat]
                    /\ [f EXCEPT ![s] = @ + 1] \in [S -> Nat]
                    /\ [f EXCEPT ![s] = @ + g[s]] \in [S -> Nat]
                    /\ [f EXCEPT ![s] = @ + g[s] + 1] \in [S -> Nat]
  OBVIOUS
<1>1. f[s] \in Nat /\ g[s] \in Nat
  OBVIOUS
<1>2. f[s] + 1 \in Nat /\ f[s] + g[s] \in Nat /\ f[s] + g[s] + 1 \in Nat
  BY <1>1
<1>3. \A n \in Nat : [f EXCEPT ![s] = n] \in [S -> Nat]
  OBVIOUS
<1> QED
  BY <1>2, <1>3

\* There is at least one backend, and each is a file or a database.
LEMMA BackendNames ==
  /\ Len(Backends) \in Nat /\ Len(Backends) >= 1
  /\ Sinks = 1..Len(Backends) /\ 1 \in Sinks
  /\ \A b \in Sinks : Backends[b] \in {"jsonl", "sqlite"}
  /\ MaxPackets \in Nat /\ MaxFaults \in Nat
BY CaptureAssumption DEF CaptureAssumption, Sinks

LEMMA InvInit == Init => Inv
<1> SUFFICES ASSUME Init PROVE Inv
  OBVIOUS
<1>1. TypeOK
  <2>1. rows \in [Sinks -> Nat] /\ pending \in [Sinks -> Nat] /\ open \in [Sinks -> BOOLEAN]
    BY DEF Init
  <2>2. j \in Sinks /\ k \in Sinks /\ faults \in 0..MaxFaults /\ delivered \in 0..MaxPackets
    BY BackendNames DEF Init
  <2>3. lost \subseteq Sinks /\ missed \in BOOLEAN /\ running \in BOOLEAN /\ halt \in BOOLEAN
    BY DEF Init
  <2>4. /\ captured \in Nat /\ errors \in Nat /\ routed \in Nat
        /\ calls \in 0..2 /\ returned \in 0..2
    BY DEF Init
  <2>5. /\ packet \in {"ip", "other"} /\ types \in Variants
        /\ main = "new" /\ sniffer = "none"
    BY DEF Init
  <2> QED
    BY <2>1, <2>2, <2>3, <2>4, <2>5 DEF TypeOK
<1>2. Called /\ Inserted /\ NothingHeld
  BY BackendNames DEF Init, Called, Inserted, NothingHeld, Stopping
<1>3. Kept
  BY BackendNames DEF Init, Kept, Stored, Outstanding
<1>4. ClosedUpTo /\ Halted
  BY BackendNames DEF Init, ClosedUpTo, Halted, Sniffing, Callback, Dead
<1> QED
  BY <1>1, <1>2, <1>3, <1>4 DEF Inv

\* Every variable keeps its domain: j and k stay on a backend.
LEMMA TypeStep == TypeOK /\ Called /\ [Next]_vars => TypeOK'
<1> SUFFICES ASSUME TypeOK /\ Called, [Next]_vars
             PROVE  TypeOK'
  OBVIOUS
<1> USE BackendNames DEF TypeOK, Called, Stopping, Sniffing, Callback
<1>1. CASE Start /\ UNCHANGED types
  BY <1>1 DEF Start, MainAt, MainGoto, mainvars, thread, counters, storage
<1>2. CASE CallStop /\ UNCHANGED types
  BY <1>2 DEF CallStop, mainvars, thread, counters, storage
<1>3. CASE Exit /\ UNCHANGED types
  BY <1>3 DEF Exit, MainGoto, mainvars, thread, counters, storage
<1>4. CASE CheckRunning /\ UNCHANGED types
  BY <1>4 DEF CheckRunning, MainAt, mainvars, thread, counters, storage
<1>5. CASE Halt /\ UNCHANGED types
  BY <1>5
     DEF Halt, MainAt, MainGoto, StopRaises, Sniffing, Callback, mainvars,
         thread, counters, storage
<1>6. CASE Join /\ UNCHANGED types
  BY <1>6 DEF Join, MainAt, MainGoto, mainvars, thread, counters, storage
<1>7. CASE CloseFile /\ UNCHANGED types
  <2>a. rows \in [Sinks -> Nat] /\ pending \in [Sinks -> Nat] /\ j \in Sinks /\ k \in Sinks
    OBVIOUS
  <2> HIDE DEF TypeOK, Called
  <2>1. rows' \in [Sinks -> Nat]
    BY <2>a, <1>7, Updates
       DEF CloseFile, MainAt, NextClose, Committed, mainvars, thread, counters,
           storage
  <2>2. pending' \in [Sinks -> Nat]
    BY <2>a, <1>7, Updates
       DEF CloseFile, MainAt, NextClose, Committed, mainvars, thread, counters,
           storage
  <2> USE DEF TypeOK, Called
  <2>3. open' \in [Sinks -> BOOLEAN] /\ lost' \subseteq Sinks
    BY <1>7
       DEF CloseFile, MainAt, NextClose, Committed, mainvars, thread, counters,
           storage
  <2>4. j' \in Sinks /\ k' \in Sinks /\ calls' \in 0..2 /\ returned' \in 0..2
    BY <1>7
       DEF CloseFile, MainAt, NextClose, Committed, mainvars, thread, counters,
           storage
  <2>5. captured' \in Nat /\ errors' \in Nat /\ delivered' \in 0..MaxPackets /\ routed' \in Nat
    BY <1>7
       DEF CloseFile, MainAt, NextClose, Committed, mainvars, thread, counters,
           storage
  <2>6. main' \in {"new", "traffic", "caught", "returned", "done", "killed"} \union Stopping
    BY <1>7
       DEF CloseFile, MainAt, NextClose, Committed, mainvars, thread, counters,
           storage
  <2>7. sniffer' \in {"none", "started", "opening", "died", "ended", "killed", "cut"} \union Sniffing
    BY <1>7
       DEF CloseFile, MainAt, NextClose, Committed, mainvars, thread, counters,
           storage
  <2>8. missed' \in BOOLEAN /\ running' \in BOOLEAN /\ halt' \in BOOLEAN /\ packet' \in {"ip", "other"} /\ types' \in Variants /\ faults' \in 0..MaxFaults
    BY <1>7
       DEF CloseFile, MainAt, NextClose, Committed, mainvars, thread, counters,
           storage
  <2> QED
    BY <2>1, <2>2, <2>3, <2>4, <2>5, <2>6, <2>7, <2>8 DEF TypeOK
<1>8. CASE CommitDb /\ UNCHANGED types
  <2>a. rows \in [Sinks -> Nat] /\ pending \in [Sinks -> Nat] /\ j \in Sinks /\ k \in Sinks
    OBVIOUS
  <2> HIDE DEF TypeOK, Called
  <2>1. rows' \in [Sinks -> Nat]
    BY <2>a, <1>8, Updates
       DEF CommitDb, MainAt, MainGoto, StopRaises, Committed, mainvars, thread,
           counters, storage
  <2>2. pending' \in [Sinks -> Nat]
    BY <2>a, <1>8, Updates
       DEF CommitDb, MainAt, MainGoto, StopRaises, Committed, mainvars, thread,
           counters, storage
  <2> USE DEF TypeOK, Called
  <2>3. open' \in [Sinks -> BOOLEAN] /\ lost' \subseteq Sinks
    BY <1>8
       DEF CommitDb, MainAt, MainGoto, StopRaises, Committed, mainvars, thread,
           counters, storage
  <2>4. j' \in Sinks /\ k' \in Sinks /\ calls' \in 0..2 /\ returned' \in 0..2
    BY <1>8
       DEF CommitDb, MainAt, MainGoto, StopRaises, Committed, mainvars, thread,
           counters, storage
  <2>5. captured' \in Nat /\ errors' \in Nat /\ delivered' \in 0..MaxPackets /\ routed' \in Nat
    BY <1>8
       DEF CommitDb, MainAt, MainGoto, StopRaises, Committed, mainvars, thread,
           counters, storage
  <2>6. main' \in {"new", "traffic", "caught", "returned", "done", "killed"} \union Stopping
    BY <1>8
       DEF CommitDb, MainAt, MainGoto, StopRaises, Committed, mainvars, thread,
           counters, storage
  <2>7. sniffer' \in {"none", "started", "opening", "died", "ended", "killed", "cut"} \union Sniffing
    BY <1>8
       DEF CommitDb, MainAt, MainGoto, StopRaises, Committed, mainvars, thread,
           counters, storage
  <2>8. missed' \in BOOLEAN /\ running' \in BOOLEAN /\ halt' \in BOOLEAN /\ packet' \in {"ip", "other"} /\ types' \in Variants /\ faults' \in 0..MaxFaults
    BY <1>8
       DEF CommitDb, MainAt, MainGoto, StopRaises, Committed, mainvars, thread,
           counters, storage
  <2> QED
    BY <2>1, <2>2, <2>3, <2>4, <2>5, <2>6, <2>7, <2>8 DEF TypeOK
<1>9. CASE CloseDb /\ UNCHANGED types
  BY <1>9 DEF CloseDb, MainAt, NextClose, mainvars, thread, counters, storage
<1>10. CASE Begin /\ UNCHANGED types
  BY <1>10 DEF Begin, mainvars, thread, counters, storage
<1>11. CASE Open /\ UNCHANGED types
  BY <1>11 DEF Open, ThreadGoto, mainvars, thread, counters, storage
<1>12. CASE Quit /\ UNCHANGED types
  BY <1>12 DEF Quit, mainvars, thread, counters, storage
<1>13. CASE Extract /\ UNCHANGED types
  BY <1>13, SMTT(30)
     DEF Extract, ThreadGoto, CallbackRaises, mainvars, thread, counters,
         storage
<1>14. CASE Count /\ UNCHANGED types
  BY <1>14 DEF Count, mainvars, thread, counters, storage
<1>15. CASE WriteFile /\ UNCHANGED types
  <2>a. rows \in [Sinks -> Nat] /\ pending \in [Sinks -> Nat] /\ j \in Sinks /\ k \in Sinks
    OBVIOUS
  <2> HIDE DEF TypeOK, Called
  <2>1. rows' \in [Sinks -> Nat]
    BY <2>a, <1>15, Updates
       DEF WriteFile, NextSink, ThreadGoto, CallbackRaises, mainvars, thread,
           counters, storage
  <2>2. pending' \in [Sinks -> Nat]
    BY <2>a, <1>15, Updates
       DEF WriteFile, NextSink, ThreadGoto, CallbackRaises, mainvars, thread,
           counters, storage
  <2> USE DEF TypeOK, Called
  <2>3. open' \in [Sinks -> BOOLEAN] /\ lost' \subseteq Sinks
    BY <1>15
       DEF WriteFile, NextSink, ThreadGoto, CallbackRaises, mainvars, thread,
           counters, storage
  <2>4. j' \in Sinks /\ k' \in Sinks /\ calls' \in 0..2 /\ returned' \in 0..2
    BY <1>15
       DEF WriteFile, NextSink, ThreadGoto, CallbackRaises, mainvars, thread,
           counters, storage
  <2>5. captured' \in Nat /\ errors' \in Nat /\ delivered' \in 0..MaxPackets /\ routed' \in Nat
    BY <1>15
       DEF WriteFile, NextSink, ThreadGoto, CallbackRaises, mainvars, thread,
           counters, storage
  <2>6. main' \in {"new", "traffic", "caught", "returned", "done", "killed"} \union Stopping
    BY <1>15
       DEF WriteFile, NextSink, ThreadGoto, CallbackRaises, mainvars, thread,
           counters, storage
  <2>7. sniffer' \in {"none", "started", "opening", "died", "ended", "killed", "cut"} \union Sniffing
    BY <1>15
       DEF WriteFile, NextSink, ThreadGoto, CallbackRaises, mainvars, thread,
           counters, storage
  <2>8. missed' \in BOOLEAN /\ running' \in BOOLEAN /\ halt' \in BOOLEAN /\ packet' \in {"ip", "other"} /\ types' \in Variants /\ faults' \in 0..MaxFaults
    BY <1>15
       DEF WriteFile, NextSink, ThreadGoto, CallbackRaises, mainvars, thread,
           counters, storage
  <2> QED
    BY <2>1, <2>2, <2>3, <2>4, <2>5, <2>6, <2>7, <2>8 DEF TypeOK
<1>16. CASE Insert /\ UNCHANGED types
  <2>a. rows \in [Sinks -> Nat] /\ pending \in [Sinks -> Nat] /\ j \in Sinks /\ k \in Sinks
    OBVIOUS
  <2> HIDE DEF TypeOK, Called
  <2>1. rows' \in [Sinks -> Nat]
    BY <2>a, <1>16, Updates
       DEF Insert, ThreadGoto, CallbackRaises, mainvars, thread, counters,
           storage
  <2>2. pending' \in [Sinks -> Nat]
    BY <2>a, <1>16, Updates
       DEF Insert, ThreadGoto, CallbackRaises, mainvars, thread, counters,
           storage
  <2> USE DEF TypeOK, Called
  <2>3. open' \in [Sinks -> BOOLEAN] /\ lost' \subseteq Sinks
    BY <1>16
       DEF Insert, ThreadGoto, CallbackRaises, mainvars, thread, counters,
           storage
  <2>4. j' \in Sinks /\ k' \in Sinks /\ calls' \in 0..2 /\ returned' \in 0..2
    BY <1>16
       DEF Insert, ThreadGoto, CallbackRaises, mainvars, thread, counters,
           storage
  <2>5. captured' \in Nat /\ errors' \in Nat /\ delivered' \in 0..MaxPackets /\ routed' \in Nat
    BY <1>16
       DEF Insert, ThreadGoto, CallbackRaises, mainvars, thread, counters,
           storage
  <2>6. main' \in {"new", "traffic", "caught", "returned", "done", "killed"} \union Stopping
    BY <1>16
       DEF Insert, ThreadGoto, CallbackRaises, mainvars, thread, counters,
           storage
  <2>7. sniffer' \in {"none", "started", "opening", "died", "ended", "killed", "cut"} \union Sniffing
    BY <1>16
       DEF Insert, ThreadGoto, CallbackRaises, mainvars, thread, counters,
           storage
  <2>8. missed' \in BOOLEAN /\ running' \in BOOLEAN /\ halt' \in BOOLEAN /\ packet' \in {"ip", "other"} /\ types' \in Variants /\ faults' \in 0..MaxFaults
    BY <1>16
       DEF Insert, ThreadGoto, CallbackRaises, mainvars, thread, counters,
           storage
  <2> QED
    BY <2>1, <2>2, <2>3, <2>4, <2>5, <2>6, <2>7, <2>8 DEF TypeOK
<1>17. CASE Commit /\ UNCHANGED types
  <2>a. rows \in [Sinks -> Nat] /\ pending \in [Sinks -> Nat] /\ j \in Sinks /\ k \in Sinks
    OBVIOUS
  <2> HIDE DEF TypeOK, Called
  <2>1. rows' \in [Sinks -> Nat]
    BY <2>a, <1>17, Updates
       DEF Commit, Committed, NextSink, ThreadGoto, CallbackRaises, mainvars,
           thread, counters, storage
  <2>2. pending' \in [Sinks -> Nat]
    BY <2>a, <1>17, Updates
       DEF Commit, Committed, NextSink, ThreadGoto, CallbackRaises, mainvars,
           thread, counters, storage
  <2> USE DEF TypeOK, Called
  <2>3. open' \in [Sinks -> BOOLEAN] /\ lost' \subseteq Sinks
    BY <1>17
       DEF Commit, Committed, NextSink, ThreadGoto, CallbackRaises, mainvars,
           thread, counters, storage
  <2>4. j' \in Sinks /\ k' \in Sinks /\ calls' \in 0..2 /\ returned' \in 0..2
    BY <1>17
       DEF Commit, Committed, NextSink, ThreadGoto, CallbackRaises, mainvars,
           thread, counters, storage
  <2>5. captured' \in Nat /\ errors' \in Nat /\ delivered' \in 0..MaxPackets /\ routed' \in Nat
    BY <1>17
       DEF Commit, Committed, NextSink, ThreadGoto, CallbackRaises, mainvars,
           thread, counters, storage
  <2>6. main' \in {"new", "traffic", "caught", "returned", "done", "killed"} \union Stopping
    BY <1>17
       DEF Commit, Committed, NextSink, ThreadGoto, CallbackRaises, mainvars,
           thread, counters, storage
  <2>7. sniffer' \in {"none", "started", "opening", "died", "ended", "killed", "cut"} \union Sniffing
    BY <1>17
       DEF Commit, Committed, NextSink, ThreadGoto, CallbackRaises, mainvars,
           thread, counters, storage
  <2>8. missed' \in BOOLEAN /\ running' \in BOOLEAN /\ halt' \in BOOLEAN /\ packet' \in {"ip", "other"} /\ types' \in Variants /\ faults' \in 0..MaxFaults
    BY <1>17
       DEF Commit, Committed, NextSink, ThreadGoto, CallbackRaises, mainvars,
           thread, counters, storage
  <2> QED
    BY <2>1, <2>2, <2>3, <2>4, <2>5, <2>6, <2>7, <2>8 DEF TypeOK
<1>18. CASE SourceEnds /\ UNCHANGED types
  BY <1>18 DEF SourceEnds, mainvars, thread, counters, storage
<1>19. CASE Receive /\ UNCHANGED types
  BY <1>19 DEF Receive, mainvars, thread, counters, storage
<1>20. CASE StartFails /\ UNCHANGED types
  BY <1>20
     DEF StartFails, MainAt, MainGoto, Fault, mainvars, thread, counters,
         storage
<1>21. CASE WriteFails /\ UNCHANGED types
  BY <1>21
     DEF WriteFails, ThreadGoto, CallbackRaises, Fault, mainvars, thread,
         counters, storage
<1>22. CASE CloseFails /\ UNCHANGED types
  <2>a. rows \in [Sinks -> Nat] /\ pending \in [Sinks -> Nat] /\ j \in Sinks /\ k \in Sinks
    OBVIOUS
  <2> HIDE DEF TypeOK, Called
  <2>1. rows' \in [Sinks -> Nat]
    BY <2>a, <1>22, Updates
       DEF CloseFails, MainGoto, StopRaises, Fault, mainvars, thread, counters,
           storage
  <2>2. pending' \in [Sinks -> Nat]
    BY <2>a, <1>22, Updates
       DEF CloseFails, MainGoto, StopRaises, Fault, mainvars, thread, counters,
           storage
  <2> USE DEF TypeOK, Called
  <2>3. open' \in [Sinks -> BOOLEAN] /\ lost' \subseteq Sinks
    BY <1>22
       DEF CloseFails, MainGoto, StopRaises, Fault, mainvars, thread, counters,
           storage
  <2>4. j' \in Sinks /\ k' \in Sinks /\ calls' \in 0..2 /\ returned' \in 0..2
    BY <1>22
       DEF CloseFails, MainGoto, StopRaises, Fault, mainvars, thread, counters,
           storage
  <2>5. captured' \in Nat /\ errors' \in Nat /\ delivered' \in 0..MaxPackets /\ routed' \in Nat
    BY <1>22
       DEF CloseFails, MainGoto, StopRaises, Fault, mainvars, thread, counters,
           storage
  <2>6. main' \in {"new", "traffic", "caught", "returned", "done", "killed"} \union Stopping
    BY <1>22
       DEF CloseFails, MainGoto, StopRaises, Fault, mainvars, thread, counters,
           storage
  <2>7. sniffer' \in {"none", "started", "opening", "died", "ended", "killed", "cut"} \union Sniffing
    BY <1>22
       DEF CloseFails, MainGoto, StopRaises, Fault, mainvars, thread, counters,
           storage
  <2>8. missed' \in BOOLEAN /\ running' \in BOOLEAN /\ halt' \in BOOLEAN /\ packet' \in {"ip", "other"} /\ types' \in Variants /\ faults' \in 0..MaxFaults
    BY <1>22
       DEF CloseFails, MainGoto, StopRaises, Fault, mainvars, thread, counters,
           storage
  <2> QED
    BY <2>1, <2>2, <2>3, <2>4, <2>5, <2>6, <2>7, <2>8 DEF TypeOK
<1>23. CASE Interrupt /\ UNCHANGED types
  BY <1>23
     DEF Interrupt, Stopping, MainGoto, StopRaises, Fault, mainvars, thread,
         counters, storage
<1>24. CASE Kill /\ UNCHANGED types
  <2>a. rows \in [Sinks -> Nat] /\ pending \in [Sinks -> Nat] /\ j \in Sinks /\ k \in Sinks
    OBVIOUS
  <2> HIDE DEF TypeOK, Called
  <2>1. rows' \in [Sinks -> Nat]
    BY <2>a, <1>24, Updates
       DEF Kill, MainGoto, ThreadGoto, Fault, Callback, mainvars, thread,
           counters, storage
  <2>2. pending' \in [Sinks -> Nat]
    BY <2>a, <1>24, Updates
       DEF Kill, MainGoto, ThreadGoto, Fault, Callback, mainvars, thread,
           counters, storage
  <2> USE DEF TypeOK, Called
  <2>3. open' \in [Sinks -> BOOLEAN] /\ lost' \subseteq Sinks
    BY <1>24
       DEF Kill, MainGoto, ThreadGoto, Fault, Callback, mainvars, thread,
           counters, storage
  <2>4. j' \in Sinks /\ k' \in Sinks /\ calls' \in 0..2 /\ returned' \in 0..2
    BY <1>24
       DEF Kill, MainGoto, ThreadGoto, Fault, Callback, mainvars, thread,
           counters, storage
  <2>5. captured' \in Nat /\ errors' \in Nat /\ delivered' \in 0..MaxPackets /\ routed' \in Nat
    BY <1>24
       DEF Kill, MainGoto, ThreadGoto, Fault, Callback, mainvars, thread,
           counters, storage
  <2>6. main' \in {"new", "traffic", "caught", "returned", "done", "killed"} \union Stopping
    BY <1>24
       DEF Kill, MainGoto, ThreadGoto, Fault, Callback, mainvars, thread,
           counters, storage
  <2>7. sniffer' \in {"none", "started", "opening", "died", "ended", "killed", "cut"} \union Sniffing
    BY <1>24
       DEF Kill, MainGoto, ThreadGoto, Fault, Callback, mainvars, thread,
           counters, storage
  <2>8. missed' \in BOOLEAN /\ running' \in BOOLEAN /\ halt' \in BOOLEAN /\ packet' \in {"ip", "other"} /\ types' \in Variants /\ faults' \in 0..MaxFaults
    BY <1>24
       DEF Kill, MainGoto, ThreadGoto, Fault, Callback, mainvars, thread,
           counters, storage
  <2> QED
    BY <2>1, <2>2, <2>3, <2>4, <2>5, <2>6, <2>7, <2>8 DEF TypeOK
<1>25. CASE UNCHANGED vars
  BY <1>25 DEF vars, mainvars, thread, counters, storage
<1> QED
  BY <1>1, <1>2, <1>3, <1>4, <1>5, <1>6, <1>7, <1>8, <1>9, <1>10, <1>11, <1>12, <1>13, <1>14, <1>15, <1>16, <1>17, <1>18, <1>19, <1>20, <1>21, <1>22, <1>23, <1>24, <1>25
     DEF Next, Main, Thread, Environment

\* No call of stop() returns twice.
LEMMA CalledStep == TypeOK /\ Called /\ [Next]_vars => Called'
<1> SUFFICES ASSUME TypeOK /\ Called, [Next]_vars
             PROVE  Called'
  OBVIOUS
<1> USE BackendNames DEF TypeOK, Called, Stopping
<1>1. CASE Start /\ UNCHANGED types
  BY <1>1 DEF Start, MainAt, MainGoto, mainvars, thread, counters, storage
<1>2. CASE CallStop /\ UNCHANGED types
  BY <1>2 DEF CallStop, mainvars, thread, counters, storage
<1>3. CASE Exit /\ UNCHANGED types
  BY <1>3 DEF Exit, MainGoto, mainvars, thread, counters, storage
<1>4. CASE CheckRunning /\ UNCHANGED types
  BY <1>4 DEF CheckRunning, MainAt, mainvars, thread, counters, storage
<1>5. CASE Halt /\ UNCHANGED types
  BY <1>5
     DEF Halt, MainAt, MainGoto, StopRaises, Sniffing, Callback, mainvars,
         thread, counters, storage
<1>6. CASE Join /\ UNCHANGED types
  BY <1>6 DEF Join, MainAt, MainGoto, mainvars, thread, counters, storage
<1>7. CASE CloseFile /\ UNCHANGED types
  BY <1>7
     DEF CloseFile, MainAt, NextClose, Committed, mainvars, thread, counters,
         storage
<1>8. CASE CommitDb /\ UNCHANGED types
  BY <1>8
     DEF CommitDb, MainAt, MainGoto, StopRaises, Committed, mainvars, thread,
         counters, storage
<1>9. CASE CloseDb /\ UNCHANGED types
  BY <1>9 DEF CloseDb, MainAt, NextClose, mainvars, thread, counters, storage
<1>10. CASE Begin /\ UNCHANGED types
  BY <1>10 DEF Begin, mainvars, thread, counters, storage
<1>11. CASE Open /\ UNCHANGED types
  BY <1>11 DEF Open, ThreadGoto, mainvars, thread, counters, storage
<1>12. CASE Quit /\ UNCHANGED types
  BY <1>12 DEF Quit, mainvars, thread, counters, storage
<1>13. CASE Extract /\ UNCHANGED types
  BY <1>13
     DEF Extract, ThreadGoto, CallbackRaises, mainvars, thread, counters,
         storage
<1>14. CASE Count /\ UNCHANGED types
  BY <1>14 DEF Count, mainvars, thread, counters, storage
<1>15. CASE WriteFile /\ UNCHANGED types
  BY <1>15
     DEF WriteFile, NextSink, ThreadGoto, CallbackRaises, mainvars, thread,
         counters, storage
<1>16. CASE Insert /\ UNCHANGED types
  BY <1>16
     DEF Insert, ThreadGoto, CallbackRaises, mainvars, thread, counters,
         storage
<1>17. CASE Commit /\ UNCHANGED types
  BY <1>17
     DEF Commit, Committed, NextSink, ThreadGoto, CallbackRaises, mainvars,
         thread, counters, storage
<1>18. CASE SourceEnds /\ UNCHANGED types
  BY <1>18 DEF SourceEnds, mainvars, thread, counters, storage
<1>19. CASE Receive /\ UNCHANGED types
  BY <1>19 DEF Receive, mainvars, thread, counters, storage
<1>20. CASE StartFails /\ UNCHANGED types
  BY <1>20
     DEF StartFails, MainAt, MainGoto, Fault, mainvars, thread, counters,
         storage
<1>21. CASE WriteFails /\ UNCHANGED types
  BY <1>21
     DEF WriteFails, ThreadGoto, CallbackRaises, Fault, mainvars, thread,
         counters, storage
<1>22. CASE CloseFails /\ UNCHANGED types
  BY <1>22
     DEF CloseFails, MainGoto, StopRaises, Fault, mainvars, thread, counters,
         storage
<1>23. CASE Interrupt /\ UNCHANGED types
  BY <1>23
     DEF Interrupt, Stopping, MainGoto, StopRaises, Fault, mainvars, thread,
         counters, storage
<1>24. CASE Kill /\ UNCHANGED types
  BY <1>24
     DEF Kill, MainGoto, ThreadGoto, Fault, Callback, mainvars, thread,
         counters, storage
<1>25. CASE UNCHANGED vars
  BY <1>25 DEF vars, mainvars, thread, counters, storage
<1> QED
  BY <1>1, <1>2, <1>3, <1>4, <1>5, <1>6, <1>7, <1>8, <1>9, <1>10, <1>11, <1>12, <1>13, <1>14, <1>15, <1>16, <1>17, <1>18, <1>19, <1>20, <1>21, <1>22, <1>23, <1>24, <1>25
     DEF Next, Main, Thread, Environment

\* No step of either thread drops a packet without an error.
LEMMA KeptStep == Inv /\ [Next]_vars => Kept'
<1> SUFFICES ASSUME Inv, [Next]_vars
             PROVE  Kept'
  OBVIOUS
<1> USE BackendNames DEF Stored, Outstanding
<1> SUFFICES ASSUME NEW b \in Sinks
             PROVE  /\ b \in lost' => Backends[b] = "jsonl"
                    /\ b \notin lost' => delivered' <= Stored(b)' + errors' + Outstanding(b)'
  BY DEF Kept
<1>a. /\ b \in lost => Backends[b] = "jsonl"
      /\ b \notin lost => delivered <= Stored(b) + errors + Outstanding(b)
  BY DEF Inv, Kept
<1>b. /\ rows \in [Sinks -> Nat] /\ pending \in [Sinks -> Nat] /\ open \in [Sinks -> BOOLEAN]
      /\ errors \in Nat /\ delivered \in Nat /\ j \in Sinks /\ k \in Sinks
      /\ rows[b] \in Nat /\ pending[b] \in Nat
  BY SMTT(30) DEF Inv, TypeOK
<1>c. /\ sniffer = "commit" => Backends[j] = "sqlite" /\ (open[j] => delivered <= rows[j] + pending[j] + errors)
      /\ main = "close_db" => Backends[k] = "sqlite"
      /\ main = "new" => sniffer = "none"
      /\ sniffer = "cut" => main = "killed"
  BY DEF Inv, Inserted, ClosedUpTo, Halted
<1> USE <1>a, <1>b, <1>c
<1>1. CASE Start /\ UNCHANGED types
  BY <1>1 DEF Start, MainAt, MainGoto, mainvars, thread, counters, storage
<1>2. CASE CallStop /\ UNCHANGED types
  BY <1>2 DEF CallStop, mainvars, thread, counters, storage
<1>3. CASE Exit /\ UNCHANGED types
  BY <1>3 DEF Exit, MainGoto, mainvars, thread, counters, storage
<1>4. CASE CheckRunning /\ UNCHANGED types
  BY <1>4 DEF CheckRunning, MainAt, mainvars, thread, counters, storage
<1>5. CASE Halt /\ UNCHANGED types
  BY <1>5
     DEF Halt, MainAt, MainGoto, StopRaises, Sniffing, Callback, mainvars,
         thread, counters, storage
<1>6. CASE Join /\ UNCHANGED types
  BY <1>6 DEF Join, MainAt, MainGoto, mainvars, thread, counters, storage
<1>7. CASE CloseFile /\ UNCHANGED types
  BY <1>7
     DEF CloseFile, MainAt, NextClose, Committed, mainvars, thread, counters,
         storage
<1>8. CASE CommitDb /\ UNCHANGED types
  <2>1. CASE b # k
    <3>1. rows'[b] = rows[b] /\ pending'[b] = pending[b]
      BY <1>8, <2>1
         DEF CommitDb, MainAt, MainGoto, StopRaises, Committed, mainvars,
             thread, counters, storage
    <3> QED
      BY <1>8, <2>1, <3>1
         DEF CommitDb, MainAt, MainGoto, StopRaises, Committed, mainvars,
             thread, counters, storage
  <2>2. CASE b = k
    <3>1. CASE open[k]
      <4>1. rows'[b] = rows[b] + pending[b]
        BY <1>8, <2>2, <3>1
           DEF CommitDb, MainAt, MainGoto, StopRaises, Committed, mainvars,
               thread, counters, storage
      <4> QED
        BY <1>8, <2>2, <3>1, <4>1
           DEF CommitDb, MainAt, MainGoto, StopRaises, Committed, mainvars,
               thread, counters, storage
    <3>2. CASE ~open[k]
      BY <1>8, <2>2, <3>2
         DEF CommitDb, MainAt, MainGoto, StopRaises, Committed, mainvars,
             thread, counters, storage
    <3> QED
      BY <3>1, <3>2
  <2> QED
    BY <2>1, <2>2
<1>9. CASE CloseDb /\ UNCHANGED types
  BY <1>9 DEF CloseDb, MainAt, NextClose, mainvars, thread, counters, storage
<1>10. CASE Begin /\ UNCHANGED types
  BY <1>10 DEF Begin, mainvars, thread, counters, storage
<1>11. CASE Open /\ UNCHANGED types
  BY <1>11 DEF Open, ThreadGoto, mainvars, thread, counters, storage
<1>12. CASE Quit /\ UNCHANGED types
  BY <1>12 DEF Quit, mainvars, thread, counters, storage
<1>13. CASE Extract /\ UNCHANGED types
  BY <1>13
     DEF Extract, ThreadGoto, CallbackRaises, mainvars, thread, counters,
         storage
<1>14. CASE Count /\ UNCHANGED types
  BY <1>14 DEF Count, mainvars, thread, counters, storage
<1>15. CASE WriteFile /\ UNCHANGED types
  <2>1. CASE b # j
    <3>1. rows'[b] = rows[b] /\ pending'[b] = pending[b]
      BY <1>15, <2>1
         DEF WriteFile, NextSink, ThreadGoto, CallbackRaises, mainvars, thread,
             counters, storage
    <3>2. CASE ~(types.toDict /\ open[j])
      BY <1>15, <2>1, <3>1, <3>2, SMTT(30)
         DEF WriteFile, NextSink, ThreadGoto, CallbackRaises, mainvars, thread,
             counters, storage
    <3>3. CASE types.toDict /\ open[j]
      <4>1. UNCHANGED <<errors, delivered, lost>> /\ Stored(b)' = Stored(b)
        BY <1>15, <2>1, <3>1, <3>3
           DEF WriteFile, NextSink, ThreadGoto, CallbackRaises, mainvars,
               thread, counters, storage
      <4>2. Outstanding(b) <= Outstanding(b)'
        BY <1>15, <2>1, <3>3
           DEF WriteFile, NextSink, ThreadGoto, CallbackRaises, mainvars,
               thread, counters, storage
      <4>3. Outstanding(b) \in Nat /\ Outstanding(b)' \in Nat /\ Stored(b) \in Nat
        OBVIOUS
      <4> HIDE DEF Outstanding, Stored
      <4> QED
        BY <4>1, <4>2, <4>3
    <3> QED
      BY <3>2, <3>3
  <2>2. CASE b = j
    <3>1. CASE types.toDict /\ open[j]
      <4>1. rows'[b] + pending'[b] = rows[b] + pending[b] + 1
        BY <1>15, <2>2, <3>1
           DEF WriteFile, NextSink, ThreadGoto, CallbackRaises, mainvars,
               thread, counters, storage
      <4> QED
        BY <1>15, <2>2, <3>1, <4>1
           DEF WriteFile, NextSink, ThreadGoto, CallbackRaises, mainvars,
               thread, counters, storage
    <3>2. CASE ~(types.toDict /\ open[j])
      BY <1>15, <2>2, <3>2
         DEF WriteFile, NextSink, ThreadGoto, CallbackRaises, mainvars, thread,
             counters, storage
    <3> QED
      BY <3>1, <3>2
  <2> QED
    BY <2>1, <2>2
<1>16. CASE Insert /\ UNCHANGED types
  BY <1>16, SMTT(30)
     DEF Insert, ThreadGoto, CallbackRaises, mainvars, thread, counters,
         storage
<1>17. CASE Commit /\ UNCHANGED types
  <2>1. CASE b # j
    <3>1. rows'[b] = rows[b] /\ pending'[b] = pending[b]
      BY <1>17, <2>1
         DEF Commit, Committed, NextSink, ThreadGoto, CallbackRaises, mainvars,
             thread, counters, storage
    <3> QED
      BY <1>17, <2>1, <3>1, SMTT(30)
         DEF Commit, Committed, NextSink, ThreadGoto, CallbackRaises, mainvars,
             thread, counters, storage
  <2>2. CASE b = j
    <3>1. CASE open[j]
      <4>1. rows'[b] = rows[b] + pending[b] /\ errors' = errors /\ delivered' = delivered
        BY <1>17, <2>2, <3>1
           DEF Commit, Committed, NextSink, ThreadGoto, CallbackRaises,
               mainvars, thread, counters, storage
      <4>2. delivered <= rows[b] + pending[b] + errors /\ Backends[b] = "sqlite" /\ lost' = lost
        BY <1>17, <2>2, <3>1
           DEF Commit, Committed, NextSink, ThreadGoto, CallbackRaises,
               mainvars, thread, counters, storage
      <4>3. Outstanding(b)' \in Nat
        OBVIOUS
      <4>4. Stored(b)' = rows'[b]
        BY <4>2
      <4> HIDE DEF Outstanding, Stored
      <4> QED
        BY <4>1, <4>2, <4>3, <4>4
    <3>2. CASE ~open[j]
      BY <1>17, <2>2, <3>2, SMTT(30)
         DEF Commit, Committed, NextSink, ThreadGoto, CallbackRaises, mainvars,
             thread, counters, storage
    <3> QED
      BY <3>1, <3>2
  <2> QED
    BY <2>1, <2>2
<1>18. CASE SourceEnds /\ UNCHANGED types
  BY <1>18 DEF SourceEnds, mainvars, thread, counters, storage
<1>19. CASE Receive /\ UNCHANGED types
  BY <1>19 DEF Receive, mainvars, thread, counters, storage
<1>20. CASE StartFails /\ UNCHANGED types
  BY <1>20
     DEF StartFails, MainAt, MainGoto, Fault, mainvars, thread, counters,
         storage
<1>21. CASE WriteFails /\ UNCHANGED types
  BY <1>21, SMTT(30)
     DEF WriteFails, ThreadGoto, CallbackRaises, Fault, mainvars, thread,
         counters, storage
<1>22. CASE CloseFails /\ UNCHANGED types
  BY <1>22
     DEF CloseFails, MainGoto, StopRaises, Fault, mainvars, thread, counters,
         storage
<1>23. CASE Interrupt /\ UNCHANGED types
  BY <1>23
     DEF Interrupt, Stopping, MainGoto, StopRaises, Fault, mainvars, thread,
         counters, storage
<1>24. CASE Kill /\ UNCHANGED types
  BY <1>24
     DEF Kill, MainGoto, ThreadGoto, Fault, Callback, mainvars, thread,
         counters, storage
<1>25. CASE UNCHANGED vars
  BY <1>25 DEF vars, mainvars, thread, counters, storage
<1> QED
  BY <1>1, <1>2, <1>3, <1>4, <1>5, <1>6, <1>7, <1>8, <1>9, <1>10, <1>11, <1>12, <1>13, <1>14, <1>15, <1>16, <1>17, <1>18, <1>19, <1>20, <1>21, <1>22, <1>23, <1>24, <1>25
     DEF Next, Main, Thread, Environment

\* What the thread inserted waits for its commit, whoever commits.
LEMMA InsertedStep == Inv /\ [Next]_vars => Inserted'
<1> SUFFICES ASSUME Inv, [Next]_vars
             PROVE  Inserted'
  OBVIOUS
<1> USE BackendNames DEF Inv, TypeOK, Kept, Inserted, ClosedUpTo, Stored, Outstanding
<1>1. CASE Start /\ UNCHANGED types
  BY <1>1 DEF Start, MainAt, MainGoto, mainvars, thread, counters, storage
<1>2. CASE CallStop /\ UNCHANGED types
  BY <1>2 DEF CallStop, mainvars, thread, counters, storage
<1>3. CASE Exit /\ UNCHANGED types
  BY <1>3 DEF Exit, MainGoto, mainvars, thread, counters, storage
<1>4. CASE CheckRunning /\ UNCHANGED types
  BY <1>4 DEF CheckRunning, MainAt, mainvars, thread, counters, storage
<1>5. CASE Halt /\ UNCHANGED types
  BY <1>5
     DEF Halt, MainAt, MainGoto, StopRaises, Sniffing, Callback, mainvars,
         thread, counters, storage
<1>6. CASE Join /\ UNCHANGED types
  BY <1>6 DEF Join, MainAt, MainGoto, mainvars, thread, counters, storage
<1>7. CASE CloseFile /\ UNCHANGED types
  BY <1>7
     DEF CloseFile, MainAt, NextClose, Committed, mainvars, thread, counters,
         storage
<1>8. CASE CommitDb /\ UNCHANGED types
  BY <1>8, SMTT(30)
     DEF CommitDb, MainAt, MainGoto, StopRaises, Committed, mainvars, thread,
         counters, storage
<1>9. CASE CloseDb /\ UNCHANGED types
  BY <1>9 DEF CloseDb, MainAt, NextClose, mainvars, thread, counters, storage
<1>10. CASE Begin /\ UNCHANGED types
  BY <1>10 DEF Begin, mainvars, thread, counters, storage
<1>11. CASE Open /\ UNCHANGED types
  BY <1>11 DEF Open, ThreadGoto, mainvars, thread, counters, storage
<1>12. CASE Quit /\ UNCHANGED types
  BY <1>12 DEF Quit, mainvars, thread, counters, storage
<1>13. CASE Extract /\ UNCHANGED types
  BY <1>13
     DEF Extract, ThreadGoto, CallbackRaises, mainvars, thread, counters,
         storage
<1>14. CASE Count /\ UNCHANGED types
  BY <1>14 DEF Count, mainvars, thread, counters, storage
<1>15. CASE WriteFile /\ UNCHANGED types
  BY <1>15
     DEF WriteFile, NextSink, ThreadGoto, CallbackRaises, mainvars, thread,
         counters, storage
<1>16. CASE Insert /\ UNCHANGED types
  BY <1>16, SMTT(30)
     DEF Insert, ThreadGoto, CallbackRaises, mainvars, thread, counters,
         storage
<1>17. CASE Commit /\ UNCHANGED types
  BY <1>17
     DEF Commit, Committed, NextSink, ThreadGoto, CallbackRaises, mainvars,
         thread, counters, storage
<1>18. CASE SourceEnds /\ UNCHANGED types
  BY <1>18 DEF SourceEnds, mainvars, thread, counters, storage
<1>19. CASE Receive /\ UNCHANGED types
  BY <1>19 DEF Receive, mainvars, thread, counters, storage
<1>20. CASE StartFails /\ UNCHANGED types
  BY <1>20
     DEF StartFails, MainAt, MainGoto, Fault, mainvars, thread, counters,
         storage
<1>21. CASE WriteFails /\ UNCHANGED types
  BY <1>21
     DEF WriteFails, ThreadGoto, CallbackRaises, Fault, mainvars, thread,
         counters, storage
<1>22. CASE CloseFails /\ UNCHANGED types
  BY <1>22
     DEF CloseFails, MainGoto, StopRaises, Fault, mainvars, thread, counters,
         storage
<1>23. CASE Interrupt /\ UNCHANGED types
  BY <1>23
     DEF Interrupt, Stopping, MainGoto, StopRaises, Fault, mainvars, thread,
         counters, storage
<1>24. CASE Kill /\ UNCHANGED types
  BY <1>24
     DEF Kill, MainGoto, ThreadGoto, Fault, Callback, mainvars, thread,
         counters, storage
<1>25. CASE UNCHANGED vars
  BY <1>25 DEF vars, mainvars, thread, counters, storage
<1> QED
  BY <1>1, <1>2, <1>3, <1>4, <1>5, <1>6, <1>7, <1>8, <1>9, <1>10, <1>11, <1>12, <1>13, <1>14, <1>15, <1>16, <1>17, <1>18, <1>19, <1>20, <1>21, <1>22, <1>23, <1>24, <1>25
     DEF Next, Main, Thread, Environment

\* Nothing is written to a closed backend.
LEMMA NothingHeldStep == Inv /\ [Next]_vars => NothingHeld'
<1> SUFFICES ASSUME Inv, [Next]_vars
             PROVE  NothingHeld'
  OBVIOUS
<1> USE BackendNames DEF Inv, TypeOK, NothingHeld
<1>1. CASE Start /\ UNCHANGED types
  BY <1>1 DEF Start, MainAt, MainGoto, mainvars, thread, counters, storage
<1>2. CASE CallStop /\ UNCHANGED types
  BY <1>2 DEF CallStop, mainvars, thread, counters, storage
<1>3. CASE Exit /\ UNCHANGED types
  BY <1>3 DEF Exit, MainGoto, mainvars, thread, counters, storage
<1>4. CASE CheckRunning /\ UNCHANGED types
  BY <1>4 DEF CheckRunning, MainAt, mainvars, thread, counters, storage
<1>5. CASE Halt /\ UNCHANGED types
  BY <1>5
     DEF Halt, MainAt, MainGoto, StopRaises, Sniffing, Callback, mainvars,
         thread, counters, storage
<1>6. CASE Join /\ UNCHANGED types
  BY <1>6 DEF Join, MainAt, MainGoto, mainvars, thread, counters, storage
<1>7. CASE CloseFile /\ UNCHANGED types
  BY <1>7
     DEF CloseFile, MainAt, NextClose, Committed, mainvars, thread, counters,
         storage
<1>8. CASE CommitDb /\ UNCHANGED types
  BY <1>8
     DEF CommitDb, MainAt, MainGoto, StopRaises, Committed, mainvars, thread,
         counters, storage
<1>9. CASE CloseDb /\ UNCHANGED types
  BY <1>9 DEF CloseDb, MainAt, NextClose, mainvars, thread, counters, storage
<1>10. CASE Begin /\ UNCHANGED types
  BY <1>10 DEF Begin, mainvars, thread, counters, storage
<1>11. CASE Open /\ UNCHANGED types
  BY <1>11 DEF Open, ThreadGoto, mainvars, thread, counters, storage
<1>12. CASE Quit /\ UNCHANGED types
  BY <1>12 DEF Quit, mainvars, thread, counters, storage
<1>13. CASE Extract /\ UNCHANGED types
  BY <1>13
     DEF Extract, ThreadGoto, CallbackRaises, mainvars, thread, counters,
         storage
<1>14. CASE Count /\ UNCHANGED types
  BY <1>14 DEF Count, mainvars, thread, counters, storage
<1>15. CASE WriteFile /\ UNCHANGED types
  BY <1>15
     DEF WriteFile, NextSink, ThreadGoto, CallbackRaises, mainvars, thread,
         counters, storage
<1>16. CASE Insert /\ UNCHANGED types
  BY <1>16
     DEF Insert, ThreadGoto, CallbackRaises, mainvars, thread, counters,
         storage
<1>17. CASE Commit /\ UNCHANGED types
  BY <1>17
     DEF Commit, Committed, NextSink, ThreadGoto, CallbackRaises, mainvars,
         thread, counters, storage
<1>18. CASE SourceEnds /\ UNCHANGED types
  BY <1>18 DEF SourceEnds, mainvars, thread, counters, storage
<1>19. CASE Receive /\ UNCHANGED types
  BY <1>19 DEF Receive, mainvars, thread, counters, storage
<1>20. CASE StartFails /\ UNCHANGED types
  BY <1>20
     DEF StartFails, MainAt, MainGoto, Fault, mainvars, thread, counters,
         storage
<1>21. CASE WriteFails /\ UNCHANGED types
  BY <1>21
     DEF WriteFails, ThreadGoto, CallbackRaises, Fault, mainvars, thread,
         counters, storage
<1>22. CASE CloseFails /\ UNCHANGED types
  BY <1>22
     DEF CloseFails, MainGoto, StopRaises, Fault, mainvars, thread, counters,
         storage
<1>23. CASE Interrupt /\ UNCHANGED types
  BY <1>23
     DEF Interrupt, Stopping, MainGoto, StopRaises, Fault, mainvars, thread,
         counters, storage
<1>24. CASE Kill /\ UNCHANGED types
  BY <1>24
     DEF Kill, MainGoto, ThreadGoto, Fault, Callback, mainvars, thread,
         counters, storage
<1>25. CASE UNCHANGED vars
  BY <1>25 DEF vars, mainvars, thread, counters, storage
<1> QED
  BY <1>1, <1>2, <1>3, <1>4, <1>5, <1>6, <1>7, <1>8, <1>9, <1>10, <1>11, <1>12, <1>13, <1>14, <1>15, <1>16, <1>17, <1>18, <1>19, <1>20, <1>21, <1>22, <1>23, <1>24, <1>25
     DEF Next, Main, Thread, Environment

\* stop() leaves no backend out and nothing reopens one.
LEMMA ClosedUpToStep == Inv /\ [Next]_vars => ClosedUpTo'
<1> SUFFICES ASSUME Inv, [Next]_vars
             PROVE  ClosedUpTo'
  OBVIOUS
<1> USE BackendNames DEF Inv, TypeOK, ClosedUpTo, Stopping
<1>1. CASE Start /\ UNCHANGED types
  BY <1>1 DEF Start, MainAt, MainGoto, mainvars, thread, counters, storage
<1>2. CASE CallStop /\ UNCHANGED types
  BY <1>2 DEF CallStop, mainvars, thread, counters, storage
<1>3. CASE Exit /\ UNCHANGED types
  BY <1>3 DEF Exit, MainGoto, mainvars, thread, counters, storage
<1>4. CASE CheckRunning /\ UNCHANGED types
  BY <1>4 DEF CheckRunning, MainAt, mainvars, thread, counters, storage
<1>5. CASE Halt /\ UNCHANGED types
  BY <1>5
     DEF Halt, MainAt, MainGoto, StopRaises, Sniffing, Callback, mainvars,
         thread, counters, storage
<1>6. CASE Join /\ UNCHANGED types
  BY <1>6 DEF Join, MainAt, MainGoto, mainvars, thread, counters, storage
<1>7. CASE CloseFile /\ UNCHANGED types
  BY <1>7
     DEF CloseFile, MainAt, NextClose, Committed, mainvars, thread, counters,
         storage
<1>8. CASE CommitDb /\ UNCHANGED types
  BY <1>8
     DEF CommitDb, MainAt, MainGoto, StopRaises, Committed, mainvars, thread,
         counters, storage
<1>9. CASE CloseDb /\ UNCHANGED types
  BY <1>9 DEF CloseDb, MainAt, NextClose, mainvars, thread, counters, storage
<1>10. CASE Begin /\ UNCHANGED types
  BY <1>10 DEF Begin, mainvars, thread, counters, storage
<1>11. CASE Open /\ UNCHANGED types
  BY <1>11 DEF Open, ThreadGoto, mainvars, thread, counters, storage
<1>12. CASE Quit /\ UNCHANGED types
  BY <1>12 DEF Quit, mainvars, thread, counters, storage
<1>13. CASE Extract /\ UNCHANGED types
  BY <1>13
     DEF Extract, ThreadGoto, CallbackRaises, mainvars, thread, counters,
         storage
<1>14. CASE Count /\ UNCHANGED types
  BY <1>14 DEF Count, mainvars, thread, counters, storage
<1>15. CASE WriteFile /\ UNCHANGED types
  BY <1>15
     DEF WriteFile, NextSink, ThreadGoto, CallbackRaises, mainvars, thread,
         counters, storage
<1>16. CASE Insert /\ UNCHANGED types
  BY <1>16
     DEF Insert, ThreadGoto, CallbackRaises, mainvars, thread, counters,
         storage
<1>17. CASE Commit /\ UNCHANGED types
  BY <1>17
     DEF Commit, Committed, NextSink, ThreadGoto, CallbackRaises, mainvars,
         thread, counters, storage
<1>18. CASE SourceEnds /\ UNCHANGED types
  BY <1>18 DEF SourceEnds, mainvars, thread, counters, storage
<1>19. CASE Receive /\ UNCHANGED types
  BY <1>19 DEF Receive, mainvars, thread, counters, storage
<1>20. CASE StartFails /\ UNCHANGED types
  BY <1>20
     DEF StartFails, MainAt, MainGoto, Fault, mainvars, thread, counters,
         storage
<1>21. CASE WriteFails /\ UNCHANGED types
  BY <1>21
     DEF WriteFails, ThreadGoto, CallbackRaises, Fault, mainvars, thread,
         counters, storage
<1>22. CASE CloseFails /\ UNCHANGED types
  BY <1>22
     DEF CloseFails, MainGoto, StopRaises, Fault, mainvars, thread, counters,
         storage
<1>23. CASE Interrupt /\ UNCHANGED types
  BY <1>23
     DEF Interrupt, Stopping, MainGoto, StopRaises, Fault, mainvars, thread,
         counters, storage
<1>24. CASE Kill /\ UNCHANGED types
  BY <1>24
     DEF Kill, MainGoto, ThreadGoto, Fault, Callback, mainvars, thread,
         counters, storage
<1>25. CASE UNCHANGED vars
  BY <1>25 DEF vars, mainvars, thread, counters, storage
<1> QED
  BY <1>1, <1>2, <1>3, <1>4, <1>5, <1>6, <1>7, <1>8, <1>9, <1>10, <1>11, <1>12, <1>13, <1>14, <1>15, <1>16, <1>17, <1>18, <1>19, <1>20, <1>21, <1>22, <1>23, <1>24, <1>25
     DEF Next, Main, Thread, Environment

\* stop() closes no backend under a thread that said `running`.
LEMMA HaltedStep == Inv /\ [Next]_vars => Halted'
<1> SUFFICES ASSUME Inv, [Next]_vars
             PROVE  Halted'
  OBVIOUS
<1> USE BackendNames DEF Inv, TypeOK, Halted, Stopping, Sniffing, Callback, Dead
<1>1. CASE Start /\ UNCHANGED types
  BY <1>1 DEF Start, MainAt, MainGoto, mainvars, thread, counters, storage
<1>2. CASE CallStop /\ UNCHANGED types
  BY <1>2 DEF CallStop, mainvars, thread, counters, storage
<1>3. CASE Exit /\ UNCHANGED types
  BY <1>3 DEF Exit, MainGoto, mainvars, thread, counters, storage
<1>4. CASE CheckRunning /\ UNCHANGED types
  BY <1>4 DEF CheckRunning, MainAt, mainvars, thread, counters, storage
<1>5. CASE Halt /\ UNCHANGED types
  BY <1>5
     DEF Halt, MainAt, MainGoto, StopRaises, Sniffing, Callback, mainvars,
         thread, counters, storage
<1>6. CASE Join /\ UNCHANGED types
  BY <1>6 DEF Join, MainAt, MainGoto, mainvars, thread, counters, storage
<1>7. CASE CloseFile /\ UNCHANGED types
  BY <1>7
     DEF CloseFile, MainAt, NextClose, Committed, mainvars, thread, counters,
         storage
<1>8. CASE CommitDb /\ UNCHANGED types
  BY <1>8
     DEF CommitDb, MainAt, MainGoto, StopRaises, Committed, mainvars, thread,
         counters, storage
<1>9. CASE CloseDb /\ UNCHANGED types
  BY <1>9 DEF CloseDb, MainAt, NextClose, mainvars, thread, counters, storage
<1>10. CASE Begin /\ UNCHANGED types
  BY <1>10 DEF Begin, mainvars, thread, counters, storage
<1>11. CASE Open /\ UNCHANGED types
  BY <1>11 DEF Open, ThreadGoto, mainvars, thread, counters, storage
<1>12. CASE Quit /\ UNCHANGED types
  BY <1>12 DEF Quit, mainvars, thread, counters, storage
<1>13. CASE Extract /\ UNCHANGED types
  BY <1>13
     DEF Extract, ThreadGoto, CallbackRaises, mainvars, thread, counters,
         storage
<1>14. CASE Count /\ UNCHANGED types
  BY <1>14 DEF Count, mainvars, thread, counters, storage
<1>15. CASE WriteFile /\ UNCHANGED types
  BY <1>15
     DEF WriteFile, NextSink, ThreadGoto, CallbackRaises, mainvars, thread,
         counters, storage
<1>16. CASE Insert /\ UNCHANGED types
  BY <1>16
     DEF Insert, ThreadGoto, CallbackRaises, mainvars, thread, counters,
         storage
<1>17. CASE Commit /\ UNCHANGED types
  BY <1>17
     DEF Commit, Committed, NextSink, ThreadGoto, CallbackRaises, mainvars,
         thread, counters, storage
<1>18. CASE SourceEnds /\ UNCHANGED types
  BY <1>18 DEF SourceEnds, mainvars, thread, counters, storage
<1>19. CASE Receive /\ UNCHANGED types
  BY <1>19 DEF Receive, mainvars, thread, counters, storage
<1>20. CASE StartFails /\ UNCHANGED types
  BY <1>20
     DEF StartFails, MainAt, MainGoto, Fault, mainvars, thread, counters,
         storage
<1>21. CASE WriteFails /\ UNCHANGED types
  BY <1>21
     DEF WriteFails, ThreadGoto, CallbackRaises, Fault, mainvars, thread,
         counters, storage
<1>22. CASE CloseFails /\ UNCHANGED types
  BY <1>22
     DEF CloseFails, MainGoto, StopRaises, Fault, mainvars, thread, counters,
         storage
<1>23. CASE Interrupt /\ UNCHANGED types
  BY <1>23
     DEF Interrupt, Stopping, MainGoto, StopRaises, Fault, mainvars, thread,
         counters, storage
<1>24. CASE Kill /\ UNCHANGED types
  BY <1>24
     DEF Kill, MainGoto, ThreadGoto, Fault, Callback, mainvars, thread,
         counters, storage
<1>25. CASE UNCHANGED vars
  BY <1>25 DEF vars, mainvars, thread, counters, storage
<1> QED
  BY <1>1, <1>2, <1>3, <1>4, <1>5, <1>6, <1>7, <1>8, <1>9, <1>10, <1>11, <1>12, <1>13, <1>14, <1>15, <1>16, <1>17, <1>18, <1>19, <1>20, <1>21, <1>22, <1>23, <1>24, <1>25
     DEF Next, Main, Thread, Environment
-----------------------------------------------------------------------------
LEMMA InvNext == Inv /\ [Next]_vars => Inv'
<1> SUFFICES ASSUME Inv, [Next]_vars PROVE Inv'
  OBVIOUS
<1>1. TypeOK' /\ Called'
  BY TypeStep, CalledStep DEF Inv
<1>2. Kept' /\ Inserted'
  BY KeptStep, InsertedStep
<1>3. NothingHeld' /\ ClosedUpTo' /\ Halted'
  BY NothingHeldStep, ClosedUpToStep, HaltedStep
<1> QED
  BY <1>1, <1>2, <1>3 DEF Inv

LEMMA InvHolds == Spec => []Inv
<1> QED
  BY InvInit, InvNext, PTL DEF Spec

\* The threads stay at their steps and inside the list of backends.
THEOREM CaptureTypes == Spec => []TypeOK
<1>1. Inv => TypeOK
  BY DEF Inv
<1> QED
  BY <1>1, InvHolds, PTL

\* Every packet handed to _packet_callback is in every backend or counted as an
\* error, save the one in the callback and what a close or a kill lost of a file.
THEOREM NothingLostSilently == Spec => []NoSilentLoss
<1>1. Inv => NoSilentLoss
  <2> SUFFICES ASSUME Inv, NEW b \in Sinks, b \notin lost
               PROVE  delivered - InFlight <= Stored(b) + errors
    BY DEF Inv, Kept, NoSilentLoss
  <2>1. delivered <= Stored(b) + errors + Outstanding(b)
    BY DEF Inv, Kept
  <2>2. Stored(b) \in Nat /\ errors \in Nat /\ delivered \in Nat
    BY CaptureAssumption DEF Inv, TypeOK, Stored, CaptureAssumption
  <2>3. Outstanding(b) <= InFlight /\ Outstanding(b) \in Nat /\ InFlight \in Nat
    BY DEF Outstanding, InFlight, Callback
  <2> QED
    BY <2>1, <2>2, <2>3
<1> QED
  BY <1>1, InvHolds, PTL

\* A stop() that returned has released every backend.
THEOREM StopReleases == Spec => []StopReleasesSinks
<1>1. Inv => StopReleasesSinks
  BY DEF Inv, NothingHeld, ClosedUpTo, StopReleasesSinks
<1> QED
  BY <1>1, InvHolds, PTL

\* Nothing is counted, stored or lost after a stop() that returned and did not
\* miss the thread.
THEOREM StopIsFinal == Spec => StoppedIsFinal
<1>1. Inv /\ [Next]_vars => (returned > 0 /\ ~missed => UNCHANGED <<counters, storage>>)
  <2> SUFFICES ASSUME Inv, [Next]_vars, returned > 0, ~missed
               PROVE  UNCHANGED <<counters, storage>>
    OBVIOUS
  <2>a. /\ sniffer \in Dead /\ main # "new"
        /\ \A b \in Sinks : ~open[b] /\ pending[b] = 0
        /\ k \in Sinks /\ open \in [Sinks -> BOOLEAN]
        /\ rows \in [Sinks -> Nat] /\ pending \in [Sinks -> Nat]
    BY DEF Inv, TypeOK, NothingHeld, ClosedUpTo, Halted
  <2>1. CASE Start
    BY <2>a, <2>1
       DEF Start, MainAt, MainGoto, mainvars, thread, counters, storage
  <2>2. CASE CallStop
    BY <2>a, <2>2 DEF CallStop, mainvars, thread, counters, storage
  <2>3. CASE Exit
    BY <2>a, <2>3 DEF Exit, MainGoto, mainvars, thread, counters, storage
  <2>4. CASE CheckRunning
    BY <2>a, <2>4 DEF CheckRunning, MainAt, mainvars, thread, counters, storage
  <2>5. CASE Halt
    BY <2>a, <2>5
       DEF Halt, MainAt, MainGoto, StopRaises, Sniffing, Callback, mainvars,
           thread, counters, storage
  <2>6. CASE Join
    BY <2>a, <2>6
       DEF Join, MainAt, MainGoto, mainvars, thread, counters, storage
  <2>7. CASE CloseFile
    BY <2>a, <2>7
       DEF CloseFile, MainAt, NextClose, Committed, mainvars, thread, counters,
           storage
  <2>8. CASE CommitDb
    BY <2>a, <2>8
       DEF CommitDb, MainAt, MainGoto, StopRaises, Committed, mainvars, thread,
           counters, storage
  <2>9. CASE CloseDb
    BY <2>a, <2>9
       DEF CloseDb, MainAt, NextClose, mainvars, thread, counters, storage
  <2>10. CASE Begin
    BY <2>a, <2>10 DEF Begin, mainvars, thread, counters, storage, Dead
  <2>11. CASE Open
    BY <2>a, <2>11
       DEF Open, ThreadGoto, mainvars, thread, counters, storage, Dead
  <2>12. CASE Quit
    BY <2>a, <2>12 DEF Quit, mainvars, thread, counters, storage, Dead
  <2>13. CASE Extract
    BY <2>a, <2>13
       DEF Extract, ThreadGoto, CallbackRaises, mainvars, thread, counters,
           storage, Dead
  <2>14. CASE Count
    BY <2>a, <2>14 DEF Count, mainvars, thread, counters, storage, Dead
  <2>15. CASE WriteFile
    BY <2>a, <2>15
       DEF WriteFile, NextSink, ThreadGoto, CallbackRaises, mainvars, thread,
           counters, storage, Dead
  <2>16. CASE Insert
    BY <2>a, <2>16
       DEF Insert, ThreadGoto, CallbackRaises, mainvars, thread, counters,
           storage, Dead
  <2>17. CASE Commit
    BY <2>a, <2>17
       DEF Commit, Committed, NextSink, ThreadGoto, CallbackRaises, mainvars,
           thread, counters, storage, Dead
  <2>18. CASE SourceEnds
    BY <2>a, <2>18 DEF SourceEnds, mainvars, thread, counters, storage, Dead
  <2>19. CASE Receive
    BY <2>a, <2>19 DEF Receive, mainvars, thread, counters, storage, Dead
  <2>20. CASE StartFails
    BY <2>a, <2>20
       DEF StartFails, MainAt, MainGoto, Fault, mainvars, thread, counters,
           storage
  <2>21. CASE WriteFails
    BY <2>a, <2>21
       DEF WriteFails, ThreadGoto, CallbackRaises, Fault, mainvars, thread,
           counters, storage, Dead
  <2>22. CASE CloseFails
    BY <2>a, <2>22
       DEF CloseFails, MainGoto, StopRaises, Fault, mainvars, thread, counters,
           storage
  <2>23. CASE Interrupt
    BY <2>a, <2>23
       DEF Interrupt, Stopping, MainGoto, StopRaises, Fault, mainvars, thread,
           counters, storage
  <2>24. CASE Kill
    BY <2>a, <2>24
       DEF Kill, MainGoto, ThreadGoto, Fault, Callback, mainvars, thread,
           counters, storage
  <2>25. CASE UNCHANGED vars
    BY <2>25 DEF vars
  <2> QED
    BY <2>1, <2>2, <2>3, <2>4, <2>5, <2>6, <2>7, <2>8, <2>9, <2>10, <2>11, <2>12, <2>13, <2>14, <2>15, <2>16, <2>17, <2>18, <2>19, <2>20, <2>21, <2>22, <2>23, <2>24, <2>25
       DEF Next, Main, Thread, Environment
<1> QED
  BY <1>1, InvHolds, PTL DEF Spec, StoppedIsFinal
-----------------------------------------------------------------------------
\* DispatchedToAll: nothing was closed and nothing of the host failed.
Calm == types.unknown /\ types.toDict /\ faults = 0 /\ \A b \in Sinks : open[b]

\* Whether the IP packet in the callback is still to be handed to backend b.
Awaited(b) ==
  IF packet = "ip" /\ \/ sniffer \in {"extract", "count"}
                      \/ sniffer = "write" /\ j <= b
                      \/ sniffer = "commit" /\ j < b
  THEN 1 ELSE 0

\* A backend was handed every IP packet before this one, and a database has
\* committed all but the row inserted last.
Dispatched ==
  Calm =>
    /\ sniffer \in {"count", "write", "commit"} => packet = "ip"
    /\ sniffer \in {"cut", "killed"} => FALSE
    /\ \A b \in Sinks :
         /\ rows[b] + pending[b] + Awaited(b) = routed
         /\ Backends[b] = "sqlite" /\ pending[b] > 0 => sniffer = "commit" /\ j = b

\* What the two threads share of the way of a packet.
relay == <<packet, j, routed, rows, pending>>

\* A step outside the callback does not disturb it.
LEMMA OutsideCallback ==
  ASSUME Inv, Dispatched, UNCHANGED relay, Calm' => Calm,
         \/ sniffer' = sniffer
         \/ sniffer \notin Callback /\ sniffer' \notin Callback \union {"cut", "killed"}
  PROVE  Dispatched'
<1> SUFFICES ASSUME Calm' PROVE Dispatched'
  BY DEF Dispatched
<1>1. \A b \in Sinks : Awaited(b)' = Awaited(b)
  BY DEF Awaited, relay, Callback
<1> QED BY <1>1 DEF Dispatched, relay, Callback

LEMMA DispatchedStep == Inv /\ Dispatched /\ [Next]_vars => Dispatched'
<1> SUFFICES ASSUME Inv, Dispatched, [Next]_vars PROVE Dispatched'
  OBVIOUS
<1>a. /\ rows \in [Sinks -> Nat] /\ pending \in [Sinks -> Nat] /\ open \in [Sinks -> BOOLEAN]
      /\ routed \in Nat /\ j \in Sinks /\ k \in Sinks /\ faults \in Nat
      /\ \A b \in Sinks : rows[b] \in Nat /\ pending[b] \in Nat
  BY BackendNames, SMTT(30) DEF Inv, TypeOK
<1>b. /\ Sinks = 1..Len(Backends) /\ Len(Backends) \in Nat
      /\ \A b \in Sinks : Backends[b] \in {"jsonl", "sqlite"}
  BY BackendNames
<1>c. \A b \in Sinks : Awaited(b) \in {0, 1}
  BY DEF Awaited
<1>1. CASE (Start \/ CallStop \/ Exit \/ CheckRunning \/ Halt \/ Join) /\ UNCHANGED types
  <2>1. UNCHANGED <<relay, open, faults, types>>
    BY <1>1 DEF Start, CallStop, Exit, CheckRunning, Halt, Join, thread, counters, storage, relay
  <2>2. \/ sniffer' = sniffer
        \/ sniffer \notin Callback /\ sniffer' \notin Callback \union {"cut", "killed"}
    BY <1>1 DEF Start, CallStop, Exit, CheckRunning, Halt, Join, thread, MainAt, Inv, Halted, Callback
  <2> QED BY <2>1, <2>2, OutsideCallback DEF Calm, relay
<1>2. CASE (CloseFile \/ CloseDb) /\ UNCHANGED types
  <2>1. ~open'[k]
    BY <1>2, <1>a DEF CloseFile, CloseDb
  <2> QED BY <2>1, <1>a DEF Dispatched, Calm
<1>3. CASE CommitDb /\ UNCHANGED types
  <2>1. UNCHANGED <<sniffer, packet, j, routed, open, faults, types>>
    BY <1>3 DEF CommitDb, thread, counters
  <2>2. \A b \in Sinks : Awaited(b)' = Awaited(b)
    BY <2>1 DEF Awaited
  <2>3. \A b \in Sinks : /\ rows'[b] + pending'[b] = rows[b] + pending[b]
                         /\ pending'[b] > 0 => pending[b] > 0
    BY <1>3, <1>a DEF CommitDb, Committed
  <2> QED BY <2>1, <2>2, <2>3 DEF Dispatched, Calm
<1>4. CASE (Begin \/ Open \/ Quit \/ SourceEnds) /\ UNCHANGED types
  <2>1. UNCHANGED <<relay, open, faults, types>>
    BY <1>4 DEF Begin, Open, Quit, SourceEnds, ThreadGoto, counters, storage, relay
  <2>2. sniffer \notin Callback /\ sniffer' \notin Callback \union {"cut", "killed"}
    BY <1>4 DEF Begin, Open, Quit, SourceEnds, ThreadGoto, Callback
  <2> QED BY <2>1, <2>2, OutsideCallback DEF Calm, relay
<1>5. CASE Extract /\ UNCHANGED types
  BY <1>5, <1>a DEF Extract, ThreadGoto, CallbackRaises, counters, storage, Dispatched, Calm, Awaited
<1>6. CASE Count /\ UNCHANGED types
  BY <1>6, <1>a, <1>b DEF Count, storage, Dispatched, Calm, Awaited
<1>7. CASE WriteFile /\ UNCHANGED types
  <2> SUFFICES ASSUME Calm' PROVE Dispatched'
    BY DEF Dispatched
  <2>1. Calm /\ packet = "ip" /\ sniffer = "write" /\ Backends[j] = "jsonl"
    BY <1>7 DEF WriteFile, Calm, Dispatched
  <2>2. NextSink /\ UNCHANGED <<counters, types, faults>>
    BY <1>7, <2>1, <1>a DEF WriteFile, Calm
  <2>3. /\ rows'[j] + pending'[j] = rows[j] + pending[j] + 1
        /\ \A b \in Sinks \ {j} : rows'[b] = rows[b] /\ pending'[b] = pending[b]
    BY <1>7, <2>1, <1>a DEF WriteFile, Calm
  <2>4. ASSUME NEW b \in Sinks
        PROVE  IF b = j THEN Awaited(b) = 1 /\ Awaited(b)' = 0 ELSE Awaited(b)' = Awaited(b)
    <3>1. CASE j < Len(Backends)
      <4>1. sniffer' = "write" /\ j' = j + 1 /\ packet' = packet
        BY <2>2, <3>1 DEF NextSink
      <4>2. j + 1 <= b <=> (j <= b /\ b # j)
        BY <1>a, <1>b
      <4> QED BY <2>1, <4>1, <4>2, <1>a, <1>b DEF Awaited
    <3>2. CASE ~(j < Len(Backends))
      <4>1. sniffer' = "idle"
        BY <2>2, <3>2 DEF NextSink
      <4>2. j <= b <=> b = j
        BY <3>2, <1>a, <1>b
      <4> QED BY <2>1, <4>1, <4>2 DEF Awaited
    <3> QED BY <3>1, <3>2
  <2>5. \A b \in Sinks : rows[b] + pending[b] + Awaited(b) = routed /\ routed' = routed
    BY <2>1, <2>2 DEF Dispatched, counters
  <2>6. ASSUME NEW b \in Sinks PROVE rows'[b] + pending'[b] + Awaited(b)' = routed'
    <3>1. CASE b = j
      BY <3>1, <2>3, <2>4, <2>5, <1>a
    <3>2. CASE b # j
      BY <3>2, <2>3, <2>4, <2>5
    <3> QED BY <3>1, <3>2
  <2>7. \A b \in Sinks : Backends[b] = "sqlite" => pending[b] = 0 /\ pending'[b] = pending[b]
    BY <2>1, <2>3, <1>a DEF Dispatched
  <2>8. sniffer' \in {"write", "idle"} /\ packet' = "ip"
    BY <2>1, <2>2 DEF NextSink
  <2> QED BY <2>6, <2>7, <2>8 DEF Dispatched
<1>8. CASE Insert /\ UNCHANGED types
  <2> SUFFICES ASSUME Calm' PROVE Dispatched'
    BY DEF Dispatched
  <2>1. Calm /\ packet = "ip" /\ sniffer = "write" /\ Backends[j] = "sqlite"
    BY <1>8 DEF Insert, Calm, Dispatched
  <2>2. /\ pending' = [pending EXCEPT ![j] = @ + 1] /\ rows' = rows
        /\ sniffer' = "commit" /\ UNCHANGED <<j, packet, counters>>
    BY <1>8, <2>1, <1>a DEF Insert, Calm, ThreadGoto
  <2>3. /\ Awaited(j) = 1 /\ Awaited(j)' = 0
        /\ \A b \in Sinks \ {j} : Awaited(b)' = Awaited(b)
    BY <2>1, <2>2, <1>a, <1>b DEF Awaited
  <2>4. \A b \in Sinks : rows[b] + pending[b] + Awaited(b) = routed /\ routed' = routed
    BY <2>1, <2>2 DEF Dispatched, counters
  <2>5. ASSUME NEW b \in Sinks PROVE rows'[b] + pending'[b] + Awaited(b)' = routed'
    <3>1. CASE b = j
      BY <3>1, <2>2, <2>3, <2>4, <1>a
    <3>2. CASE b # j
      BY <3>2, <2>2, <2>3, <2>4, <1>a
    <3> QED BY <3>1, <3>2
  <2>6. \A b \in Sinks \ {j} : Backends[b] = "sqlite" => pending'[b] = 0
    BY <2>1, <2>2, <1>a DEF Dispatched
  <2> QED BY <2>1, <2>2, <2>5, <2>6 DEF Dispatched
<1>9. CASE Commit /\ UNCHANGED types
  <2> SUFFICES ASSUME Calm' PROVE Dispatched'
    BY DEF Dispatched
  <2>1. Calm /\ packet = "ip" /\ sniffer = "commit"
    BY <1>9 DEF Commit, Calm, Dispatched
  <2>2. Committed(j) /\ NextSink /\ UNCHANGED counters
    BY <1>9, <2>1, <1>a DEF Commit, Calm
  <2>3. \A b \in Sinks : /\ rows'[b] + pending'[b] = rows[b] + pending[b]
                         /\ Backends[b] = "sqlite" => ~(pending'[b] > 0)
    BY <2>1, <2>2, <1>a DEF Committed, Dispatched
  <2>4. \A b \in Sinks : Awaited(b)' = Awaited(b)
    BY <2>1, <2>2, <1>a, <1>b DEF NextSink, Awaited
  <2>5. \A b \in Sinks : rows[b] + pending[b] + Awaited(b) = routed /\ routed' = routed
    BY <2>1, <2>2 DEF Dispatched, counters
  <2>6. sniffer' \in {"write", "idle"} /\ packet' = "ip"
    BY <2>1, <2>2 DEF NextSink
  <2> QED BY <2>3, <2>4, <2>5, <2>6 DEF Dispatched
<1>10. CASE Receive /\ UNCHANGED types
  BY <1>10, <1>a DEF Receive, storage, Dispatched, Calm, Awaited
<1>11. CASE StartFails \/ WriteFails \/ CloseFails \/ Interrupt \/ Kill
  <2>1. faults' # 0
    BY <1>11, <1>a DEF StartFails, WriteFails, CloseFails, Interrupt, Kill, Fault
  <2> QED BY <2>1 DEF Dispatched, Calm
<1>12. CASE UNCHANGED vars
  BY <1>12, OutsideCallback DEF vars, thread, counters, storage, relay, Calm
<1> QED
  BY <1>1, <1>2, <1>3, <1>4, <1>5, <1>6, <1>7, <1>8, <1>9, <1>10, <1>11, <1>12
     DEF Next, Main, Thread, Environment

\* With the types the code names, every backend has every IP packet whose
\* callback is over, whatever both threads are at, until a backend is closed or
\* the host fails (write_all, observation/storage.py:146).
THEOREM EveryBackendHasIt == Spec => []DispatchedToAll
<1>1. Init => Dispatched
  BY BackendNames DEF Init, Dispatched, Awaited
<1>2. Inv /\ Dispatched => DispatchedToAll
  <2> SUFFICES ASSUME Inv, Dispatched, Calm, InFlight = 0, NEW b \in Sinks
               PROVE  Stored(b) = routed
    BY DEF DispatchedToAll, Calm
  <2>1. sniffer \notin Callback
    BY DEF InFlight
  <2>2. rows[b] \in Nat /\ pending[b] \in Nat
    BY DEF Inv, TypeOK
  <2>3. rows[b] + pending[b] + Awaited(b) = routed /\ Awaited(b) = 0
    BY <2>1 DEF Dispatched, Awaited, Callback
  <2>4. Backends[b] = "sqlite" => pending[b] = 0
    BY <2>1, <2>2 DEF Dispatched, Callback
  <2>5. Backends[b] \in {"jsonl", "sqlite"}
    BY BackendNames
  <2> QED BY <2>2, <2>3, <2>4, <2>5 DEF Stored
<1> QED
  BY <1>1, <1>2, InvInit, InvNext, DispatchedStep, PTL DEF Spec
=============================================================================
