------------------------------- MODULE Capture -------------------------------
(***************************************************************************)
(* framework/observation/: one capture session.  The main thread of a      *)
(* program (run_baseline_validation.py, demo_capture.py) starts and stops  *)
(* a CapturePipeline; Scapy's sniffer thread meanwhile hands every packet  *)
(* to _packet_callback, which extracts it and writes it to the backends    *)
(* that stop() closes.                                                     *)
(*                                                                         *)
(* Of AsyncSniffer, which is a library, the module has what capture.py     *)
(* relies on: `running` is set by the thread itself, stop() raises unless  *)
(* the thread is sniffing, and join() waits for the thread.                *)
(***************************************************************************)
EXTENDS Integers, Sequences

CONSTANTS
  Backends,     \* StorageMultiplexer.backends: "jsonl" or "sqlite" each
  Variants,     \* the observation types considered: [unknown, toDict], whether
                \* PacketType has the member UNKNOWN (observation/types.py) and
                \* PacketMetadata the method to_dict (observation/models.py); the
                \* code names both and defines neither
  MaxPackets,   \* bound: packets delivered to the callback
  MaxFaults     \* bound: failures of the host, interrupts and kills

CaptureAssumption ==
  /\ Backends \in Seq({"jsonl", "sqlite"}) /\ Backends # <<>>
  /\ Variants \subseteq [unknown : BOOLEAN, toDict : BOOLEAN]
  /\ MaxPackets \in Nat /\ MaxFaults \in Nat

ASSUME CaptureAssumption

Sinks == 1..Len(Backends)

VARIABLES
  \* the main thread
  main, k,      \* what it is at, and the backend it closes
  calls,        \* calls of stop()
  returned,     \* those that returned
  missed,       \* history: a call found the thread started but not `running`
  \* the sniffer thread
  sniffer, j,   \* what it is at, and the backend it writes to
  running, halt,  \* AsyncSniffer.running and its request to stop
  packet,       \* the packet in the callback
  \* CapturePipeline's counters and the packets Scapy delivered
  captured, errors, delivered, routed,
  \* the backends
  open,
  rows,         \* records in the file; committed rows
  pending,      \* records in the file's buffer; rows not committed
  lost,         \* history: the files whose buffer a failed close or a kill lost
  types,        \* the variant this program was built from
  faults

thread == <<sniffer, j, running, halt, packet>>
counters == <<captured, errors, delivered, routed>>
storage == <<open, rows, pending, lost>>
mainvars == <<main, k, calls, returned, missed>>
vars == <<mainvars, thread, counters, storage, types, faults>>

Stopping == {"check", "halt", "join", "close", "close_db"}
Callback == {"extract", "count", "write", "commit"}
Sniffing == {"idle"} \union Callback

Init ==
  /\ main = "new" /\ k = 1 /\ calls = 0 /\ returned = 0 /\ missed = FALSE
  /\ sniffer = "none" /\ j = 1 /\ running = FALSE /\ halt = FALSE /\ packet = "ip"
  /\ captured = 0 /\ errors = 0 /\ delivered = 0 /\ routed = 0
  /\ open = [b \in Sinks |-> TRUE]
  /\ rows = [b \in Sinks |-> 0] /\ pending = [b \in Sinks |-> 0]
  /\ lost = {}
  /\ types \in Variants
  /\ faults = 0

-----------------------------------------------------------------------------
\* The main thread

MainAt(l) == main = l
MainGoto(l) == main' = l /\ UNCHANGED <<k, calls, returned, missed>>

\* stop() is left by an exception.
StopRaises == MainGoto("caught")

Start ==
  /\ MainAt("new")
  /\ MainGoto("traffic")
  /\ sniffer' = "started"
  /\ UNCHANGED <<j, running, halt, packet, counters, storage, faults>>

\* stop() after the traffic, or because it raised; the experiment's cleanup
\* calls it once more, whatever became of the first call.
CallStop ==
  /\ main \in {"traffic", "caught", "returned"}
  /\ calls < 2
  /\ main' = "check" /\ calls' = calls + 1
  /\ UNCHANGED <<k, returned, missed, thread, counters, storage, faults>>

Exit ==
  /\ main \in {"caught", "returned"} /\ calls > 0
  /\ MainGoto("done")
  /\ UNCHANGED <<thread, counters, storage, faults>>

\* if self._sniffer and self._sniffer.running
CheckRunning ==
  /\ MainAt("check")
  /\ main' = (IF running THEN "halt" ELSE "close")
  /\ k' = 1
  /\ missed' = (missed \/ sniffer = "started")
  /\ UNCHANGED <<calls, returned, thread, counters, storage, faults>>

\* Defect: the sniffer is waited for, not stopped.
JoinOnly ==
  /\ MainAt("halt")
  /\ MainGoto("join")
  /\ UNCHANGED <<thread, counters, storage, faults>>

\* self._sniffer.stop()
Halt ==
  /\ MainAt("halt")
  /\ IF sniffer \in Sniffing
     THEN halt' = TRUE /\ MainGoto("join")
     ELSE StopRaises /\ UNCHANGED halt
  /\ UNCHANGED <<sniffer, j, running, packet, counters, storage, faults>>

\* Defect: the backends are closed while the sniffer may be in a callback.
JoinSkipped ==
  /\ MainAt("join")
  /\ MainGoto("close")
  /\ UNCHANGED <<thread, counters, storage, faults>>

Join ==
  /\ MainAt("join")
  /\ sniffer = "ended"
  /\ MainGoto("close")
  /\ UNCHANGED <<thread, counters, storage, faults>>

\* Defect: the last backend is forgotten.
NextCloseShort ==
  IF k + 1 < Len(Backends)
  THEN main' = "close" /\ k' = k + 1 /\ UNCHANGED <<calls, returned, missed>>
  ELSE main' = "returned" /\ returned' = returned + 1
       /\ UNCHANGED <<k, calls, missed>>

\* The next backend of close_all, or the end of stop().
NextClose ==
  IF k < Len(Backends)
  THEN main' = "close" /\ k' = k + 1 /\ UNCHANGED <<calls, returned, missed>>
  ELSE main' = "returned" /\ returned' = returned + 1
       /\ UNCHANGED <<k, calls, missed>>

\* A flush or a commit: what was written so far, by whichever thread, becomes
\* durable.
Committed(b) ==
  /\ rows' = [rows EXCEPT ![b] = @ + pending[b]]
  /\ pending' = [pending EXCEPT ![b] = 0]

\* JSONLStorage.close may be called again.
CloseFile ==
  /\ MainAt("close") /\ Backends[k] = "jsonl"
  /\ Committed(k)
  /\ open' = [open EXCEPT ![k] = FALSE]
  /\ NextClose
  /\ UNCHANGED <<lost, thread, counters, faults>>

\* SQLiteStorage.close: commit, which a closed connection refuses, ...
CommitDb ==
  /\ MainAt("close") /\ Backends[k] = "sqlite"
  /\ IF open[k]
     THEN Committed(k) /\ MainGoto("close_db")
     ELSE StopRaises /\ UNCHANGED <<rows, pending>>
  /\ UNCHANGED <<open, lost, thread, counters, faults>>

\* ... and close, which rolls back what came in between.
CloseDb ==
  /\ MainAt("close_db")
  /\ open' = [open EXCEPT ![k] = FALSE]
  /\ pending' = [pending EXCEPT ![k] = 0]
  /\ NextClose
  /\ UNCHANGED <<rows, lost, thread, counters, faults>>

Main ==
  /\ \/ Start \/ CallStop \/ Exit \/ CheckRunning \/ Halt \/ Join \/ CloseFile
     \/ CommitDb \/ CloseDb
  /\ UNCHANGED types

-----------------------------------------------------------------------------
\* The sniffer thread

ThreadGoto(l) == sniffer' = l /\ UNCHANGED <<j, running, halt, packet>>

Begin ==
  /\ sniffer = "started"
  /\ sniffer' = "opening" /\ running' = TRUE
  /\ UNCHANGED <<j, halt, packet, mainvars, counters, storage, faults>>

\* The interface is opened, or the thread dies of the exception; what then
\* becomes of `running` depends on the version of the library.
Open ==
  /\ sniffer = "opening"
  /\ \/ ThreadGoto("idle")
     \/ /\ sniffer' = "died" /\ running' \in BOOLEAN
        /\ UNCHANGED <<j, halt, packet>>
  /\ UNCHANGED <<mainvars, counters, storage, faults>>

\* The thread looks for the request to stop between two packets.
Quit ==
  /\ sniffer = "idle" /\ halt
  /\ sniffer' = "ended" /\ running' = FALSE
  /\ UNCHANGED <<j, halt, packet, mainvars, counters, storage, faults>>

\* The interface disappears, or the end of the PCAP file is reached.
SourceEnds ==
  /\ sniffer = "idle" /\ ~halt
  /\ sniffer' = "ended" /\ running' = FALSE
  /\ UNCHANGED <<j, halt, packet, mainvars, counters, storage, faults>>

Receive ==
  /\ sniffer = "idle" /\ ~halt
  /\ delivered < MaxPackets
  /\ delivered' = delivered + 1
  /\ packet' \in {"ip", "other"}
  /\ routed' = IF packet' = "ip" THEN routed + 1 ELSE routed
  /\ sniffer' = "extract"
  /\ UNCHANGED <<j, running, halt, captured, errors, mainvars, storage, faults>>

\* _packet_callback catches every exception.
CallbackRaises ==
  /\ errors' = errors + 1
  /\ ThreadGoto("idle")
  /\ UNCHANGED <<captured, delivered, routed>>

\* Defect: a packet without an IP layer is passed over.
ExtractQuietly ==
  /\ sniffer = "extract"
  /\ IF packet = "ip" /\ types.unknown
     THEN ThreadGoto("count") /\ UNCHANGED counters
     ELSE ThreadGoto("idle") /\ UNCHANGED counters
  /\ UNCHANGED <<mainvars, storage, faults>>

\* PacketExtractor.extract
Extract ==
  /\ sniffer = "extract"
  /\ IF packet = "ip" /\ types.unknown
     THEN ThreadGoto("count") /\ UNCHANGED counters
     ELSE CallbackRaises
  /\ UNCHANGED <<mainvars, storage, faults>>

\* packets_captured and, not followed here, bytes_captured.
Count ==
  /\ sniffer = "count"
  /\ captured' = captured + 1
  /\ sniffer' = "write" /\ j' = 1
  /\ UNCHANGED <<running, halt, packet, errors, delivered, routed, mainvars,
                 storage, faults>>

\* Defects: one backend too many, the first one only.
NextSinkLate ==
  /\ IF j <= Len(Backends)
     THEN sniffer' = "write" /\ j' = j + 1
     ELSE sniffer' = "idle" /\ UNCHANGED j
  /\ UNCHANGED <<running, halt, packet>>
NextSinkNever == ThreadGoto("idle")

\* The next backend of write_all.
NextSink ==
  /\ IF j < Len(Backends)
     THEN sniffer' = "write" /\ j' = j + 1
     ELSE sniffer' = "idle" /\ UNCHANGED j
  /\ UNCHANGED <<running, halt, packet>>

\* JSONLStorage.write: into the buffer, which may just now be flushed.
WriteFile ==
  /\ sniffer = "write" /\ Backends[j] = "jsonl"
  /\ IF types.toDict /\ open[j]
     THEN /\ \/ /\ pending' = [pending EXCEPT ![j] = @ + 1]
                /\ UNCHANGED rows
             \/ /\ rows' = [rows EXCEPT ![j] = @ + pending[j] + 1]
                /\ pending' = [pending EXCEPT ![j] = 0]
          /\ NextSink
          /\ UNCHANGED counters
     ELSE CallbackRaises /\ UNCHANGED <<rows, pending>>
  /\ UNCHANGED <<open, lost, mainvars, faults>>

\* SQLiteStorage.write: INSERT ...
Insert ==
  /\ sniffer = "write" /\ Backends[j] = "sqlite"
  /\ IF open[j]
     THEN /\ pending' = [pending EXCEPT ![j] = @ + 1]
          /\ ThreadGoto("commit")
          /\ UNCHANGED counters
     ELSE CallbackRaises /\ UNCHANGED pending
  /\ UNCHANGED <<open, rows, lost, mainvars, faults>>

\* ... and commit.
Commit ==
  /\ sniffer = "commit"
  /\ IF open[j]
     THEN Committed(j) /\ NextSink /\ UNCHANGED counters
     ELSE CallbackRaises /\ UNCHANGED <<rows, pending>>
  /\ UNCHANGED <<open, lost, mainvars, faults>>

Thread ==
  /\ \/ Begin \/ Open \/ Quit \/ Extract \/ Count \/ WriteFile \/ Insert \/ Commit
  /\ UNCHANGED types

-----------------------------------------------------------------------------
Fault == faults < MaxFaults /\ faults' = faults + 1

\* No thread can be started; the disk is full or the database locked.
StartFails ==
  /\ MainAt("new")
  /\ Fault
  /\ MainGoto("caught")
  /\ UNCHANGED <<thread, counters, storage>>

WriteFails ==
  /\ sniffer \in {"write", "commit"}
  /\ Fault
  /\ CallbackRaises
  /\ UNCHANGED <<mainvars, storage>>

\* A file whose last flush fails is closed all the same, a database is not.
CloseFails ==
  /\ main \in {"close", "close_db"} /\ open[k]
  /\ Fault
  /\ StopRaises
  /\ IF Backends[k] = "jsonl"
     THEN /\ open' = [open EXCEPT ![k] = FALSE]
          /\ pending' = [pending EXCEPT ![k] = 0]
          /\ lost' = lost \union {k}
     ELSE UNCHANGED <<open, pending, lost>>
  /\ UNCHANGED <<rows, thread, counters>>

\* Ctrl-C inside stop()
Interrupt ==
  /\ main \in Stopping
  /\ Fault
  /\ StopRaises
  /\ UNCHANGED <<thread, counters, storage>>

\* SIGKILL, in either thread's step: what was not flushed or committed is gone.
Kill ==
  /\ main \notin {"done", "killed"}
  /\ Fault
  /\ MainGoto("killed")
  /\ ThreadGoto(IF sniffer \in Callback THEN "cut" ELSE "killed")
  /\ open' = [b \in Sinks |-> FALSE]
  /\ pending' = [b \in Sinks |-> 0]
  /\ lost' = lost \union {b \in Sinks : Backends[b] = "jsonl" /\ pending[b] > 0}
  /\ UNCHANGED <<rows, counters>>

Environment ==
  /\ \/ SourceEnds \/ Receive \/ StartFails \/ WriteFails \/ CloseFails
     \/ Interrupt \/ Kill
  /\ UNCHANGED types

Next == Main \/ Thread \/ Environment

Spec == Init /\ [][Next]_vars

\* Both threads are scheduled; packets need not come.
FairSpec == Spec /\ WF_vars(Main) /\ WF_vars(Thread)

-----------------------------------------------------------------------------
TypeOK ==
  /\ main \in {"new", "traffic", "caught", "returned", "done", "killed"} \union Stopping
  /\ k \in Sinks /\ calls \in 0..2 /\ returned \in 0..2 /\ missed \in BOOLEAN
  /\ sniffer \in {"none", "started", "opening", "died", "ended", "killed", "cut"}
                  \union Sniffing
  /\ j \in Sinks
  /\ running \in BOOLEAN /\ halt \in BOOLEAN /\ packet \in {"ip", "other"}
  /\ captured \in Nat /\ errors \in Nat /\ delivered \in 0..MaxPackets /\ routed \in Nat
  /\ open \in [Sinks -> BOOLEAN]
  /\ rows \in [Sinks -> Nat] /\ pending \in [Sinks -> Nat]
  /\ lost \subseteq Sinks
  /\ types \in Variants
  /\ faults \in 0..MaxFaults

\* The packet a callback is busy with, or was when it was cut off.
InFlight == IF sniffer \in Callback \union {"cut"} THEN 1 ELSE 0

\* What a backend has accepted: a file's records wait in its buffer.
Stored(b) ==
  IF Backends[b] = "jsonl" THEN rows[b] + pending[b] ELSE rows[b]

\* _packet_callback: of the packets Scapy delivered at most the one in the
\* callback is neither in all backends nor counted as an error, even when
\* stop() closes the backends under the writer or the program is killed.  Only
\* a file can have lost records, and only to a close that raised or a kill.
NoSilentLoss ==
  \A b \in Sinks : (b \in lost => Backends[b] = "jsonl")
                 /\ (b \notin lost => delivered - InFlight <= Stored(b) + errors)

\* write_all "dispatches the packet to all registered backends"
\* (observation/storage.py:146): with the types complete, while no backend was
\* closed and nothing of the host failed, each has every IP packet.
DispatchedToAll ==
  (/\ types.unknown /\ types.toDict
   /\ InFlight = 0 /\ faults = 0
   /\ \A b \in Sinks : open[b])
  => \A b \in Sinks : Stored(b) = routed

\* A stop() that returned has closed every backend and left no record
\* in a buffer or uncommitted, also when an earlier call broke off half-way.
StopReleasesSinks ==
  returned > 0 => \A b \in Sinks : ~open[b] /\ pending[b] = 0

\* After a stop() that returned the counters and records do not change any
\* more, unless a call was so early that the thread did not yet say `running`.
StoppedIsFinal ==
  [][returned > 0 /\ ~missed => UNCHANGED <<counters, storage>>]_vars

\* stop() returns or raises: it does not wait for ever for a thread that is
\* busy with packets.
StopEnds == main \in Stopping ~> main \notin Stopping
=============================================================================
