-------------------------- MODULE BoundaryExchange --------------------------
(***************************************************************************)
(* The exchange of boundary values between MPI ranks whose fields live on  *)
(* CUDA devices: fields::step_boundaries_impl on its cold and its cached   *)
(* path, the communications manager of mympi.cpp, the negotiation of the   *)
(* transport, and the update of the fields that follows an exchange.       *)
(*                                                                         *)
(* A rank has a host thread (pc), a device that executes a queue of        *)
(* operations in order (stream), and requests that MPI completes when it   *)
(* likes.  A field value is the number of updates that made it.            *)
(***************************************************************************)
EXTENDS Integers, Sequences

CONSTANTS Ranks, MaxRounds

ASSUME RanksAssumption == Ranks # {} /\ MaxRounds \in Nat

VARIABLES
  setting,    \* per rank, until the negotiation: MPI settings and support
  transport,  \* "none" before the negotiation, then "pinned" or "device"
  waitall,    \* completion policy: MPI_Waitall (with device) or MPI_Waitsome
  pc,         \* where the host thread is in an exchange
  round,      \* exchanges the host thread has finished
  warm,       \* gpu_boundary_topology is cached
  next,       \* receive slot after the next ping-pong selection
  mode,       \* of the running exchange: cold, eager, receive slot
  inner,      \* the interior part of the update is launched already
  error,      \* exchange_error
  stream,     \* operations queued on the device
  edge,       \* owned boundary values on the device
  halo,       \* copies of the neighbours' boundary values on the device
  used,       \* halo values the last update read
  sendDevice, sendHost,  \* send bytes
  recvDevice, recvHost,  \* receive bytes, on the device per slot
  sendReq, recvReq,      \* "none", "posted", "done"; receives: "drained"
  wire,       \* messages on their way, in the order of their sends
  aborted     \* MPI_Abort

negotiation == <<setting, transport, waitall>>
host == <<pc, round, warm, next, mode, inner, error>>
fieldsOnDevice == <<edge, halo, used>>
buffers == <<sendDevice, sendHost, recvDevice, recvHost>>
mpi == <<sendReq, recvReq, wire>>
vars == <<negotiation, host, stream, fieldsOnDevice, buffers, mpi, aborted>>

Peers(r) == Ranks \ {r}
Slots == {0, 1}

-----------------------------------------------------------------------------
(* Requests of MEEP_GPU_MPI_TRANSPORT: -1 unparsable, 0 pinned, 1 auto, 2  *)
(* device.  Policies of MEEP_GPU_MPI_COMPLETION: -1 unparsable, 0 waitsome,*)
(* 1 waitall.                                                              *)

Setting == [request : -1..2, aware : BOOLEAN, policy : -1..1]

Init ==
  /\ setting \in [Ranks -> Setting]
  /\ transport = "none" /\ waitall = FALSE
  /\ pc = [r \in Ranks |-> "idle"]
  /\ round = [r \in Ranks |-> 0]
  /\ warm = [r \in Ranks |-> FALSE]
  /\ next = [r \in Ranks |-> 1]
  /\ mode = [r \in Ranks |-> [cold |-> TRUE, eager |-> FALSE, slot |-> 0]]
  /\ inner = [r \in Ranks |-> FALSE]
  /\ error = [r \in Ranks |-> FALSE]
  /\ stream = [r \in Ranks |-> <<>>]
  /\ edge = [r \in Ranks |-> 0]
  /\ halo = [r \in Ranks |-> [q \in Peers(r) |-> 0]]
  /\ used = halo
  /\ sendDevice = [r \in Ranks |-> 0] /\ sendHost = sendDevice
  /\ recvDevice = [r \in Ranks |-> [q \in Peers(r) |-> [s \in Slots |-> 0]]]
  /\ recvHost = halo
  /\ sendReq = [r \in Ranks |-> [q \in Peers(r) |-> "none"]]
  /\ recvReq = sendReq
  /\ wire = [r \in Ranks |-> [q \in Peers(r) |-> <<>>]]
  /\ aborted = FALSE

(* The reductions of validate_distributed_mpi_transport. *)
Least(f) == CHOOSE x \in {f[r] : r \in Ranks} : \A r \in Ranks : x <= f[r]
Greatest(f) == CHOOSE x \in {f[r] : r \in Ranks} : \A r \in Ranks : x >= f[r]
Requests == [r \in Ranks |-> setting[r].request]
Policies == [r \in Ranks |-> setting[r].policy]
EveryRankAware == \A r \in Ranks : setting[r].aware

(* Mutant of TransportsCompatible: a pinned rank gives way to a device rank. *)
TransportsCompatibleIfAware ==
  /\ Least(Requests) >= 0
  /\ Greatest(Requests) = 2 => EveryRankAware

TransportsCompatible ==
  /\ Least(Requests) >= 0
  /\ ~ (Least(Requests) = 0 /\ Greatest(Requests) = 2)
  /\ Greatest(Requests) = 2 => EveryRankAware

UseDeviceBuffers ==
  \/ Greatest(Requests) = 2
  \/ Least(Requests) = 1 /\ EveryRankAware

CompletionAgreed ==
  Least(Policies) >= 0 /\ Least(Policies) = Greatest(Policies)

(* All ranks compare their settings; incompatible ones throw on every rank *)
(* before any manager exists.  What follows, an abort or steps on the CPU, *)
(* is DistributedPreflight; here there is no exchange: aborted.            *)
NegotiateTransport ==
  /\ transport = "none"
  /\ ~ aborted
  /\ IF TransportsCompatible /\ CompletionAgreed
     THEN /\ transport' = IF UseDeviceBuffers THEN "device" ELSE "pinned"
          /\ waitall' = (Greatest(Policies) = 1)
          /\ UNCHANGED aborted
     ELSE aborted' = TRUE /\ UNCHANGED <<transport, waitall>>
  /\ setting' = [r \in Ranks |-> [request |-> 1, aware |-> FALSE, policy |-> 0]]
  /\ UNCHANGED <<host, stream, fieldsOnDevice, buffers, mpi>>

-----------------------------------------------------------------------------
Running(r, place) == ~ aborted /\ pc[r] = place
Enqueue(r, ops) == [stream EXCEPT ![r] = @ \o ops]
Queued(r) == {stream[r][i] : i \in DOMAIN stream[r]}

Op(name) == [op |-> name, peer |-> 0, slot |-> 0]
HostToDevice(q) == [op |-> "h2d", peer |-> q, slot |-> 0]
Scatter(q, s) == [op |-> "scatter", peer |-> q, slot |-> s]

(* An exchange starts: the topology is cached or rebuilt, the environment  *)
(* is read for eager posting and ping-pong, and a receive slot is chosen.  *)
(* A rebuilt topology uses the primary slot.                               *)
Begin(r) ==
  /\ Running(r, "idle")
  /\ transport # "none"
  /\ round[r] < MaxRounds
  /\ \E cold, eager, pingpong \in BOOLEAN :
       /\ ~ warm[r] => cold
       /\ transport = "pinned" => ~ eager /\ ~ pingpong
       /\ mode' = [mode EXCEPT ![r] =
                     [cold |-> cold, eager |-> eager,
                      slot |-> IF pingpong /\ ~ cold THEN next[r] ELSE 0]]
       /\ next' = IF pingpong /\ ~ cold
                  THEN [next EXCEPT ![r] = 1 - @] ELSE next
  /\ pc' = [pc EXCEPT ![r] = "fence"]
  /\ UNCHANGED <<negotiation, round, warm, inner, error, stream,
                 fieldsOnDevice, buffers, mpi, aborted>>

(* Mutant of ReceiveIdle: no fence before a receive buffer is used again. *)
ReceiveUnfenced(r) == TRUE

(* boundary_exchange_synchronize: the last operation queued on the receive *)
(* buffer has been executed.                                               *)
ReceiveIdle(r) ==
  \A op \in Queued(r) : ~ (op.op \in {"h2d", "scatter"} /\ op.slot = mode[r].slot)

Fence(r) ==
  /\ Running(r, "fence")
  /\ ReceiveIdle(r)
  /\ pc' = [pc EXCEPT ![r] = "launch"]
  /\ recvReq' = IF mode[r].eager
                THEN [recvReq EXCEPT ![r] = [q \in Peers(r) |-> "posted"]]
                ELSE recvReq
  /\ UNCHANGED <<negotiation, round, warm, next, mode, inner, error, stream,
                 fieldsOnDevice, buffers, sendReq, wire, aborted>>

(* Zero metals, gather the outgoing values, copy between local chunks, one *)
(* by one or as a recorded graph.                                          *)
Launch(r) ==
  /\ Running(r, "launch")
  /\ stream' = Enqueue(r, <<Op("gather")>>)
  /\ pc' = [pc EXCEPT ![r] = "ready"]
  /\ UNCHANGED <<negotiation, round, warm, next, mode, inner, error,
                 fieldsOnDevice, buffers, mpi, aborted>>

(* Mutant of SendReady: MPI is trusted to follow the stream. *)
SendUnsynchronized(r) == transport = "pinned" => stream[r] = <<>>

(* The outgoing values are ready: the event of the gather has been waited  *)
(* for, or the blocking copy to pinned memory was made.                    *)
SendReady(r) ==
  IF transport = "device" THEN Op("gather") \notin Queued(r)
                          ELSE stream[r] = <<>>

(* Requests are posted: the sends of an eager exchange at once, everything *)
(* else by comms_finish, receives first.                                   *)
PostRequests(r) ==
  /\ Running(r, "ready")
  /\ SendReady(r)
  /\ sendHost' = IF transport = "pinned"
                 THEN [sendHost EXCEPT ![r] = sendDevice[r]] ELSE sendHost
  /\ recvReq' = IF mode[r].eager THEN recvReq
                ELSE [recvReq EXCEPT ![r] = [q \in Peers(r) |-> "posted"]]
  /\ sendReq' = [sendReq EXCEPT ![r] = [q \in Peers(r) |-> "posted"]]
  /\ pc' = [pc EXCEPT ![r] = IF mode[r].eager /\ ~ mode[r].cold
                             THEN "overlap" ELSE "wait"]
  /\ UNCHANGED <<negotiation, round, warm, next, mode, inner, error, stream,
                 fieldsOnDevice, sendDevice, recvDevice, recvHost, wire, aborted>>

(* Mutant of Overlap: the whole update is launched before the halo is there. *)
OverlapWholeUpdate(r) ==
  /\ Running(r, "overlap")
  /\ inner' = [inner EXCEPT ![r] = FALSE]
  /\ stream' = Enqueue(r, <<Op("whole")>>)
  /\ pc' = [pc EXCEPT ![r] = "wait"]
  /\ UNCHANGED <<negotiation, round, warm, next, mode, error, fieldsOnDevice,
                 buffers, mpi, aborted>>

(* An eager exchange with a cached topology may launch the points that     *)
(* need no halo while the messages travel.                                 *)
Overlap(r) ==
  /\ Running(r, "overlap")
  /\ \E launch \in BOOLEAN :
       /\ inner' = [inner EXCEPT ![r] = launch]
       /\ stream' = IF launch THEN Enqueue(r, <<Op("interior")>>) ELSE stream
  /\ pc' = [pc EXCEPT ![r] = "wait"]
  /\ UNCHANGED <<negotiation, round, warm, next, mode, error, fieldsOnDevice,
                 buffers, mpi, aborted>>

(* MPI_Waitall returns; comms_finish has called every callback. *)
RequestsDone(r) == \A q \in Peers(r) : sendReq[r][q] = "done" /\ recvReq[r][q] # "posted"
RequestsDrained(r) == \A q \in Peers(r) : sendReq[r][q] = "done" /\ recvReq[r][q] = "drained"

(* The callback of a completed receive, called by comms_finish.  It queues *)
(* the scatter, after the copy from pinned memory, or fails and remembers  *)
(* the error; after an error the remaining callbacks do nothing.           *)
ReceiveCallback(r, q) ==
  /\ Running(r, "wait")
  /\ recvReq[r][q] = "done"
  /\ transport = "device" /\ waitall => RequestsDone(r)
  /\ recvReq' = [recvReq EXCEPT ![r][q] = "drained"]
  /\ LET copy == IF transport = "pinned" THEN <<HostToDevice(q)>> ELSE <<>> IN
     \/ error[r] /\ UNCHANGED <<stream, error>>
     \/ /\ ~ error[r]
        /\ stream' = Enqueue(r, copy \o <<Scatter(q, mode[r].slot)>>)
        /\ UNCHANGED error
     \/ /\ ~ error[r]
        /\ stream' \in {stream, Enqueue(r, copy)}
        /\ error' = [error EXCEPT ![r] = TRUE]
  /\ UNCHANGED <<negotiation, pc, round, warm, next, mode, inner,
                 fieldsOnDevice, buffers, sendReq, wire, aborted>>

(* All requests are complete: the points not updated yet are launched, and *)
(* a rebuilt topology is cached.                                           *)
Finish(r) ==
  /\ Running(r, "wait")
  /\ ~ error[r]
  /\ RequestsDrained(r)
  /\ stream' = Enqueue(r, <<Op(IF inner[r] THEN "shell" ELSE "whole")>>)
  /\ sendReq' = [sendReq EXCEPT ![r] = [q \in Peers(r) |-> "none"]]
  /\ recvReq' = [recvReq EXCEPT ![r] = [q \in Peers(r) |-> "none"]]
  /\ inner' = [inner EXCEPT ![r] = FALSE]
  /\ warm' = [warm EXCEPT ![r] = TRUE]
  /\ next' = IF mode[r].cold THEN [next EXCEPT ![r] = 1] ELSE next
  /\ mode' = [mode EXCEPT ![r] = [cold |-> TRUE, eager |-> FALSE, slot |-> 0]]
  /\ round' = [round EXCEPT ![r] = @ + 1]
  /\ pc' = [pc EXCEPT ![r] = "idle"]
  /\ UNCHANGED <<negotiation, error, fieldsOnDevice, buffers, wire, aborted>>

(* Mutant of Fail: the rank leaves its exchanges and its peers alone. *)
FailLocally(r) ==
  /\ ~ aborted
  /\ pc[r] # "idle"
  /\ pc' = [pc EXCEPT ![r] = "idle"]
  /\ round' = [round EXCEPT ![r] = MaxRounds]
  /\ UNCHANGED <<negotiation, warm, next, mode, inner, error, stream,
                 fieldsOnDevice, buffers, mpi, aborted>>

(* An exception in an exchange, thrown by any CUDA call or rethrown from a *)
(* callback, ends the job.                                                 *)
Fail(r) ==
  /\ ~ aborted
  /\ pc[r] # "idle"
  /\ aborted' = TRUE
  /\ UNCHANGED <<negotiation, host, stream, fieldsOnDevice, buffers, mpi>>

-----------------------------------------------------------------------------
(* The device executes the oldest queued operation. *)
Execute(r) ==
  /\ ~ aborted
  /\ stream[r] # <<>>
  /\ stream' = [stream EXCEPT ![r] = Tail(@)]
  /\ LET op == Head(stream[r]) IN
     /\ sendDevice' = IF op.op = "gather"
                      THEN [sendDevice EXCEPT ![r] = edge[r]] ELSE sendDevice
     /\ recvDevice' = IF op.op = "h2d"
                      THEN [recvDevice EXCEPT ![r][op.peer][op.slot] = recvHost[r][op.peer]]
                      ELSE recvDevice
     /\ halo' = IF op.op = "scatter"
                THEN [halo EXCEPT ![r][op.peer] = recvDevice[r][op.peer][op.slot]]
                ELSE halo
     /\ IF op.op \in {"shell", "whole"}
        THEN /\ edge' = [edge EXCEPT ![r] = @ + 1]
             /\ used' = [used EXCEPT ![r] = halo[r]]
        ELSE UNCHANGED <<edge, used>>
  /\ UNCHANGED <<negotiation, host, sendHost, recvHost, mpi, aborted>>

(* MPI reads the bytes of a posted send, at once or when it finds the      *)
(* receive, and the send is complete.                                      *)
Transmit(r, q) ==
  /\ ~ aborted
  /\ sendReq[r][q] = "posted"
  /\ wire' = [wire EXCEPT ![r][q] = Append(@, IF transport = "pinned" THEN sendHost[r]
                                                                     ELSE sendDevice[r])]
  /\ sendReq' = [sendReq EXCEPT ![r][q] = "done"]
  /\ UNCHANGED <<negotiation, host, stream, fieldsOnDevice, buffers, recvReq, aborted>>

(* MPI writes a message into the bytes of the posted receive. *)
Deliver(r, q) ==
  /\ ~ aborted
  /\ recvReq[r][q] = "posted"
  /\ wire[q][r] # <<>>
  /\ IF transport = "pinned"
     THEN recvHost' = [recvHost EXCEPT ![r][q] = Head(wire[q][r])] /\ UNCHANGED recvDevice
     ELSE /\ recvDevice' = [recvDevice EXCEPT ![r][q][mode[r].slot] = Head(wire[q][r])]
          /\ UNCHANGED recvHost
  /\ wire' = [wire EXCEPT ![q][r] = Tail(@)]
  /\ recvReq' = [recvReq EXCEPT ![r][q] = "done"]
  /\ UNCHANGED <<negotiation, host, stream, fieldsOnDevice, sendDevice, sendHost,
                 sendReq, aborted>>

(* The job is over, or the bound on rounds is reached. *)
Ended ==
  /\ \/ aborted
     \/ \A r \in Ranks : round[r] = MaxRounds /\ pc[r] = "idle" /\ stream[r] = <<>>
  /\ UNCHANGED vars

HostStep(r) ==
  \/ Fence(r) \/ Launch(r) \/ PostRequests(r) \/ Overlap(r) \/ Finish(r)
  \/ \E q \in Peers(r) : ReceiveCallback(r, q)

Next ==
  \/ NegotiateTransport
  \/ \E r \in Ranks : Begin(r) \/ HostStep(r) \/ Fail(r) \/ Execute(r)
  \/ \E r \in Ranks : \E q \in Peers(r) : Transmit(r, q) \/ Deliver(r, q)
  \/ Ended

Spec == Init /\ [][Next]_vars

-----------------------------------------------------------------------------
(* A rank whose peer is already in this exchange comes to make it too: all *)
(* ranks run the same steps.                                               *)
Join(r) ==
  /\ \E q \in Peers(r) : round[q] > round[r] \/ (round[q] = round[r] /\ pc[q] # "idle")
  /\ Begin(r)

(* MPI makes progress when the sender waits and the receive is posted, and *)
(* writes a message while the receiver waits.                              *)
Progress(r, q) ==
  \/ pc[r] = "wait" /\ recvReq[q][r] # "none" /\ Transmit(r, q)
  \/ pc[r] = "wait" /\ Deliver(r, q)

(* An error that a callback recorded is rethrown at the end of the wait.   *)
Rethrow(r) == error[r] /\ RequestsDrained(r) /\ Fail(r)

Fairness ==
  /\ \A r \in Ranks :
       WF_vars(Join(r)) /\ WF_vars(HostStep(r)) /\ WF_vars(Execute(r)) /\ WF_vars(Rethrow(r))
  /\ \A r \in Ranks : \A q \in Peers(r) : WF_vars(Progress(r, q))

FairSpec == Spec /\ Fairness

-----------------------------------------------------------------------------
(* An update never uses halo values of another step: the exchange and the  *)
(* updates implement HaloLockstep.                                         *)
Lockstep == INSTANCE HaloLockstep WITH done <- edge, saw <- used
ExchangeKeepsLockstep == Lockstep!Spec

(* While MPI may write the bytes of a receive, or has written bytes no     *)
(* callback has seen, no queued operation of the device reads or writes    *)
(* those bytes.                                                            *)
ReceiveBytesAreFree ==
  \A r \in Ranks : \A q \in Peers(r) :
    recvReq[r][q] \in {"posted", "done"} =>
      \A op \in Queued(r) : op.op \in {"h2d", "scatter"} =>
                              ~ (op.peer = q /\ op.slot = mode[r].slot)

(* While MPI may read the bytes of a send, no queued gather changes them   *)
(* and they are the values of the exchange the rank is in.                 *)
SendBytesAreStable ==
  \A r \in Ranks : \A q \in Peers(r) :
    sendReq[r][q] = "posted" =>
      /\ Op("gather") \notin Queued(r)
      /\ (IF transport = "pinned" THEN sendHost[r] ELSE sendDevice[r]) = round[r]

(* The transport the ranks agree on is what each of them asked for and can *)
(* do; only complete agreement starts an exchange.                         *)
NegotiationHonoursRequests ==
  [][transport' # transport =>
       \A r \in Ranks :
         /\ setting[r].request = 0 => transport' = "pinned"
         /\ setting[r].request = 2 => transport' = "device"
         /\ transport' = "device" => setting[r].aware
         /\ waitall' = (setting[r].policy = 1)]_vars

(* An exchange that a rank has begun ends, or the job is aborted.          *)
ExchangesEnd == \A r \in Ranks : pc[r] # "idle" ~> (pc[r] = "idle" \/ aborted)
=============================================================================
