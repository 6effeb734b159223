------------------------------ MODULE NetIOMP ------------------------------
(***************************************************************************)
(* io::NetIOMP (src/src/io/netmp.h): one FIFO byte stream per ordered pair *)
(* of processes.  For i < j the connection ios carries what i sends to j   *)
(* and ios2 what j sends to i, so the two directions never mix.            *)
(*                                                                         *)
(* NetIO buffers what is written (a stdio stream): send only appends, and  *)
(* whole messages reach the peer when the buffer overflows, when the       *)
(* sender flushes, or at once in a clang build (EagerFlush).  A stream is  *)
(* modelled by the log of everything ever written to it and two cursors:   *)
(* how much has left the sender's buffer, how much the peer has read.      *)
(***************************************************************************)
EXTENDS Integers, Sequences

CONSTANTS Procs,        \* the connected processes
          EagerFlush    \* TRUE in a build with __clang__ defined

ASSUME EagerFlushAssumption == EagerFlush \in BOOLEAN

VARIABLES log,          \* log[p][q]: every message p has written to q
          flushed,      \* flushed[p][q]: how many of them left p's buffer
          read          \* read[p][q]: how many of them q has read

netVars == <<log, flushed, read>>

NetInit ==
  /\ log     = [p \in Procs |-> [q \in Procs |-> << >>]]
  /\ flushed = [p \in Procs |-> [q \in Procs |-> 0]]
  /\ read    = [p \in Procs |-> [q \in Procs |-> 0]]

(* sent[q] of process p: set by the first send and never reset.            *)
Sent(p, q) == log[p][q] # << >>

(* What a send pushes out of the buffer: nothing, what it held before, or   *)
(* all of it.  A clang build flushes at once.                              *)
Cuts == IF EagerFlush THEN {"all"} ELSE {"none", "older", "all"}

(* Process p sends msgs[q] to every q \in DOMAIN msgs, in one uninterrupted *)
(* loop of sends (no send blocks).  Whether the buffer of a stream          *)
(* overflows meanwhile is open.                                            *)
Send(p, msgs) ==
  LET dsts == DOMAIN msgs
      Written(q) == IF q \in dsts THEN Append(log[p][q], msgs[q]) ELSE log[p][q]
      Gone(q, cut) == IF cut = "all" THEN Len(log[p][q]) + 1
                      ELSE IF cut = "older" THEN Len(log[p][q]) ELSE flushed[p][q]
  IN  /\ log' = [log EXCEPT ![p] = [q \in Procs |-> Written(q)]]
      /\ \E cut \in [dsts -> Cuts] :
            flushed' = [flushed EXCEPT ![p] =
              [q \in Procs |-> IF q \in dsts THEN Gone(q, cut[q]) ELSE flushed[p][q]]]
      /\ UNCHANGED read

(* Several sends to each destination, in the order of msgs[q]; each stream  *)
(* may be cut between any two messages.                                    *)
SendAll(p, msgs) ==
  LET dsts == {q \in DOMAIN msgs : msgs[q] # << >>}
      Written(q) == IF q \in dsts THEN log[p][q] \o msgs[q] ELSE log[p][q]
      Room == {Len(Written(q)) - flushed[p][q] : q \in dsts}
      most == CHOOSE r \in Room \cup {0} : \A s \in Room : s <= r
      Gone(cut, q) == IF EagerFlush THEN Len(Written(q)) ELSE flushed[p][q] + cut[q]
  IN  /\ log' = [log EXCEPT ![p] = [q \in Procs |-> Written(q)]]
      /\ \E cut \in IF EagerFlush THEN {<< >>} ELSE [dsts -> 0..most] :
            /\ \A q \in dsts : Gone(cut, q) \in flushed[p][q]..Len(Written(q))
            /\ flushed' = [flushed EXCEPT ![p] =
                 [q \in Procs |-> IF q \in dsts THEN Gone(cut, q) ELSE flushed[p][q]]]
      /\ UNCHANGED read

(* What a sync writes leaves the buffer at once, with all that was in it:   *)
(* NetIO::sync flushes before it waits for the peer.                       *)
SendNow(p, q, msg) ==
  /\ log' = [log EXCEPT ![p][q] = Append(@, msg)]
  /\ flushed' = [flushed EXCEPT ![p][q] = Len(log[p][q]) + 1]
  /\ UNCHANGED read

(* Variant: recv does not flush. *)
MustFlush_Never(p, src) == FALSE

(* recv(src) first flushes the stream towards src, if it was ever used ... *)
MustFlush(p, src) == Sent(p, src) /\ flushed[p][src] < Len(log[p][src])

FlushTo(p, src) ==
  /\ MustFlush(p, src)
  /\ flushed' = [flushed EXCEPT ![p][src] = Len(log[p][src])]
  /\ UNCHANGED <<log, read>>

(* ... and then blocks until the next message of src is on the wire.       *)
Arrived(p, src) == ~MustFlush(p, src) /\ read[src][p] < flushed[src][p]

NextMsg(p, src) == log[src][p][read[src][p] + 1]

Consume(p, src) ==
  /\ read' = [read EXCEPT ![src][p] = @ + 1]
  /\ UNCHANGED <<log, flushed>>

NetTypeOK(Msg) ==
  /\ log     \in [Procs -> [Procs -> Seq(Msg)]]
  /\ flushed \in [Procs -> [Procs -> Nat]]
  /\ read    \in [Procs -> [Procs -> Nat]]

(* Nothing is read before it is flushed, nor flushed before it is written. *)
NetOK == \A p, q \in Procs : read[p][q] <= flushed[p][q] /\ flushed[p][q] <= Len(log[p][q])
=============================================================================
