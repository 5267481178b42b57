-------------------------------- MODULE ComsMgr --------------------------------
(***************************************************************************)
(* The thermostat's serial link (coms_mgr.c) on mulib's scheduler.  The    *)
(* UART's interrupt stores what happened in one variable, "event", and     *)
(* queues the coms_mgr task; the task reads the ring buffer of the UART    *)
(* driver into the client's buffer up to a null, and then hands over to    *)
(* the client.                                                             *)
(*                                                                         *)
(* The UART and its ring buffer are SERCOM3_USART of the vendor's library. *)
(* A message is a run of bytes and a null; which bytes does not matter.    *)
(***************************************************************************)
EXTENDS MuSched

CONSTANTS Coms,          \* the coms_mgr task
          Client,        \* the on_completion task of a receive
          Capacity,      \* bytes the client's buffer holds
          RingSize,      \* bytes the driver's receive ring holds
          MessageSizes,  \* lengths of the messages that are sent, null included
          MaxBacklog,    \* bound: bytes still to come when a request is sent
          ByteErrors,    \* whether the UART may lose a byte and report an error
          StrayEvents,   \* further events: "WRITE_THRESHOLD", "BREAK"
          GarbageIsNull  \* what an uninitialised char may compare to '\0' as

ASSUME ComsAssumption ==
  /\ Coms \in IsrTasks /\ Client \in Tasks /\ Client # Coms
  /\ {Capacity, RingSize, MaxBacklog + 1} \subseteq Nat \ {0}
  /\ MessageSizes \subseteq Nat \ {0}
  /\ ByteErrors \in BOOLEAN /\ GarbageIsNull \subseteq BOOLEAN

Byte == "byte"
Nul == "null"
ReadEvent == "READ_THRESHOLD"   \* handled as READ_BUFFER_FULL is
ErrorEvent == "READ_ERROR"

VARIABLES coms,      \* state of the coms_mgr task
          event,     \* self->event
          ring,      \* bytes in the driver's receive ring
          received,  \* buf up to bytes_received
          comsError, \* self->had_error
          incoming   \* what the other side has still to send

comsVars == <<coms, event, ring, received, comsError, incoming>>

Message(n) == [k \in 1 .. n |-> IF k = n THEN Nul ELSE Byte]

ComsTypeOK ==
  /\ TypeOK
  /\ coms \in {"IDLE", "START_RQST", "AWAIT_RQST"}
  /\ event \in {ReadEvent, ErrorEvent} \union StrayEvents
  /\ ring \in Seq({Byte, Nul}) /\ incoming \in Seq({Byte, Nul})
  /\ received \in Seq({Byte, Nul}) /\ Len(received) <= Capacity
  /\ comsError \in BOOLEAN

ComsInit ==
  /\ Init
  /\ coms = "IDLE"
  /\ event = ReadEvent
  /\ ring = <<>> /\ received = <<>> /\ incoming = <<>>
  /\ comsError = FALSE

-------------------------------------------------------------------------------
(* What a client does, in a step of its own, to send a request and receive *)
(* the reply.                                                              *)

\* Fault: the count of bytes received is not reset.
RecvKeepsBytes ==
  /\ coms' = "START_RQST"
  /\ received' = received
  /\ comsError' = FALSE

Recv ==   \* coms_mgr_recv, but for the queueing of the task
  /\ coms' = "START_RQST"
  /\ received' = <<>>
  /\ comsError' = FALSE

\* coms_mgr_send; the answer is asked for, its bytes come as they please.
Send == \E n \in MessageSizes : incoming' = incoming \o Message(n)
Quiet == Len(incoming) <= MaxBacklog

-------------------------------------------------------------------------------
(* The interrupt, coms_rx_cb: the event is stored and the task queued.     *)

RxCallback(e) ==
  /\ event' = e
  /\ FromIsr(Coms)

ByteArrives ==
  /\ incoming # <<>>
  /\ ring' = IF Len(ring) < RingSize THEN Append(ring, Head(incoming)) ELSE ring
  /\ incoming' = Tail(incoming)
  /\ RxCallback(ReadEvent)
  /\ UNCHANGED <<coms, received, comsError>>

ByteLost ==
  /\ ByteErrors
  /\ incoming # <<>>
  /\ incoming' = Tail(incoming)
  /\ RxCallback(ErrorEvent)
  /\ UNCHANGED <<coms, ring, received, comsError>>

StrayEvent ==
  /\ \E e \in StrayEvents : RxCallback(e)
  /\ UNCHANGED <<coms, ring, received, comsError, incoming>>

-------------------------------------------------------------------------------
(* coms_mgr_fn, run to its end. *)

\* task_info logs; the one transfer is the one that endgame makes.
EndGame(hadError) ==
  /\ comsError' = hadError
  /\ coms' = "IDLE"
  /\ asap' = Queued(asap, Client)

\* Fault: the loop does not look for the end of the buffer.
ReadableAnyway == {n \in 0 .. Len(ring) : \A k \in 1 .. n - 1 : ring[k] # Nul}

\* How many bytes the read loop may move: it stops after a null and at the
\* end of the ring or of the buffer.
Readable ==
  {n \in 0 .. Len(ring) :
     /\ Len(received) + n <= Capacity
     /\ \A k \in 1 .. n - 1 : ring[k] # Nul}

ReadBytes ==
  \E n \in Readable :
    /\ \A m \in Readable : m <= n
    /\ received' = received \o SubSeq(ring, 1, n)
    /\ ring' = SubSeq(ring, n + 1, Len(ring))
    /\ \E atNull \in IF n = 0 THEN GarbageIsNull ELSE {ring[n] = Nul} :
         IF atNull \/ Len(received') = Capacity
         THEN EndGame(FALSE)
         ELSE UNCHANGED <<coms, comsError, asap>>

HandleEvent ==
  \/ event = ReadEvent /\ ReadBytes
  \/ event = ErrorEvent /\ EndGame(TRUE) /\ UNCHANGED <<ring, received>>
  \/ event \in StrayEvents /\ EndGame(FALSE) /\ UNCHANGED <<ring, received>>

ComsRuns ==
  /\ curr = Coms /\ curr' = NoTask
  /\ \/ coms = "IDLE" /\ UNCHANGED <<asap, coms, ring, received, comsError>>
     \/ coms = "START_RQST" /\ coms' = "AWAIT_RQST"
          /\ UNCHANGED <<asap, ring, received, comsError>>
     \/ coms = "AWAIT_RQST" /\ HandleEvent
  /\ UNCHANGED <<now, irq, deferred, idle, event, incoming>>
===============================================================================
