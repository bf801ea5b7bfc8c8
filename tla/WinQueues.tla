----------------------------- MODULE WinQueues -----------------------------
(***************************************************************************)
(* The threads of the Windows server proxy: entry() starts a capture       *)
(* thread for each network device and a handler for each queue; a capture  *)
(* thread puts every packet into a queue at random, the queue's handler    *)
(* takes it out.  The rings have no lock: a capture thread and a handler   *)
(* both change element_count, and capture threads may meet in a queue.     *)
(*                                                                         *)
(* What a handler does with a packet is left out, and so is the table; a   *)
(* packet is a number, and fits into an element of a ring.                 *)
(***************************************************************************)
EXTENDS Integers, SequencesExt

CONSTANTS
  Devices,       \* number of devices: count_dev
  Processors,    \* numbers of processors a machine may have
  QUEUE_COUNT, QUEUE_SIZE,
  MaxCaptured    \* bound on the packets

ASSUME WinAssumption ==
  /\ Devices \in Nat \ {0} /\ Processors \subseteq Nat \ {0}
  /\ QUEUE_COUNT \in Nat \ {0} /\ QUEUE_SIZE \in Nat \ {0} /\ MaxCaptured \in Nat

VARIABLES
  pkt_queue,   \* the rings
  gqueue_num,
  winmain,     \* where entry() is: pc, device, queue, and the processors of the machine
  alldevs,     \* the list of devices: "held", or "freed"
  finish_flag,
  capture,     \* where each capture thread is, and its locals
  handler,     \* where each handler is, and its locals
  captured,    \* packets captured so far
  put,         \* history: what was put into each queue
  handled,     \* history: what was taken out
  overlapped,  \* history: the queues in which updates have overlapped
  openFailed,  \* history: pcap_open has failed
  freedReads   \* history: who has used the list after it was freed

queueVars == <<pkt_queue, put, handled, overlapped, captured>>
deviceVars == <<alldevs, finish_flag, openFailed, freedReads>>
winVars == <<queueVars, deviceVars, gqueue_num, winmain, capture, handler>>

Queues == 0 .. QUEUE_COUNT - 1
Captures == 1 .. Devices
EmptyQueue == [node |-> [i \in 0 .. QUEUE_SIZE - 1 |-> 0], head |-> 0, tail |-> 0, element_count |-> 0]
Next1(i) == (i + 1) % QUEUE_SIZE

CaptureAt(d, pc) == capture[d].pc = pc
HandlerAt(q, pc) == handler[q].pc = pc
MainAt(pc) == winmain.pc = pc

-----------------------------------------------------------------------------
(* The list of devices                                                     *)

\* A freed list is read: it may still be as it was.
ReadsList(who) == freedReads' = IF alldevs = "freed" THEN freedReads \cup {who} ELSE freedReads

\* entry: CreateThread for the device...
CreatesCapture ==
  /\ MainAt("create")
  /\ capture' = [capture EXCEPT ![winmain.d].pc = "open"]
  /\ winmain' = [winmain EXCEPT !.pc = "next"]
  /\ ReadsList("main")
  /\ UNCHANGED <<queueVars, alldevs, finish_flag, openFailed, gqueue_num, handler>>

\* ... d = d->next, when the last capture thread may already have freed the list.
TakesNext ==
  /\ MainAt("next")
  /\ winmain' = IF winmain.d < Devices THEN [winmain EXCEPT !.pc = "create", !.d = @ + 1]
                ELSE [winmain EXCEPT !.pc = "cpus"]
  /\ ReadsList("main")
  /\ UNCHANGED <<queueVars, alldevs, finish_flag, openFailed, gqueue_num, capture, handler>>

\* worker_thread: pcap_open and the log read the name and the description.
OpensDevice(d) ==
  /\ CaptureAt(d, "open")
  /\ capture' = [capture EXCEPT ![d].pc = "finish"]
  /\ ReadsList("capture")
  /\ UNCHANGED <<queueVars, alldevs, finish_flag, openFailed, gqueue_num, winmain, handler>>

\* The thread frees the list that the others are reading, and ends.
OpenFails(d) ==
  /\ CaptureAt(d, "open")
  /\ capture' = [capture EXCEPT ![d].pc = "ended"]
  /\ alldevs' = "freed" /\ openFailed' = TRUE
  /\ ReadsList("capture")
  /\ UNCHANGED <<queueVars, finish_flag, gqueue_num, winmain, handler>>

\* Mutant: the thread before the last one frees the list.
Finishes_OneLess(d) ==
  /\ CaptureAt(d, "finish")
  /\ finish_flag' = finish_flag + 1
  /\ alldevs' = IF finish_flag' >= Devices - 1 THEN "freed" ELSE alldevs
  /\ capture' = [capture EXCEPT ![d].pc = "loop"]
  /\ UNCHANGED <<queueVars, openFailed, freedReads, gqueue_num, winmain, handler>>

\* InterlockedIncrement(&finish_flag): the last one frees the list.
Finishes(d) ==
  /\ CaptureAt(d, "finish")
  /\ finish_flag' = finish_flag + 1
  /\ alldevs' = IF finish_flag' >= Devices THEN "freed" ELSE alldevs
  /\ capture' = [capture EXCEPT ![d].pc = "loop"]
  /\ UNCHANGED <<queueVars, openFailed, freedReads, gqueue_num, winmain, handler>>

-----------------------------------------------------------------------------
(* entry, after the capture threads                                        *)

\* gqueue_num is what the machine has, and only then no more than QUEUE_COUNT...
CountsProcessors ==
  /\ MainAt("cpus")
  /\ gqueue_num' = winmain.cpus
  /\ winmain' = [winmain EXCEPT !.pc = "limit"]
  /\ UNCHANGED <<queueVars, deviceVars, capture, handler>>

LimitsQueues ==
  /\ MainAt("limit")
  /\ gqueue_num' = IF gqueue_num > QUEUE_COUNT THEN QUEUE_COUNT ELSE gqueue_num
  /\ winmain' = [winmain EXCEPT !.pc = "handlers"]
  /\ UNCHANGED <<queueVars, deviceVars, capture, handler>>

\* ... and each of these queues gets a handler.
CreatesHandler ==
  /\ MainAt("handlers")
  /\ handler' = [handler EXCEPT ![winmain.q].pc = "poll"]
  /\ winmain' = IF winmain.q + 1 < gqueue_num THEN [winmain EXCEPT !.q = @ + 1]
                ELSE [winmain EXCEPT !.pc = "wait"]
  /\ UNCHANGED <<queueVars, deviceVars, gqueue_num, capture>>

\* CreateThread fails, for a capture thread or a handler: entry returns, the process ends.
CreationFails ==
  /\ winmain.pc \in {"create", "handlers"}
  /\ winmain' = [winmain EXCEPT !.pc = "gone"]
  /\ capture' = [d \in Captures |-> [capture[d] EXCEPT !.pc = "ended"]]
  /\ handler' = [q \in Queues |-> [handler[q] EXCEPT !.pc = "ended"]]
  /\ UNCHANGED <<queueVars, deviceVars, gqueue_num>>

-----------------------------------------------------------------------------
(* packet_handler, en_queue                                                *)

InEnQueue(d, q) == capture[d].q = q /\ ~CaptureAt(d, "loop")

\* Mutant: one packet more than the ring holds.
Full_AtSizePlusOne(q) == pkt_queue[q].element_count > QUEUE_SIZE

\* full_queue
Full(q) == pkt_queue[q].element_count >= QUEUE_SIZE

\* rand() % gqueue_num; en_queue drops the packet of a queue that is full.
ChoosesQueue(d) ==
  /\ CaptureAt(d, "loop")
  /\ captured < MaxCaptured /\ captured' = captured + 1
  /\ \E q \in Queues :
       /\ q < gqueue_num
       /\ IF Full(q) THEN UNCHANGED <<capture, overlapped>>
          ELSE /\ capture' = [capture EXCEPT ![d] = [@ EXCEPT !.pc = "copy", !.q = q, !.pkt = captured']]
               /\ overlapped' = IF \E e \in Captures : InEnQueue(e, q) THEN overlapped \cup {q} ELSE overlapped
  /\ UNCHANGED <<pkt_queue, put, handled, deviceVars, gqueue_num, winmain, handler>>

\* While gqueue_num is more than QUEUE_COUNT the packet may be written behind the array.
WritesOutside(d) ==
  /\ CaptureAt(d, "loop")
  /\ gqueue_num > QUEUE_COUNT
  /\ captured < MaxCaptured /\ captured' = captured + 1
  /\ UNCHANGED <<pkt_queue, put, handled, overlapped, deviceVars, gqueue_num, winmain, capture, handler>>

EnQueueCopies(d) ==
  LET q == capture[d].q IN
  /\ CaptureAt(d, "copy")
  /\ pkt_queue' = [pkt_queue EXCEPT ![q].node[pkt_queue[q].tail] = capture[d].pkt]
  /\ put' = [put EXCEPT ![q] = Append(@, capture[d].pkt)]
  /\ capture' = [capture EXCEPT ![d].pc = "tail", ![d].reg = pkt_queue[q].tail]
  /\ UNCHANGED <<captured, handled, overlapped, deviceVars, gqueue_num, winmain, handler>>

EnQueueMovesTail(d) ==
  LET q == capture[d].q IN
  /\ CaptureAt(d, "tail")
  /\ pkt_queue' = [pkt_queue EXCEPT ![q].tail = Next1(capture[d].reg)]
  /\ capture' = [capture EXCEPT ![d].pc = "count"]
  /\ UNCHANGED <<captured, put, handled, overlapped, deviceVars, gqueue_num, winmain, handler>>

\* element_count++ loads...
EnQueueLoads(d) ==
  /\ CaptureAt(d, "count")
  /\ capture' = [capture EXCEPT ![d].pc = "store", ![d].reg = pkt_queue[capture[d].q].element_count]
  /\ UNCHANGED <<queueVars, deviceVars, gqueue_num, winmain, handler>>

\* An update that is not of the value it has loaded has lost another one.
Lost(q, reg) == overlapped' = IF pkt_queue[q].element_count = reg THEN overlapped ELSE overlapped \cup {q}

\* ... and stores.
EnQueueStores(d) ==
  LET q == capture[d].q IN
  /\ CaptureAt(d, "store")
  /\ pkt_queue' = [pkt_queue EXCEPT ![q].element_count = capture[d].reg + 1]
  /\ Lost(q, capture[d].reg)
  /\ capture' = [capture EXCEPT ![d].pc = "loop", ![d].reg = 0, ![d].pkt = 0]
  /\ UNCHANGED <<captured, put, handled, deviceVars, gqueue_num, winmain, handler>>

-----------------------------------------------------------------------------
(* handle_work, de_queue                                                   *)

\* The queue is not empty; the packet at its head is copied.
DeQueueCopies(q) ==
  /\ HandlerAt(q, "poll")
  /\ pkt_queue[q].element_count > 0
  /\ handler' = [handler EXCEPT ![q] = [pc |-> "head", pkt |-> pkt_queue[q].node[pkt_queue[q].head], reg |-> 0]]
  /\ UNCHANGED <<queueVars, deviceVars, gqueue_num, winmain, capture>>

DeQueueMovesHead(q) ==
  /\ HandlerAt(q, "head")
  /\ pkt_queue' = [pkt_queue EXCEPT ![q].head = Next1(@)]
  /\ handler' = [handler EXCEPT ![q].pc = "store", ![q].reg = pkt_queue[q].element_count]
  /\ UNCHANGED <<captured, put, handled, overlapped, deviceVars, gqueue_num, winmain, capture>>

DeQueueStores(q) ==
  /\ HandlerAt(q, "store")
  /\ pkt_queue' = [pkt_queue EXCEPT ![q].element_count = handler[q].reg - 1]
  /\ Lost(q, handler[q].reg)
  /\ handler' = [handler EXCEPT ![q].pc = "handle", ![q].reg = 0]
  /\ UNCHANGED <<captured, put, handled, deviceVars, gqueue_num, winmain, capture>>

\* HandleIncomingData
Handles(q) ==
  /\ HandlerAt(q, "handle")
  /\ handled' = [handled EXCEPT ![q] = Append(@, handler[q].pkt)]
  /\ handler' = [handler EXCEPT ![q].pc = "poll", ![q].pkt = 0]
  /\ UNCHANGED <<pkt_queue, captured, put, overlapped, deviceVars, gqueue_num, winmain, capture>>
-----------------------------------------------------------------------------

WinInit ==
  /\ pkt_queue = [q \in Queues |-> EmptyQueue]
  /\ gqueue_num = QUEUE_COUNT
  /\ \E n \in Processors : winmain = [pc |-> "create", d |-> 1, q |-> 0, cpus |-> n]
  /\ alldevs = "held" /\ finish_flag = 0
  /\ capture = [d \in Captures |-> [pc |-> "none", q |-> QUEUE_COUNT, pkt |-> 0, reg |-> 0]]
  /\ handler = [q \in Queues |-> [pc |-> "none", pkt |-> 0, reg |-> 0]]
  /\ captured = 0
  /\ put = [q \in Queues |-> <<>>] /\ handled = [q \in Queues |-> <<>>]
  /\ overlapped = {} /\ openFailed = FALSE /\ freedReads = {}

MainSteps ==
  CreatesCapture \/ TakesNext \/ CountsProcessors \/ LimitsQueues \/ CreatesHandler \/ CreationFails

CaptureSteps(d) ==
  \/ OpensDevice(d) \/ OpenFails(d) \/ Finishes(d)
  \/ ChoosesQueue(d) \/ WritesOutside(d)
  \/ EnQueueCopies(d) \/ EnQueueMovesTail(d) \/ EnQueueLoads(d) \/ EnQueueStores(d)

HandlerSteps(q) == DeQueueCopies(q) \/ DeQueueMovesHead(q) \/ DeQueueStores(q) \/ Handles(q)

WinNext ==
  \/ MainSteps
  \/ \E d \in Captures : CaptureSteps(d)
  \/ \E q \in Queues : HandlerSteps(q)

WinSpec == WinInit /\ [][WinNext]_winVars

-----------------------------------------------------------------------------
(* Properties                                                              *)

AtRest(q) == (\A d \in Captures : ~InEnQueue(d, q)) /\ handler[q].pc \in {"none", "poll"}

\* Until two updates of a queue overlap, its handler gets the packets put into it in their
\* order, each once, and at rest element_count is the number of those that wait.  A lost
\* update is the only way for a packet to be left behind, repeated or overwritten.
QueueIsFifo ==
  \A q \in Queues \ overlapped :
    LET waiting == Len(put[q]) - Len(handled[q]) IN
    /\ IsPrefix(handled[q], put[q])
    /\ AtRest(q) =>
         /\ pkt_queue[q].element_count = waiting
         /\ \A i \in 1 .. waiting :
              pkt_queue[q].node[(pkt_queue[q].head + i - 1) % QUEUE_SIZE] = put[q][Len(handled[q]) + i]

\* The list of devices is freed once every capture thread has read it, unless pcap_open
\* failed for one of them; only entry's step past the last device comes too late for it.
ListOutlivesReaders ==
  ~openFailed =>
    /\ "capture" \notin freedReads
    /\ "main" \in freedReads => winmain.d = Devices
=============================================================================
