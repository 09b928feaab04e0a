---------------------------- MODULE UsbTelemetry ----------------------------
(***************************************************************************)
(* Telemetry over USB, os/chibios/usb_telemetry.c, on top of Messaging.    *)
(* The transmit thread is the consumer usb: while the host is not there it *)
(* keeps the consumer paused and its mailbox empty, and so it does for a   *)
(* second after a packet that could not be sent.  The receive thread is    *)
(* the sender rx.  The host may come, go, and read or not, at any moment.  *)
(* The virtual serial port is external: its output queue counts packets,   *)
(* and is emptied when the host configures the device.                     *)
(***************************************************************************)
EXTENDS Messaging

CONSTANTS
    usb,            \* usb_telemetry_messaging_consumer and its transmit thread
    rx,             \* the receive thread
    OutputSize      \* packets that fit into the output queue of SDU1

ASSUME UsbAssumption == usb \in Consumers /\ rx \in Senders /\ OutputSize \in Nat \ {0}

VARIABLES
    transmit,       \* where the transmit thread is in its loop; "disabled" when
                    \* messaging_all_start_options is told to do without USB
    receive,        \* and the receive thread in its own
    active,         \* serusbcfg.usbp->state = USB_ACTIVE
    output          \* packets in the output queue of SDU1

usbVars == <<transmit, receive, active, output>>
allVars == <<vars, usbVars>>

UsbInit ==
    /\ Init
    /\ transmit \in {"start", "disabled"}
    /\ receive = IF transmit = "start" THEN "check" ELSE "disabled"
    /\ active = FALSE /\ output = 0

-----------------------------------------------------------------------------
(* The host *)

Connect ==
    /\ transmit # "disabled" /\ ~active
    /\ active' = TRUE /\ output' = 0
    /\ UNCHANGED <<vars, transmit, receive>>

Disconnect ==
    /\ active
    /\ active' = FALSE
    /\ UNCHANGED <<vars, transmit, receive, output>>

HostReads ==
    /\ active /\ output > 0
    /\ output' = output - 1
    /\ UNCHANGED <<vars, transmit, receive, active>>

-----------------------------------------------------------------------------
(* usb_telemetry_start and usb_telemetry_transmit_thread.  A sleep is a time *)
(* in which the thread takes no step.                                        *)

UsbGoto(label) == transmit' = label /\ UNCHANGED <<receive, active, output>>

Start ==
    /\ transmit = "start"
    /\ messaging_consumer_init(usb)
    /\ UsbGoto("initialise")

\* The pause of usb_telemetry_start, or of a thread that has just failed to send
PauseUsb ==
    /\ transmit \in {"initialise", "failed"}
    /\ Pause(usb, TRUE)
    /\ UsbGoto("check")

\* No host: pause, flush, and sleep for a second
PauseInactive ==
    /\ transmit = "check" /\ ~active
    /\ Pause(usb, TRUE)
    /\ UsbGoto("check")

\* Mutant: a host that comes back is not noticed
ForgetResume ==
    /\ transmit = "check" /\ active
    /\ At(usb, "flushed") \/ At(usb, "returned")
    /\ Goto(usb, "receive") /\ UNCHANGED <<shared, locals>>
    /\ UsbGoto("receive")

ResumeActive ==
    /\ transmit = "check" /\ active
    /\ \/ Resume(usb)
       \/ At(usb, "returned") /\ UNCHANGED vars    \* it was not paused
    /\ UsbGoto("receive")

ReceiveNext ==
    /\ transmit = "receive"
    /\ Receive(usb)
    /\ UsbGoto("transmit_packet")

\* transmit_packet tests the state ...
TestActive ==
    /\ transmit = "transmit_packet"
    /\ IF active THEN UsbGoto("send") /\ UNCHANGED vars
       ELSE UsbGoto("failed") /\ CallbackReturns(usb)

\* ... and puts the packet into the queue, which may be full: the host does not read
SendPacket ==
    /\ transmit = "send"
    /\ CallbackReturns(usb)
    /\ IF output < OutputSize
       THEN transmit' = "check" /\ output' = output + 1
       ELSE transmit' = "failed" /\ UNCHANGED output
    /\ UNCHANGED <<receive, active>>

Flush == (FlushFetch(usb) \/ FlushRelease(usb) \/ FlushEnds(usb)) /\ UNCHANGED usbVars

TransmitThread ==
    \/ Start \/ PauseUsb \/ PauseInactive \/ ResumeActive \/ ReceiveNext
    \/ TestActive \/ SendPacket \/ Flush

-----------------------------------------------------------------------------
(* usb_telemetry_receive_thread *)

CheckActive ==
    /\ receive = "check" /\ active
    /\ pc[rx] = "idle"
    /\ receive' = "reading"
    /\ UNCHANGED <<vars, transmit, active, output>>

\* serial_interface_next_packet: a packet, which is sent on ...
PacketRead ==
    /\ receive = "reading"
    /\ Alloc(rx)
    /\ receive' = "check"
    /\ UNCHANGED <<transmit, active, output>>

\* ... or NULL: what came was damaged, or there was no memory for it
NothingRead ==
    /\ receive = "reading"
    /\ \/ UNCHANGED component_states
       \/ /\ \A p \in Heap[rx] : heap[p] # None
          /\ component_states' = [component_states EXCEPT !.telemetry_allocator = "error"]
    /\ receive' = "check"
    /\ UNCHANGED <<pc, heap, ref_pool, ref_packet, reference_count, mailbox, is_paused,
                   consumer_pool, locals, transmit, active, output>>

ReceiveThread ==
    \/ CheckActive \/ PacketRead \/ NothingRead
    \/ FinishSend(rx) /\ UNCHANGED usbVars

-----------------------------------------------------------------------------
\* messaging_all_start starts USB before the application has consumers of its own
UsbNext ==
    \/ Connect \/ Disconnect \/ HostReads
    \/ TransmitThread
    \/ ReceiveThread
    \/ \E s \in Senders \ {rx} : Sender(s) /\ UNCHANGED usbVars
    \/ \E c \in Consumers \ {usb} : transmit # "start" /\ Consumer(c) /\ UNCHANGED usbVars
    \/ \E t \in Threads : Free(t) /\ UNCHANGED usbVars

UsbSpec == UsbInit /\ [][UsbNext]_allVars

\* No thread that is ready waits for ever.  Strong fairness where a fetch may
\* be taken: the scheduler delays a thread past a Window, it does not starve
\* it, and chMBPost hands a message to the receiver that waits for one.
\* Nothing obliges a sender to send again, a consumer to pause or the host to
\* do anything.
UsbFairness ==
    /\ \A s \in Senders : SF_allVars(FinishSend(s) /\ UNCHANGED usbVars)
    /\ \A c \in Consumers \ {usb} : SF_allVars(Serve(c) /\ UNCHANGED usbVars)
    /\ SF_allVars(TransmitThread)
    /\ \A t \in Threads : WF_allVars(Free(t) /\ UNCHANGED usbVars)

FairUsbSpec == UsbSpec /\ UsbFairness

-----------------------------------------------------------------------------
\* A host that comes back and reads is served: the transmit thread does not
\* leave its consumer paused, however often the host went, or stopped reading,
\* in the middle of a packet before.
HostServedAgain ==
    <>[]active /\ []<>(output < OutputSize) => []<>(~is_paused[usb])
=============================================================================
