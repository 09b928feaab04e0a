---------------------------- MODULE ComponentState ----------------------------
(***************************************************************************)
(* The health of the components, src/component_state.c.  Any thread        *)
(* reports the state of a component: the report is stored and then sent as *)
(* a packet through the messaging system, which reports an error of its    *)
(* own, from within that call, when it cannot send.  Nothing is locked.    *)
(*                                                                         *)
(* calls[t] is the stack of component_state_update calls thread t is in.   *)
(* A call remembers, for the properties, whether it changed a state while  *)
(* messaging was on, whether it tried to send that, and which recovery of  *)
(* its component was the last one when it stored.  Startup has the         *)
(* specification.                                                          *)
(***************************************************************************)
EXTENDS Integers, Sequences, SequencesExt

CONSTANTS
    Threads, Main,              \* Main calls messaging_start
    avionics_component_max,     \* the components are 0..avionics_component_max - 1
    Reports,                    \* the components each thread reports, beside messaging
                                \* and the allocator, which any thread does
    messaging_enabled,
    SendsOverall,               \* threads that call component_state_send_overall
    MaxUpdates                  \* bound: updates begun, nested ones not counted

Components == 0..avionics_component_max - 1
avionics_component_messaging == 0
avionics_component_telemetry_allocator == 1
OfMessaging == {avionics_component_messaging, avionics_component_telemetry_allocator}

States == {"state_ok", "state_initializing", "state_error"}

ASSUME ComponentAssumption ==
    /\ avionics_component_max \in Nat /\ avionics_component_max > 2
    /\ Main \in Threads /\ SendsOverall \subseteq Threads
    /\ Reports \in [Threads -> SUBSET Components]
    /\ messaging_enabled \in BOOLEAN /\ MaxUpdates \in Nat

VARIABLES
    component_states,
    registered_with_messaging,
    started,            \* has Main called messaging_start?
    calls,
    overall_loop,       \* the next component of t's component_state_send_overall,
                        \* or -1
    packets,            \* the packets sent
    updates,            \* updates begun so far
    recoveries,         \* for the properties: how often each component was stored to
                        \* be anything but in error
    resent,             \* for the properties: component_state_send_overall was called
    lost                \* for the properties: a packet was lost since messaging_start
                        \* stored its state_ok

vars == <<component_states, registered_with_messaging, started, calls, overall_loop,
          packets, updates, recoveries, resent, lost>>

\* component_state_start, before there is any other thread
Init ==
    /\ component_states = [c \in Components |-> "state_ok"]
    /\ registered_with_messaging = FALSE /\ started = FALSE
    /\ calls = [t \in Threads |-> <<>>]
    /\ overall_loop = [t \in Threads |-> -1]
    /\ packets = <<>>
    /\ updates = 0 /\ recoveries = [c \in Components |-> 0] /\ resent = FALSE /\ lost = FALSE

-----------------------------------------------------------------------------
NewCall(c, state) ==
    [component |-> c, state |-> state, at |-> "store", i |-> 0, overall |-> "state_ok",
     changed |-> FALSE, tried |-> FALSE, since |-> 0]

Idle(t) == calls[t] = <<>> /\ overall_loop[t] = -1

At(t, label) == calls[t] # <<>> /\ Last(calls[t]).at = label

\* The innermost call of t goes on as call
Becomes(t, call) == calls' = [calls EXCEPT ![t] = Append(Front(@), call)]

\* COMPONENT_STATE_UPDATE.  Several threads may report one component: those of the
\* CAN interface report errors of can_telemetry, and the can_interface_init of the
\* log thread that it is well.
Update(t, c, state) ==
    /\ Idle(t) /\ updates < MaxUpdates
    /\ \/ c \in Reports[t] \ OfMessaging
       \/ c \in OfMessaging /\ state = "state_error"
    /\ calls' = [calls EXCEPT ![t] = <<NewCall(c, state)>>]
    /\ updates' = updates + 1
    /\ UNCHANGED <<component_states, registered_with_messaging, started, overall_loop,
                   packets, recoveries, resent, lost>>

\* messaging_start: component_state_register_with_messaging, and the first update
MessagingStart ==
    /\ Idle(Main) /\ ~started
    /\ started' = TRUE
    /\ registered_with_messaging' = messaging_enabled
    /\ calls' = [calls EXCEPT ![Main] = <<NewCall(avionics_component_messaging, "state_ok")>>]
    /\ UNCHANGED <<component_states, overall_loop, packets, updates, recoveries, resent, lost>>

\* component_state_send_overall, and each turn of its loop
SendOverall(t) ==
    /\ Idle(t) /\ t \in SendsOverall /\ updates < MaxUpdates
    /\ overall_loop' = [overall_loop EXCEPT ![t] = 0]
    /\ updates' = updates + 1
    /\ resent' = TRUE
    /\ UNCHANGED <<component_states, registered_with_messaging, started, calls, packets,
                   recoveries, lost>>

OverallTurn(t) ==
    /\ calls[t] = <<>> /\ overall_loop[t] # -1
    /\ IF overall_loop[t] \in Components
       THEN /\ calls' = [calls EXCEPT ![t] =
                          <<NewCall(overall_loop[t], component_states[overall_loop[t]])>>]
            /\ overall_loop' = [overall_loop EXCEPT ![t] = @ + 1]
       ELSE overall_loop' = [overall_loop EXCEPT ![t] = -1] /\ UNCHANGED calls
    /\ UNCHANGED <<component_states, registered_with_messaging, started, packets, updates,
                   recoveries, resent, lost>>

-----------------------------------------------------------------------------
(* component_state_update *)

Store(t) ==
    /\ At(t, "store")
    /\ LET call == Last(calls[t])
       IN /\ component_states' = [component_states EXCEPT ![call.component] = call.state]
          /\ recoveries' = IF call.state = "state_error" THEN recoveries
                           ELSE [recoveries EXCEPT ![call.component] = @ + 1]
          /\ Becomes(t, [call EXCEPT !.at = "compare",
                           !.changed = /\ registered_with_messaging
                                       /\ component_states[call.component] # call.state,
                           !.since = recoveries'[call.component]])
    /\ UNCHANGED <<registered_with_messaging, started, overall_loop, packets, updates, resent, lost>>

\* Mutant: whatever its component, an update is sent
CompareAll(t) ==
    /\ At(t, "compare")
    /\ Becomes(t, [Last(calls[t]) EXCEPT !.at =
                     IF registered_with_messaging THEN "scan" ELSE "return"])
    /\ UNCHANGED <<component_states, registered_with_messaging, started, overall_loop,
                   packets, updates, recoveries, resent, lost>>

\* Whether the update is sent.  The state it is compared with is the one that
\* Store has just stored, unless another thread has stored one since.
Compare(t) ==
    /\ At(t, "compare")
    /\ LET call == Last(calls[t])
           send == /\ registered_with_messaging
                   /\ \/ call.component \notin OfMessaging
                      \/ component_states[call.component] # call.state
       IN Becomes(t, [call EXCEPT !.at = IF send THEN "scan" ELSE "return"])
    /\ UNCHANGED <<component_states, registered_with_messaging, started, overall_loop,
                   packets, updates, recoveries, resent, lost>>

\* Mutant: the scan stops at a component that initialises
ScanStopsEarly(t) ==
    /\ At(t, "scan")
    /\ LET call == Last(calls[t])
           seen == component_states[call.i]
           over == seen # "state_ok" \/ call.i = avionics_component_max - 1
       IN Becomes(t, [call EXCEPT !.overall = IF seen = "state_ok" THEN @ ELSE seen,
                                  !.i = @ + 1,
                                  !.at = IF over THEN "send" ELSE "scan"])
    /\ UNCHANGED <<component_states, registered_with_messaging, started, overall_loop,
                   packets, updates, recoveries, resent, lost>>

\* Mutant: the loop goes on past the last component
ScanTooFar(t) ==
    /\ At(t, "scan")
    /\ LET call == Last(calls[t])
           seen == component_states[call.i]
       IN Becomes(t, [call EXCEPT !.overall = IF seen = "state_ok" THEN @ ELSE seen,
                                  !.i = @ + 1,
                                  !.at = IF seen = "state_error" THEN "send" ELSE "scan"])
    /\ UNCHANGED <<component_states, registered_with_messaging, started, overall_loop,
                   packets, updates, recoveries, resent, lost>>

\* One turn of component_state_get_overall_state
Scan(t) ==
    /\ At(t, "scan")
    /\ LET call == Last(calls[t])
           seen == component_states[call.i]
           over == seen = "state_error" \/ call.i = avionics_component_max - 1
       IN Becomes(t, [call EXCEPT !.overall = IF seen = "state_ok" THEN @ ELSE seen,
                                  !.i = @ + 1,
                                  !.at = IF over THEN "send" ELSE "scan"])
    /\ UNCHANGED <<component_states, registered_with_messaging, started, overall_loop,
                   packets, updates, recoveries, resent, lost>>

\* messaging_producer_send
Send(t) ==
    /\ At(t, "send")
    /\ LET call == Last(calls[t])
       IN /\ packets' = Append(packets, [component |-> call.component, state |-> call.state,
                                         overall_state |-> call.overall,
                                         overtaken |-> recoveries[call.component] # call.since])
          /\ Becomes(t, [call EXCEPT !.at = "return", !.tried = TRUE])
    /\ UNCHANGED <<component_states, registered_with_messaging, started, overall_loop,
                   updates, recoveries, resent, lost>>

\* Is messaging_start past its store?
StartDone == started /\ \A k \in 1..Len(calls[Main]) :
                            calls[Main][k].state = "state_ok" => calls[Main][k].at # "store"

\* Mutant: a packet that cannot be sent is nobody's error
FailSilently(t) ==
    /\ At(t, "send")
    /\ Becomes(t, [Last(calls[t]) EXCEPT !.at = "return", !.tried = TRUE])
    /\ lost' = (lost \/ StartDone)
    /\ UNCHANGED <<component_states, registered_with_messaging, started, overall_loop,
                   packets, updates, recoveries, resent>>

\* ... which fails: for want of memory, an error of the allocator and then of
\* messaging, or for another reason, an error of messaging
SendFails(t) ==
    /\ At(t, "send")
    /\ LET call == Last(calls[t])
       IN \E no_memory \in BOOLEAN :
            calls' = [calls EXCEPT ![t] = Front(@) \o
               << [call EXCEPT !.at = IF no_memory THEN "failed" ELSE "return", !.tried = TRUE],
                  NewCall(IF no_memory THEN avionics_component_telemetry_allocator
                          ELSE avionics_component_messaging, "state_error") >>]
    /\ lost' = (lost \/ StartDone)
    /\ UNCHANGED <<component_states, registered_with_messaging, started, overall_loop,
                   packets, updates, recoveries, resent>>

MessagingError(t) ==
    /\ At(t, "failed")
    /\ calls' = [calls EXCEPT ![t] = Front(@) \o
          << [Last(@) EXCEPT !.at = "return"],
             NewCall(avionics_component_messaging, "state_error") >>]
    /\ UNCHANGED <<component_states, registered_with_messaging, started, overall_loop,
                   packets, updates, recoveries, resent, lost>>

\* The call of update_handler, which changes nothing here, and the return
Return(t) ==
    /\ At(t, "return")
    /\ calls' = [calls EXCEPT ![t] = Front(@)]
    /\ UNCHANGED <<component_states, registered_with_messaging, started, overall_loop,
                   packets, updates, recoveries, resent, lost>>

-----------------------------------------------------------------------------
component_state_update(t) ==
    \/ Store(t) \/ Compare(t) \/ Scan(t) \/ Send(t) \/ SendFails(t)
    \/ MessagingError(t) \/ Return(t)

-----------------------------------------------------------------------------
\* Type correctness of the component states.
ComponentTypeOK ==
    /\ component_states \in [Components -> States]
    /\ \A t \in Threads : \A k \in 1..Len(calls[t]) :
         /\ calls[t][k].component \in Components /\ calls[t][k].state \in States
         /\ calls[t][k].at \in {"store", "compare", "scan", "send", "failed", "return"}
         /\ calls[t][k].at = "scan" => calls[t][k].i \in Components

\* How often somebody stored that the messaging system is well
Corrections == recoveries[avionics_component_messaging]
               + recoveries[avionics_component_telemetry_allocator]

\* "error generated -> we send a packet -> an error is generated..." does not go
\* on: an update that cannot be sent nests one more, and deeper only as often
\* as somebody stored that the messaging system is well.
NoErrorLoop == \A t \in Threads : Len(calls[t]) <= 2 + Corrections

\* A packet that reports an error of a component says that the system as a whole
\* is in error, although the states are read one after the other while others
\* change them, unless a thread has stored meanwhile that this very component
\* is in no error: then the packet may say that all is well.
ErrorInOverall ==
    \A k \in 1..Len(packets) :
        packets[k].state = "state_error" /\ ~packets[k].overtaken
        => packets[k].overall_state = "state_error"

\* A state packet that was lost after messaging_start leaves a trace: once no
\* update is under way messaging is in error.  (Without component_state_send_overall.)
LossIsVisible ==
    ~resent /\ lost /\ (\A t \in Threads : calls[t] = <<>>)
    => component_states[avionics_component_messaging] = "state_error"

\* README.md says "State updates are sent out using the messaging system": at
\* the least an update that changes a state is, once messaging was started.
ChangesAreSent ==
    \A t \in Threads :
        At(t, "return") /\ Last(calls[t]).changed => Last(calls[t]).tried
=============================================================================
