----------------------------- MODULE Connection -----------------------------
(***************************************************************************)
(* What a client promises about its connection, whatever its concurrency:  *)
(* a connection is opened with a set of channels, channels are released    *)
(* one by one, and the connection is cleared only when none is left.  Only *)
(* an interrupt may make it give up channels, or clear it early.           *)
(***************************************************************************)
EXTENDS Integers

CONSTANT Channels        \* every channel the client may ever open

VARIABLES connected,     \* whether the client holds a services container
          open,          \* its channels that close() is still to be called on
          interrupts     \* how often an interrupt has been delivered

vars == <<connected, open, interrupts>>

Init == connected = FALSE /\ open = {} /\ interrupts = 0

Open ==
    /\ ~connected
    /\ connected' = TRUE
    /\ open' \in SUBSET Channels
    /\ UNCHANGED interrupts

Release(c) ==
    /\ c \in open
    /\ open' = open \ {c}
    /\ UNCHANGED <<connected, interrupts>>

Clear ==
    /\ connected
    /\ open = {}
    /\ connected' = FALSE
    /\ UNCHANGED <<open, interrupts>>

Interrupt ==
    /\ interrupts' = interrupts + 1
    /\ open' \in {open, {}}
    /\ \/ UNCHANGED connected
       \/ connected' = FALSE /\ open' = {}

Next == Open \/ (\E c \in Channels : Release(c)) \/ Clear \/ Interrupt

Spec == Init /\ [][Next]_vars
=============================================================================
