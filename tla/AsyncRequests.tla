--------------------------- MODULE AsyncRequests ---------------------------
(***************************************************************************)
(* What the asynchronous HTTP interface of the native runtime promises to  *)
(* the program that calls it, one handle at a time: a submitted request is *)
(* pending until it is either done or cancelled and never changes sides; a *)
(* stream delivers the response body in order and without gaps; a stream   *)
(* that succeeded cannot be given up before its whole body was delivered.  *)
(*                                                                         *)
(* AsyncNet (src/compiler/native_async_net.c) implements this module.      *)
(***************************************************************************)
EXTENDS Naturals, Sequences

CONSTANTS
  Handles,   \* the handles a program can hold
  Modes,     \* 0: buffered request, 1: caller-consumed stream
  Body       \* the length of a streamed response body, in bytes

VARIABLES
  phase,     \* "none", "pending", "done" or "cancelled", per handle
  mode,      \* the mode the handle was submitted with
  ok,        \* TRUE once the request is done and a response was received
  received   \* the number of body bytes the program has read, per handle

vars == <<phase, mode, ok, received>>

Init ==
  /\ phase = [h \in Handles |-> "none"]
  /\ mode = [h \in Handles |-> 0]
  /\ ok = [h \in Handles |-> FALSE]
  /\ received = [h \in Handles |-> 0]

Submit(h) ==
  /\ phase[h] = "none"
  /\ phase' = [phase EXCEPT ![h] = "pending"]
  /\ \E m \in Modes : mode' = [mode EXCEPT ![h] = m]
  /\ UNCHANGED <<ok, received>>

Complete(h) ==
  /\ phase[h] = "pending"
  /\ phase' = [phase EXCEPT ![h] = "done"]
  /\ \E r \in BOOLEAN : ok' = [ok EXCEPT ![h] = r]
  /\ UNCHANGED <<mode, received>>

Cancel(h) ==
  /\ phase[h] = "pending"
  /\ phase' = [phase EXCEPT ![h] = "cancelled"]
  /\ UNCHANGED <<mode, ok, received>>

Deliver(h) ==
  /\ phase[h] # "none"
  /\ mode[h] = 1
  /\ \E n \in received[h] + 1 .. Body : received' = [received EXCEPT ![h] = n]
  /\ UNCHANGED <<phase, mode, ok>>

Forget(h) ==
  /\ phase[h] \in {"done", "cancelled"}
  /\ ok[h] /\ mode[h] = 1 => received[h] = Body
  /\ phase' = [phase EXCEPT ![h] = "none"]
  /\ mode' = [mode EXCEPT ![h] = 0]
  /\ ok' = [ok EXCEPT ![h] = FALSE]
  /\ received' = [received EXCEPT ![h] = 0]

Next ==
  \E h \in Handles :
    Submit(h) \/ Complete(h) \/ Cancel(h) \/ Deliver(h) \/ Forget(h)

Spec == Init /\ [][Next]_vars
=============================================================================
