------------------------------ MODULE MCProcess ------------------------------
(* Instances of Process for TLC: which requests meet. *)
EXTENDS Process

CONSTANTS r1, r2, r3, s1, s2

\* Three handlers share the slot of the trigger; two streams share the lock;
\* a handler and a stream share the process.
Meetings == {{r1, r2, r3}, {s1, s2}, {r1, s1}}

Crowd == {{s1, s2}}

=============================================================================
