---------------------------- MODULE EmissionOrder ----------------------------
(***************************************************************************)
(* What the generated header promises, whatever order the generator looks  *)
(* at the types in: a class is written once, only when the classes of its  *)
(* members are written or nested in it, and the writing stops only when no *)
(* further class can be written.                                           *)
(***************************************************************************)
EXTENDS Schema

VARIABLES schema,    \* the parsed schema
          header,    \* the top-level classes written so far, in order
          stopped

vars == <<schema, header, stopped>>

Written == {header[i].name : i \in DOMAIN header}

Init ==
  /\ WellFormed(schema)
  /\ header = << >>
  /\ stopped = FALSE

Write(t) ==
  /\ ~stopped
  /\ Ready(schema, Written, t)
  /\ header' = Append(header, t)
  /\ UNCHANGED <<schema, stopped>>

Stop ==
  /\ ~stopped
  /\ \A t \in Listed(schema) : ~Ready(schema, Written, t)
  /\ stopped' = TRUE
  /\ UNCHANGED <<schema, header>>

Next == Stop \/ \E t \in Listed(schema) : Write(t)

SafeSpec == Init /\ [][Next]_vars

\* A writer that can write goes on, and one that cannot stops.
Spec == SafeSpec /\ WF_vars(Next)
==============================================================================
