----------------------------- MODULE RawEventStore ----------------------------
(***************************************************************************)
(* What the event pipeline promises its host, whatever its threads do      *)
(* (class comment of EventCompressionQueue): a file is admitted before it  *)
(* is written, no more than MaxFiles are admitted or on disk at a time, a  *)
(* written file is removed only once its verified archive exists, and a    *)
(* failure stops admission for good while keeping every file it finds.     *)
(***************************************************************************)
EXTENDS Naturals, FiniteSets

CONSTANTS Files, MaxFiles

VARIABLES
  reserved,  \* admitted, not written yet
  raw,       \* written and not removed
  archived,  \* a verified archive exists
  stopped    \* a failure was seen

vars == <<reserved, raw, archived, stopped>>

Init ==
  /\ reserved = {}
  /\ raw = {}
  /\ archived = {}
  /\ stopped = FALSE

Admit(f) ==
  /\ ~stopped
  /\ f \notin reserved \cup raw \cup archived
  /\ Cardinality(reserved \cup raw) < MaxFiles
  /\ reserved' = reserved \cup {f}
  /\ UNCHANGED <<raw, archived, stopped>>

\* The generator gave up before writing anything.
Withdraw(f) ==
  /\ f \in reserved
  /\ reserved' = reserved \ {f}
  /\ UNCHANGED <<raw, archived, stopped>>

Write(f) ==
  /\ f \in reserved
  /\ reserved' = reserved \ {f}
  /\ raw' = raw \cup {f}
  /\ UNCHANGED <<archived, stopped>>

Store(f) ==
  /\ f \in raw
  /\ archived' = archived \cup {f}
  /\ UNCHANGED <<reserved, raw, stopped>>

Remove(f) ==
  /\ f \in raw \cap archived
  /\ raw' = raw \ {f}
  /\ UNCHANGED <<reserved, archived, stopped>>

Stop ==
  /\ stopped' = TRUE
  /\ UNCHANGED <<reserved, raw, archived>>

Next ==
  \/ \E f \in Files : Admit(f) \/ Withdraw(f) \/ Write(f) \/ Store(f) \/ Remove(f)
  \/ Stop

Spec == Init /\ [][Next]_vars
=============================================================================
