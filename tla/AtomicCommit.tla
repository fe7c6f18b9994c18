---------------------------- MODULE AtomicCommit ----------------------------
(***************************************************************************)
(* What a commit promises to the users of the backend: the stored          *)
(* configuration and the managed system move together and in one step,     *)
(* or not at all, and the answer tells which.  The promise ends with the   *)
(* first failure that candidate_commit cannot repair (lost).               *)
(***************************************************************************)
CONSTANTS
  Keys,     \* the keys of a configuration
  Setting,  \* the values of a key, and of a part of the system
  Managed   \* the parts of the system, as pairs <<dependency, key>>

VARIABLES
  store,    \* the running configuration
  system,   \* system[e]: what part e of the system is set to
  phase,    \* "idle", "open": not yet decided, "done": committed
  op,       \* the request being served: "commit" or "validate"
  reply,    \* the answer to it
  lost      \* something failed that is not repaired

avars == <<store, system, phase, op, reply, lost>>

Config == [Keys -> Setting]

\* The state of the system that corresponds to configuration c.
Image(c) == [e \in Managed |-> c[e[2]]]

AInit ==
  /\ store \in Config
  /\ system = Image(store)
  /\ phase = "idle" /\ op = "commit" /\ reply = "none" /\ lost = FALSE

Request(o) ==
  /\ phase = "idle"
  /\ phase' = "open" /\ op' = o /\ reply' = "none"
  /\ UNCHANGED <<store, system, lost>>

\* The commit point.
Switch(c) ==
  /\ phase = "open" /\ op = "commit"
  /\ store' = c /\ system' = Image(c)
  /\ phase' = "done"
  /\ UNCHANGED <<op, reply, lost>>

\* "ok" follows a commit or a validation, "err" an unchanged configuration.
Answer(r) ==
  /\ \/ phase = "done" /\ r = "ok"
     \/ phase = "open" /\ (r = "err" \/ op = "validate")
  /\ phase' = "idle" /\ reply' = r
  /\ UNCHANGED <<store, system, op, lost>>

\* The promise ends.
Lose ==
  /\ phase # "idle" \/ lost
  /\ lost' = TRUE
  /\ store' \in Config /\ system' \in [Managed -> Setting]
  /\ phase' \in {"idle", "open", "done"}
  /\ op' \in {"commit", "validate"} /\ reply' \in {"none", "ok", "err"}

ANext == \/ \E o \in {"commit", "validate"} : Request(o)
         \/ \E c \in Config : Switch(c)
         \/ \E r \in {"ok", "err"} : Answer(r)
         \/ Lose

ASpec == AInit /\ [][ANext]_avars
=============================================================================
