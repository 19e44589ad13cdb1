--------------------------- MODULE ObjectRegister ---------------------------
(***************************************************************************)
(* What the store promises its clients about whole-object writes and       *)
(* deletes: every key is an atomic register.  A write takes effect once,   *)
(* at one moment between its call and its answer; a write answered with an *)
(* error may take effect at any later moment, or never.                    *)
(***************************************************************************)
CONSTANTS Keys, Writes, KeyOf, None

VARIABLES
    value,    \* key -> the write whose object it holds, or None
    taken,    \* writes that took effect and were seen
    overrun,  \* writes during whose call another write or a delete took effect
    reply     \* write -> idle, open, or what its client was told

rvars == <<value, taken, overrun, reply>>

Init ==
    /\ value = [k \in Keys |-> None]
    /\ taken = {} /\ overrun = {}
    /\ reply = [o \in Writes |-> "idle"]

Open(k) == {o \in Writes : KeyOf[o] = k /\ reply[o] = "open"}

Call(o) ==
    /\ reply[o] = "idle"
    /\ reply' = [reply EXCEPT ![o] = "open"]
    /\ UNCHANGED <<value, taken, overrun>>

(* o takes effect.  A write open at this moment may count as having taken  *)
(* effect just before it, overwritten before anyone could see it.          *)
Write(o) ==
    /\ o \notin taken
    /\ reply[o] \in {"open", "error"}
    /\ value' = [value EXCEPT ![KeyOf[o]] = o]
    /\ taken' = taken \cup {o}
    /\ overrun' = overrun \cup (Open(KeyOf[o]) \ {o})

(* The keys of ks, each holding an object, lose it.                        *)
Delete(ks) ==
    /\ \A k \in ks : value[k] # None
    /\ value' = [k \in Keys |-> IF k \in ks THEN None ELSE value[k]]
    /\ overrun' = overrun \cup UNION {Open(k) : k \in ks}
    /\ UNCHANGED taken

(* Success is answered only to a write that took effect, seen or not.      *)
Answer(o) ==
    /\ reply[o] = "open"
    /\ \/ o \in taken' \cup overrun' /\ reply' = [reply EXCEPT ![o] = "ok"]
       \/ reply' = [reply EXCEPT ![o] = "error"]

Next ==
    \/ \E o \in Writes : Call(o)
    \/ \E o \in Writes : UNCHANGED <<value, taken, overrun>> /\ Answer(o)
    \/ \E o \in Writes : Write(o) /\ (Answer(o) \/ UNCHANGED reply)
    \/ \E ks \in SUBSET Keys : Delete(ks) /\ UNCHANGED reply

Spec == Init /\ [][Next]_rvars
=============================================================================
