------------------------------ MODULE MCLedger ------------------------------
(***************************************************************************)
(* Small instances of the ledger.  A behaviour is one team's: only its     *)
(* operations ever start, and they insert only so many intents.            *)
(***************************************************************************)
EXTENDS LedgerRegister, TLC

CONSTANTS Limit, \* the same bytes_limit on every backend
          Teams  \* the teams a run explores

VARIABLE team

allVars == <<vars, taken, overrun, team>>

MCCapacity == [b \in Backends |-> Limit]
Symmetry == Permutations(Backends)
OneKey == [o \in Ops |-> CHOOSE k \in Keys : TRUE]

(* Two PUTs beside a move; a fan-out PUT beside a replica and a move.      *)
EveryTeam ==
    {[ops |-> {"w1", "w2", "m1"}, paths |-> 3], [ops |-> {"f1", "r1", "m1"}, paths |-> 3]}
WritersOnly == {[ops |-> {"w1", "f1"}, paths |-> 3]}

InitTeam == HInit /\ team \in Teams

(* Of two writes that differ only in name, the first starts first.         *)
OnTeam ==
    /\ \A o \in Ops \ team.ops : status'[o] = "idle"
    /\ "w2" \in team.ops /\ status'["w1"] = "idle" => status'["w2"] = "idle"
    /\ claimed' <= team.paths
    /\ UNCHANGED team

NextTeam == HNext /\ OnTeam

SpecTeams == InitTeam /\ [][NextTeam]_allVars

-----------------------------------------------------------------------------
(* What the ledger eventually does.  Every backend call has a deadline     *)
(* (infra.WithTimeout) and every transaction a context, so an upload moves *)
(* on or fails and a write gives up; a PUT takes effect or is lost; the    *)
(* reaper runs on every tick, on a backend and a database that answer at   *)
(* last.  Nothing is assumed of the workers that start copies, of clients, *)
(* of crashes, or of the cleanup worker, whose rows may park in the DLQ.   *)

Fairness ==
    /\ \A p \in Paths : /\ WF_vars(p \in Used /\ Transfer(p) /\ OnTeam)
                        /\ WF_vars(p \in Used /\ Network(p) /\ OnTeam)
                        /\ WF_vars(p \in Used /\ Reaper(p) /\ OnTeam)
    /\ \A o \in Ops : WF_vars(GiveUp(o) /\ OnTeam)

FairTeams ==
    /\ InitTeam
    /\ [][Next /\ OnTeam /\ UNCHANGED <<taken, overrun>>]_allVars
    /\ Fairness

(* Every client write is answered, through failover and the failure of     *)
(* every copy of a fan-out (PutObject, commitAsTheyLand), and no claim is  *)
(* held for ever: an intent becomes a row, is cleared by another write or  *)
(* a delete, is discarded, or is resolved by the reaper, whatever its      *)
(* process did (PendingReaper.resolveOneIntent).                           *)
EveryWriteEnds ==
    /\ \A o \in Writes : status[o] = "open" ~> status[o] \in {"ok", "error"}
    /\ \A p \in Paths : p \in intents ~> p \notin intents
=============================================================================
