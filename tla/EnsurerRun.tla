------------------------------ MODULE EnsurerRun ------------------------------
(***************************************************************************)
(* A run of the ensurer over its tasks, in the order of creation or        *)
(* backwards: what comes after each task and its result. The controller    *)
(* and the command line tool drive the ensurer this way; they differ in    *)
(* where the references come from and where they are put in the end.       *)
(***************************************************************************)
EXTENDS NSXTEnsurer

VARIABLES
  pc,      \* what the process does next
  i,       \* the task it is at
  failed   \* the tasks ended with an error

procVars == <<pc, i, failed>>

-----------------------------------------------------------------------------
(* EnsureInfrastructure: for each task try to recover its reference, then  *)
(* ensure it; the first error ends the run. last is how many tasks the     *)
(* version in the state has.                                               *)

\* Mutant: the last task is left out.
AfterEnsure_Short(res, last) ==
  CASE res = "panic" -> pc' = "panic" /\ UNCHANGED <<i, failed>>
    [] res = "err"   -> pc' = "save" /\ failed' = TRUE /\ UNCHANGED i
    [] res = "ok" /\ i + 1 < last -> pc' = "recover" /\ i' = i + 1 /\ UNCHANGED failed
    [] OTHER         -> pc' = "save" /\ UNCHANGED <<i, failed>>

AfterEnsure(res, last) ==
  CASE res = "panic" -> pc' = "panic" /\ UNCHANGED <<i, failed>>
    [] res = "err"   -> pc' = "save" /\ failed' = TRUE /\ UNCHANGED i
    [] res = "ok" /\ i < last -> pc' = "recover" /\ i' = i + 1 /\ UNCHANGED failed
    [] OTHER         -> pc' = "save" /\ UNCHANGED <<i, failed>>

-----------------------------------------------------------------------------
(* EnsureInfrastructureDeleted: recover all references in the order of     *)
(* creation, going on after errors, then delete in the reverse order.      *)

\* Mutant: nothing is recovered after the first task.
AfterRecoverAll_First(res, last) == pc' = "delete" /\ i' = last

AfterRecoverAll(res, last) ==
  IF res = "panic" THEN pc' = "panic" /\ UNCHANGED i
  ELSE IF i < last THEN i' = i + 1 /\ UNCHANGED pc
  ELSE pc' = "delete" /\ UNCHANGED i

\* Mutant: one task too many.
AfterDelete_Beyond(res, last) ==
  CASE res = "panic" -> pc' = "panic" /\ UNCHANGED <<i, failed>>
    [] res = "err"   -> pc' = "saveDeleted" /\ failed' = TRUE /\ UNCHANGED i
    [] res = "ok" /\ i > 0 -> i' = i - 1 /\ UNCHANGED <<pc, failed>>
    [] OTHER         -> pc' = "saveDeleted" /\ UNCHANGED <<i, failed>>

AfterDelete(res, last) ==
  CASE res = "panic" -> pc' = "panic" /\ UNCHANGED <<i, failed>>
    [] res = "err"   -> pc' = "saveDeleted" /\ failed' = TRUE /\ UNCHANGED i
    [] res = "ok" /\ i > 1 -> i' = i - 1 /\ UNCHANGED <<pc, failed>>
    [] OTHER         -> pc' = "saveDeleted" /\ UNCHANGED <<i, failed>>
=============================================================================
