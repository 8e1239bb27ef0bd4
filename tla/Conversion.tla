----------------------------- MODULE Conversion -----------------------------
(***************************************************************************)
(* What a caller of convert.database may rely on, whatever happens inside: *)
(* the target only grows, by objects that were not there; and a success    *)
(* means that every table the conversion set out to copy was copied by     *)
(* this very run.                                                          *)
(*                                                                         *)
(* It does not say that a failed run leaves the target as it was: the code *)
(* does not do that.                                                       *)
(***************************************************************************)
EXTENDS Naturals

CONSTANT Objects   \* names of tables and views

VARIABLES
    target,   \* objects of the target file -> the run that made them, 0 before
    run,      \* number of the current or last run
    plan,     \* tables this run set out to copy
    status,   \* "idle", "listing", "writing", "ok", "error"
    failed    \* views the last success reported as not recreated

vars == <<target, run, plan, status, failed>>

Running == status \in {"listing", "writing"}
Made == {o \in DOMAIN target : target[o] = run}

Init ==
    /\ \E S \in SUBSET Objects : target = [o \in S |-> 0]
    /\ run = 0 /\ plan = {} /\ status = "idle" /\ failed = {}

Start ==
    /\ ~Running
    /\ run' = run + 1 /\ plan' = {} /\ status' = "listing" /\ failed' = {}
    /\ UNCHANGED target

List(S) ==
    /\ status = "listing"
    /\ plan' = S /\ status' = "writing"
    /\ UNCHANGED <<target, run, failed>>

Create(o) ==
    /\ status = "writing" /\ o \notin DOMAIN target
    /\ target' = [x \in DOMAIN target \cup {o} |-> IF x = o THEN run ELSE target[x]]
    /\ UNCHANGED <<run, plan, status, failed>>

Succeed(F) ==
    /\ status = "writing" /\ plan \subseteq Made
    /\ status' = "ok" /\ failed' = F
    /\ UNCHANGED <<target, run, plan>>

GiveUp ==
    /\ Running
    /\ status' = "error"
    /\ UNCHANGED <<target, run, plan, failed>>

Next ==
    \/ Start \/ GiveUp
    \/ \E S \in SUBSET Objects : List(S) \/ Succeed(S)
    \/ \E o \in Objects : Create(o)

Spec == Init /\ [][Next]_vars

\* A conversion that was started is answered.
Answered == Running ~> ~Running
=============================================================================
