------------------------------- MODULE RunMethod -------------------------------
(***************************************************************************)
(* What every run method promises, whatever it moves the data with: a      *)
(* warm-up, a barrier, the timed iterations, a barrier.  Between its two   *)
(* barriers a rank never meets the warm-up of the other one, nor is the    *)
(* other one still in its iterations when it is done; both return.         *)
(*                                                                         *)
(* Partitioned, Messages and Windows implement it.  MainLoop knows no more *)
(* of a run method than this.                                              *)
(***************************************************************************)
EXTENDS Integers

CONSTANT
  Rounds   (* for each rank: the iterations it takes part in               *)

Ranks == {0, 1}
Other(r) == 1 - r

VARIABLES
  phase,  (* for each rank: where it is in the run method                  *)
  iter    (* for each rank: completed iterations                           *)

vars == <<phase, iter>>

Phases == {"warmup", "first", "timed", "second", "done"}

Init ==
  /\ phase = [r \in Ranks |-> "warmup"]
  /\ iter = [r \in Ranks |-> 0]

Move(r, from, to) == phase[r] = from /\ phase' = [phase EXCEPT ![r] = to]

EnterFirst(r) ==
  /\ Move(r, "warmup", "first")
  /\ UNCHANGED iter

LeaveFirst(r) ==
  /\ Move(r, "first", "timed")
  /\ phase[Other(r)] # "warmup"
  /\ UNCHANGED iter

Iterate(r) ==
  /\ phase[r] = "timed" /\ iter[r] < Rounds[r]
  /\ iter' = [iter EXCEPT ![r] = @ + 1]
  /\ UNCHANGED phase

EnterSecond(r) ==
  /\ Move(r, "timed", "second")
  /\ iter[r] = Rounds[r]
  /\ UNCHANGED iter

LeaveSecond(r) ==
  /\ Move(r, "second", "done")
  /\ phase[Other(r)] \in {"second", "done"}
  /\ UNCHANGED iter

Rank(r) ==
  \/ EnterFirst(r) \/ LeaveFirst(r)
  \/ Iterate(r)
  \/ EnterSecond(r) \/ LeaveSecond(r)

Next == \E r \in Ranks : Rank(r)

\* Both ranks go on while they can.
Fairness == \A r \in Ranks : WF_vars(Rank(r))

Spec == Init /\ [][Next]_vars /\ Fairness
-------------------------------------------------------------------------------
TypeOK ==
  /\ phase \in [Ranks -> Phases]
  /\ iter \in [Ranks -> Nat]

(* What lies between the barriers of a rank: never the warm-up of the other *)
(* one, and all of its iterations.                                         *)
Fenced ==
  \A r \in Ranks :
    /\ phase[r] = "timed" => phase[Other(r)] # "warmup"
    /\ phase[r] = "done" => iter[Other(r)] = Rounds[Other(r)]

(* The inductive invariant of Fenced: a barrier is left only when the other *)
(* rank has entered it, and a rank enters the second one after its last    *)
(* iteration.                                                              *)
PhaseInv ==
  \A r \in Ranks :
    /\ phase[r] \in {"timed", "second", "done"} => phase[Other(r)] # "warmup"
    /\ phase[r] = "done" => phase[Other(r)] \in {"second", "done"}
    /\ phase[r] \in {"second", "done"} => iter[r] = Rounds[r]

IInv == TypeOK /\ PhaseInv
===============================================================================
