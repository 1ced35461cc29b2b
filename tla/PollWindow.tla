------------------------------ MODULE PollWindow ------------------------------
(***************************************************************************)
(* What a progress thread promises to the benchmark that uses it.          *)
(*                                                                         *)
(* The benchmark opens a window while it is computing and marking          *)
(* partitions ready, and closes it before it waits for the request.  The   *)
(* helper may poll the request inside the window and at no other time;     *)
(* closing waits for a poll that is under way.  The helper stops once and  *)
(* only outside a window.                                                  *)
(***************************************************************************)
VARIABLES
  window,  (* "open" while the helper may poll the request                 *)
  helper   (* what the helper does: "idle", "polling" or "stopped"         *)

vars == <<window, helper>>

TypeOK ==
  /\ window \in {"closed", "open"}
  /\ helper \in {"idle", "polling", "stopped"}

Init ==
  /\ window = "closed"
  /\ helper = "idle"

Open ==
  /\ window = "closed" /\ helper = "idle"
  /\ window' = "open"
  /\ UNCHANGED helper

BeginPoll ==
  /\ window = "open" /\ helper = "idle"
  /\ helper' = "polling"
  /\ UNCHANGED window

EndPoll ==
  /\ helper = "polling"
  /\ helper' = "idle"
  /\ UNCHANGED window

Close ==
  /\ window = "open" /\ helper = "idle"
  /\ window' = "closed"
  /\ UNCHANGED helper

Stop ==
  /\ window = "closed" /\ helper = "idle"
  /\ helper' = "stopped"
  /\ UNCHANGED window

Next == Open \/ BeginPoll \/ EndPoll \/ Close \/ Stop

\* A poll returns and a window that was opened is closed again.
Spec == Init /\ [][Next]_vars /\ WF_vars(EndPoll) /\ SF_vars(Close)
===============================================================================
