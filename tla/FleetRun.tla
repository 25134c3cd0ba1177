------------------------------ MODULE FleetRun ------------------------------
(***************************************************************************)
(* What a "check every server" run promises, without goroutines, slots or  *)
(* plans: every host of the run is open until it gets one verdict, which   *)
(* stays until another run starts.  (The doc comments of HardwareRun,      *)
(* startRun and cancelRun, core/internal/api/hwsched.go.)                  *)
(***************************************************************************)
CONSTANT Host

VARIABLES verdict,  \* of the last run
          down      \* the core is quitting

vars == <<verdict, down>>

Final == {"ok", "sudo", "failed", "skipped"}
Open == {h \in Host : verdict[h] = "open"}

TypeOK ==
  /\ verdict \in [Host -> Final \cup {"open", "out"}]
  /\ down \in BOOLEAN

Init ==
  /\ verdict = [h \in Host |-> "out"]
  /\ down = FALSE

\* No run starts while another has open hosts.
Start(ids) ==
  /\ Open = {}
  /\ ids # {}
  /\ verdict' = [h \in Host |-> IF h \in ids THEN "open" ELSE "out"]
  /\ UNCHANGED down

\* A check reports its host.
Settle(h) ==
  /\ verdict[h] = "open"
  /\ \E v \in Final : verdict' = [verdict EXCEPT ![h] = v]
  /\ UNCHANGED down

\* Hosts still waiting are dropped together.
Cancel(H) ==
  /\ H # {}
  /\ H \subseteq Open
  /\ verdict' = [h \in Host |-> IF h \in H THEN "skipped" ELSE verdict[h]]
  /\ UNCHANGED down

Quit ==
  /\ ~down
  /\ down' = TRUE
  /\ UNCHANGED verdict

\* A run does not survive the core.
Restart ==
  /\ verdict' = [h \in Host |-> "out"]
  /\ down' = FALSE

Next ==
  \/ \E ids \in SUBSET Host : Start(ids)
  \/ \E h \in Host : Settle(h)
  \/ \E H \in SUBSET Host : Cancel(H)
  \/ Quit \/ Restart

Spec == Init /\ [][Next]_vars

\* While the core is up an open host does not stay open.
FairSpec == Spec /\ \A h \in Host : WF_vars(~down /\ Settle(h))

=============================================================================
