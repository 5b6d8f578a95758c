------------------------- MODULE ReassessmentOutbox -------------------------
(***************************************************************************)
(* What the handoff from ingestion to assurance promises, without claims,  *)
(* leases, attempts or clocks: a change of a project whose policy is       *)
(* enabled is recorded once; it waits until an assessment answers it or it *)
(* is blocked; an answer is final and is given only while the policy is    *)
(* enabled and the configuration the change was read under is current;     *)
(* nothing waits under a disabled policy.                                  *)
(* ReassessmentScan implements it (ReassessmentScan!Outbox).               *)
(***************************************************************************)
EXTENDS Naturals

CONSTANTS Projects, Changes

VARIABLES
  enabled,   \* the projects whose policy schedules scans
  config,    \* the current configuration of the source
  status,    \* of each change: absent, waiting, answered or blocked
  scope      \* the project and the configuration each change belongs to

outboxVars == <<enabled, config, status, scope>>

Waiting(p) == {c \in Changes : status[c] = "waiting" /\ scope[c].project = p}
Current(c) == scope[c].config = config

\* The changes of S move to a new status.
Become(S, new) == [c \in Changes |-> IF c \in S THEN new ELSE status[c]]

OutboxInit ==
  /\ enabled = {}
  /\ config = 1
  /\ status = [c \in Changes |-> "absent"]
  /\ scope \in [Changes -> {[project |-> p, config |-> 0] : p \in Projects}]

Record(S) ==
  /\ \A c \in S : /\ status[c] = "absent"
                  /\ scope'[c].project \in enabled /\ scope'[c].config = config
  /\ \A c \in Changes \ S : scope'[c] = scope[c]
  /\ DOMAIN scope' = Changes
  /\ status' = Become(S, "waiting")
  /\ UNCHANGED <<enabled, config>>

Answer(p, answered, blocked) ==
  /\ p \in enabled
  /\ answered \cup blocked \subseteq Waiting(p)
  /\ \A c \in answered : Current(c)
  /\ status' = [c \in Changes |-> IF c \in answered THEN "answered"
                                  ELSE IF c \in blocked THEN "blocked" ELSE status[c]]
  /\ UNCHANGED <<enabled, config, scope>>

Reopen(c) ==
  /\ status[c] = "blocked" /\ scope[c].project \in enabled /\ Current(c)
  /\ status' = Become({c}, "waiting")
  /\ UNCHANGED <<enabled, config, scope>>

Enable(p) ==
  /\ enabled' = enabled \cup {p}
  /\ UNCHANGED <<config, status, scope>>

Disable(p) ==
  /\ enabled' = enabled \ {p}
  /\ status' = Become(Waiting(p), "blocked")
  /\ UNCHANGED <<config, scope>>

NewConfiguration ==
  /\ config' = config + 1
  /\ UNCHANGED <<enabled, status, scope>>

OutboxNext ==
  \/ \E S \in SUBSET Changes : Record(S)
  \/ \E p \in Projects : \E answered, blocked \in SUBSET Changes : Answer(p, answered, blocked)
  \/ \E c \in Changes : Reopen(c)
  \/ \E p \in Projects : Enable(p) \/ Disable(p)
  \/ NewConfiguration

OutboxSpec == OutboxInit /\ [][OutboxNext]_outboxVars
=============================================================================
