------------------------- MODULE RuntimeStateMachine -------------------------
(***************************************************************************)
(* The state machine every engine carries its public state in              *)
(* (packages/runtime/src/state/RuntimeStateMachine.ts): the seven states   *)
(* and the table of transitions. The history and the listeners are not     *)
(* modelled: nothing in the engine reads them back.                        *)
(***************************************************************************)

RuntimeState == {"idle", "starting", "running", "stopping",
                 "crashed", "reconnecting", "error"}

StopReason == {"intentional", "crashed", "config_reload"}

\* VALID_TRANSITIONS, one set of successors per state.
ValidTransitions ==
  [ idle         |-> {"starting"},
    starting     |-> {"running", "error", "idle"},
    running      |-> {"stopping", "crashed", "reconnecting"},
    stopping     |-> {"idle", "error"},
    crashed      |-> {"reconnecting", "error", "idle"},
    reconnecting |-> {"starting", "error", "idle"},
    error        |-> {"idle"} ]

CanTransition(from, to) == to \in ValidTransitions[from]

\* tryTransition: an invalid transition leaves the state alone.
TryTransition(from, to) == IF CanTransition(from, to) THEN to ELSE from

=============================================================================
