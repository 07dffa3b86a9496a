------------------------- MODULE AvailabilityRecord -------------------------
(***************************************************************************)
(* What the availability endpoints promise: one configuration, replaced as *)
(* a whole by PUT, and a list of blocked dates that block-date and its     *)
(* DELETE change, each at once.                                            *)
(***************************************************************************)
EXTENDS SequencesExt

CONSTANTS Dates, Configs, Default

VARIABLE config

Block(d) ==
  /\ ~ Contains(config.blocked, d)
  /\ config' = [config EXCEPT !.blocked = Append(@, d)]

Unblock(d) ==
  /\ Contains(config.blocked, d)
  /\ config' = [config EXCEPT !.blocked = RemoveFirst(@, d)]

Put(c) == config' = c

Next ==
  \/ \E d \in Dates : Block(d) \/ Unblock(d)
  \/ \E c \in Configs : Put(c)

Spec == config = Default /\ [][Next]_config
=============================================================================
