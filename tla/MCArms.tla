------------------------------- MODULE MCArms -------------------------------
(* The programs that run arms and compare them, for TLC: the Route B1 arms  *)
(* (RouteB1), one arm of Protocol v1 or v2 under its hook (LiveSingle), and  *)
(* the Protocol v1 pair (V1Pair).                                           *)
(*                                                                         *)
(* They share no state: a behaviour is of one part, chosen at the start,    *)
(* and the others stay as they began.  One run checks them all.             *)
EXTENDS MCRouteB1, LiveSingle, V1Pair

-----------------------------------------------------------------------------
(* One arm: the prescriptions of v1 and the default one of v2, runs of up to five queries *)

Prescribed == {"interrupt_repeated_failure_loop", "require_explicit_failure_reproduction",
               "require_alternative_hypothesis_before_next_patch", "require_targeted_post_patch_recheck"}
Targeted == {"materialize_prefix_observed_failure", "require_post_patch_target_recheck",
             "block_edit_until_failure_reproduced_or_explained"}
Guarded == {"require_post_patch_target_recheck", "require_post_patch_guard_recheck",
            "block_submit_on_guard_regression"}

SpecOf(arm, replay, observe, steps, limit) ==
  [protocol |-> "v2", arm |-> arm, execute |-> TRUE, ack |-> TRUE, config |-> TRUE, replay |-> replay,
   allow_empty |-> FALSE, observe |-> observe, steps |-> steps, limit |-> limit]
SpecOf_v1(arm, replay, steps, limit) ==
  [SpecOf(arm, replay, FALSE, steps, limit) EXCEPT !.protocol = "v1"]

MCSpecs ==
  {SpecOf_v1("treatment", <<"check">>, Targeted, 4), SpecOf_v1("treatment", <<"edit", "check">>, Guarded, 5),
   SpecOf_v1("control", <<"edit">>, Guarded, 2),
   [SpecOf_v1("treatment", << >>, Guarded, 3) EXCEPT !.allow_empty = TRUE]} \cup
  {SpecOf("treatment", <<"check", "broaden">>, FALSE, Prescribed, 5),
   SpecOf("treatment", <<"check">>, FALSE, Prescribed, 4), SpecOf("treatment", <<"check">>, TRUE, Prescribed, 4),
   SpecOf("treatment", <<"broaden", "edit">>, FALSE, Prescribed \ {"require_explicit_failure_reproduction"}, 4),
   [SpecOf("treatment", << >>, FALSE, {"interrupt_repeated_failure_loop"}, 4) EXCEPT !.allow_empty = TRUE],
   SpecOf("control", <<"check">>, FALSE, Prescribed, 3)}
  \cup {[SpecOf(arm, replay, FALSE, Prescribed, 2) EXCEPT !.execute = execute, !.ack = ack, !.config = config] :
          arm \in {"control", "treatment"}, replay \in {<<"check">>, << >>},
          execute \in BOOLEAN, ack \in BOOLEAN, config \in BOOLEAN}

-----------------------------------------------------------------------------
(* The v1 pair: arms that fail or complete, on one of two recordings, with a blocked action or not *)

Arm_v1(completed, replay, resolves, stopped) ==
  [completed |-> completed, replay |-> replay, generated |-> TRUE, resolves |-> resolves,
   blocked |-> stopped]
MCExecutions == {Arm_v1(FALSE, 1, FALSE, TRUE), Arm_v1(TRUE, 1, FALSE, FALSE),
                 Arm_v1(TRUE, 1, TRUE, TRUE), Arm_v1(TRUE, 2, FALSE, FALSE)}

-----------------------------------------------------------------------------
(* One of the three *)

VARIABLE part

arms_vars == <<part, b1_vars, live_vars, vars>>

LiveStill == LiveInit /\ spec = CHOOSE s \in Specs : TRUE

ArmsInit == \/ part = "b1"  /\ B1Init   /\ LiveStill /\ Init
            \/ part = "arm" /\ LiveInit /\ B1Init    /\ Init
            \/ part = "v1"  /\ Init     /\ B1Init    /\ LiveStill

ArmsNext == \/ part = "b1"  /\ B1Next   /\ UNCHANGED <<part, live_vars, vars>>
            \/ part = "arm" /\ LiveNext /\ UNCHANGED <<part, b1_vars, vars>>
            \/ part = "v1"  /\ V1_Next  /\ UNCHANGED <<part, b1_vars, live_vars>>

ArmsSpec == ArmsInit /\ [][ArmsNext]_arms_vars
=============================================================================
