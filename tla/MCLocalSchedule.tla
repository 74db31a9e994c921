-------------------------- MODULE MCLocalSchedule --------------------------
(* Instances of LocalSchedule for TLC.                                     *)
EXTENDS LocalSchedule, TLC

Interval(anchor, every) == [kind |-> "interval", anchor |-> anchor, every |-> every]
Once(at) == [kind |-> "once", at |-> at]
Cron(times) == [kind |-> "cron", times |-> times]
Spec3(trigger, enabled, policy) ==
  [trigger |-> trigger, enabled |-> enabled, policy |-> policy]

\* recurring and single triggers, both policies, a disabled definition
Mixed == {Spec3(Interval(1, 2), TRUE, "fire_once"), Spec3(Once(1), TRUE, "skip"),
          Spec3(Cron({1, 2}), FALSE, "fire_once")}

\* one recurring definition
Pair == {Spec3(Interval(0, 1), TRUE, "fire_once")}

\* hosts are never ordered
Symmetry == Permutations(Host)
=============================================================================
