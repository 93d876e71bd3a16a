-------------------------- MODULE MCAlarmLifecycle --------------------------
(* Instances of AlarmLifecycle for TLC. *)
EXTENDS AlarmLifecycle, TLC
Rule(k, c, th, iz) == [key |-> k, cond |-> c, threshold |-> th, ignoreZero |-> iz]

\* Two tiers on one metric, as in the Eltek and Enetek profiles, and a mains
\* voltage for which 0 V means a phase that is not wired.
TieredRules == << Rule("battery_temperature_c", "gt", 40, FALSE),
                  Rule("battery_temperature_c", "gt", 50, FALSE) >>
TieredValues == {30, 45, 55}

\* One rule per metric, as in the Vertiv profile.
PlainRules ==<< Rule("system_temperature_1_c", "gt", 40, FALSE),
                 Rule("mains_voltage_l1_v", "lt", 80, TRUE) >>
PlainValues == {0, 60}
OneRules == << Rule("mains_voltage_l1_v", "lt", 80, TRUE) >>
OneValues == {0, 60, 220}

Symmetry == Permutations(EventIds)
SymmetryPollers == Symmetry \cup Permutations(Pollers)
=============================================================================
