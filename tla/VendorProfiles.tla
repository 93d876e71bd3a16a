--------------------------- MODULE VendorProfiles ---------------------------
(***************************************************************************)
(* The vendors' profiles: the rules by which what a device answers becomes *)
(* an alarm, and the values a metric may have.                             *)
(*                                                                         *)
(* Abstracted: OIDs, scales and messages; a value is after scaling, and    *)
(* one of those next to a threshold.                                       *)
(***************************************************************************)
EXTENDS Integers

Above(key, severity, threshold) ==
    [key |-> key, severity |-> severity, cond |-> "gt", threshold |-> threshold, ignoreZero |-> FALSE]
Below(key, severity, threshold) == [Above(key, severity, threshold) EXCEPT !.cond = "lt"]
Equal(key, severity, threshold) == [Above(key, severity, threshold) EXCEPT !.cond = "eq"]
Phase(key, severity, threshold) == [Below(key, severity, threshold) EXCEPT !.ignoreZero = TRUE]

Eltek == <<
    Above("battery_temperature_c", "warning", 40),
    Above("battery_temperature_c", "critical", 50),
    Below("battery_temperature_c", "warning", 0),
    Below("battery_temperature_c", "critical", -20),
    Below("battery_remaining_", "critical", 5),
    Phase("mains_voltage_l1_v", "warning", 80),
    Phase("mains_voltage_l2_v", "warning", 80),
    Phase("mains_voltage_l3_v", "warning", 80),
    Equal("mains_status", "critical", 0),
    Above("rectifiers_temperature_c", "warning", 60),
    Above("load_current_a", "warning", 220) >>

Enetek == <<
    Above("battery_temperature_c", "warning", 40),
    Above("battery_temperature_c", "critical", 50),
    Below("battery_remaining_ah", "warning", 20),
    Below("battery_remaining_ah", "critical", 5),
    Phase("ac1_voltage_phase_a_v", "warning", 200),
    Phase("ac1_voltage_phase_a_v", "critical", 100),
    Phase("ac1_voltage_phase_b_v", "warning", 200),
    Phase("ac1_voltage_phase_b_v", "critical", 100),
    Phase("ac1_voltage_phase_c_v", "warning", 200),
    Phase("ac1_voltage_phase_c_v", "critical", 100) >>

Huawei == <<
    Above("heartbeat_period_s", "critical", 3600),
    Below("heartbeat_period_s", "warning", 3),
    Equal("alarm_level", "critical", 5),
    Equal("alarm_service_affect", "critical", 1) >>

Vertiv == <<
    Above("system_temperature_1_c", "warning", 40),
    Above("system_temperature_2_c", "warning", 40),
    Phase("mains_voltage_l1_v", "warning", 80),
    Phase("mains_voltage_l2_v", "warning", 80),
    Phase("mains_voltage_l3_v", "warning", 80) >>

Profiles == [eltek |-> Eltek, enetek |-> Enetek, huawei |-> Huawei, vertiv |-> Vertiv]
KeysOf(profile) == {profile[i].key : i \in DOMAIN profile}

\* The rules of a key, by their place in the profile.
Rules ==
    [v \in DOMAIN Profiles |->
        [k \in KeysOf(Profiles[v]) |-> {i \in DOMAIN Profiles[v] : Profiles[v][i].key = k}]]

\* The value of an empty slot, of Eltek's battery only.
Ignored ==
    [v \in DOMAIN Profiles |->
        [k \in DOMAIN Rules[v] |->
            IF v = "eltek" /\ k = "battery_temperature_c" THEN {-100} ELSE {}]]

\* A value that decides a rule, and its neighbour on the other side.
Near(rule) ==
    IF rule.cond = "lt" THEN {rule.threshold - 1, rule.threshold}
    ELSE {rule.threshold, rule.threshold + 1}
Values ==
    [v \in DOMAIN Profiles |->
        [k \in DOMAIN Rules[v] |->
            (UNION {Near(Profiles[v][i]) : i \in Rules[v][k]}) \cup {0} \cup Ignored[v][k]]]
=============================================================================
