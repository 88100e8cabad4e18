------------------------------ MODULE MCQuota ------------------------------
(* Small instances of Quota: every request belongs to one tenant of the free *)
(* tier, which may submit twice an hour and have one active execution.       *)
EXTENDS Quota, TLC

OneTenant == [s \in Submit |-> CHOOSE t \in Tenant : TRUE]
Tiers == [t \in Tenant |-> "free"]
SmallTiers ==
  [k \in {"free", "enterprise"} |->
     IF k = "free" THEN [SubmitsPerHour |-> 2, MaxActive |-> 1]
                   ELSE [SubmitsPerHour |-> -1, MaxActive |-> -1]]
=============================================================================
