SPECIFICATION Spec
INVARIANT UpgradeReachesHead
