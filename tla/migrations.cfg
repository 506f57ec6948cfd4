SPECIFICATION Spec
INVARIANTS SchemaMatchesVersion DowngradeNeverFails HeadMatchesModels FailsOnlyOnLeftovers
PROPERTY AllOrNothing
