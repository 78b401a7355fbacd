\* Requests of every form, well and ill formed, in reads that end anywhere;
\* those with queries and upgrades in one read each.
CONSTANTS
    Inputs <- PlainAndWhole
    None = None
    MaxLength = 31
CHECK_DEADLOCK FALSE
SPECIFICATION Spec
INVARIANTS ReadsIntact
PROPERTIES ParseEnds
