\* Every validator, MAGIC's hooks included, under every order of squash,
\* annul, exception, write-back and emulator steps.
CONSTANTS
    Vals <- MCVals
    PCs <- MCPCs
    ThePC <- MCThePC
SPECIFICATION Spec
INVARIANTS
    FalseOnlyOnLiveMismatch
