\* One name that up to three Windows accounts have in turn.
SPECIFICATION RegistrySpec
CONSTANTS
    Names = {n1}
    Sids = {s1, s2, s3}
    None = None
SYMMETRY Symmetry
INVARIANTS RecordNamesProvisioned FailuresCanBeRepaired
PROPERTIES OnlyRecordedAccountsSuffer UntrustedRecordsStay
