CONSTANTS
    a = a
    b = b
    v1 = v1
    v2 = v2
    v3 = v3
    bad = bad
    l1 = l1
    l2 = l2
    d1 = d1
    LabelKeys = {a, b}
    Values = {v1, v2, v3, bad}
    Refused = {bad}
    NoLabel = NoLabel
    Absent = Absent
    None = None
    LabelerKeys = {l1, l2}
    DeploymentKeys = {l1, l2}
    Workers = {w1}
    MaxCopies = 1
    NamespaceOf <- OneNamespace
    Specs <- FixedSpecs
    UserLabels <- Unlabelled
    MaxNotes = 1
    MaxLag = 1
    Limits <- NoLimits
SPECIFICATION FairSpec
PROPERTIES
    ComesToRest
