CONSTANTS
    a = a
    b = b
    v1 = v1
    v2 = v2
    v3 = v3
    bad = bad
    l1 = l1
    l2 = l2
    d1 = d1
    LabelKeys = {a, b}
    Values = {v1, v2, v3, bad}
    Refused = {bad}
    NoLabel = NoLabel
    Absent = Absent
    None = None
    LabelerKeys = {l1, l2}
    DeploymentKeys = {l1}
    Workers = {w1, w2}
    MaxCopies = 2
    NamespaceOf <- OneNamespace
    Specs <- TwoLabelerSpecs
    UserLabels <- OwnLabel
    MaxNotes = 1
    MaxLag = 1
    Limits <- OneUpdate
SPECIFICATION Spec
SYMMETRY Symmetry
INVARIANTS
    AppliedAtRest
PROPERTIES
    NoLabelRemoved
