SPECIFICATION CollectorSpec
CONSTANTS
    b1 = b1  b2 = b2  b3 = b3
    i1 = i1  i2 = i2  i3 = i3  i4 = i4
    s1 = s1  s2 = s2
    Benchmarks = {b1, b2, b3}
    Items = {i1, i2, i3, i4}
    Scrapes = {s1, s2}
    Unreadable = Unreadable
    NameOf <- MCNameOf
    OwnerOf <- MCOwnerOf
    LabelsOf <- MCLabelsOf
    ValuesOf <- MCValuesOf
    GaugeKeyOf <- MCGaugeKeyOf
INVARIANTS AloneIsExact OnlyListed
CHECK_DEADLOCK FALSE
