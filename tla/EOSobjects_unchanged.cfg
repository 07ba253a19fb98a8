\* el and a program that also fetches its shear model; every factor is there.
SPECIFICATION Spec
CONSTANTS
    NULL = NULL
    FREE = FREE
    gas = gas
    G = G
    el = el
    air = air
    mix = mix
    nox = nox
    bad = bad
    torn = torn
    unp = unp
    noref = noref
    mks = mks
    cgs = cgs
    electric = electric
    bare = bare
    odd = odd
    Objs = {o1, o2, o3, o4, o5}
    Blocks <- MCBlocks
    KindOf <- MCKindOf
    PartsOf <- MCPartsOf
    UnitsOf <- MCUnitsOf
    KnownUnits <- MCKnownUnits
    UnitType <- MCUnitType
    NoBase = {}
    NoOwn = {}
    Unparsed = {}
    NoRefState = {}
    Fetched = {el, G}
    FetchedNew = {}
    Indexed = {}
    Targets = {mks, cgs, bare}
    MaxHeld = 1
    MaxIndex = 2
PROPERTY ErrorLeavesUnchanged
CHECK_DEADLOCK FALSE
