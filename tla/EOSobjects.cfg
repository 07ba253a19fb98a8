\* Four slots: el and its components beside another object, or three mixes of
\* the one air, two of them in the list; two references in the program.
SPECIFICATION Spec
CONSTANTS
    NULL = NULL
    FREE = FREE
    gas = gas
    G = G
    el = el
    air = air
    mix = mix
    nox = nox
    bad = bad
    torn = torn
    unp = unp
    noref = noref
    mks = mks
    cgs = cgs
    electric = electric
    bare = bare
    odd = odd
    Objs = {o1, o2, o3, o4}
    Blocks <- MCBlocks
    KindOf <- MCKindOf
    PartsOf <- MCPartsOf
    UnitsOf <- MCUnitsOf
    KnownUnits <- MCKnownUnits
    UnitType <- MCUnitType
    NoBase = {bare}
    NoOwn <- MCNoOwn
    Unparsed = {unp}
    NoRefState = {noref}
    Fetched = {el, air, bad, noref}
    FetchedNew = {mix, torn}
    Indexed = {mix, bad}
    Targets = {mks, cgs, bare, electric}
    MaxHeld = 2
    MaxIndex = 2
INVARIANTS TypeOK RefCounts GoodNumbers Coherent
PROPERTY IndexUnique
CHECK_DEADLOCK FALSE
