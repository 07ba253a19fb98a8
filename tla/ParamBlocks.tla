------------------------------ MODULE ParamBlocks ------------------------------
(* The blocks of the property database (class Parameters), kept by key: the    *)
(* base class and the name under which a block is stored.  All blocks of the   *)
(* model have one type: the directive `:use = name' refers to a block of the   *)
(* same base and type.  An entry of a block is a parameter with its value, or  *)
(* a name: the directive that inserts the block of that name.                  *)
EXTENDS Naturals, Sequences, FiniteSets, SequencesExt

CONSTANTS Bases,        \* base classes
          Names,        \* names of blocks
          Params,       \* parameters (with their values)
          UnitNames,    \* names of systems of units
          Levels        \* levels of `:use' followed (DataBase::use, 5)

ASSUME LevelsAssumption == Levels \in Nat
ASSUME EntriesAssumption == Names \cap Params = {}

Keys == Bases \X Names
ASSUME KeysAssumption == IsFiniteSet(Keys)      \* names in files
Entries == Names \cup Params
Block == [units : UnitNames, entries : Seq(Entries)]
NoParams == [entries |-> <<>>]      \* prop.params == NULL

VARIABLE blocks

(* The entries of a block that are directives, which Parameters counts.        *)
UsesOf(s) == {i \in DOMAIN s : s[i] \in Names}
Use(s) == Cardinality(UsesOf(s))

Defined(k) == blocks[k] # NoParams
WithEntries(k, s) == [blocks EXCEPT ![k].entries = s]

(* The blocks whose directives can all be followed, within n levels.           *)
Resolved[n \in Nat] ==
  {k \in Keys : /\ Defined(k)
                /\ \A i \in UsesOf(blocks[k].entries) :
                     n > 0 /\ <<k[1], blocks[k].entries[i]>> \in Resolved[n - 1]}
================================================================================
