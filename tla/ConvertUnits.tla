---------------------------- MODULE ConvertUnits ----------------------------
(***************************************************************************)
(* An object of a concrete class is initialized from a block of parameters *)
(* that may leave some out, used, and converted to other units.            *)
(*                                                                         *)
(* o holds the unit of every data member (Dimensions); the statements of   *)
(* InitParams and ConvertParams run one by one.  Outcomes that depend on   *)
(* values (a range check, an iteration) are nondeterministic.              *)
(***************************************************************************)
EXTENDS EOSbasics, FiniteSetsExt

CONSTANTS Registry,    \* the classes explored, by name: their members and virtual functions
          MaxOmitted,  \* most parameters left out of the block, beyond the reference state
          Lackable,    \* sets of quantities that a system of units may not define
          Excused(_, _) \* what is known to break a property: (property, class)

VARIABLES class,    \* the class of the object
          o,        \* its data members
          phase,    \* what is running, or how it ended
          pc,       \* the next statement
          lacking,  \* quantities for which Convert::factor is NaN
          before    \* the data members when ConvertUnits was called

Classes == DOMAIN Registry

vars == <<class, o, phase, pc, lacking, before>>

\* The statements of the object, what it computes, and what calls keep in it.
InitStatements    == Registry[class].InitBase[o]
ConvertStatements == Registry[class].ConvertParams[o]
Results           == Registry[class].functions[o]
Keeps             == Registry[class].kept[o]

\* The statement to execute: "end" when none is left.
Statement ==
  LET all == IF phase = "init" THEN InitStatements ELSE ConvertStatements
  IN  IF pc <= Len(all) THEN all[pc] ELSE Stmt("end", TRUE, {}, Free)

-----------------------------------------------------------------------------
(* Initialize.  The reference state is given by P_ref, by its own          *)
(* variables, or left to InitParams.                                       *)

Reference == {"V_ref", "e_ref", "T_ref", "P_ref"}

Blocks(c) ==
  LET params == DOMAIN Registry[c].start \ Registry[c].hidden
      some == params \ Reference
  IN  { (some \ out) \cup (ref \cap params) :
          out \in UNION { kSubset(k, some) : k \in 0..MaxOmitted },
          ref \in {{}, {"P_ref"}, Reference \ {"P_ref"}} }

Given(c, block) ==
  [ x \in DOMAIN Registry[c].start |->
      IF x \in block THEN IF x \in Registry[c].parts THEN OldUnits ELSE One
      ELSE Registry[c].start[x] ]

Init ==
  /\ class \in Classes
  /\ \E block \in Blocks(class) : o = Given(class, block)
  /\ phase = "init"
  /\ pc = 1
  /\ lacking = {}
  /\ before = o

Assign(S, v(_)) == o' = [x \in DOMAIN o |-> IF x \in S THEN v(x) ELSE o[x]]

Skip == o' = o

\* Initialize returns 1; the status is bad or abort.
Reject == /\ phase' = "rejected"
          /\ UNCHANGED <<class, o, pc, lacking, before>>

InitStep ==
  /\ phase = "init"
  /\ LET s == Statement
     IN  \/ s.do \in {"need", "solve"} /\ s.if /\ Reject
         \/ /\ s.do = "need" /\ s.if => \A x \in s.of : Is(o[x])
            /\ \/ s.do \in {"need", "test"} /\ Skip
               \/ s.do = "test" /\ s.if /\ Assign(s.of, LAMBDA x : One)
               \/ s.do = "put" /\ IF s.if THEN Assign(s.of, LAMBDA x : s.val) ELSE Skip
               \/ s.do = "solve" /\ IF s.if THEN Assign(s.of, LAMBDA x : One) ELSE Skip
            /\ pc' = pc + 1
            /\ UNCHANGED <<class, phase, lacking, before>>

\* The status becomes good.  Local variables of InitParams that were given are
\* only remembered as such.
InitDone ==
  /\ phase = "init"
  /\ Statement.do = "end"
  /\ phase' = "good"
  /\ o' = [x \in DOMAIN o |->
             IF x \in Registry[class].locals /\ Is(o[x]) THEN Free ELSE o[x]]
  /\ UNCHANGED <<class, pc, lacking, before>>

-----------------------------------------------------------------------------
(* Use and conversion.                                                     *)

\* Calls fill what the object keeps: eosVT() or eosVe(), the object in the
\* other variables; an integrator, its steps.
Use ==
  /\ phase = "good"
  /\ \E x \in DOMAIN Keeps :
       o[x] = Free /\ o' = [o EXCEPT ![x] = Keeps[x]]
  /\ UNCHANGED <<class, phase, pc, lacking, before>>

CallConvertUnits ==
  /\ phase = "good"
  /\ phase' = "convert"
  /\ pc' = 1
  /\ lacking' \in {{}} \cup Lackable
  /\ before' = o
  /\ UNCHANGED <<class, o>>

\* ConvertParams returns status > 0: failed, unchanged; < 0: fatal.
Return(status) ==
  phase' = CASE status = 0 -> "converted" [] status > 0 -> "fail" [] OTHER -> "bad"

\* x->ConvertUnits(convert) where some quantity may be undefined.
ConvertStep ==
  /\ phase = "convert"
  /\ LET s == Statement
         fails == CASE s.do = "factors"     -> s.of \cap lacking # {}
                    [] s.do = "scaleOrFail" -> s.val \in lacking
                    [] OTHER -> FALSE
         mayFail(x)    == o[x] = Aborted \/ (lacking # {} /\ o[x] = OldUnits)
         mayConvert(x) == o[x] # Aborted
         Converted(x)  == IF o[x] = OldUnits THEN NewUnits ELSE o[x]
     IN  \/ /\ fails
            /\ Return(IF s.do = "factors" THEN s.val ELSE 1)
            /\ IF s.do = "scaleOrFail" THEN Assign(s.of, LAMBDA x : Unset) ELSE Skip
            /\ pc' = pc
         \/ /\ s.do = "solve"
            /\ Return(1)
            /\ Skip
            /\ pc' = pc
         \/ /\ s.do = "part"
            /\ \E x \in s.of : mayFail(x)
            /\ Return(s.val)
            /\ Skip
            /\ pc' = pc
         \/ /\ ~fails
            /\ \/ s.do \in {"factors", "solve"} /\ Skip
               \/ s.do = "put" /\ IF s.if THEN Assign(s.of, LAMBDA x : s.val) ELSE Skip
               \/ s.do = "scale"
                    /\ IF s.if THEN Assign(s.of, LAMBDA x : o[x] ** s.val) ELSE Skip
               \/ s.do = "scaleOrFail" /\ Assign(s.of, LAMBDA x : o[x] ** U[s.val])
               \/ /\ s.do \in {"part", "refresh"}
                  /\ \A x \in s.of : mayConvert(x)
                  /\ Assign(s.of, Converted)
               \/ /\ s.do = "refresh"
                  /\ \E x \in s.of : mayFail(x)
                  /\ Assign(s.of, LAMBDA x : Free)
            /\ pc' = pc + 1
            /\ phase' = phase
  /\ UNCHANGED <<class, lacking, before>>

ConvertDone ==
  /\ phase = "convert"
  /\ Statement.do = "end"
  /\ Return(0)
  /\ UNCHANGED <<class, o, pc, lacking, before>>

Next == InitStep \/ InitDone \/ Use \/ CallConvertUnits \/ ConvertStep \/ ConvertDone

Spec == Init /\ [][Next]_vars

-----------------------------------------------------------------------------
(* Properties.                                                             *)

\* An object that Initialize accepted (status good) computes nothing from a
\* member that was never given a value, whatever the block left out, and the
\* object that eosVT() or eosVe() makes of it can be used as well.
Undefined == LET F == Results IN { f \in DOMAIN F : F[f] \in {Unset, Aborted} }
SetBeforeUse ==
  phase \in {"good", "converted"} => Undefined \subseteq Excused("SetBeforeUse", class)

\* After ConvertUnits every function answers in the new units what it
\* answered in the old: no sum, comparison, tolerance, reference state or kept
\* result mixes the two (EOSbase.h:66-72).
Answer(f) == IF f \in DOMAIN Answers THEN Answers[f] ELSE One
Wrong == LET F == Results
         IN  { f \in DOMAIN F : F[f] \notin {Answer(f), Free, Unset, Aborted} }
Covariant == phase = "converted" => Wrong \subseteq Excused("Covariant", class)

\* The members InitParams computes have, after a conversion, the unit of what
\* it would compute from the converted parameters: ConvertParams scales the
\* results of a computation and its arguments alike.
Underived ==
  LET all == InitStatements
      sets(i, x) == Registry[class].InitBase[[o EXCEPT ![x] = Unset]][i].if
  IN  UNION { LET s == all[i]
              IN  { x \in s.of \ Registry[class].locals :
                      /\ s.do = "put" /\ s.val \notin {o[x], Free, Unset} /\ sets(i, x) } :
              i \in 1..Len(all) }
DerivedAgree == phase = "converted" => Underived \subseteq Excused("DerivedAgree", class)

\* The status fail means that nothing was converted (EOSbase.h:71).
FailUnchanged ==
  phase = "fail" => o = before \/ "ConvertParams" \in Excused("FailUnchanged", class)

\* What the functions of the wave curves return and set (Wave.h:30-34): 0 with
\* the wave asked for, 1 with the wave at the end of the curve, -1 with none.
Curves == IF phase = "converted" /\ lacking = {} THEN Registry[class].curves[o] ELSE << >>
CurveStatus ==
  \A f \in DOMAIN Curves \ Excused("CurveStatus", class) :
    \A x \in Curves[f] : <<x[1], x[2]>> \in {<<0, "asked">>, <<1, "p_vac">>, <<-1, "none">>}

\* A wave they set has every field in its unit, moves with the observer and
\* turns with the direction of the wave.
CurveWave ==
  \A f \in DOMAIN Curves \ Excused("CurveWave", class) : \A x \in Curves[f] : x[3] = One

=============================================================================
