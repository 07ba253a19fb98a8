------------------------------- MODULE MCDataBase -------------------------------
(* Instances of DataBase.  Directory "w" is where Read looks, "l" is           *)
(* EOSLIB_DATA_PATH.  The first family of disks has one file with four blocks  *)
(* that use each other in many ways, the second three files that include each  *)
(* other.                                                                      *)
EXTENDS DataBase

block(eq, base, name, units, entries) ==
  [cmd |-> "block", eq |-> eq, base |-> base, name |-> name, units |-> units,
   entries |-> entries]
include(dir, file) == [cmd |-> "include", dir |-> dir, file |-> file]
base(b) == [cmd |-> "base", base |-> b]
units(u) == [cmd |-> "units", units |-> u]
bad == [cmd |-> "bad"]

(* "d" uses nothing or a name that no file defines.                            *)
graphs ==
  {<<block("NEW", "", "a", "", ea), block("NEW", "", "b", "", eb),
     block("NEW", "", "c", "", ec), block("NEW", "", "d", "", ed)>> :
     ea \in {<<"p", "b">>, <<"c", "b">>, <<"b", "a", "p">>, <<"b", "q", "d">>},
     eb \in {<<"c">>, <<"p", "c", "q">>, <<"d", "c">>, <<"a", "q">>, <<"q", "b">>},
     ec \in {<<"q">>, <<"d", "p">>, <<"d", "b">>, <<"a">>},
     ed \in {<<"p", "q">>, <<"e">>}}
oneFile == {(<<"w", "m">> :> script1) : script1 \in graphs}

mainFiles ==
  {<<include(NoPath, "s"), block("NEW", "", "a", "h", <<"p">>)>>,
   <<base("E"), units("h"), include(NoPath, "s"), block("NEW", "", "a", "", <<"b">>)>>,
   <<block("ADD", "", "a", "", <<"p">>), include(NoPath, "s"), include(NoPath, "u")>>,
   <<include(NoPath, "m"), include("l", "u"), block("ADD", "", "a", "", <<"q">>)>>,
   <<block("NEW", "", "a", "", <<"c">>), include(NoPath, "u"), include(NoPath, "s")>>}
subFiles ==
  {<<include(NoPath, "u"), block("REPLACE", "", "a", "", <<"q">>)>>,
   <<units("g"), block("NEW", "E", "b", "", <<"q", "a">>)>>,
   <<include("w", "m"), block("EXIST", "", "a", "g", <<"q">>)>>,
   <<block("NEW", "", "b", "", <<"p">>), bad>>,
   <<block("ADD", "", "a", "", <<"c">>), include("l", "s")>>}
libFiles ==
  {<<block("NEW", "", "c", "", <<"p">>)>>,
   <<base("E"), block("ADD", "", "a", "h", <<"q">>), include(NoPath, "s")>>}
threeFiles ==
  {(<<"w", "m">> :> m) @@ (<<dir, "s">> :> s) @@ (<<"l", "u">> :> u) :
     m \in mainFiles, s \in subFiles, u \in libFiles, dir \in {"w", "l"}}

MCDisks == oneFile \cup threeFiles
MCLists == {<<<<"w", "m">>>>, <<<<"w", "s">>, <<"w", "m">>>>, <<<<"l", "u">>>>}
================================================================================
