---------------------------- MODULE MCExecProbe ----------------------------
(* Small instances of ExecProbe for TLC. *)
EXTENDS ExecProbe

(* Strings over one valid and one invalid unit; "U" stands for U+FFFD. *)
MCArgs == {<<>>, <<"a">>, <<"a", "a">>, <<"~">>, <<"a", "a", "a">>}

MCArgvs ==
  {<<>>} \union {<<s>> : s \in MCArgs} \union (MCArgs \X MCArgs)
  \union ({<<"a">>} \X MCArgs \X {<<"a">>})

Python == <<"p">>
Tool   == <<"t">>

MCCalls ==
  [path : {Python, Tool, <<"e">>, <<"p", "p", "p">>}, args : MCArgvs,
   comm : {"sh", "bad"}, workload : {"shop", "bank", NoWorkload},
   unreadable : {{}}, badArgs : {{}}]
  \union
  [path : {Python}, args : {<< <<"a">> >>, << <<"a">>, <<"a">> >>},
   comm : {"sh"}, workload : {"shop"},
   unreadable : {{}, {"filename"}, {"argv"}}, badArgs : {{}, {1}, {2}, {3}}]

(* Python only with the arguments "a" or "?"; the tool freely; nothing     *)
(* named bad, and in the strict policy no unknown path.                    *)
Shop ==
  [DefaultPolicy("shop") EXCEPT
     !.execPaths = {Python, Tool}, !.eventTypes = {"exec", "exec-attempt"},
     !.sensitive = {Python},
     !.invocations = {[path |-> Python, argv |-> << <<"a">> >>],
                      [path |-> Python, argv |-> << <<"U">> >>],
                      [path |-> Python, argv |-> << <<"a">>, <<"a">> >>]},
     !.deniedComms = {"bad"}]

Strict == [Shop EXCEPT !.unknownExecPath = TRUE, !.deniedPaths = {Python}]

Bank == [DefaultPolicy("bank") EXCEPT !.execPaths = {<<"e">>}]
Desk == [DefaultPolicy("desk") EXCEPT !.execPaths = {Python}]

MCPolicySets == {<<Shop>>, <<Strict>>, <<Shop, Bank>>, <<Desk, Strict>>}
=============================================================================
