-------------------------- MODULE MCPolicyTrainer --------------------------
(* Small instances of PolicyTrainer for TLC. *)
EXTENDS PolicyTrainer

MCSessions == <<"s1", "s2">>

MCStrings ==
  {"", " ", "/bin/tool", "/bin/tool ", "/bin/sh", "sh", "-c", "shop", "shop ",
   "bank", "host-wide"}

MCTrimmed ==
  [s \in MCStrings |->
     CASE s = " " -> "" [] s = "/bin/tool " -> "/bin/tool"
       [] s = "shop " -> "shop" [] OTHER -> s]

Event(type, workload, path, argv, whole) ==
  [type |-> type, workload |-> workload, path |-> path, comm |-> "c",
   argv |-> argv, whole |-> whole]

MCEvents ==
  {Event("exec", w, p, <<>>, FALSE) :
     w \in {"shop", "bank"}, p \in {"/bin/tool", "/bin/sh"}}
  \union {Event("exec", "shop ", "/bin/tool ", <<>>, FALSE),
          Event("exec", NoWorkload, "sh", <<>>, FALSE),
          Event("exec", NoWorkload, "", <<>>, FALSE)}
  \union {Event("exec-attempt", "shop", "/bin/sh", a, f) :
            a \in {<<"sh">>, <<"sh", "-c">>}, f \in BOOLEAN}
  \union {Event("exec-attempt", "shop", p, <<"sh">>, TRUE) :
            p \in {"sh", "/bin/tool"}}
  \union {Event("exec-attempt", "bank", "/bin/sh", <<"sh", "-c">>, TRUE),
          Event("fork", "shop", "/bin/sh", <<>>, FALSE),
          Event("fork", "shop", "", <<>>, FALSE)}
=============================================================================
