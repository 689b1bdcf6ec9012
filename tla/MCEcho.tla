------------------------------- MODULE MCEcho --------------------------------
(***************************************************************************)
(* Two Echo protocols and their callers for TLC: alice, carol, erin, frank *)
(* and grace call echo0, each with another of the five functions, dave     *)
(* calls it as alice does, and bob calls echo1.  dave asks an identity     *)
(* that is nobody's.                                                       *)
(***************************************************************************)
EXTENDS EchoProperties

MCPeer == [p \in Protocol |-> CHOOSE q \in Protocol : q # p]
MCOwner == [c \in Caller |-> IF c = "bob" THEN "echo1" ELSE "echo0"]
MCFunction ==
  [c \in Caller |-> CASE c = "carol" -> "reliable_ordered"
                      [] c = "erin" -> "unreliable_sequenced"
                      [] c = "frank" -> "reliable_unordered"
                      [] c = "grace" -> "reliable_sequenced"
                      [] OTHER -> "unreliable_unordered"]
MCTo == [c \in Caller |-> CASE c = "bob" -> "echo0" [] c = "dave" -> "stranger" [] OTHER -> "echo1"]

Plan(alice, bob, carol, dave) ==
  [c \in Caller |-> CASE c = "alice" -> alice [] c = "bob" -> bob
                      [] c = "carol" -> carol [] c = "dave" -> dave [] OTHER -> << >>]

\* Demands below what the ring of six holds, just that, and more; windows that
\* are wider than it; rivals for a channel; the functions that are left.
MCPlans ==
  {Plan(<<1, 1>>, << >>, <<1>>, << >>),
   Plan(<<2>>, <<1>>, << >>, << >>),
   Plan(<<3>>, <<3>>, << >>, << >>),
   Plan(<<8>>, << >>, << >>, << >>),
   Plan(<<2>>, << >>, << >>, <<1, 1>>),
   [c \in Caller |-> IF c \in {"erin", "frank", "grace"} THEN <<1>> ELSE << >>]}
=============================================================================
