-------------------------- MODULE MCBridgeRegistry --------------------------
(***************************************************************************)
(* Model values for checking BridgeRegistry with TLC: three versions of an *)
(* app, which lose a tool, move to another URL, and say nothing of topics. *)
(***************************************************************************)
EXTENDS BridgeRegistry

CONSTANTS a, b, url1, url2, x, y, h1, h2

\* The handlers are interchangeable.
Handlers == Permutations({h1, h2})

Versions ==
  { [tools |-> {a, b}, url |-> url1, subs |-> {x}],
    [tools |-> {b}, url |-> url2, subs |-> {x, y}],
    [tools |-> {a}, url |-> url2, subs |-> {}],
    [tools |-> {b}, url |-> url1, subs |-> None] }
=============================================================================
