----------------------------- MODULE MCBackends -----------------------------
(* Operations, keys, sign-ins and invocations are interchangeable.  Four    *)
(* operations are needed to give a key, retire the connection, reconnect it *)
(* and give another key; two sign-ins to replace an account that an         *)
(* invocation refreshes.                                                    *)
EXTENDS Backends, TLC

Interchangeable ==
  Permutations(Op) \cup Permutations(Key) \cup Permutations(Login) \cup Permutations(Request)
=============================================================================
